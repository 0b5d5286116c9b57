---------------------------- MODULE MCDashboard ----------------------------
(* Model-checking instance of Dashboard: a host, a service and a plugin    *)
(* widget, the three default groups and one of the user's.              *)
EXTENDS Dashboard, TLC

CONSTANTS h1, p1, s1, u1

MCSourceOf == (h1 :> "host") @@ (p1 :> "other") @@ (s1 :> "service")

MCRank == (h1 :> 3) @@ (p1 :> 2) @@ (u1 :> 4) @@ (s1 :> 1)
          @@ ("builtin:hosts" :> 1) @@ ("builtin:services" :> 2)
          @@ ("builtin:widgets" :> 3)

Symmetry == Permutations(Clients)
=============================================================================
