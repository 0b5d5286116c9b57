------------------------- MODULE MCDashboardStream -------------------------
(* Model-checking instances of DashboardStream: two sources, of which one  *)
(* kind may fail on its own.                                               *)
EXTENDS DashboardStream, TLC

CONSTANTS w1, w2, host, service

Symmetry == Permutations(Data)

MCKindOf == (w1 :> host) @@ (w2 :> service)
=============================================================================
