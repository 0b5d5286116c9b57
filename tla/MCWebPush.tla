----------------------------- MODULE MCWebPush -----------------------------
(* Model-checking instances of WebPush. *)
EXTENDS WebPush, TLC

Symmetry == Permutations(Replicas) \cup Permutations(Secrets)
            \cup Permutations(VapidKeys) \cup Permutations(Messages)
            \cup Permutations(Browsers) \cup Permutations(Endpoints)
=============================================================================
