------------------------ MODULE MCPluginNotifications ------------------------
(* Model-checking instances of PluginNotifications. *)
EXTENDS PluginNotifications, TLC

Symmetry == Permutations(Connections) \cup Permutations(Revisions)
            \cup Permutations(Publications)
=============================================================================
