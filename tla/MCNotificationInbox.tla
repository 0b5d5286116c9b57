------------------------ MODULE MCNotificationInbox ------------------------
(* Model-checking instance of NotificationInbox. *)
EXTENDS NotificationInbox, TLC

Symmetry == Permutations(Identities) \cup Permutations(Payloads)
            \cup Permutations(Services)
=============================================================================
