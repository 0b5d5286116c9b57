---------------------------- MODULE MCSupervisor ----------------------------
(* Model-checking instances of Supervisor. *)
EXTENDS Supervisor
=============================================================================
