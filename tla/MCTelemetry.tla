----------------------------- MODULE MCTelemetry -----------------------------
(***************************************************************************)
(* Two nodes and room for one of them besides the root; a day of one       *)
(* minute, which has two ticks.                                            *)
(***************************************************************************)
EXTENDS Telemetry, TLC

CONSTANTS n1, n2

MCSymmetry == Permutations(Nodes)

=============================================================================
