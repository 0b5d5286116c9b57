---------------------------- MODULE MCFederation ----------------------------
(* A model-checking instance of Federation: two sources, of which the second *)
(* has become empty, and two overlapping syncs. *)
EXTENDS Federation

CONSTANTS SrcA, SrcB, A

MCSourceOf == [c \in {A} |-> SrcA]
MCRefs == [c \in {A} |-> {}]
MCDiscoverers == <<SrcA, SrcB>>
=============================================================================
