--------------------------- MODULE LayoutRegister ---------------------------
(***************************************************************************)
(* What a saved layout promises its editors: a register whose versions are *)
(* numbered, each written by somebody who had read the version just before *)
(* it and never equal to that one.  Nobody's save is overwritten unseen.   *)
(***************************************************************************)
EXTENDS Integers, Sequences

CONSTANT Initial

VARIABLE versions  \* version n is versions[n], version 0 is Initial

Current == IF versions = <<>> THEN Initial ELSE versions[Len(versions)].value

Init == versions = <<>>

Write ==
    LET last == versions'[Len(versions) + 1] IN
    /\ Len(versions') = Len(versions) + 1
    /\ versions' = Append(versions, last)
    /\ last.base = Len(versions)
    /\ last.value # Current

Spec == Init /\ [][Write]_versions

=============================================================================
