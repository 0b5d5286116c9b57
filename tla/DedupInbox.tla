----------------------------- MODULE DedupInbox -----------------------------
(***************************************************************************)
(* What an inbox promises its publishers: a bounded set of messages, at      *)
(* most one for an identity, each under an ID that was never given before,   *)
(* with an identity and payload that do not change while it is kept.         *)
(***************************************************************************)
EXTENDS Naturals, FiniteSets

CONSTANTS Identities, Payloads, Capacity

VARIABLES live,    \* the messages kept
          issued   \* IDs given so far are 1..issued

vars == <<live, issued>>

Init == live = {} /\ issued = 0

\* A publication is accepted; older messages may be given up for it.
Accept(i, p) ==
  \E kept \in SUBSET live :
    /\ \A m \in kept : m.identity # i
    /\ Cardinality(kept) < Capacity
    /\ issued' = issued + 1
    /\ live' = kept \cup {[id |-> issued + 1, identity |-> i, payload |-> p]}

\* Messages expire or are cleared.
Drop == live' \in SUBSET live /\ UNCHANGED issued

Next == (\E i \in Identities, p \in Payloads : Accept(i, p)) \/ Drop

Spec == Init /\ [][Next]_vars
=============================================================================
