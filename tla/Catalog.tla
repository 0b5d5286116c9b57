------------------------------- MODULE Catalog -------------------------------
(***************************************************************************)
(* The service catalog of one instance: internal/application/catalog         *)
(* (Service) over internal/adapters/sqlite (CatalogStore).                   *)
(*                                                                         *)
(* Snapshots of a source arrive in any order: syncs overlap, and federation  *)
(* requests are delayed and repeated.  A snapshot carries the time its       *)
(* discovery began, which is its watermark, and the later time its           *)
(* candidates were observed.  Pin and Unpin list the groups in one           *)
(* transaction and write in a second one; all else is one transaction.        *)
(*                                                                         *)
(* A group is a Service with the candidates that refer to it and are present *)
(* or missing like it; every other candidate is a group of its own.  Joining *)
(* groups by exposure evidence (related.go) is left out.                     *)
(***************************************************************************)
EXTENDS Integers, FiniteSets

CONSTANTS Sources,    \* discovered sources
          Candidates, \* stable IDs of discovered candidates
          SourceOf,   \* the source of a candidate
          Refs,       \* the Services a candidate refers to; a Service: itself
          Manual,     \* stable IDs of manual services (request IDs)
          Edits,      \* presentations a user may save
          None,       \* no edit
          MaxTime,    \* bound on the times in snapshots
          MaxCalls    \* bound on the Pin and Unpin calls under way

ASSUME CatalogAssumption ==
  /\ SourceOf \in [Candidates -> Sources]
  /\ Refs \in [Candidates -> SUBSET Candidates]
  /\ Candidates \cap Manual = {}
  /\ None \notin Edits
  /\ MaxTime \in Nat /\ MaxCalls \in Nat

VARIABLES rows,       \* discovered_services and service_edits, by ID
          watermark,  \* discovery_source_snapshots
          pinning,    \* IDs that Pin has found live
          unpinning,  \* Unpin calls between their transactions: ID and related
          newest      \* history: what the newest snapshot offered has seen

vars == <<rows, watermark, pinning, unpinning, newest>>

IDs == Candidates \cup Manual

Row == [observed : Nat, missing : BOOLEAN, hidden : BOOLEAN,
        pinned : BOOLEAN, edit : Edits \cup {None}]

Snapshot == [source : Sources, at : Nat, stamp : Nat, seen : SUBSET Candidates]

TypeOK ==
  /\ DOMAIN rows \subseteq IDs /\ rows \in [DOMAIN rows -> Row]
  /\ \A m \in Manual \cap DOMAIN rows : ~rows[m].missing /\ rows[m].edit # None
  /\ watermark \in [Sources -> Nat]
  /\ pinning \in SUBSET IDs
  /\ unpinning \in SUBSET (IDs \X SUBSET IDs)
  /\ newest \in [Sources -> SUBSET Candidates]

Init ==
  /\ rows = [r \in {} |-> 0]
  /\ watermark = [s \in Sources |-> 0]
  /\ pinning = {} /\ unpinning = {}
  /\ newest = [s \in Sources |-> {}]
-----------------------------------------------------------------------------
(***************************************************************************)
(* Snapshots: ReplaceSourceSnapshot, for a local sync and for an import.     *)
(***************************************************************************)
Of(source) == {c \in Candidates : SourceOf[c] = source}

NewRow(stamp, edit) == [observed |-> stamp, missing |-> FALSE, hidden |-> FALSE,
                        pinned |-> FALSE, edit |-> edit]

\* upsertCandidate keeps what was observed later; missing is reset anyway.
Observe(row, stamp) ==
  [row EXCEPT !.observed = IF stamp > @ THEN stamp ELSE @, !.missing = FALSE]

\* Fault: a candidate that returns is written as a new one.
ApplyAnew(store, snapshot) ==
  [r \in DOMAIN store \cup snapshot.seen |->
     IF r \in snapshot.seen THEN NewRow(snapshot.stamp, None)
     ELSE IF r \in Of(snapshot.source) THEN [store[r] EXCEPT !.missing = TRUE]
     ELSE store[r]]

\* markAbsentCandidates keeps absent candidates, as missing ones.
Apply(store, snapshot) ==
  [r \in DOMAIN store \cup snapshot.seen |->
     IF r \in snapshot.seen
       THEN IF r \in DOMAIN store THEN Observe(store[r], snapshot.stamp)
                                  ELSE NewRow(snapshot.stamp, None)
     ELSE IF r \in Of(snapshot.source) THEN [store[r] EXCEPT !.missing = TRUE]
     ELSE store[r]]

IsNewerNot(mark, snapshot) == TRUE  \* Fault: the watermark is not checked.

\* A repeated or older snapshot is acknowledged and changes nothing.
IsNewer(mark, snapshot) == snapshot.at > mark[snapshot.source]

ReplaceSourceSnapshot(snapshot) ==
  /\ IF IsNewer(watermark, snapshot)
       THEN /\ rows' = Apply(rows, snapshot)
            /\ watermark' = [watermark EXCEPT ![snapshot.source] = snapshot.at]
       ELSE UNCHANGED <<rows, watermark>>
  /\ newest' = IF snapshot.at > watermark[snapshot.source]
                 THEN [newest EXCEPT ![snapshot.source] = snapshot.seen]
                 ELSE newest
  /\ UNCHANGED <<pinning, unpinning>>
-----------------------------------------------------------------------------
(***************************************************************************)
(* Groups (groupCandidates).                                                *)
(***************************************************************************)
IsService(c) == c \in Candidates /\ c \in Refs[c]

\* The Services a candidate is attached to.
Attached(c) ==
  IF c \in Candidates
    THEN {s \in Refs[c] \cap DOMAIN rows :
            /\ IsService(s) /\ SourceOf[s] = SourceOf[c]
            /\ rows[c].missing = rows[s].missing}
    ELSE {}

\* A pinned candidate keeps a row of its own beside its group's.
GroupIDs == {c \in DOMAIN rows : IsService(c) \/ Attached(c) = {} \/ rows[c].pinned}

Members(g) ==
  {g} \cup IF IsService(g) THEN {c \in DOMAIN rows : g \in Attached(c)} ELSE {}

Live(c) == ~rows[c].hidden /\ ~rows[c].missing

CanCall == Cardinality(pinning) + Cardinality(unpinning) < MaxCalls
-----------------------------------------------------------------------------
(***************************************************************************)
(* The user's operations.                                                   *)
(***************************************************************************)

\* Lifecycle resolves the group and checks the action in its transaction.
Hide(g) ==
  /\ g \in GroupIDs /\ ~rows[g].missing
  /\ rows' = [c \in DOMAIN rows |->
                [rows[c] EXCEPT !.hidden = @ \/ c \in Members(g)]]
  /\ UNCHANGED <<watermark, pinning, unpinning, newest>>

Show(g) ==
  /\ g \in GroupIDs
  /\ rows' = [c \in DOMAIN rows |->
                [rows[c] EXCEPT !.hidden = @ /\ c \notin Members(g)]]
  /\ UNCHANGED <<watermark, pinning, unpinning, newest>>

Purge(g) ==
  /\ g \in GroupIDs /\ rows[g].missing
  /\ rows' = [c \in DOMAIN rows \ {m \in Members(g) : rows[m].missing} |-> rows[c]]
  /\ UNCHANGED <<watermark, pinning, unpinning, newest>>

\* Pin lists the groups and finds the group live ...
PinList(g) ==
  /\ CanCall /\ g \notin pinning
  /\ g \in GroupIDs /\ Live(g)
  /\ pinning' = pinning \cup {g}
  /\ UNCHANGED <<rows, watermark, unpinning, newest>>

\* ... and SetPinned looks at the row again: gone, missing or hidden is refused.
Pinnable(g) == g \in DOMAIN rows /\ Live(g)

PinCommit(g) ==
  /\ g \in pinning
  /\ pinning' = pinning \ {g}
  /\ rows' = IF Pinnable(g) THEN [rows EXCEPT ![g].pinned = TRUE] ELSE rows
  /\ UNCHANGED <<watermark, unpinning, newest>>

\* Unpin lists the group's pinned members; an ID that is no group has none.
UnpinList(g) ==
  /\ g \in DOMAIN rows
  /\ CanCall /\ \A u \in unpinning : u[1] # g
  /\ LET related == IF g \in GroupIDs THEN {c \in Members(g) \ {g} : rows[c].pinned}
                                      ELSE {}
     IN unpinning' = unpinning \cup {<<g, related>>}
  /\ UNCHANGED <<rows, watermark, pinning, newest>>

\* One of them purged meanwhile fails, and rolls back, the whole call.
UnpinCommit(u) ==
  /\ u \in unpinning
  /\ unpinning' = unpinning \ {u}
  /\ LET all == {u[1]} \cup u[2] IN
       rows' = IF all \subseteq DOMAIN rows
                 THEN [c \in DOMAIN rows |->
                         [rows[c] EXCEPT !.pinned = @ /\ c \notin all]]
                 ELSE rows
  /\ UNCHANGED <<watermark, pinning, newest>>

SaveEdit(c, edit) ==
  /\ c \in DOMAIN rows
  /\ rows' = [rows EXCEPT ![c].edit = edit]
  /\ UNCHANGED <<watermark, pinning, unpinning, newest>>

\* A repeated request ID returns the record as it is now.
CreateManual(m, edit) ==
  /\ m \notin DOMAIN rows
  /\ rows' = [c \in DOMAIN rows \cup {m} |->
                IF c = m THEN NewRow(MaxTime, edit) ELSE rows[c]]
  /\ UNCHANGED <<watermark, pinning, unpinning, newest>>
-----------------------------------------------------------------------------
Offered ==
  {s \in [source : Sources, at : 1..MaxTime, stamp : 1..MaxTime,
          seen : SUBSET Candidates] :
     s.at <= s.stamp /\ s.seen \subseteq Of(s.source)}

Users ==
  \/ \E g \in DOMAIN rows : Hide(g) \/ Show(g) \/ Purge(g) \/ PinList(g) \/ UnpinList(g)
  \/ \E g \in pinning : PinCommit(g)
  \/ \E u \in unpinning : UnpinCommit(u)
  \/ \E e \in Edits : \/ \E c \in DOMAIN rows : SaveEdit(c, e)
                      \/ \E m \in Manual : CreateManual(m, e)

Next == Users \/ \E s \in Offered : ReplaceSourceSnapshot(s)

Spec == Init /\ [][Next]_vars
-----------------------------------------------------------------------------
(***************************************************************************)
(* Properties.                                                              *)
(***************************************************************************)

\* "Watermark prevents resurrection": whatever order snapshots arrive in, and
\* whatever was hidden or purged meanwhile, the candidates present are those
\* the newest snapshot of their source has seen, and what is known of them is
\* no older than that snapshot.
PresenceFollowsNewest ==
  \A s \in Sources :
    /\ {c \in Of(s) \cap DOMAIN rows : ~rows[c].missing} = newest[s]
    /\ \A c \in newest[s] : rows[c].observed >= watermark[s]

\* What a user has chosen for a candidate, and what was last observed of it,
\* survive every snapshot, its absence and its return included; a candidate
\* that was purged starts afresh.
ChoicesSurvive ==
  [][/\ watermark' # watermark =>
          \A c \in DOMAIN rows :
            /\ c \in DOMAIN rows'
            /\ \A f \in {"hidden", "pinned", "edit"} : rows'[c][f] = rows[c][f]
            /\ rows'[c].observed >= rows[c].observed
     /\ \A c \in DOMAIN rows' \ DOMAIN rows :
          ~rows'[c].hidden /\ ~rows'[c].pinned]_vars

\* "old browser tabs cannot delete a service that has returned": only missing
\* candidates are ever deleted, and no manual service is.
OnlyMissingPurged ==
  [][\A c \in DOMAIN rows \ DOMAIN rows' : c \in Candidates /\ rows[c].missing]_vars

\* A pin is granted only to what is live at that moment, though Pin checked
\* the group earlier.
PinsGrantedLive ==
  [][\A c \in DOMAIN rows' :
       (rows'[c].pinned /\ ~(c \in DOMAIN rows /\ rows[c].pinned))
         => c \in DOMAIN rows /\ Live(c)]_vars
=============================================================================
