---------------------------- MODULE CatalogProofs ----------------------------
(***************************************************************************)
(* Proofs about Catalog and Federation, for every set of sources and         *)
(* candidates, every relation of candidates to Services, every order of      *)
(* snapshots and any number of overlapping syncs.                            *)
(*                                                                         *)
(* TypeOK and PresenceFollowsNewest are inductive together.  The second     *)
(* rests on two facts: a snapshot older than the watermark is dropped before *)
(* it touches a row, and no operation of a user changes missing or deletes a *)
(* row that is present.                                                    *)
(*                                                                         *)
(* Federation: FedInv follows a snapshot from the sync that lists it to the *)
(* gateway.  What the agent publishes it has stored, and one time of one     *)
(* source is one snapshot though syncs overlap (PublishedInv); a store that  *)
(* stands at the time of a published snapshot has seen what it saw.          *)
(***************************************************************************)
EXTENDS Federation, TLAPS

IInv == TypeOK /\ PresenceFollowsNewest

\* A stored row keeps its fields through Observe, except the two it is about.
LEMMA ObserveRow ==
  ASSUME NEW row \in Row, NEW stamp \in Nat
  PROVE  /\ Observe(row, stamp) \in Row
         /\ ~Observe(row, stamp).missing
         /\ Observe(row, stamp).observed >= stamp
         /\ Observe(row, stamp).observed >= row.observed
         /\ Observe(row, stamp).hidden = row.hidden
         /\ Observe(row, stamp).pinned = row.pinned
         /\ Observe(row, stamp).edit = row.edit
<1> DEFINE t == IF stamp > row.observed THEN stamp ELSE row.observed
<1>1. row.observed \in Nat /\ t \in Nat /\ t >= stamp /\ t >= row.observed
  BY DEF Row
<1>2. Observe(row, stamp) = [row EXCEPT !.observed = t, !.missing = FALSE]
  BY DEF Observe
<1> HIDE DEF t
<1>3. LET new == [row EXCEPT !.observed = t, !.missing = FALSE] IN
      /\ new \in Row /\ new.observed = t /\ ~new.missing
      /\ new.hidden = row.hidden /\ new.pinned = row.pinned /\ new.edit = row.edit
  BY <1>1 DEF Row
<1>4. Observe(row, stamp).observed >= stamp /\ Observe(row, stamp).observed >= row.observed
  BY <1>1, <1>2, <1>3
<1> QED
  BY <1>2, <1>3, <1>4, Zenon

\* A new row is live and has nothing of a user's but the edit it is given.
LEMMA NewRowType ==
  ASSUME NEW stamp \in Nat, NEW edit \in Edits \cup {None}
  PROVE  /\ NewRow(stamp, edit) \in Row
         /\ ~NewRow(stamp, edit).missing
         /\ NewRow(stamp, edit).observed = stamp
         /\ ~NewRow(stamp, edit).hidden /\ ~NewRow(stamp, edit).pinned
         /\ NewRow(stamp, edit).edit = edit
  BY DEF NewRow, Row

\* What Apply makes of a store, candidate by candidate.
ApplyEffect(store, new, s) ==
  /\ DOMAIN new = DOMAIN store \cup s.seen
  /\ new \in [DOMAIN new -> Row]
  /\ \A r \in s.seen : ~new[r].missing /\ new[r].observed >= s.stamp
  /\ \A r \in Of(s.source) \cap DOMAIN new : r \notin s.seen => new[r].missing
  /\ \A r \in DOMAIN store \ Of(s.source) : new[r] = store[r]
  /\ \A r \in DOMAIN store :
       /\ new[r].hidden = store[r].hidden /\ new[r].pinned = store[r].pinned
       /\ new[r].edit = store[r].edit /\ new[r].observed >= store[r].observed
  /\ \A r \in s.seen \ DOMAIN store : ~new[r].hidden /\ ~new[r].pinned

\* Apply does that: those seen are present
\* and no older than the snapshot, the source's others are missing, the rest
\* is as it was, and nobody's choices change.
LEMMA ApplyRows ==
  ASSUME NEW store, DOMAIN store \subseteq IDs, store \in [DOMAIN store -> Row],
         NEW snapshot \in Offered
  PROVE  ApplyEffect(store, Apply(store, snapshot), snapshot)
<1> DEFINE new == Apply(store, snapshot)
<1>1. /\ snapshot.seen \subseteq Of(snapshot.source)
      /\ snapshot.stamp \in Nat
  BY CatalogAssumption DEF Offered
<1>2. DOMAIN new = DOMAIN store \cup snapshot.seen
  BY DEF Apply
<1>3. ASSUME NEW r \in snapshot.seen, r \in DOMAIN store
      PROVE  new[r] = Observe(store[r], snapshot.stamp)
  BY <1>3 DEF Apply
<1>4. ASSUME NEW r \in snapshot.seen, r \notin DOMAIN store
      PROVE  new[r] = NewRow(snapshot.stamp, None)
  BY <1>4 DEF Apply
<1>5. ASSUME NEW r \in DOMAIN store, r \notin snapshot.seen, r \in Of(snapshot.source)
      PROVE  new[r] = [store[r] EXCEPT !.missing = TRUE]
  BY <1>5 DEF Apply
<1>6. ASSUME NEW r \in DOMAIN store, r \notin snapshot.seen, r \notin Of(snapshot.source)
      PROVE  new[r] = store[r]
  BY <1>6 DEF Apply
<1>7. \A r \in DOMAIN store : store[r] \in Row
  OBVIOUS
<1>8. \A r \in DOMAIN store :
        LET absent == [store[r] EXCEPT !.missing = TRUE] IN
        /\ absent \in Row /\ absent.missing
        /\ absent.hidden = store[r].hidden /\ absent.pinned = store[r].pinned
        /\ absent.edit = store[r].edit /\ absent.observed = store[r].observed
        /\ store[r].observed \in Nat
  BY <1>7 DEF Row
<1>9. ASSUME NEW r \in DOMAIN new PROVE new[r] \in Row
  <2>1. CASE r \in snapshot.seen /\ r \in DOMAIN store
    BY <2>1, <1>1, <1>3, <1>7, ObserveRow
  <2>2. CASE r \in snapshot.seen /\ r \notin DOMAIN store
    BY <2>2, <1>1, <1>4, NewRowType
  <2>3. CASE r \notin snapshot.seen /\ r \in Of(snapshot.source)
    BY <2>3, <1>2, <1>5, <1>8
  <2>4. CASE r \notin snapshot.seen /\ r \notin Of(snapshot.source)
    BY <2>4, <1>2, <1>6, <1>7
  <2> QED
    BY <2>1, <2>2, <2>3, <2>4
<1>10. new \in [DOMAIN new -> Row]
  <2>1. new = [r \in DOMAIN new |-> new[r]]
    BY DEF Apply
  <2> QED
    BY <2>1, <1>9
<1>11. ASSUME NEW r \in snapshot.seen
       PROVE  ~new[r].missing /\ new[r].observed >= snapshot.stamp
  <2>1. CASE r \in DOMAIN store
    BY <2>1, <1>1, <1>3, <1>7, ObserveRow
  <2>2. CASE r \notin DOMAIN store
    BY <2>2, <1>1, <1>4, NewRowType
  <2> QED
    BY <2>1, <2>2
<1>12. ASSUME NEW r \in DOMAIN store
       PROVE  /\ new[r].hidden = store[r].hidden /\ new[r].pinned = store[r].pinned
              /\ new[r].edit = store[r].edit /\ new[r].observed >= store[r].observed
  <2>1. CASE r \in snapshot.seen
    BY <2>1, <1>1, <1>3, <1>7, ObserveRow
  <2>2. CASE r \notin snapshot.seen /\ r \in Of(snapshot.source)
    <3>1. new[r] = [store[r] EXCEPT !.missing = TRUE]
      BY <2>2, <1>5
    <3>2. new[r].observed = store[r].observed /\ store[r].observed \in Nat
      BY <3>1, <1>8
    <3>3. /\ new[r].hidden = store[r].hidden /\ new[r].pinned = store[r].pinned
          /\ new[r].edit = store[r].edit
      BY <3>1, <1>8, Zenon
    <3> QED
      BY <3>2, <3>3
  <2>3. CASE r \notin snapshot.seen /\ r \notin Of(snapshot.source)
    <3>1. new[r] = store[r]
      BY <2>3, <1>6
    <3>2. store[r].observed \in Nat
      BY <1>8
    <3>3. store[r].observed >= store[r].observed
      BY <3>2
    <3> QED
      BY <3>1, <3>3, Zenon
  <2> QED
    BY <2>1, <2>2, <2>3
<1>13. \A r \in Of(snapshot.source) \cap DOMAIN new :
         r \notin snapshot.seen => new[r].missing
  BY <1>2, <1>5, <1>8
<1>14. \A r \in DOMAIN store \ Of(snapshot.source) : new[r] = store[r]
  BY <1>1, <1>6
<1>15. \A r \in snapshot.seen \ DOMAIN store : ~new[r].hidden /\ ~new[r].pinned
  BY <1>1, <1>4, NewRowType
<1> HIDE DEF new
<1>16. ApplyEffect(store, new, snapshot)
  BY <1>2, <1>10, <1>11, <1>12, <1>13, <1>14, <1>15, Zenon DEF ApplyEffect
<1> QED
  BY <1>16 DEF new
-----------------------------------------------------------------------------
(***************************************************************************)
(* What an operation of a user does to the rows, all that the properties     *)
(* need of it: it deletes missing rows only, adds manual ones only, and      *)
(* leaves presence and observations alone.                                  *)
(***************************************************************************)
RowsTyped(store) == DOMAIN store \subseteq IDs /\ store \in [DOMAIN store -> Row]

UserEffect ==
  /\ watermark' = watermark /\ newest' = newest
  /\ RowsTyped(rows')
  /\ \A c \in DOMAIN rows \ DOMAIN rows' : rows[c].missing
  /\ \A c \in DOMAIN rows' \ DOMAIN rows :
       /\ c \in Manual /\ ~rows'[c].missing /\ rows'[c].edit # None
       /\ ~rows'[c].hidden /\ ~rows'[c].pinned
  /\ \A c \in DOMAIN rows \cap DOMAIN rows' :
       /\ rows'[c].missing = rows[c].missing
       /\ rows'[c].observed = rows[c].observed
       /\ rows'[c].edit = rows[c].edit \/ rows'[c].edit \in Edits
       /\ rows'[c].pinned => rows[c].pinned \/ Live(c)

\* Hide and Show write hidden alone.
LEMMA HideShowEffect ==
  ASSUME TypeOK, NEW g, Hide(g) \/ Show(g)
  PROVE  UserEffect
<1>1. PICK h \in [DOMAIN rows -> BOOLEAN] :
        rows' = [c \in DOMAIN rows |-> [rows[c] EXCEPT !.hidden = h[c]]]
  <2>1. CASE Hide(g)
    <3> DEFINE h == [c \in DOMAIN rows |-> rows[c].hidden \/ c \in Members(g)]
    <3>1. h \in [DOMAIN rows -> BOOLEAN]
      OBVIOUS
    <3>2. rows' = [c \in DOMAIN rows |-> [rows[c] EXCEPT !.hidden = h[c]]]
      BY <2>1 DEF Hide
    <3> QED
      BY <3>1, <3>2
  <2>2. CASE Show(g)
    <3> DEFINE h == [c \in DOMAIN rows |-> rows[c].hidden /\ c \notin Members(g)]
    <3>1. h \in [DOMAIN rows -> BOOLEAN]
      OBVIOUS
    <3>2. rows' = [c \in DOMAIN rows |-> [rows[c] EXCEPT !.hidden = h[c]]]
      BY <2>2 DEF Show
    <3> QED
      BY <3>1, <3>2
  <2> QED
    BY <2>1, <2>2
<1>2. DOMAIN rows' = DOMAIN rows
  BY <1>1
<1>3. ASSUME NEW c \in DOMAIN rows
      PROVE  /\ rows'[c] \in Row
             /\ rows'[c].missing = rows[c].missing
             /\ rows'[c].observed = rows[c].observed
             /\ rows'[c].edit = rows[c].edit
             /\ rows'[c].pinned = rows[c].pinned
  <2>1. rows[c] \in Row /\ h[c] \in BOOLEAN
    BY DEF TypeOK
  <2>2. rows'[c] = [rows[c] EXCEPT !.hidden = h[c]]
    BY <1>1
  <2>3. LET new == [rows[c] EXCEPT !.hidden = h[c]] IN
        /\ new \in Row /\ new.missing = rows[c].missing
        /\ new.observed = rows[c].observed /\ new.edit = rows[c].edit
        /\ new.pinned = rows[c].pinned
    BY <2>1 DEF Row
  <2> QED
    BY <2>2, <2>3, Zenon
<1>4. RowsTyped(rows')
  <2>1. rows' = [c \in DOMAIN rows' |-> rows'[c]]
    BY <1>1
  <2> QED
    BY <1>2, <1>3, <2>1 DEF RowsTyped, TypeOK
<1>5. watermark' = watermark /\ newest' = newest
  BY DEF Hide, Show
<1> QED
  BY <1>2, <1>3, <1>4, <1>5, Zenon DEF UserEffect

\* Pin writes pinned of a row that is live; Unpin only clears it.
LEMMA PinEffect ==
  ASSUME TypeOK, NEW g, PinCommit(g) \/ UnpinCommit(g)
  PROVE  UserEffect
<1>1. CASE rows' = rows
  <2>1. watermark' = watermark /\ newest' = newest
    BY DEF PinCommit, UnpinCommit
  <2>2. RowsTyped(rows')
    BY <1>1 DEF TypeOK, RowsTyped
  <2> QED
    BY <1>1, <2>1, <2>2, Zenon DEF UserEffect
<1>2. CASE rows' # rows
  <2>1. PICK p \in [DOMAIN rows -> BOOLEAN] :
          /\ rows' = [c \in DOMAIN rows |-> [rows[c] EXCEPT !.pinned = p[c]]]
          /\ \A c \in DOMAIN rows : p[c] => rows[c].pinned \/ Live(c)
    <3>1. CASE PinCommit(g)
      <4> DEFINE p == [c \in DOMAIN rows |-> IF c = g THEN TRUE ELSE rows[c].pinned]
      <4>1. \A c \in DOMAIN rows : rows[c].pinned \in BOOLEAN
        BY DEF TypeOK, Row
      <4>2. p \in [DOMAIN rows -> BOOLEAN]
        BY <4>1
      <4>3. g \in DOMAIN rows /\ Live(g) /\ rows' = [rows EXCEPT ![g].pinned = TRUE]
        BY <3>1, <1>2 DEF PinCommit, Pinnable
      <4>4. rows' = [c \in DOMAIN rows |->
                      IF c = g THEN [rows[c] EXCEPT !.pinned = TRUE] ELSE rows[c]]
        BY <4>3
      <4>5. \A c \in DOMAIN rows : rows[c] = [rows[c] EXCEPT !.pinned = rows[c].pinned]
        BY DEF TypeOK, Row
      <4>6. rows' = [c \in DOMAIN rows |-> [rows[c] EXCEPT !.pinned = p[c]]]
        BY <4>4, <4>5
      <4> QED
        BY <4>2, <4>3, <4>6
    <3>2. CASE UnpinCommit(g)
      <4> DEFINE p == [c \in DOMAIN rows |->
                         rows[c].pinned /\ c \notin ({g[1]} \cup g[2])]
      <4>1. p \in [DOMAIN rows -> BOOLEAN]
        OBVIOUS
      <4>2. rows' = [c \in DOMAIN rows |-> [rows[c] EXCEPT !.pinned = p[c]]]
        BY <3>2, <1>2 DEF UnpinCommit
      <4> QED
        BY <4>1, <4>2
    <3> QED
      BY <3>1, <3>2
  <2>2. DOMAIN rows' = DOMAIN rows
    BY <2>1
  <2>3. ASSUME NEW c \in DOMAIN rows
        PROVE  /\ rows'[c] \in Row
               /\ rows'[c].missing = rows[c].missing
               /\ rows'[c].observed = rows[c].observed
               /\ rows'[c].edit = rows[c].edit
               /\ rows'[c].pinned => rows[c].pinned \/ Live(c)
    <3>1. rows[c] \in Row /\ p[c] \in BOOLEAN
      BY DEF TypeOK
    <3>2. rows'[c] = [rows[c] EXCEPT !.pinned = p[c]]
      BY <2>1
    <3>3. LET new == [rows[c] EXCEPT !.pinned = p[c]] IN
          /\ new \in Row /\ new.missing = rows[c].missing
          /\ new.observed = rows[c].observed /\ new.edit = rows[c].edit
          /\ new.pinned = p[c]
      BY <3>1 DEF Row
    <3> QED
      BY <2>1, <3>2, <3>3, Zenon
  <2>4. RowsTyped(rows')
    <3>1. rows' = [c \in DOMAIN rows' |-> rows'[c]]
      BY <2>1
    <3> QED
      BY <2>2, <2>3, <3>1 DEF RowsTyped, TypeOK
  <2>5. watermark' = watermark /\ newest' = newest
    BY DEF PinCommit, UnpinCommit
  <2> QED
    BY <2>2, <2>3, <2>4, <2>5, Zenon DEF UserEffect
<1> QED
  BY <1>1, <1>2

\* Purge deletes missing rows and writes none.
LEMMA PurgeEffect ==
  ASSUME TypeOK, NEW g, Purge(g)
  PROVE  UserEffect
<1>1. /\ DOMAIN rows' \subseteq DOMAIN rows
      /\ \A c \in DOMAIN rows \ DOMAIN rows' : rows[c].missing
      /\ \A c \in DOMAIN rows' : rows'[c] = rows[c]
      /\ rows' = [c \in DOMAIN rows' |-> rows[c]]
  BY DEF Purge
<1>2. RowsTyped(rows')
  BY <1>1 DEF TypeOK, RowsTyped
<1>3. watermark' = watermark /\ newest' = newest
  BY DEF Purge
<1> QED
  BY <1>1, <1>2, <1>3, Zenon DEF UserEffect

\* SaveEdit writes the edit of one row.
LEMMA EditEffect ==
  ASSUME TypeOK, NEW id, NEW e \in Edits, SaveEdit(id, e)
  PROVE  UserEffect
<1>1. /\ id \in DOMAIN rows
      /\ DOMAIN rows' = DOMAIN rows
      /\ rows'[id] = [rows[id] EXCEPT !.edit = e]
      /\ \A c \in DOMAIN rows \ {id} : rows'[c] = rows[c]
      /\ rows' = [c \in DOMAIN rows' |-> rows'[c]]
  BY DEF SaveEdit
<1>2. rows[id] \in Row
  BY <1>1 DEF TypeOK
<1>3. LET new == [rows[id] EXCEPT !.edit = e] IN
      /\ new \in Row /\ new.missing = rows[id].missing
      /\ new.observed = rows[id].observed /\ new.edit = e
      /\ new.pinned = rows[id].pinned
  BY <1>2 DEF Row
<1>4. ASSUME NEW c \in DOMAIN rows
      PROVE  /\ rows'[c] \in Row
             /\ rows'[c].missing = rows[c].missing
             /\ rows'[c].observed = rows[c].observed
             /\ rows'[c].edit = rows[c].edit \/ rows'[c].edit \in Edits
             /\ rows'[c].pinned = rows[c].pinned
  <2>1. CASE c = id
    BY <2>1, <1>1, <1>3, Zenon
  <2>2. CASE c # id
    <3>1. rows[c] \in Row
      BY DEF TypeOK
    <3> QED
      BY <2>2, <3>1, <1>1, Zenon
  <2> QED
    BY <2>1, <2>2
<1>5. RowsTyped(rows')
  BY <1>1, <1>4 DEF TypeOK, RowsTyped
<1>6. watermark' = watermark /\ newest' = newest
  BY DEF SaveEdit
<1> QED
  BY <1>1, <1>4, <1>5, <1>6, Zenon DEF UserEffect

\* CreateManual adds one row, of a manual service.
LEMMA ManualEffect ==
  ASSUME TypeOK, NEW m \in Manual, NEW e \in Edits, CreateManual(m, e)
  PROVE  UserEffect
<1>1. /\ m \notin DOMAIN rows
      /\ DOMAIN rows' = DOMAIN rows \cup {m}
      /\ rows'[m] = NewRow(MaxTime, e)
      /\ \A c \in DOMAIN rows : rows'[c] = rows[c]
      /\ rows' = [c \in DOMAIN rows' |-> rows'[c]]
  BY DEF CreateManual
<1>2. /\ rows'[m] \in Row /\ ~rows'[m].missing /\ rows'[m].edit # None
      /\ ~rows'[m].hidden /\ ~rows'[m].pinned
  BY <1>1, NewRowType, CatalogAssumption
<1>3. RowsTyped(rows')
  BY <1>1, <1>2 DEF TypeOK, RowsTyped, IDs
<1>4. watermark' = watermark /\ newest' = newest
  BY DEF CreateManual
<1> QED
  BY <1>1, <1>2, <1>3, <1>4, Zenon DEF UserEffect

\* Every operation of a user has that effect, and keeps the calls typed.
LEMMA UsersEffect ==
  ASSUME TypeOK, Users
  PROVE  UserEffect /\ pinning' \in SUBSET IDs /\ unpinning' \in SUBSET (IDs \X SUBSET IDs)
<1> DEFINE Goal == /\ UserEffect /\ pinning' \in SUBSET IDs
                   /\ unpinning' \in SUBSET (IDs \X SUBSET IDs)
<1>0. pinning \in SUBSET IDs /\ unpinning \in SUBSET (IDs \X SUBSET IDs)
  BY DEF TypeOK
<1>1. ASSUME NEW g \in DOMAIN rows, Hide(g) \/ Show(g) PROVE Goal
  BY <1>0, <1>1, HideShowEffect DEF Hide, Show
<1>2. ASSUME NEW g \in DOMAIN rows, Purge(g) PROVE Goal
  BY <1>0, <1>2, PurgeEffect DEF Purge
<1>3. ASSUME NEW g \in DOMAIN rows, PinList(g) \/ UnpinList(g) PROVE Goal
  <2>1. rows' = rows /\ watermark' = watermark /\ newest' = newest
    BY <1>3 DEF PinList, UnpinList
  <2>2. UserEffect
    <3>1. RowsTyped(rows')
      BY <2>1 DEF TypeOK, RowsTyped
    <3> QED
      BY <2>1, <3>1, Zenon DEF UserEffect
  <2>3. g \in IDs /\ Members(g) \ {g} \subseteq IDs
    BY DEF TypeOK, Members
  <2>4. CASE PinList(g)
    BY <1>0, <2>2, <2>3, <2>4 DEF PinList
  <2>5. CASE UnpinList(g)
    <3>1. PICK related \in SUBSET IDs : unpinning' = unpinning \cup {<<g, related>>}
      BY <2>3, <2>5 DEF UnpinList
    <3>2. pinning' = pinning
      BY <2>5 DEF UnpinList
    <3> QED
      BY <1>0, <2>2, <2>3, <3>1, <3>2
  <2> QED
    BY <1>3, <2>4, <2>5
<1>4. ASSUME NEW g \in pinning, PinCommit(g) PROVE Goal
  BY <1>0, <1>4, PinEffect DEF PinCommit
<1>5. ASSUME NEW u \in unpinning, UnpinCommit(u) PROVE Goal
  BY <1>0, <1>5, PinEffect DEF UnpinCommit
<1>6. ASSUME NEW e \in Edits, NEW c \in DOMAIN rows, SaveEdit(c, e) PROVE Goal
  BY <1>0, <1>6, EditEffect DEF SaveEdit
<1>7. ASSUME NEW e \in Edits, NEW m \in Manual, CreateManual(m, e) PROVE Goal
  BY <1>0, <1>7, ManualEffect DEF CreateManual
<1> QED
  BY <1>1, <1>2, <1>3, <1>4, <1>5, <1>6, <1>7 DEF Users
-----------------------------------------------------------------------------
(***************************************************************************)
(* What a snapshot does: nothing, or Apply and the new watermark.            *)
(***************************************************************************)
SnapshotEffect(s) ==
  /\ s.at > watermark[s.source]
  /\ rows' = Apply(rows, s)
  /\ watermark' = [watermark EXCEPT ![s.source] = s.at]
  /\ newest' = [newest EXCEPT ![s.source] = s.seen]

\* A snapshot that is not newer than the watermark changes nothing at all.
LEMMA SnapshotCases ==
  ASSUME NEW s \in Offered, ReplaceSourceSnapshot(s)
  PROVE  /\ pinning' = pinning /\ unpinning' = unpinning
         /\ \/ SnapshotEffect(s)
            \/ rows' = rows /\ watermark' = watermark /\ newest' = newest
  BY DEF ReplaceSourceSnapshot, IsNewer, SnapshotEffect

\* Both parts of the invariant survive a snapshot of any source.
LEMMA SnapshotKeeps ==
  ASSUME IInv, NEW s \in Offered, SnapshotEffect(s)
  PROVE  /\ RowsTyped(rows') /\ PresenceFollowsNewest'
         /\ \A m \in Manual \cap DOMAIN rows' : ~rows'[m].missing /\ rows'[m].edit # None
         /\ watermark' \in [Sources -> Nat] /\ newest' \in [Sources -> SUBSET Candidates]
<1>1. /\ s.source \in Sources /\ s.seen \subseteq Of(s.source) /\ s.seen \subseteq Candidates
      /\ s.at \in Nat /\ s.stamp \in Nat /\ s.at <= s.stamp
  BY CatalogAssumption DEF Offered
<1>2. /\ DOMAIN rows' = DOMAIN rows \cup s.seen
      /\ rows' \in [DOMAIN rows' -> Row]
      /\ \A r \in s.seen : ~rows'[r].missing /\ rows'[r].observed >= s.stamp
      /\ \A r \in Of(s.source) \cap DOMAIN rows' : r \notin s.seen => rows'[r].missing
      /\ \A r \in DOMAIN rows \ Of(s.source) : rows'[r] = rows[r]
  <2>1. rows' = Apply(rows, s)
    BY DEF SnapshotEffect
  <2>2. DOMAIN rows \subseteq IDs /\ rows \in [DOMAIN rows -> Row]
    BY DEF IInv, TypeOK
  <2>3. ApplyEffect(rows, Apply(rows, s), s)
    BY <2>2, ApplyRows
  <2> QED
    BY <2>1, <2>3, Zenon DEF ApplyEffect
<1>3. RowsTyped(rows')
  BY <1>1, <1>2 DEF RowsTyped, IInv, TypeOK, IDs
<1>4. ASSUME NEW m \in Manual \cap DOMAIN rows'
      PROVE  ~rows'[m].missing /\ rows'[m].edit # None
  <2>1. m \in DOMAIN rows \ Of(s.source)
    BY <1>1, <1>2, CatalogAssumption DEF Of
  <2> QED
    BY <2>1, <1>2 DEF IInv, TypeOK
<1>5. watermark' \in [Sources -> Nat] /\ newest' \in [Sources -> SUBSET Candidates]
  BY <1>1 DEF SnapshotEffect, IInv, TypeOK
<1>6. ASSUME NEW t \in Sources
      PROVE  /\ {c \in Of(t) \cap DOMAIN rows' : ~rows'[c].missing} = newest'[t]
             /\ \A c \in newest'[t] : rows'[c].observed >= watermark'[t]
  <2>1. CASE t = s.source
    <3>1. newest'[t] = s.seen /\ watermark'[t] = s.at
      BY <2>1, <1>1 DEF SnapshotEffect, IInv, TypeOK
    <3>2. {c \in Of(t) \cap DOMAIN rows' : ~rows'[c].missing} = s.seen
      BY <2>1, <1>1, <1>2
    <3>3. ASSUME NEW c \in s.seen PROVE rows'[c].observed >= s.at
      <4>1. rows'[c] \in Row
        BY <1>2
      <4>2. rows'[c].observed \in Nat
        BY <4>1 DEF Row
      <4> QED
        BY <4>2, <1>1, <1>2
    <3> QED
      BY <3>1, <3>2, <3>3
  <2>2. CASE t # s.source
    <3>1. newest'[t] = newest[t] /\ watermark'[t] = watermark[t]
      BY <2>2, <1>1 DEF SnapshotEffect, IInv, TypeOK
    <3>2. /\ Of(t) \cap Of(s.source) = {}
          /\ Of(t) \cap DOMAIN rows' = Of(t) \cap DOMAIN rows
      BY <2>2, <1>1, <1>2 DEF Of
    <3>3. \A c \in Of(t) \cap DOMAIN rows' : rows'[c] = rows[c]
      BY <3>2, <1>2
    <3>4. {c \in Of(t) \cap DOMAIN rows' : ~rows'[c].missing}
            = {c \in Of(t) \cap DOMAIN rows : ~rows[c].missing}
      BY <3>2, <3>3
    <3>5. /\ {c \in Of(t) \cap DOMAIN rows : ~rows[c].missing} = newest[t]
          /\ \A c \in newest[t] : rows[c].observed >= watermark[t]
      BY DEF IInv, PresenceFollowsNewest
    <3>6. \A c \in newest[t] : rows'[c] = rows[c]
      BY <3>2, <3>3, <3>5
    <3> QED
      BY <3>1, <3>4, <3>5, <3>6
  <2> QED
    BY <2>1, <2>2
<1>7. PresenceFollowsNewest'
  BY <1>6 DEF PresenceFollowsNewest
<1> QED
  BY <1>3, <1>4, <1>5, <1>7

\* An operation of a user keeps both parts, whichever of its steps it is.
LEMMA UsersKeep ==
  ASSUME IInv, Users
  PROVE  IInv'
<1>1. /\ UserEffect /\ pinning' \in SUBSET IDs
      /\ unpinning' \in SUBSET (IDs \X SUBSET IDs)
  BY UsersEffect DEF IInv
<1>2. ASSUME NEW m \in Manual \cap DOMAIN rows'
      PROVE  ~rows'[m].missing /\ rows'[m].edit # None
  <2>1. CASE m \in DOMAIN rows
    <3>1. ~rows[m].missing /\ rows[m].edit # None
      BY <2>1 DEF IInv, TypeOK
    <3>2. /\ rows'[m].missing = rows[m].missing
          /\ rows'[m].edit = rows[m].edit \/ rows'[m].edit \in Edits
      BY <2>1, <1>1, Zenon DEF UserEffect
    <3> QED
      BY <3>1, <3>2, CatalogAssumption, Zenon
  <2>2. CASE m \notin DOMAIN rows
    BY <2>2, <1>1, Zenon DEF UserEffect
  <2> QED
    BY <2>1, <2>2
<1>3. TypeOK'
  BY <1>1, <1>2 DEF UserEffect, RowsTyped, IInv, TypeOK
<1>4. ASSUME NEW t \in Sources
      PROVE  /\ {c \in Of(t) \cap DOMAIN rows' : ~rows'[c].missing} = newest'[t]
             /\ \A c \in newest'[t] : rows'[c].observed >= watermark'[t]
  <2>1. Of(t) \cap Manual = {}
    BY CatalogAssumption DEF Of
  <2>2. /\ {c \in Of(t) \cap DOMAIN rows : ~rows[c].missing} = newest[t]
        /\ \A c \in newest[t] : rows[c].observed >= watermark[t]
    BY DEF IInv, PresenceFollowsNewest
  <2>3. ASSUME NEW c \in Of(t)
        PROVE  (c \in DOMAIN rows' /\ ~rows'[c].missing)
                 <=> (c \in DOMAIN rows /\ ~rows[c].missing)
    BY <2>1, <1>1, Zenon DEF UserEffect
  <2>4. {c \in Of(t) \cap DOMAIN rows' : ~rows'[c].missing} = newest[t]
    BY <2>2, <2>3
  <2>5. ASSUME NEW c \in newest[t] PROVE rows'[c].observed >= watermark[t]
    <3>1. c \in DOMAIN rows \cap DOMAIN rows'
      BY <2>2, <2>4
    <3>2. rows'[c].observed = rows[c].observed
      BY <3>1, <1>1, Zenon DEF UserEffect
    <3> QED
      BY <3>2, <2>2
  <2> QED
    BY <2>4, <2>5, <1>1, Zenon DEF UserEffect
<1>5. PresenceFollowsNewest'
  BY <1>4 DEF PresenceFollowsNewest
<1> QED
  BY <1>3, <1>5 DEF IInv

LEMMA InitIInv == Init => IInv
  BY CatalogAssumption DEF Init, IInv, TypeOK, PresenceFollowsNewest, IDs

\* The invariant is inductive.
LEMMA StepIInv == IInv /\ [Next]_vars => IInv'
<1> SUFFICES ASSUME IInv, [Next]_vars PROVE IInv'
  OBVIOUS
<1>1. CASE UNCHANGED vars
  BY <1>1 DEF vars, IInv, TypeOK, PresenceFollowsNewest
<1>2. CASE Users
  BY <1>2, UsersKeep
<1>3. ASSUME NEW s \in Offered, ReplaceSourceSnapshot(s) PROVE IInv'
  <2>1. pinning' = pinning /\ unpinning' = unpinning
    BY <1>3, SnapshotCases
  <2>2. CASE SnapshotEffect(s)
    <3>1. TypeOK'
      BY <2>1, <2>2, SnapshotKeeps DEF RowsTyped, IInv, TypeOK
    <3> QED
      BY <3>1, <2>2, SnapshotKeeps DEF IInv
  <2>3. CASE rows' = rows /\ watermark' = watermark /\ newest' = newest
    BY <2>1, <2>3 DEF IInv, TypeOK, PresenceFollowsNewest
  <2> QED
    BY <1>3, <2>2, <2>3, SnapshotCases
<1> QED
  BY <1>1, <1>2, <1>3 DEF Next

THEOREM Invariance == Spec => []IInv
  BY InitIInv, StepIInv, PTL DEF Spec

\* Every reachable catalog is well typed; manual services are never missing
\* and always have the presentation they were created with or a later one.
THEOREM TypeCorrect == Spec => []TypeOK
  BY Invariance, PTL DEF IInv

\* The candidates present are those of the newest snapshot, whatever order
\* the snapshots came in and whatever users did between them.
THEOREM NoResurrection == Spec => []PresenceFollowsNewest
  BY Invariance, PTL DEF IInv

\* Steps of Next from a state of the invariant: a snapshot applied, a user's
\* operation, or no change of the store.
LEMMA StepCases ==
  ASSUME IInv, [Next]_vars
  PROVE  \/ \E s \in Offered : SnapshotEffect(s) /\ ApplyEffect(rows, rows', s)
         \/ UserEffect
         \/ rows' = rows /\ watermark' = watermark
<1>1. CASE UNCHANGED vars
  BY <1>1 DEF vars
<1>2. CASE Users
  BY <1>2, UsersEffect DEF IInv
<1>3. ASSUME NEW s \in Offered, ReplaceSourceSnapshot(s), SnapshotEffect(s)
      PROVE  ApplyEffect(rows, rows', s)
  <2>1. rows' = Apply(rows, s)
    BY <1>3 DEF SnapshotEffect
  <2>2. DOMAIN rows \subseteq IDs /\ rows \in [DOMAIN rows -> Row]
    BY DEF IInv, TypeOK
  <2>3. ApplyEffect(rows, Apply(rows, s), s)
    BY <2>2, ApplyRows
  <2> QED
    BY <2>1, <2>3, Zenon
<1> QED
  BY <1>1, <1>2, <1>3, SnapshotCases DEF Next

\* Only missing candidates are deleted, by purges, and never a manual service.
THEOREM PurgesMissing == Spec => OnlyMissingPurged
<1>1. IInv /\ [Next]_vars =>
        [\A c \in DOMAIN rows \ DOMAIN rows' : c \in Candidates /\ rows[c].missing]_vars
  <2> SUFFICES ASSUME IInv, [Next]_vars, NEW c \in DOMAIN rows \ DOMAIN rows'
               PROVE  c \in Candidates /\ rows[c].missing
    OBVIOUS
  <2>1. rows[c].missing
    <3>1. ASSUME NEW s \in Offered, ApplyEffect(rows, rows', s) PROVE FALSE
      BY <3>1 DEF ApplyEffect
    <3>2. CASE UserEffect
      BY <3>2, Zenon DEF UserEffect
    <3> QED
      BY <3>1, <3>2, StepCases
  <2> QED
    BY <2>1 DEF IInv, TypeOK, IDs
<1> QED
  BY <1>1, Invariance, PTL DEF Spec, OnlyMissingPurged

\* A pin is granted only to a row that is live when the pin is written.
THEOREM PinsLive == Spec => PinsGrantedLive
<1>1. IInv /\ [Next]_vars =>
        [\A c \in DOMAIN rows' :
           (rows'[c].pinned /\ ~(c \in DOMAIN rows /\ rows[c].pinned))
             => c \in DOMAIN rows /\ Live(c)]_vars
  <2> SUFFICES ASSUME IInv, [Next]_vars, NEW c \in DOMAIN rows', rows'[c].pinned,
                      ~(c \in DOMAIN rows /\ rows[c].pinned)
               PROVE  c \in DOMAIN rows /\ Live(c)
    OBVIOUS
  <2>1. ASSUME NEW s \in Offered, ApplyEffect(rows, rows', s) PROVE FALSE
    <3>1. CASE c \in DOMAIN rows
      <4>1. rows'[c].pinned = rows[c].pinned
        BY <2>1, <3>1, Zenon DEF ApplyEffect
      <4> QED
        BY <3>1, <4>1, Zenon
    <3>2. CASE c \notin DOMAIN rows
      <4>1. c \in s.seen \ DOMAIN rows
        BY <2>1, <3>2 DEF ApplyEffect
      <4> QED
        BY <2>1, <4>1, Zenon DEF ApplyEffect
    <3> QED
      BY <3>1, <3>2
  <2>2. CASE UserEffect
    BY <2>2, Zenon DEF UserEffect
  <2>3. CASE rows' = rows
    BY <2>3, Zenon
  <2> QED
    BY <2>1, <2>2, <2>3, StepCases
<1> QED
  BY <1>1, Invariance, PTL DEF Spec, PinsGrantedLive

\* Snapshots keep every row, what users chose for it and the latest observation
\* of it; a row that appears
\* has nothing chosen yet.
THEOREM ChoicesKept == Spec => ChoicesSurvive
<1> DEFINE Kept ==
      /\ watermark' # watermark =>
           \A c \in DOMAIN rows :
             /\ c \in DOMAIN rows'
             /\ \A f \in {"hidden", "pinned", "edit"} : rows'[c][f] = rows[c][f]
             /\ rows'[c].observed >= rows[c].observed
      /\ \A c \in DOMAIN rows' \ DOMAIN rows : ~rows'[c].hidden /\ ~rows'[c].pinned
<1>1. IInv /\ [Next]_vars => [Kept]_vars
  <2> SUFFICES ASSUME IInv, [Next]_vars PROVE Kept
    OBVIOUS
  <2>1. ASSUME NEW s \in Offered, ApplyEffect(rows, rows', s) PROVE Kept
    <3>1. ASSUME NEW c \in DOMAIN rows' \ DOMAIN rows
          PROVE  ~rows'[c].hidden /\ ~rows'[c].pinned
      <4>1. c \in s.seen \ DOMAIN rows
        BY <2>1 DEF ApplyEffect
      <4> QED
        BY <2>1, <4>1, Zenon DEF ApplyEffect
    <3>2. ASSUME NEW c \in DOMAIN rows
          PROVE  /\ c \in DOMAIN rows' /\ rows'[c].hidden = rows[c].hidden
                 /\ rows'[c].pinned = rows[c].pinned /\ rows'[c].edit = rows[c].edit
                 /\ rows'[c].observed >= rows[c].observed
      BY <2>1, Zenon DEF ApplyEffect
    <3> QED
      BY <3>1, <3>2, Zenon
  <2>2. CASE UserEffect
    BY <2>2, Zenon DEF UserEffect
  <2>3. CASE rows' = rows /\ watermark' = watermark
    BY <2>3, Zenon
  <2> QED
    BY <2>1, <2>2, <2>3, StepCases
<1> QED
  BY <1>1, Invariance, PTL DEF Spec, ChoicesSurvive
-----------------------------------------------------------------------------
(***************************************************************************)
(* Federation: two catalogs and the snapshots between them.                  *)
(***************************************************************************)

\* Snapshots the agent has applied and offered to the gateway.
Published ==
  requests \cup acked \cup
  {sync[w].snapshot :
     w \in {v \in Syncs : sync[v].pc \in {"publish", "sending", "answered"}}}

\* Of these, the ones the gateway has answered.
AnsweredFor ==
  acked \cup {sync[w].snapshot : w \in {v \in Syncs : sync[v].pc = "answered"}}

\* A sync that is under way holds a snapshot any catalog may be offered.
SyncInv ==
  /\ clock \in 1..MaxTime
  /\ sync \in [Syncs -> SyncState]
  /\ \A w \in Syncs : sync[w] # Idle =>
       sync[w].snapshot \in Offered /\ sync[w].snapshot.stamp <= clock

\* The agent has reached what it published, and either store that stands at
\* its time has seen what it saw.
Known(p) ==
  /\ p \in Offered
  /\ p.at <= agentWatermark[p.source]
  /\ p.at = agentWatermark[p.source] => p.seen = agentNewest[p.source]
  /\ p.at = watermark[p.source] => p.seen = newest[p.source]

\* One time of one source is one snapshot, though syncs overlap.
Agree(p, q) == p.source = q.source /\ p.at = q.at => p.seen = q.seen

PublishedInv ==
  /\ \A p \in Published : Known(p)
  /\ \A p, q \in Published : Agree(p, q)

AnsweredInv == \A a \in AnsweredFor : watermark[a.source] >= a.at

Follows ==
  \A s \in Sources :
    /\ watermark[s] <= agentWatermark[s]
    /\ watermark[s] = agentWatermark[s] => newest[s] = agentNewest[s]

AgentInv ==
  /\ RowsTyped(agentRows)
  /\ agentWatermark \in [Sources -> Nat]
  /\ agentNewest \in [Sources -> SUBSET Candidates]
  /\ \A s \in Sources : Present(agentRows, s) = agentNewest[s]

FedInv == IInv /\ AgentInv /\ SyncInv /\ PublishedInv /\ AnsweredInv /\ Follows

LEMMA OfferedFacts ==
  ASSUME NEW p \in Offered
  PROVE  /\ p.source \in Sources /\ p.at \in Nat /\ p.at > 0
         /\ p.seen \subseteq Candidates /\ p.seen \subseteq Of(p.source)
         /\ p.stamp \in Nat /\ p.at <= p.stamp
  BY CatalogAssumption DEF Offered

LEMMA FedInitInv == FedInit => FedInv
<1> SUFFICES ASSUME FedInit PROVE FedInv
  OBVIOUS
<1>1. IInv
  BY InitIInv DEF FedInit
<1>2. AgentInv
  BY DEF FedInit, Agent!Init, AgentInv, RowsTyped, Present, IDs
<1>3. SyncInv
  BY FederationAssumption, CatalogAssumption DEF FedInit, SyncInv, SyncState
<1>4. Published = {} /\ AnsweredFor = {}
  BY DEF FedInit, Published, AnsweredFor, Idle
<1>5. PublishedInv /\ AnsweredInv
  BY <1>4 DEF PublishedInv, AnsweredInv
<1>6. Follows
  BY DEF FedInit, Init, Agent!Init, Follows
<1> QED
  BY <1>1, <1>2, <1>3, <1>5, <1>6 DEF FedInv

\* Both catalogs may be offered the same snapshots.
LEMMA SameOffers == Agent!Offered = Offered
  BY DEF Agent!Offered, Offered, Agent!Of, Of
\* The sets that the invariant speaks of depend on syncs, requests and acked.
LEMMA Quiet ==
  ASSUME FedInv, UNCHANGED <<vars, agent>>, SyncInv',
         Published' \subseteq Published, AnsweredFor' \subseteq AnsweredFor
  PROVE  FedInv'
<1>1. IInv'
  BY DEF FedInv, vars, IInv, TypeOK, PresenceFollowsNewest
<1>2. AgentInv'
  BY DEF FedInv, agent, AgentInv, RowsTyped, Present
<1>3. Follows'
  BY DEF FedInv, vars, agent, Follows
<1>4. \A p \in Published : Known(p)' /\ \A q \in Published : Agree(p, q)'
  BY DEF FedInv, PublishedInv, Known, Agree, vars, agent
<1>5. PublishedInv'
  BY <1>4 DEF PublishedInv
<1>6. AnsweredInv'
  BY DEF FedInv, AnsweredInv, vars
<1> QED
  BY <1>1, <1>2, <1>3, <1>5, <1>6 DEF FedInv

\* A state of one sync, and a sync that goes to it.
SyncOK(x, now) ==
  /\ x \in SyncState
  /\ x # Idle => x.snapshot \in Offered /\ x.snapshot.stamp <= now

LEMMA SyncMoves ==
  ASSUME SyncInv, NEW w \in Syncs, NEW x, SyncOK(x, clock),
         sync' = [sync EXCEPT ![w] = x], clock' = clock
  PROVE  SyncInv'
<1>1. sync' \in [Syncs -> SyncState]
  BY DEF SyncInv, SyncOK
<1>2. ASSUME NEW v \in Syncs, sync'[v] # Idle
      PROVE  sync'[v].snapshot \in Offered /\ sync'[v].snapshot.stamp <= clock
  <2>1. CASE v = w
    BY <1>2, <2>1 DEF SyncInv, SyncOK
  <2>2. CASE v # w
    BY <1>2, <2>2 DEF SyncInv
  <2> QED
    BY <2>1, <2>2
<1> QED
  BY <1>1, <1>2 DEF SyncInv

LEMMA ListingOK ==
  ASSUME SyncInv, NEW i \in DOMAIN Discoverers
  PROVE  SyncOK(Listing(i), clock)
<1>1. Discoverers[i] \in Sources /\ clock \in Nat /\ clock \in 1..MaxTime
  BY FederationAssumption, CatalogAssumption DEF SyncInv
<1> DEFINE s == [source |-> Discoverers[i], at |-> clock, stamp |-> clock, seen |-> {}]
<1>2. s \in Snapshot /\ s \in Offered /\ s.stamp <= clock
  BY <1>1 DEF Snapshot, Offered
<1> HIDE DEF s
<1>3. Listing(i) = [pc |-> "discover", i |-> i, snapshot |-> s]
  BY DEF Listing, s
<1>4. Listing(i) \in SyncState /\ Listing(i).snapshot = s
  BY <1>2, <1>3 DEF SyncState
<1> QED
  BY <1>2, <1>4 DEF SyncOK

LEMMA IdleOK == SyncOK(Idle, clock)
  BY DEF SyncOK, SyncState

LEMMA AdvancedOK ==
  ASSUME SyncInv, NEW w \in Syncs
  PROVE  /\ SyncOK(Advanced(w), clock)
         /\ Advanced(w).pc \in {"discover", "idle"}
<1>1. sync[w] \in SyncState
  BY DEF SyncInv
<1>2. sync[w].i \in DOMAIN Discoverers
  BY <1>1, FederationAssumption DEF SyncState, Idle
<1>3. CASE sync[w].i < Len(Discoverers)
  <2>1. sync[w].i + 1 \in DOMAIN Discoverers
    BY <1>2, <1>3, FederationAssumption
  <2>2. Advanced(w) = Listing(sync[w].i + 1)
    BY <1>3 DEF Advanced
  <2> QED
    BY <2>1, <2>2, ListingOK DEF Listing
<1>4. CASE ~(sync[w].i < Len(Discoverers))
  BY <1>4, IdleOK DEF Advanced, Idle
<1> QED
  BY <1>3, <1>4

\* A sync that is somewhere else than at the start holds a record with its pc.
LEMMA PhaseOK ==
  ASSUME SyncInv, NEW w \in Syncs, sync[w] # Idle, NEW pc,
         pc \in {"discover", "store", "publish", "sending", "answered"}
  PROVE  /\ SyncOK([sync[w] EXCEPT !.pc = pc], clock)
         /\ [sync[w] EXCEPT !.pc = pc].pc = pc
         /\ [sync[w] EXCEPT !.pc = pc].snapshot = sync[w].snapshot
<1>1. sync[w] \in [pc : {"discover", "store", "publish", "sending", "answered"},
                   i : DOMAIN Discoverers, snapshot : Snapshot]
  BY DEF SyncInv, SyncState
<1> QED
  BY <1>1 DEF SyncOK, SyncInv, SyncState

\* What one sync's move does to the two sets, nothing else being touched.
LEMMA SetsMove ==
  ASSUME SyncInv, NEW w \in Syncs, NEW x, sync' = [sync EXCEPT ![w] = x],
         requests' \subseteq requests, acked' = acked,
         x.pc \in {"idle", "discover", "store"}
  PROVE  Published' \subseteq Published /\ AnsweredFor' \subseteq AnsweredFor
<1>1. \A v \in Syncs : v # w => sync'[v] = sync[v]
  BY DEF SyncInv
<1>2. sync'[w] = x
  BY DEF SyncInv
<1> QED
  BY <1>1, <1>2 DEF Published, AnsweredFor

LEMMA BeginKeeps ==
  ASSUME FedInv, NEW w \in Syncs, Begin(w)
  PROVE  FedInv'
<1>1. 1 \in DOMAIN Discoverers
  BY FederationAssumption
<1>2. SyncInv' /\ Listing(1).pc = "discover"
  BY <1>1, ListingOK, SyncMoves DEF Begin, FedInv, Listing
<1>3. Published' \subseteq Published /\ AnsweredFor' \subseteq AnsweredFor
  BY <1>2, SetsMove DEF Begin, FedInv
<1> QED
  BY <1>2, <1>3, Quiet DEF Begin

LEMMA FailKeeps ==
  ASSUME FedInv, NEW w \in Syncs, Fail(w)
  PROVE  FedInv'
<1>1. SyncInv'
  BY IdleOK, SyncMoves DEF Fail, FedInv
<1>2. Published' \subseteq Published /\ AnsweredFor' \subseteq AnsweredFor
  BY SetsMove DEF Fail, FedInv, Idle
<1> QED
  BY <1>1, <1>2, Quiet DEF Fail

LEMMA DiscoverKeeps ==
  ASSUME FedInv, NEW w \in Syncs, NEW seen \in SUBSET Of(sync[w].snapshot.source),
         NEW stamp \in sync[w].snapshot.at..clock, Discover(w, seen, stamp)
  PROVE  FedInv'
<1>0. PICK s : s = sync[w].snapshot
  OBVIOUS
<1>n. PICK new : new = [s EXCEPT !.seen = seen, !.stamp = stamp]
  OBVIOUS
<1> DEFINE x == [sync[w] EXCEPT !.pc = "store", !.snapshot = new]
<1>1. sync[w] # Idle
  BY DEF Discover, Idle
<1>2. sync[w] \in [pc : {"discover", "store", "publish", "sending", "answered"},
                   i : DOMAIN Discoverers, snapshot : Snapshot]
  BY <1>1 DEF FedInv, SyncInv, SyncState
<1>3. s \in Offered /\ s \in Snapshot /\ clock \in 1..MaxTime
  BY <1>0, <1>1, <1>2 DEF FedInv, SyncInv
<1>4. new \in Offered /\ new \in Snapshot /\ new.stamp <= clock
  <2>1. /\ s.source \in Sources /\ s.at \in 1..MaxTime /\ MaxTime \in Nat
        /\ stamp \in 1..MaxTime /\ stamp \in Nat /\ s.at <= stamp /\ stamp <= clock
        /\ seen \subseteq Candidates
    BY <1>0, <1>3, CatalogAssumption DEF Offered, Of
  <2>2. /\ new \in Snapshot /\ new.source = s.source /\ new.at = s.at
        /\ new.seen = seen /\ new.stamp = stamp
    <3>1. new \in Snapshot
      BY <1>n, <1>3, <2>1 DEF Snapshot
    <3>2. new.source = s.source /\ new.at = s.at
      BY <1>n, <1>3 DEF Snapshot
    <3>3. new.seen = seen /\ new.stamp = stamp
      BY <1>n, <1>3 DEF Snapshot
    <3> QED
      BY <3>1, <3>2, <3>3
  <2>3. new \in [source : Sources, at : 1..MaxTime, stamp : 1..MaxTime,
                 seen : SUBSET Candidates]
    BY <2>1, <2>2 DEF Snapshot
  <2>4. seen \subseteq Of(new.source)
    BY <1>0, <2>2
  <2> QED
    BY <2>1, <2>2, <2>3, <2>4 DEF Offered
<1>5. SyncOK(x, clock) /\ x.pc = "store"
  BY <1>2, <1>4 DEF SyncOK, SyncState
<1>6. sync' = [sync EXCEPT ![w] = x]
  BY <1>0, <1>n, <1>2 DEF Discover, FedInv, SyncInv, Snapshot
<1> HIDE DEF x
<1>7. SyncInv'
  BY <1>5, <1>6, SyncMoves DEF Discover, FedInv
<1>8. Published' \subseteq Published /\ AnsweredFor' \subseteq AnsweredFor
  BY <1>5, <1>6, SetsMove DEF Discover, FedInv
<1> QED
  BY <1>7, <1>8, Quiet DEF Discover

LEMMA PublishKeeps ==
  ASSUME FedInv, NEW w \in Syncs, Publish(w)
  PROVE  FedInv'
<1> DEFINE x == [sync[w] EXCEPT !.pc = "sending"]
<1>1. sync[w] # Idle
  BY DEF Publish, Idle
<1>2. SyncOK(x, clock) /\ x.pc = "sending" /\ x.snapshot = sync[w].snapshot
  BY <1>1, PhaseOK DEF FedInv
<1>3. sync' = [sync EXCEPT ![w] = x]
  BY DEF Publish
<1> HIDE DEF x
<1>4. SyncInv'
  BY <1>2, <1>3, SyncMoves DEF Publish, FedInv
<1>5. sync'[w] = x /\ \A v \in Syncs : v # w => sync'[v] = sync[v]
  BY <1>3 DEF FedInv, SyncInv
<1>6. Published' \subseteq Published /\ AnsweredFor' \subseteq AnsweredFor
  BY <1>2, <1>5 DEF Published, AnsweredFor, Publish
<1> QED
  BY <1>4, <1>6, Quiet DEF Publish

LEMMA PublishReturnsKeeps ==
  ASSUME FedInv, NEW w \in Syncs, PublishReturns(w)
  PROVE  FedInv'
<1>1. SyncOK(Advanced(w), clock) /\ Advanced(w).pc \in {"discover", "idle"}
  BY AdvancedOK DEF FedInv
<1>2. SyncInv'
  BY <1>1, SyncMoves DEF PublishReturns, FedInv
<1>3. sync'[w] = Advanced(w) /\ \A v \in Syncs : v # w => sync'[v] = sync[v]
  BY DEF FedInv, SyncInv, PublishReturns
<1>4. Published' \subseteq Published /\ AnsweredFor' \subseteq AnsweredFor
  BY <1>1, <1>3 DEF Published, AnsweredFor, PublishReturns
<1> QED
  BY <1>2, <1>4, Quiet DEF PublishReturns

LEMMA NetworkKeeps ==
  ASSUME FedInv, Tick \/ \E r \in requests : Lose(r)
  PROVE  FedInv'
<1>1. SyncInv'
  BY CatalogAssumption, OfferedFacts DEF FedInv, SyncInv, Tick, Lose
<1>2. Published' \subseteq Published /\ AnsweredFor' \subseteq AnsweredFor
  BY DEF Published, AnsweredFor, Tick, Lose
<1> QED
  BY <1>1, <1>2, Quiet DEF Tick, Lose
\* What an applied snapshot does to the agent's rows, source by source.
LEMMA AgentPresence ==
  ASSUME AgentInv, NEW s \in Offered, agentRows' = Apply(agentRows, s)
  PROVE  /\ RowsTyped(agentRows')
         /\ Present(agentRows', s.source) = s.seen
         /\ \A t \in Sources \ {s.source} : Present(agentRows', t) = Present(agentRows, t)
<1>1. /\ DOMAIN agentRows' = DOMAIN agentRows \cup s.seen
      /\ agentRows' \in [DOMAIN agentRows' -> Row]
      /\ \A r \in s.seen : ~agentRows'[r].missing
      /\ \A r \in Of(s.source) \cap DOMAIN agentRows' :
           r \notin s.seen => agentRows'[r].missing
      /\ \A r \in DOMAIN agentRows \ Of(s.source) : agentRows'[r] = agentRows[r]
  <2>1. ApplyEffect(agentRows, Apply(agentRows, s), s)
    BY ApplyRows DEF AgentInv, RowsTyped
  <2> QED
    BY <2>1, Zenon DEF ApplyEffect
<1>2. s.seen \subseteq Candidates /\ s.seen \subseteq Of(s.source)
  BY OfferedFacts
<1>3. RowsTyped(agentRows')
  BY <1>1, <1>2 DEF RowsTyped, AgentInv, IDs
<1>4. Present(agentRows', s.source) = s.seen
  BY <1>1, <1>2 DEF Present
<1>5. ASSUME NEW t \in Sources \ {s.source}
      PROVE  Present(agentRows', t) = Present(agentRows, t)
  <2>1. Of(t) \cap Of(s.source) = {}
    BY DEF Of
  <2>2. /\ Of(t) \cap DOMAIN agentRows' = Of(t) \cap DOMAIN agentRows
        /\ \A c \in Of(t) \cap DOMAIN agentRows : agentRows'[c] = agentRows[c]
    BY <2>1, <1>1, <1>2
  <2> QED
    BY <2>2 DEF Present
<1> QED
  BY <1>3, <1>4, <1>5

LEMMA StoreKeeps ==
  ASSUME FedInv, NEW w \in Syncs, Store(w)
  PROVE  FedInv'
<1>0. PICK s : s = sync[w].snapshot
  OBVIOUS
<1> USE <1>0
<1>1. sync[w] # Idle
  BY DEF Store, Idle
<1>2. s \in Offered
  BY <1>1 DEF FedInv, SyncInv
<1>3. /\ s.source \in Sources /\ s.at \in Nat /\ s.at > 0 /\ s.seen \subseteq Candidates
  BY <1>2, OfferedFacts
<1>4. /\ agentWatermark \in [Sources -> Nat] /\ watermark \in [Sources -> Nat]
      /\ agentNewest \in [Sources -> SUBSET Candidates]
  BY DEF FedInv, AgentInv, IInv, TypeOK
<1>5. CASE ~(s.at > agentWatermark[s.source])
  <2>1. UNCHANGED <<vars, agent>> /\ sync' = [sync EXCEPT ![w] = Advanced(w)]
    BY <1>5 DEF Store, Agent!ReplaceSourceSnapshot, Agent!IsNewer, IsNewer, agent
  <2>2. SyncInv'
    BY <2>1, AdvancedOK, SyncMoves DEF Store, FedInv
  <2>3. Published' \subseteq Published /\ AnsweredFor' \subseteq AnsweredFor
    BY <2>1, AdvancedOK, SetsMove DEF Store, FedInv
  <2> QED
    BY <2>1, <2>2, <2>3, Quiet
<1>6. CASE s.at > agentWatermark[s.source]
  <2> DEFINE x == [sync[w] EXCEPT !.pc = "publish"]
  <2>1. /\ agentRows' = Apply(agentRows, s)
        /\ agentWatermark' = [agentWatermark EXCEPT ![s.source] = s.at]
        /\ agentNewest' = [agentNewest EXCEPT ![s.source] = s.seen]
        /\ sync' = [sync EXCEPT ![w] = x]
        /\ UNCHANGED <<vars, clock, requests, acked>>
    BY <1>6 DEF Store, Agent!ReplaceSourceSnapshot, Agent!IsNewer, IsNewer,
                Agent!Apply, Apply, Agent!Of, Of, Agent!Observe, Observe,
                Agent!NewRow, NewRow
  <2>2. SyncOK(x, clock) /\ x.pc = "publish" /\ x.snapshot = s
    BY <1>1, PhaseOK DEF FedInv
  <2> HIDE DEF x
  <2>3. SyncInv'
    BY <2>1, <2>2, SyncMoves DEF FedInv
  <2>4. sync'[w] = x /\ \A v \in Syncs : v # w => sync'[v] = sync[v]
    BY <2>1 DEF FedInv, SyncInv
  <2>5. Published' \subseteq Published \cup {s} /\ AnsweredFor' \subseteq AnsweredFor
    BY <2>1, <2>2, <2>4 DEF Published, AnsweredFor
  <2>6. IInv'
    BY <2>1 DEF FedInv, vars, IInv, TypeOK, PresenceFollowsNewest
  <2>7. AgentInv'
    <3>1. \A t \in Sources : Present(agentRows', t) = agentNewest'[t]
      BY <2>1, <1>2, <1>3, <1>4, AgentPresence DEF FedInv, AgentInv
    <3>2. RowsTyped(agentRows')
      BY <2>1, <1>2, AgentPresence DEF FedInv
    <3> QED
      BY <2>1, <1>3, <1>4, <3>1, <3>2 DEF AgentInv
  <2>8. /\ agentWatermark'[s.source] = s.at /\ agentNewest'[s.source] = s.seen
        /\ \A t \in Sources \ {s.source} : /\ agentWatermark'[t] = agentWatermark[t]
                                           /\ agentNewest'[t] = agentNewest[t]
        /\ watermark' = watermark /\ newest' = newest
    BY <2>1, <1>3, <1>4 DEF vars
  <2>9. Follows'
    BY <2>8, <1>3, <1>4, <1>6 DEF FedInv, Follows
  <2>10. ASSUME NEW p \in Published PROVE Known(p)' /\ Agree(p, s) /\ Agree(s, p)
    <3>1. Known(p)
      BY DEF FedInv, PublishedInv
    <3>2. p.source \in Sources /\ p.at \in Nat
      BY <3>1, OfferedFacts DEF Known
    <3>3. CASE p.source = s.source
      <4>1. p.at < s.at
        BY <3>1, <3>2, <3>3, <1>3, <1>4, <1>6 DEF Known
      <4> QED
        BY <3>1, <3>2, <3>3, <4>1, <2>8, <1>3 DEF Known, Agree
    <3>4. CASE p.source # s.source
      BY <3>1, <3>2, <3>4, <2>8 DEF Known, Agree
    <3> QED
      BY <3>3, <3>4
  <2>11. Known(s)'
    <3>1. watermark[s.source] < s.at
      BY <1>3, <1>4, <1>6 DEF FedInv, Follows
    <3> QED
      BY <1>2, <1>3, <1>4, <3>1, <2>8 DEF Known
  <2>12. PublishedInv'
    BY <2>5, <2>10, <2>11 DEF FedInv, PublishedInv, Agree
  <2>13. AnsweredInv'
    BY <2>5, <2>8 DEF FedInv, AnsweredInv
  <2> QED
    BY <2>3, <2>6, <2>7, <2>9, <2>12, <2>13 DEF FedInv
<1> QED
  BY <1>5, <1>6

LEMMA ImportKeeps ==
  ASSUME FedInv, NEW r \in requests, ImportSnapshot(r)
  PROVE  FedInv'
<1>1. Known(r) /\ r \in Published
  BY DEF FedInv, PublishedInv, Published
<1>2. /\ r \in Offered /\ r.source \in Sources /\ r.at \in Nat /\ r.at > 0
      /\ r.seen \subseteq Candidates
  BY <1>1, OfferedFacts DEF Known
<1>3. /\ agentWatermark \in [Sources -> Nat] /\ watermark \in [Sources -> Nat]
      /\ newest \in [Sources -> SUBSET Candidates]
  BY DEF FedInv, AgentInv, IInv, TypeOK
<1>4. IInv'
  BY <1>2, StepIInv DEF FedInv, ImportSnapshot, Next
<1>5. AgentInv'
  BY DEF FedInv, ImportSnapshot, agent, AgentInv, RowsTyped, Present
<1>6. ASSUME NEW v \in Syncs
      PROVE  /\ SyncOK(sync'[v], clock)
             /\ \/ sync'[v] = sync[v]
                \/ /\ sync[v].pc = "sending" /\ sync'[v].pc = "answered"
                   /\ sync[v].snapshot = r /\ sync'[v].snapshot = r
  <2>1. CASE sync[v].pc = "sending" /\ sync[v].snapshot = r
    <3>1. sync'[v] = [sync[v] EXCEPT !.pc = "answered"] /\ sync[v] # Idle
      BY <2>1 DEF ImportSnapshot, Answer, Idle
    <3> QED
      BY <2>1, <3>1, PhaseOK DEF FedInv
  <2>2. CASE ~(sync[v].pc = "sending" /\ sync[v].snapshot = r)
    BY <2>2 DEF ImportSnapshot, Answer, FedInv, SyncInv, SyncOK
  <2> QED
    BY <2>1, <2>2
<1>7. SyncInv'
  <2>1. sync' = [v \in Syncs |-> sync'[v]] /\ clock' = clock
    BY DEF ImportSnapshot, Answer
  <2> QED
    BY <1>6, <2>1 DEF SyncInv, SyncOK, FedInv
<1>8. Published' \subseteq Published /\ AnsweredFor' \subseteq AnsweredFor \cup {r}
  BY <1>6 DEF Published, AnsweredFor, ImportSnapshot
<1>9. /\ \/ /\ r.at > watermark[r.source]
            /\ watermark' = [watermark EXCEPT ![r.source] = r.at]
            /\ newest' = [newest EXCEPT ![r.source] = r.seen]
         \/ /\ ~(r.at > watermark[r.source])
            /\ watermark' = watermark /\ newest' = newest
      /\ UNCHANGED agent
  BY DEF ImportSnapshot, ReplaceSourceSnapshot, IsNewer
<1>10. /\ \A t \in Sources \ {r.source} : watermark'[t] = watermark[t] /\ newest'[t] = newest[t]
       /\ \A t \in Sources : watermark'[t] \in Nat /\ watermark'[t] >= watermark[t]
       /\ watermark'[r.source] >= r.at
       /\ \/ watermark'[r.source] = r.at /\ newest'[r.source] = r.seen
          \/ watermark'[r.source] = watermark[r.source] /\ newest'[r.source] = newest[r.source]
  BY <1>2, <1>3, <1>9
<1>11. Follows'
  BY <1>1, <1>2, <1>3, <1>9, <1>10 DEF FedInv, Follows, Known, agent
<1>12. ASSUME NEW p \in Published PROVE Known(p)'
  <2>1. Known(p) /\ Agree(p, r) /\ p \in Offered /\ p.source \in Sources
    BY <1>1, OfferedFacts DEF FedInv, PublishedInv, Known
  <2> QED
    BY <2>1, <1>9, <1>10 DEF Known, Agree, agent
<1>13. PublishedInv'
  BY <1>8, <1>12 DEF FedInv, PublishedInv, Agree
<1>14. AnsweredInv'
  <2>1. \A a \in AnsweredFor : a \in Published
    BY DEF AnsweredFor, Published
  <2>2. ASSUME NEW a \in AnsweredFor PROVE watermark'[a.source] >= a.at
    <3>1. a.source \in Sources /\ a.at \in Nat /\ watermark[a.source] >= a.at
      BY <2>1, OfferedFacts DEF FedInv, PublishedInv, Known, AnsweredInv
    <3> QED
      BY <3>1, <1>3, <1>10
  <2> QED
    BY <2>2, <1>8, <1>10 DEF AnsweredInv
<1> QED
  BY <1>4, <1>5, <1>7, <1>11, <1>13, <1>14 DEF FedInv

LEMMA GatewayPurgeKeeps ==
  ASSUME FedInv, NEW g \in DOMAIN rows, GatewayPurge(g)
  PROVE  FedInv'
<1>1. IInv'
  BY StepIInv DEF FedInv, GatewayPurge, Next, Users
<1>2. watermark' = watermark /\ newest' = newest
  BY DEF GatewayPurge, Purge
<1>3. AgentInv' /\ SyncInv'
  BY DEF FedInv, GatewayPurge, agent, AgentInv, RowsTyped, Present, SyncInv
<1>4. Published' = Published /\ AnsweredFor' = AnsweredFor
  BY DEF GatewayPurge, Published, AnsweredFor
<1>5. PublishedInv'
  BY <1>2, <1>4 DEF FedInv, GatewayPurge, agent, PublishedInv, Known, Agree
<1>6. AnsweredInv' /\ Follows'
  BY <1>2, <1>4 DEF FedInv, GatewayPurge, agent, AnsweredInv, Follows
<1> QED
  BY <1>1, <1>3, <1>5, <1>6 DEF FedInv

LEMMA FedStepInv == FedInv /\ [FedNext]_fedVars => FedInv'
<1> SUFFICES ASSUME FedInv, [FedNext]_fedVars PROVE FedInv'
  OBVIOUS
<1>1. CASE UNCHANGED fedVars
  <2>1. SyncInv' /\ Published' = Published /\ AnsweredFor' = AnsweredFor
    BY <1>1 DEF fedVars, FedInv, SyncInv, Published, AnsweredFor
  <2> QED
    BY <1>1, <2>1, Quiet DEF fedVars
<1> QED
  BY <1>1, BeginKeeps, StoreKeeps, PublishKeeps, PublishReturnsKeeps, FailKeeps,
     DiscoverKeeps, NetworkKeeps, ImportKeeps, GatewayPurgeKeeps DEF FedNext

\* The inductive invariant of the federation: every snapshot that left the
\* agent is one its store had reached, one time of a source is one snapshot,
\* and either store that stands at its time has seen what it saw.
THEOREM FedInvariance == FedSpec => []FedInv
  BY FedInitInv, FedStepInv, PTL DEF FedSpec

\* However requests are lost, delayed and overtaken, the gateway is never
\* ahead of the agent, and presents the same candidates once it has caught up
\* (Service.Sync, Publisher.Publish, ReplaceSourceSnapshot).
THEOREM GatewayFollows == FedSpec => []GatewayFollowsAgent
<1>1. FedInv => GatewayFollowsAgent
  BY DEF FedInv, Follows, AgentInv, GatewayFollowsAgent, IInv, PresenceFollowsNewest, Present
<1> QED
  BY <1>1, FedInvariance, PTL

\* A publication that returned nil is in the gateway's store, or a later one
\* is (Publisher.Publish, the import handler).
THEOREM AcknowledgedApplied == FedSpec => []AcknowledgedIsApplied
<1>1. FedInv => AcknowledgedIsApplied
  <2> SUFFICES ASSUME FedInv, NEW a \in acked
               PROVE  \/ watermark[a.source] > a.at
                      \/ watermark[a.source] = a.at /\ Present(rows, a.source) = a.seen
    BY DEF AcknowledgedIsApplied
  <2>1. Known(a) /\ watermark[a.source] >= a.at
    BY DEF FedInv, PublishedInv, Published, AnsweredInv, AnsweredFor
  <2>2. a.source \in Sources /\ a.at \in Nat /\ watermark[a.source] \in Nat
    BY <2>1, OfferedFacts DEF Known, FedInv, IInv, TypeOK
  <2>3. Present(rows, a.source) = newest[a.source]
    BY <2>2 DEF FedInv, IInv, PresenceFollowsNewest, Present
  <2> QED
    BY <2>1, <2>2, <2>3 DEF Known
<1> QED
  BY <1>1, FedInvariance, PTL

\* Each store, seen by itself, is the catalog of this module's first part:
\* what the federation adds is only the order in which snapshots arrive.
THEOREM CatalogsRefined == FedSpec => ImplementsCatalogs
<1>1. FedInit => Init /\ Agent!Init
  BY DEF FedInit
<1>2. FedInv /\ [FedNext]_fedVars => [Next]_vars
  <2> SUFFICES ASSUME FedInv, FedNext PROVE [Next]_vars
    BY DEF fedVars
  <2>1. ASSUME NEW r \in requests, ImportSnapshot(r) PROVE Next
    BY <2>1 DEF ImportSnapshot, Next, FedInv, PublishedInv, Published, Known
  <2>2. ASSUME NEW g \in DOMAIN rows, GatewayPurge(g) PROVE Next
    BY <2>2 DEF GatewayPurge, Next, Users
  <2> QED
    BY <2>1, <2>2 DEF FedNext, Begin, Store, Publish, PublishReturns, Fail, Discover,
                      Lose, Tick
<1>3. FedInv /\ [FedNext]_fedVars => [Agent!Next]_(Agent!vars)
  <2> SUFFICES ASSUME FedInv, FedNext PROVE [Agent!Next]_(Agent!vars)
    BY DEF fedVars, agent, Agent!vars
  <2>1. ASSUME NEW w \in Syncs, Store(w) PROVE Agent!Next
    <3>1. sync[w].snapshot \in Agent!Offered
      BY <2>1, SameOffers DEF Store, Idle, FedInv, SyncInv
    <3> QED
      BY <2>1, <3>1 DEF Store, Agent!Next
  <2> QED
    BY <2>1 DEF FedNext, Begin, Publish, PublishReturns, Fail, Discover, Lose, Tick,
                ImportSnapshot, GatewayPurge, agent, Agent!vars
<1> QED
  BY <1>1, <1>2, <1>3, FedInvariance, PTL DEF FedSpec, Spec, Agent!Spec, ImplementsCatalogs
=============================================================================
