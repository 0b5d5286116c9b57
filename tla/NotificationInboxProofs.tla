----------------------- MODULE NotificationInboxProofs -----------------------
(***************************************************************************)
(* Proofs about NotificationInbox, for every value of its constants.        *)
(*                                                                         *)
(* The argument: apart from Publish's insertion, every operation only drops  *)
(* rows or fills in a read time or a service (Evolves), and insertion adds   *)
(* one row with a fresh sequence after removing any row of its identity.     *)
(* Sequences therefore follow insertion order, which is what makes a cursor  *)
(* a boundary between what a reader has seen and what it has not.            *)
(***************************************************************************)
EXTENDS NotificationInbox, FiniteSetTheorems, TLAPS

\* Sequences and uuids are drawn together and never handed out again.
Sequenced ==
  /\ lastSequence = lastID
  /\ \A r \in inbox : r.seq = r.id /\ r.id \in 1..lastID

\* A scan's pages lie between its cursor and its start.
ScanBounds ==
  \A c \in Readers :
    /\ scan[c].start <= lastID
    /\ scan[c].owed \subseteq 1..scan[c].start
    /\ scan[c].seen \subseteq 1..scan[c].start
    /\ scan[c].active => /\ scan[c].before \in 1..scan[c].start
                         /\ \A id \in scan[c].seen : id >= scan[c].before

IInv ==
  /\ TypeOK
  /\ UniqueIdentities
  /\ WithinCapacity
  /\ Sequenced
  /\ ScanBounds
  /\ ScanMissesNothing

\* q is what has become of row r.
Keeps(q, r) ==
  /\ q \in Row
  /\ q.seq = r.seq /\ q.id = r.id
  /\ q.identity = r.identity /\ q.payload = r.payload
  /\ q.receivedAt = r.receivedAt
  /\ r.readAt # Unread => q.readAt = r.readAt
  /\ r.service # None => q.service = r.service

\* A step in which rows are only dropped or filled in.
Evolves ==
  /\ \E S \in SUBSET inbox : \E g \in [S -> Row] :
       /\ \A r \in S : Keeps(g[r], r)
       /\ inbox' = {g[r] : r \in S}
  /\ clock' \in Nat /\ clock' >= clock
  /\ marking' \in SUBSET Nat
  /\ refused' \in Identities \cup {None}
  /\ UNCHANGED <<lastSequence, lastID, scan>>
-----------------------------------------------------------------------------
\* The image of a finite set under a function is finite and no larger.
LEMMA ImageBound ==
  ASSUME NEW S, IsFiniteSet(S), NEW T, NEW g \in [S -> T],
         \A y \in T : \E x \in S : y = g[x]
  PROVE  /\ IsFiniteSet(T)
         /\ Cardinality(T) <= Cardinality(S)
<1>1. g \in Surjection(S, T)
  BY DEF Surjection
<1>2. QED
  BY <1>1, FS_Surjection

\* Filling in a service or a read time keeps the rest of the row.
LEMMA FillKeeps ==
  ASSUME NEW r \in Row, NEW s \in Services \cup {None}
  PROVE  Keeps(FillService(r, s), r)
BY DEF Keeps, FillService, Row

\* So does setting the read time.
LEMMA SetReadKeeps ==
  ASSUME NEW r \in Row, NEW now \in Nat
  PROVE  Keeps(SetRead(r, now), r)
BY DEF Keeps, SetRead, Row, Unread

\* A row untouched is kept.
LEMMA SameKeeps == ASSUME NEW r \in Row PROVE Keeps(r, r)
BY DEF Keeps
-----------------------------------------------------------------------------
\* Replaying and binding replace one row by its filled-in form.
LEMMA ReplaceEvolves ==
  ASSUME TypeOK, NEW r \in inbox, NEW s \in Services \cup {None},
         inbox' = Replace(r, FillService(r, s)),
         refused' \in Identities \cup {None},
         UNCHANGED <<clock, lastSequence, lastID, marking, scan>>
  PROVE  Evolves
<1> DEFINE g == [x \in inbox |-> IF x = r THEN FillService(r, s) ELSE x]
<1>1. \A x \in inbox : Keeps(g[x], x)
  BY FillKeeps, SameKeeps DEF TypeOK
<1>2. g \in [inbox -> Row]
  BY <1>1 DEF Keeps
<1>3. inbox' = {g[x] : x \in inbox}
  BY DEF Replace
<1>4. inbox \in SUBSET inbox
  OBVIOUS
<1>5. \E S \in SUBSET inbox : \E h \in [S -> Row] :
        (\A x \in S : Keeps(h[x], x)) /\ inbox' = {h[x] : x \in S}
  BY <1>1, <1>2, <1>3, <1>4
<1>6. QED
  BY <1>5 DEF Evolves, TypeOK

\* Dropping rows, or leaving them alone, is an evolution.
LEMMA SubsetEvolves ==
  ASSUME TypeOK, inbox' \in SUBSET inbox, clock' \in Nat, clock' >= clock,
         marking' \in SUBSET Nat, refused' \in Identities \cup {None},
         UNCHANGED <<lastSequence, lastID, scan>>
  PROVE  Evolves
<1> DEFINE g == [x \in inbox' |-> x]
<1>1. \A x \in inbox' : Keeps(g[x], x)
  BY SameKeeps DEF TypeOK
<1>2. g \in [inbox' -> Row]
  BY DEF TypeOK
<1>3. inbox' = {g[x] : x \in inbox'}
  OBVIOUS
<1>5. \E S \in SUBSET inbox : \E h \in [S -> Row] :
        (\A x \in S : Keeps(h[x], x)) /\ inbox' = {h[x] : x \in S}
  BY <1>1, <1>2, <1>3
<1>6. QED
  BY <1>5 DEF Evolves

\* Marking maps every row to itself or to its read form.
LEMMA MarkEvolves ==
  ASSUME TypeOK, NEW marked \in SUBSET inbox, NEW now \in Nat,
         inbox' = {IF r \in marked THEN SetRead(r, now) ELSE r : r \in inbox},
         refused' \in Identities \cup {None}, marking' \in SUBSET Nat,
         UNCHANGED <<clock, lastSequence, lastID, scan>>
  PROVE  Evolves
<1> DEFINE g == [x \in inbox |-> IF x \in marked THEN SetRead(x, now) ELSE x]
<1>1. \A x \in inbox : Keeps(g[x], x)
  BY SetReadKeeps, SameKeeps DEF TypeOK
<1>2. g \in [inbox -> Row]
  BY <1>1 DEF Keeps
<1>3. inbox' = {g[x] : x \in inbox}
  OBVIOUS
<1>4. inbox \in SUBSET inbox
  OBVIOUS
<1>5. \E S \in SUBSET inbox : \E h \in [S -> Row] :
        (\A x \in S : Keeps(h[x], x)) /\ inbox' = {h[x] : x \in S}
  BY <1>1, <1>2, <1>3, <1>4
<1>6. clock' \in Nat /\ clock' >= clock
  BY DEF TypeOK
<1>7. QED
  BY <1>5, <1>6 DEF Evolves

\* Clock readings and cutoffs are numbers of the right kind.
LEMMA ReadingType ==
  ASSUME TypeOK, NEW t \in Readings
  PROVE  t \in Nat /\ t <= clock /\ Cutoff(t) \in Int /\ Cutoff(t) <= Cutoff(clock)
BY InboxAssumption DEF TypeOK, Readings, Cutoff

\* The same for the second of two readings.
LEMMA LaterReadingType ==
  ASSUME TypeOK, NEW now \in Readings, NEW t \in now..clock
  PROVE  t \in Nat /\ t <= clock /\ Cutoff(t) \in Int /\ Cutoff(t) <= Cutoff(clock)
BY ReadingType, InboxAssumption DEF TypeOK, Cutoff

\* Evolution preserves the inductive invariant.
LEMMA EvolvesInv == ASSUME IInv, Evolves PROVE IInv'
<1> PICK S \in SUBSET inbox : \E g \in [S -> Row] :
       (\A r \in S : Keeps(g[r], r)) /\ inbox' = {g[r] : r \in S}
  BY DEF Evolves
<1> PICK g \in [S -> Row] :
       (\A r \in S : Keeps(g[r], r)) /\ inbox' = {g[r] : r \in S}
  OBVIOUS
<1>a. \A q \in inbox' : \E r \in inbox : r \in S /\ q = g[r] /\ Keeps(q, r)
  OBVIOUS
<1>b. inbox' \in SUBSET Row
  OBVIOUS
<1>1. TypeOK'
  BY <1>b DEF TypeOK, Evolves, IInv
<1>2. UniqueIdentities'
  <2>1. SUFFICES ASSUME NEW q1 \in inbox', NEW q2 \in inbox',
                        q1.identity = q2.identity \/ q1.id = q2.id \/ q1.seq = q2.seq
                 PROVE  q1 = q2
    BY DEF UniqueIdentities
  <2>2. PICK r1 \in S : q1 = g[r1] /\ Keeps(q1, r1)
    BY <1>a
  <2>3. PICK r2 \in S : q2 = g[r2] /\ Keeps(q2, r2)
    BY <1>a
  <2>4. r1 = r2
    BY <2>1, <2>2, <2>3 DEF Keeps, IInv, UniqueIdentities
  <2>5. QED
    BY <2>2, <2>3, <2>4
<1>3. WithinCapacity'
  <2>1. IsFiniteSet(inbox) /\ Cardinality(inbox) <= MaxInboxSize
    BY DEF IInv, WithinCapacity
  <2>2. IsFiniteSet(S) /\ Cardinality(S) <= Cardinality(inbox)
    BY <2>1, FS_Subset
  <2>3. IsFiniteSet(inbox') /\ Cardinality(inbox') <= Cardinality(S)
    <3>1. g \in [S -> inbox'] /\ \A y \in inbox' : \E x \in S : y = g[x]
      OBVIOUS
    <3>2. QED
      BY <2>2, <3>1, ImageBound
  <2>4. Cardinality(S) \in Nat /\ Cardinality(inbox) \in Nat /\ Cardinality(inbox') \in Nat
    BY <2>1, <2>2, <2>3, FS_CardinalityType
  <2>5. QED
    BY <2>1, <2>2, <2>3, <2>4, InboxAssumption DEF WithinCapacity
<1>4. Sequenced'
  BY <1>a DEF IInv, Sequenced, Evolves, Keeps
<1>5. ScanBounds'
  BY DEF IInv, ScanBounds, Evolves
<1>6. ScanMissesNothing'
  <2>1. SUFFICES ASSUME NEW c \in Readers, NEW q \in inbox',
                        q.id \in scan[c].owed,
                        scan[c].unreadOnly => q.readAt = Unread,
                        q.receivedAt >= Cutoff(clock'),
                        scan[c].active => q.seq >= scan[c].before
                 PROVE  q.id \in scan[c].seen
    BY DEF ScanMissesNothing, Evolves, Cutoff
  <2>2. PICK r \in inbox : Keeps(q, r)
    BY <1>a
  <2>3. scan[c].unreadOnly => r.readAt = Unread
    BY <2>1, <2>2 DEF Keeps
  <2>4. r.receivedAt \in Nat /\ clock \in Nat /\ clock' \in Nat
    BY DEF IInv, TypeOK, Evolves, Row
  <2>5. r.receivedAt >= Cutoff(clock)
    BY <2>1, <2>2, <2>4, InboxAssumption DEF Keeps, Cutoff, Evolves
  <2>6. QED
    BY <2>1, <2>2, <2>3, <2>5 DEF Keeps, IInv, ScanMissesNothing
<1>7. QED
  BY <1>1, <1>2, <1>3, <1>4, <1>5, <1>6 DEF IInv

\* The rows an insertion starts from: some of the inbox, none of the identity.
LEMMA RoomFacts ==
  ASSUME IInv, NEW i \in Identities, NEW cutoff \in Int,
         Unexpired(Held(i), cutoff) = {}
  PROVE  /\ Room(i, cutoff) \in SUBSET inbox
         /\ \A r \in Room(i, cutoff) : r.identity # i
         /\ IsFiniteSet(Room(i, cutoff))
<1>1. Room(i, cutoff) \in SUBSET inbox
  BY DEF Room, Reclaimed, Unexpired
<1>2. \A r \in Room(i, cutoff) : r.identity # i
  BY DEF Room, Reclaimed, Unexpired, Held
<1>3. QED
  BY <1>1, <1>2, FS_Subset DEF IInv, WithinCapacity

\* An accepted publication preserves the inductive invariant.
LEMMA AcceptInv ==
  ASSUME IInv, NEW i \in Identities, NEW p \in Payloads,
         NEW s \in Services \cup {None}, NEW now \in Nat, NEW cutoff \in Int,
         PublishAccept(i, p, s, now, cutoff)
  PROVE  IInv'
<1> DEFINE R == Room(i, cutoff)
           x == [seq |-> lastSequence + 1, id |-> lastID + 1, identity |-> i,
                 payload |-> p, receivedAt |-> now, readAt |-> Unread,
                 service |-> s]
<1>1. /\ inbox' = R \cup {x}
      /\ lastSequence' = lastSequence + 1 /\ lastID' = lastID + 1
      /\ refused' = None
      /\ UNCHANGED <<clock, marking, scan>>
      /\ Cardinality(R) < MaxInboxSize
  BY DEF PublishAccept, Insert
<1>2. R \in SUBSET inbox /\ (\A r \in R : r.identity # i) /\ IsFiniteSet(R)
  BY RoomFacts DEF PublishAccept
<1>3. lastSequence \in Nat /\ lastID \in Nat /\ lastSequence = lastID
  BY DEF IInv, TypeOK, Sequenced
<1>4. x \in Row
  BY <1>3 DEF Row, Unread
<1> HIDE DEF R, x
<1>x. x.seq = lastSequence + 1 /\ x.id = lastID + 1 /\ x.identity = i
  BY DEF x
<1>5. TypeOK'
  BY <1>1, <1>2, <1>3, <1>4 DEF IInv, TypeOK
<1>6. \A r \in R : r.seq = r.id /\ r.id \in 1..lastID
  BY <1>2 DEF IInv, Sequenced
<1>7. Sequenced'
  BY <1>1, <1>3, <1>6, <1>x DEF Sequenced
<1>8. UniqueIdentities'
  BY <1>1, <1>2, <1>3, <1>6, <1>x DEF IInv, UniqueIdentities
<1>9. WithinCapacity'
  <2>1. Cardinality(R) \in Nat
    BY <1>2, FS_CardinalityType
  <2>2. IsFiniteSet(R \cup {x}) /\ Cardinality(R \cup {x}) <= Cardinality(R) + 1
    BY <1>2, <2>1, FS_AddElement
  <2>3. Cardinality(R \cup {x}) \in Nat
    BY <2>2, FS_CardinalityType
  <2>4. QED
    BY <1>1, <2>1, <2>2, <2>3, InboxAssumption DEF WithinCapacity
<1>10. ScanBounds'
  <2>1. \A c \in Readers : scan[c].start \in Nat
    BY DEF IInv, TypeOK, Scan
  <2>2. QED
    BY <1>1, <1>3, <2>1 DEF IInv, ScanBounds
<1>11. ScanMissesNothing'
  <2>1. \A c \in Readers : x.id \notin scan[c].owed
    BY <1>3, <1>x DEF IInv, ScanBounds, TypeOK, Scan
  <2>2. QED
    BY <1>1, <1>2, <2>1 DEF IInv, ScanMissesNothing, Cutoff
<1>12. QED
  BY <1>5, <1>7, <1>8, <1>9, <1>10, <1>11 DEF IInv
-----------------------------------------------------------------------------
\* A page holds every listed row from its cursor on, and only such rows.
LEMMA PageFacts ==
  ASSUME IInv, NEW M \in SUBSET inbox, NEW n \in 0..lastSequence,
         IsNextBefore(n, M)
  PROVE  /\ Page(M) \in SUBSET M
         /\ \A r \in Page(M) : r.seq >= n
         /\ \A r \in M : r.seq >= n => r \in Page(M)
         /\ n # 0 => \E r \in M : n = r.seq
<1>1. IsFiniteSet(M)
  BY FS_Subset DEF IInv, WithinCapacity
<1>2. \A r \in M : r.seq \in Nat
  BY DEF IInv, TypeOK, Row
<1>3. Page(M) \in SUBSET M
  BY DEF Page
<1>4. CASE Cardinality(M) > PageLimit
  <2>1. PICK p \in Page(M) : n = p.seq /\ \A q \in Page(M) : p.seq <= q.seq
    BY <1>4 DEF IsNextBefore
  <2>2. ASSUME NEW r \in M, r.seq >= n PROVE r \in Page(M)
    <3> DEFINE above(x) == {q \in M : q.seq > x.seq}
    <3>1. above(r) \in SUBSET above(p) /\ above(p) \in SUBSET M
      BY <1>2, <1>3, <2>1, <2>2
    <3>2. IsFiniteSet(above(p)) /\ IsFiniteSet(above(r))
      BY <1>1, <3>1, FS_Subset
    <3>3. Cardinality(above(r)) <= Cardinality(above(p))
      BY <3>1, <3>2, FS_Subset
    <3>4. Cardinality(above(p)) < PageLimit
      BY DEF Page
    <3>5. Cardinality(above(r)) \in Nat /\ Cardinality(above(p)) \in Nat
      BY <3>2, FS_CardinalityType
    <3>6. Cardinality(above(r)) < PageLimit
      BY <3>3, <3>4, <3>5, InboxAssumption
    <3>7. QED
      BY <3>6 DEF Page
  <2>3. QED
    BY <1>2, <1>3, <2>1, <2>2
<1>5. CASE ~(Cardinality(M) > PageLimit)
  <2>1. n = 0
    BY <1>5 DEF IsNextBefore
  <2>2. ASSUME NEW r \in M PROVE r \in Page(M)
    <3> DEFINE above == {q \in M : q.seq > r.seq}
    <3>1. above \in SUBSET M /\ r \notin above
      BY <1>2
    <3>2. IsFiniteSet(above) /\ Cardinality(above) <= Cardinality(M)
          /\ Cardinality(above) # Cardinality(M)
      BY <1>1, <3>1, FS_Subset
    <3>3. Cardinality(above) \in Nat /\ Cardinality(M) \in Nat
      BY <1>1, <3>2, FS_CardinalityType
    <3>4. Cardinality(above) < PageLimit
      BY <1>5, <3>2, <3>3, InboxAssumption
    <3>5. QED
      BY <3>4 DEF Page
  <2>3. QED
    BY <1>2, <1>3, <2>1, <2>2
<1>6. QED
  BY <1>4, <1>5

\* What a List step does, in terms of the page it read.
LEMMA ListInv ==
  ASSUME IInv, NEW c \in Readers, NEW before \in Nat, NEW unreadOnly \in BOOLEAN,
         NEW seen \in SUBSET Nat, NEW owed \in SUBSET Nat, NEW start \in Nat,
         start <= lastID, owed \subseteq 1..start, seen \subseteq 1..start,
         before = 0 => seen = {} /\ start = lastID,
         before # 0 => before <= start,
         before # 0 =>
           /\ \A id \in seen : id >= before
           /\ \A r \in inbox :
                (/\ r.id \in owed /\ (unreadOnly => r.readAt = Unread)
                 /\ r.receivedAt >= Cutoff(clock) /\ r.seq >= before)
                => r.id \in seen,
         List(c, before, unreadOnly, seen, owed, start)
  PROVE  IInv'
<1>1. PICK t \in Readings : \E n \in 0..lastSequence :
        LET M == Listed(before, unreadOnly, Cutoff(t)) IN
          /\ IsNextBefore(n, M)
          /\ scan' = [scan EXCEPT ![c] =
               [active |-> n # 0, unreadOnly |-> unreadOnly, before |-> n,
                seen |-> seen \cup {r.id : r \in Page(M)},
                owed |-> owed, start |-> start]]
  BY DEF List
<1> DEFINE M == Listed(before, unreadOnly, Cutoff(t))
<1>2. PICK n \in 0..lastSequence :
          /\ IsNextBefore(n, M)
          /\ scan' = [scan EXCEPT ![c] =
               [active |-> n # 0, unreadOnly |-> unreadOnly, before |-> n,
                seen |-> seen \cup {r.id : r \in Page(M)},
                owed |-> owed, start |-> start]]
  BY <1>1
<1>3. M \in SUBSET inbox
  BY DEF Listed
<1>4. /\ Page(M) \in SUBSET M
      /\ \A r \in Page(M) : r.seq >= n
      /\ \A r \in M : r.seq >= n => r \in Page(M)
      /\ n # 0 => \E r \in M : n = r.seq
  BY <1>2, <1>3, PageFacts
<1>5. /\ lastSequence \in Nat /\ lastID \in Nat /\ lastSequence = lastID
      /\ scan \in [Readers -> Scan]
      /\ \A r \in inbox : r.seq = r.id /\ r.id \in 1..lastID /\ r.receivedAt \in Nat
  BY DEF IInv, TypeOK, Sequenced, Row
<1>6. \A r \in M : r.id <= start /\ (before # 0 => r.seq < before)
  BY <1>3, <1>5 DEF Listed
<1> DEFINE k == [active |-> n # 0, unreadOnly |-> unreadOnly, before |-> n,
                 seen |-> seen \cup {r.id : r \in Page(M)},
                 owed |-> owed, start |-> start]
<1>7. /\ inbox' = inbox /\ clock' = clock /\ lastID' = lastID
      /\ lastSequence' = lastSequence /\ marking' = marking /\ refused' = None
  BY DEF List
<1>8. \A id \in k.seen : id \in 1..start /\ id >= n
  <2>1. \A id \in {r.id : r \in Page(M)} : id \in 1..start /\ id >= n
    BY <1>3, <1>4, <1>5, <1>6
  <2>2. \A id \in seen : id >= n
    BY <1>3, <1>4, <1>5, <1>6
  <2>3. QED
    BY <2>1, <2>2
<1>9. n # 0 => n \in 1..start
  BY <1>3, <1>4, <1>5, <1>6
<1>10. k \in Scan
  <2>1. (n # 0) \in BOOLEAN /\ n \in Nat
    BY <1>5
  <2>2. seen \cup {r.id : r \in Page(M)} \in SUBSET Nat
    <3>1. \A r \in Page(M) : r.id \in Nat
      BY <1>3, <1>4, <1>5
    <3> HIDE DEF M
    <3>2. QED
      BY <3>1
  <2>3. QED
    BY <2>1, <2>2 DEF Scan
<1>11. scan' = [scan EXCEPT ![c] = k]
  BY <1>2
<1> HIDE DEF k, M
<1>k. k.active = (n # 0) /\ k.unreadOnly = unreadOnly /\ k.before = n
      /\ k.owed = owed /\ k.start = start
      /\ k.seen = seen \cup {r.id : r \in Page(M)}
  BY DEF k
<1>12. scan' \in [Readers -> Scan] /\ scan'[c] = k
       /\ \A d \in Readers : d # c => scan'[d] = scan[d]
  BY <1>5, <1>10, <1>11
<1>13. TypeOK'
  BY <1>7, <1>12 DEF IInv, TypeOK
<1>14. ScanBounds'
  <2>1. SUFFICES ASSUME NEW d \in Readers
                 PROVE /\ scan'[d].start <= lastID
                       /\ scan'[d].owed \subseteq 1..scan'[d].start
                       /\ scan'[d].seen \subseteq 1..scan'[d].start
                       /\ scan'[d].active =>
                            /\ scan'[d].before \in 1..scan'[d].start
                            /\ \A id \in scan'[d].seen : id >= scan'[d].before
    BY <1>7 DEF ScanBounds
  <2>2. CASE d = c
    BY <2>2, <1>8, <1>9, <1>12, <1>k
  <2>3. CASE d # c
    BY <2>3, <1>12 DEF IInv, ScanBounds
  <2>4. QED
    BY <2>2, <2>3
<1>15. ScanMissesNothing'
  <2>1. SUFFICES ASSUME NEW d \in Readers, NEW r \in inbox,
                        r.id \in scan'[d].owed,
                        scan'[d].unreadOnly => r.readAt = Unread,
                        r.receivedAt >= Cutoff(clock),
                        scan'[d].active => r.seq >= scan'[d].before
                 PROVE  r.id \in scan'[d].seen
    BY <1>7 DEF ScanMissesNothing, Cutoff
  <2>2. CASE d # c
    BY <2>1, <2>2, <1>12 DEF IInv, ScanMissesNothing
  <2>3. CASE d = c
    <3>1. r.id \in owed /\ (unreadOnly => r.readAt = Unread) /\ r.seq >= n
      <4>1. scan'[d] = k
        BY <2>3, <1>12
      <4>2. r.id \in owed
        BY <2>1, <4>1, <1>k
      <4>3. unreadOnly => r.readAt = Unread
        BY <2>1, <4>1, <1>k
      <4>4. n # 0 => r.seq >= n
        BY <2>1, <4>1, <1>k
      <4>5. QED
        BY <4>2, <4>3, <4>4, <1>5
    <3>2. CASE before # 0 /\ r.seq >= before
      BY <3>1, <3>2, <2>1, <2>3, <1>12, <1>k
    <3>3. CASE before = 0 \/ r.seq < before
      <4>1. Cutoff(t) \in Int /\ Cutoff(t) <= Cutoff(clock) /\ Cutoff(clock) \in Int
        BY ReadingType, InboxAssumption DEF IInv, TypeOK, Cutoff
      <4>2. r.receivedAt >= Cutoff(t)
        BY <4>1, <2>1, <1>5
      <4>3. r \in M
        BY <3>1, <3>3, <4>2 DEF M, Listed
      <4>4. r \in Page(M)
        BY <4>3, <3>1, <1>4
      <4>5. QED
        BY <4>4, <2>3, <1>12, <1>k
    <3>4. r.seq \in Nat /\ before \in Nat
      BY <1>5
    <3>5. QED
      BY <3>2, <3>3, <3>4
  <2>4. QED
    BY <2>2, <2>3
<1>16. UniqueIdentities' /\ WithinCapacity' /\ Sequenced'
  BY <1>7 DEF IInv, UniqueIdentities, WithinCapacity, Sequenced
<1>17. QED
  BY <1>13, <1>14, <1>15, <1>16 DEF IInv
-----------------------------------------------------------------------------
\* The steps that are neither an insertion nor a List.
LEMMA OtherStepsEvolve ==
  ASSUME IInv, [Next]_vars
  PROVE  \/ Evolves
         \/ \E i \in Identities, p \in Payloads, s \in Services \cup {None} :
              \E now \in Readings : \E t \in now..clock :
                PublishAccept(i, p, s, now, Cutoff(t))
         \/ \E c \in Readers, unreadOnly \in BOOLEAN : ListFirst(c, unreadOnly)
         \/ \E c \in Readers : ListNext(c)
<1> TypeOK
  BY DEF IInv
<1> clock \in Nat /\ marking \in SUBSET Nat
  BY DEF TypeOK
<1>1. ASSUME NEW i \in Identities, NEW p \in Payloads, NEW s \in Services \cup {None},
             NEW now \in Readings, NEW t \in now..clock,
             \/ PublishConflict(i, p, s, Cutoff(t))
             \/ PublishReplay(i, p, s, Cutoff(t))
             \/ PublishCapacity(i, Cutoff(t))
      PROVE  Evolves
  <2>1. CASE PublishConflict(i, p, s, Cutoff(t))
    BY <2>1, SubsetEvolves DEF PublishConflict
  <2>2. CASE PublishReplay(i, p, s, Cutoff(t))
    <3>1. PICK r \in Unexpired(Held(i), Cutoff(t)) :
            inbox' = Replace(r, FillService(r, s))
      BY <2>2 DEF PublishReplay
    <3>2. r \in inbox
      BY <3>1 DEF Unexpired, Held
    <3>3. QED
      BY <2>2, <3>1, <3>2, ReplaceEvolves DEF PublishReplay
  <2>3. CASE PublishCapacity(i, Cutoff(t))
    BY <2>3, SubsetEvolves DEF PublishCapacity
  <2>4. QED
    BY <1>1, <2>1, <2>2, <2>3
<1>2. ASSUME NEW i \in Identities, NEW s \in Services, BindService(i, s)
      PROVE  Evolves
  <2>1. PICK t \in Readings : \E r \in Unexpired(Held(i), Cutoff(t)) :
          inbox' = Replace(r, FillService(r, s))
    BY <1>2 DEF BindService
  <2>2. PICK r \in Unexpired(Held(i), Cutoff(t)) :
          inbox' = Replace(r, FillService(r, s))
    BY <2>1
  <2>3. r \in inbox /\ s \in Services \cup {None}
    BY <2>2 DEF Unexpired, Held
  <2>4. QED
    BY <1>2, <2>2, <2>3, ReplaceEvolves DEF BindService
<1>3. ASSUME NEW id \in 1..lastID, MarkReadGet(id) PROVE Evolves
  <2>1. id \in Nat
    BY DEF TypeOK
  <2>2. marking' \in SUBSET Nat
    BY <1>3, <2>1 DEF MarkReadGet
  <2>3. QED
    BY <1>3, <2>2, SubsetEvolves DEF MarkReadGet
<1>4. ASSUME NEW id \in 1..lastID, MarkReadCommit(id) PROVE Evolves
  <2> DEFINE marked == {r \in inbox : r.id = id}
  <2>1. PICK now \in Readings :
          inbox' = {IF r.id = id THEN SetRead(r, now) ELSE r : r \in inbox}
    BY <1>4 DEF MarkReadCommit
  <2>2. inbox' = {IF r \in marked THEN SetRead(r, now) ELSE r : r \in inbox}
    BY <2>1
  <2>3. now \in Nat /\ marked \in SUBSET inbox /\ marking' \in SUBSET Nat
    BY <1>4, ReadingType DEF MarkReadCommit
  <2>4. refused' \in Identities \cup {None} /\ UNCHANGED <<clock, lastSequence, lastID, scan>>
    BY <1>4 DEF MarkReadCommit
  <2> HIDE DEF marked
  <2>5. QED
    BY <2>2, <2>3, <2>4, MarkEvolves
<1>5. ASSUME MarkAllRead PROVE Evolves
  <2>1. PICK now \in Readings : \E t \in now..clock :
          inbox' = {IF r.receivedAt >= Cutoff(t) THEN SetRead(r, now) ELSE r : r \in inbox}
    BY <1>5 DEF MarkAllRead
  <2>2. PICK t \in now..clock :
          inbox' = {IF r.receivedAt >= Cutoff(t) THEN SetRead(r, now) ELSE r : r \in inbox}
    BY <2>1
  <2> DEFINE marked == {r \in inbox : r.receivedAt >= Cutoff(t)}
  <2>3. inbox' = {IF r \in marked THEN SetRead(r, now) ELSE r : r \in inbox}
    BY <2>2
  <2>4. now \in Nat /\ marked \in SUBSET inbox
    BY ReadingType
  <2>5. /\ refused' \in Identities \cup {None} /\ marking' \in SUBSET Nat
        /\ UNCHANGED <<clock, lastSequence, lastID, scan>>
    BY <1>5 DEF MarkAllRead
  <2> HIDE DEF marked
  <2>6. QED
    BY <2>3, <2>4, <2>5, MarkEvolves
<1>6. ASSUME ClearAll PROVE Evolves
  BY <1>6, SubsetEvolves DEF ClearAll
<1>7. ASSUME Sweep PROVE Evolves
  BY <1>7, SubsetEvolves DEF Sweep, Unexpired
<1>8. ASSUME Tick PROVE Evolves
  BY <1>8, SubsetEvolves DEF Tick
<1>9. ASSUME UNCHANGED vars PROVE Evolves
  BY <1>9, SubsetEvolves DEF vars, TypeOK
<1>10. QED
  BY <1>1, <1>2, <1>3, <1>4, <1>5, <1>6, <1>7, <1>8, <1>9 DEF Next, Publish
-----------------------------------------------------------------------------
\* The first page of a scan, which owes the reader the whole inbox.
LEMMA ListFirstInv ==
  ASSUME IInv, NEW c \in Readers, NEW unreadOnly \in BOOLEAN,
         ListFirst(c, unreadOnly)
  PROVE  IInv'
<1> DEFINE owed == {r.id : r \in inbox}
<1>1. lastID \in Nat /\ \A r \in inbox : r.id \in 1..lastID
  BY DEF IInv, TypeOK, Sequenced
<1>2. owed \in SUBSET Nat /\ owed \subseteq 1..lastID
  BY <1>1
<1>3. List(c, 0, unreadOnly, {}, owed, lastID)
  BY DEF ListFirst
<1> HIDE DEF owed
<1>4. QED
  BY <1>1, <1>2, <1>3, ListInv

\* A later page, read from the cursor the scan carries.
LEMMA ListNextInv ==
  ASSUME IInv, NEW c \in Readers, ListNext(c)
  PROVE  IInv'
<1> DEFINE k == scan[c]
<1>1. k \in Scan /\ lastID \in Nat
  BY DEF IInv, TypeOK
<1>2. /\ k.before \in Nat /\ k.unreadOnly \in BOOLEAN /\ k.seen \in SUBSET Nat
      /\ k.owed \in SUBSET Nat /\ k.start \in Nat
  BY <1>1 DEF Scan
<1>3. k.active /\ List(c, k.before, k.unreadOnly, k.seen, k.owed, k.start)
  BY DEF ListNext
<1>4. /\ k.start <= lastID /\ k.owed \subseteq 1..k.start
      /\ k.seen \subseteq 1..k.start /\ k.before \in 1..k.start
      /\ \A id \in k.seen : id >= k.before
  BY <1>3 DEF IInv, ScanBounds
<1>5. k.before # 0 /\ k.before <= k.start
  BY <1>2, <1>4
<1>6. \A r \in inbox :
        (/\ r.id \in k.owed /\ (k.unreadOnly => r.readAt = Unread)
         /\ r.receivedAt >= Cutoff(clock) /\ r.seq >= k.before)
        => r.id \in k.seen
  BY <1>3 DEF IInv, ScanMissesNothing
<1> HIDE DEF k
<1>7. QED
  BY <1>2, <1>3, <1>4, <1>5, <1>6, ListInv

\* The initial inbox satisfies the inductive invariant.
LEMMA InitInv == Init => IInv
<1> SUFFICES ASSUME Init PROVE IInv
  OBVIOUS
<1>1. NoScan \in Scan
  BY DEF NoScan, Scan
<1>2. TypeOK
  BY <1>1 DEF Init, TypeOK
<1>3. WithinCapacity
  BY FS_EmptySet, InboxAssumption DEF Init, WithinCapacity
<1>4. UniqueIdentities /\ Sequenced /\ ScanMissesNothing
  BY DEF Init, UniqueIdentities, Sequenced, ScanMissesNothing
<1>5. ScanBounds
  BY DEF Init, ScanBounds, NoScan
<1>6. QED
  BY <1>2, <1>3, <1>4, <1>5 DEF IInv

\* Every step preserves the inductive invariant.
LEMMA StepInv == IInv /\ [Next]_vars => IInv'
<1> SUFFICES ASSUME IInv, [Next]_vars PROVE IInv'
  OBVIOUS
<1>1. CASE Evolves
  BY <1>1, EvolvesInv
<1>2. ASSUME NEW i \in Identities, NEW p \in Payloads, NEW s \in Services \cup {None},
             NEW now \in Readings, NEW t \in now..clock,
             PublishAccept(i, p, s, now, Cutoff(t))
      PROVE  IInv'
  <2>1. now \in Nat /\ Cutoff(t) \in Int
    BY ReadingType, LaterReadingType DEF IInv
  <2>2. QED
    BY <1>2, <2>1, AcceptInv
<1>3. ASSUME NEW c \in Readers, NEW unreadOnly \in BOOLEAN, ListFirst(c, unreadOnly)
      PROVE  IInv'
  BY <1>3, ListFirstInv
<1>4. ASSUME NEW c \in Readers, ListNext(c) PROVE IInv'
  BY <1>4, ListNextInv
<1>5. QED
  BY <1>1, <1>2, <1>3, <1>4, OtherStepsEvolve

\* The inductive invariant holds in every reachable state.
THEOREM Invariance == Spec => []IInv
BY InitInv, StepInv, PTL DEF Spec

\* Every variable keeps its type: in particular, a receipt time is a reading
\* of the clock and never a cutoff.
THEOREM TypeCorrect == Spec => []TypeOK
<1>1. IInv => TypeOK
  BY DEF IInv
<1>2. QED
  BY <1>1, Invariance, PTL

\* Publish inserts no second row for an identity that has one, expired or not.
THEOREM IdentitiesUnique == Spec => []UniqueIdentities
<1>1. IInv => UniqueIdentities
  BY DEF IInv
<1>2. QED
  BY <1>1, Invariance, PTL

\* Publish's capacity check bounds the table for every capacity.
THEOREM CapacityKept == Spec => []WithinCapacity
<1>1. IInv => WithinCapacity
  BY DEF IInv
<1>2. QED
  BY <1>1, Invariance, PTL

\* Following NextBefore loses no message, whatever happens between the pages.
THEOREM PagesMissNothing == Spec => []ScanMissesNothing
<1>1. IInv => ScanMissesNothing
  BY DEF IInv
<1>2. QED
  BY <1>1, Invariance, PTL

\* Following NextBefore shows no message twice and none that is newer than
\* the first page.
THEOREM PagesNeverAlias == Spec => []ScanNeverAliases
<1>1. ASSUME IInv PROVE ScanNeverAliases
  <2>1. SUFFICES ASSUME NEW c \in Readers
                 PROVE  /\ \A id \in scan[c].seen : id <= scan[c].start
                        /\ scan[c].active =>
                             \A r \in inbox : r.seq < scan[c].before =>
                               r.id <= scan[c].start /\ r.id \notin scan[c].seen
    BY DEF ScanNeverAliases
  <2>2. scan[c] \in Scan /\ \A r \in inbox : r.seq = r.id /\ r.id \in Nat
    BY <1>1 DEF IInv, TypeOK, Sequenced, Row
  <2>3. scan[c].start \in Nat /\ scan[c].before \in Nat /\ scan[c].seen \in SUBSET Nat
    BY <2>2 DEF Scan
  <2>4. \A id \in scan[c].seen : id <= scan[c].start
    BY <1>1, <2>3 DEF IInv, ScanBounds
  <2>5. ASSUME scan[c].active, NEW r \in inbox, r.seq < scan[c].before
        PROVE  r.id <= scan[c].start /\ r.id \notin scan[c].seen
    BY <1>1, <2>2, <2>3, <2>5 DEF IInv, ScanBounds
  <2>6. QED
    BY <2>4, <2>5
<1>2. QED
  BY <1>1, Invariance, PTL
-----------------------------------------------------------------------------
\* What an accepted publication does to the rows.
LEMMA AcceptShape ==
  ASSUME IInv, NEW i \in Identities, NEW p \in Payloads,
         NEW s \in Services \cup {None}, NEW now \in Readings,
         NEW t \in now..clock, PublishAccept(i, p, s, now, Cutoff(t))
  PROVE  \E R \in SUBSET inbox : \E x :
           /\ inbox' = R \cup {x}
           /\ x.id = lastID + 1 /\ x.identity = i /\ x.payload = p
           /\ lastID' = lastID + 1
           /\ \A r \in R : r.identity # i
           /\ IsFiniteSet(R) /\ Cardinality(R) < MaxInboxSize
<1>1. Cutoff(t) \in Int
  BY LaterReadingType DEF IInv
<1> DEFINE R == Room(i, Cutoff(t))
           x == [seq |-> lastSequence + 1, id |-> lastID + 1, identity |-> i,
                 payload |-> p, receivedAt |-> now, readAt |-> Unread,
                 service |-> s]
<1>2. inbox' = R \cup {x} /\ lastID' = lastID + 1 /\ Cardinality(R) < MaxInboxSize
  BY DEF PublishAccept, Insert
<1>3. R \in SUBSET inbox /\ (\A r \in R : r.identity # i) /\ IsFiniteSet(R)
  BY <1>1, RoomFacts DEF PublishAccept
<1>4. x.id = lastID + 1 /\ x.identity = i /\ x.payload = p
  OBVIOUS
<1> HIDE DEF R, x
<1>5. QED
  BY <1>2, <1>3, <1>4

\* A step keeps the rows it does not drop, and adds at most one.
LEMMA StepShape ==
  ASSUME IInv, [Next]_vars
  PROVE  \/ /\ lastID' = lastID
            /\ \A q \in inbox' : \E r \in inbox : Keeps(q, r)
         \/ \E i \in Identities, p \in Payloads : \E R \in SUBSET inbox : \E x :
              /\ inbox' = R \cup {x}
              /\ x.id = lastID + 1 /\ x.identity = i /\ x.payload = p
              /\ lastID' = lastID + 1
              /\ \A r \in R : r.identity # i
              /\ IsFiniteSet(R) /\ Cardinality(R) < MaxInboxSize
<1>1. CASE Evolves
  BY <1>1 DEF Evolves
<1>2. ASSUME inbox' = inbox, lastID' = lastID
      PROVE  \A q \in inbox' : \E r \in inbox : Keeps(q, r)
  BY <1>2, SameKeeps DEF IInv, TypeOK
<1>3. CASE (\E c \in Readers, unreadOnly \in BOOLEAN : ListFirst(c, unreadOnly))
           \/ (\E c \in Readers : ListNext(c))
  BY <1>2, <1>3 DEF ListFirst, ListNext, List
<1>4. CASE \E i \in Identities, p \in Payloads, s \in Services \cup {None} :
             \E now \in Readings : \E t \in now..clock :
               PublishAccept(i, p, s, now, Cutoff(t))
  <2>1. PICK i \in Identities, p \in Payloads, s \in Services \cup {None} :
          \E now \in Readings : \E t \in now..clock :
            PublishAccept(i, p, s, now, Cutoff(t))
    BY <1>4
  <2>2. PICK now \in Readings : \E t \in now..clock :
          PublishAccept(i, p, s, now, Cutoff(t))
    BY <2>1
  <2>3. PICK t \in now..clock : PublishAccept(i, p, s, now, Cutoff(t))
    BY <2>2
  <2>4. \E R \in SUBSET inbox : \E x :
          /\ inbox' = R \cup {x}
          /\ x.id = lastID + 1 /\ x.identity = i /\ x.payload = p
          /\ lastID' = lastID + 1
          /\ \A r \in R : r.identity # i
          /\ IsFiniteSet(R) /\ Cardinality(R) < MaxInboxSize
    BY <2>3, AcceptShape
  <2>5. QED
    BY <2>4
<1>5. QED
  BY <1>1, <1>3, <1>4, OtherStepsEvolve

\* A publication, a marking or a binding never rewrites what a message says.
THEOREM RowsGrow == Spec => RowsOnlyGrow
<1> DEFINE Same(r, q) ==
      /\ \A f \in {"seq", "identity", "payload", "receivedAt"} : q[f] = r[f]
      /\ r.readAt # Unread => q.readAt = r.readAt
      /\ r.service # None => q.service = r.service
<1>1. ASSUME IInv, [Next]_vars, NEW r \in inbox, NEW q \in inbox', q.id = r.id
      PROVE  Same(r, q)
  <2>1. \A a, b \in inbox : a.id = b.id => a = b
    BY <1>1 DEF IInv, UniqueIdentities
  <2>2. lastID \in Nat /\ r.id \in 1..lastID
    BY <1>1 DEF IInv, TypeOK, Sequenced
  <2>3. CASE \E a \in inbox : Keeps(q, a)
    <3>1. PICK a \in inbox : Keeps(q, a)
      BY <2>3
    <3>2. a = r
      BY <1>1, <2>1, <3>1 DEF Keeps
    <3>3. QED
      BY <3>1, <3>2 DEF Keeps
  <2>4. CASE q \in inbox
    BY <1>1, <2>1, <2>4
  <2>5. CASE q.id = lastID + 1
    BY <1>1, <2>2, <2>5
  <2>6. QED
    BY <1>1, <2>3, <2>4, <2>5, StepShape
<1>2. IInv /\ [Next]_vars
      => [\A r \in inbox : \A q \in inbox' : q.id = r.id => Same(r, q)]_vars
  BY <1>1
<1>3. QED
  BY <1>2, Invariance, PTL DEF Spec, RowsOnlyGrow

\* A retained message is never joined by another one of its identity: the
\* cutoff a publication computes is no later than the one of its commit.
THEOREM PublishedOnce == Spec => NoSecondCopy
<1>1. ASSUME IInv, [Next]_vars, NEW q \in inbox', q.id > lastID,
             NEW r \in inbox, r.identity = q.identity
      PROVE  r.receivedAt < Cutoff(clock)
  <2>0. lastID \in Nat /\ \A a \in inbox : a.id \in 1..lastID
    BY <1>1 DEF IInv, TypeOK, Sequenced
  <2>1. CASE \E a \in inbox : Keeps(q, a)
    BY <1>1, <2>0, <2>1 DEF Keeps
  <2>2. CASE inbox' = inbox
    BY <1>1, <2>0, <2>2
  <2>3. ASSUME NEW i \in Identities, NEW p \in Payloads, NEW s \in Services \cup {None},
               NEW now \in Readings, NEW t \in now..clock,
               PublishAccept(i, p, s, now, Cutoff(t))
        PROVE  r.receivedAt < Cutoff(clock)
    <3>1. Cutoff(t) \in Int /\ Cutoff(t) <= Cutoff(clock) /\ Cutoff(clock) \in Int
      BY <1>1, LaterReadingType, InboxAssumption DEF IInv, TypeOK, Cutoff
    <3>2. q.identity = i
      BY <1>1, <2>0, <3>1, <2>3, RoomFacts DEF PublishAccept, Insert
    <3>3. ~(r.receivedAt >= Cutoff(t))
      BY <1>1, <2>3, <3>2 DEF PublishAccept, Unexpired, Held
    <3>4. r.receivedAt \in Nat
      BY <1>1 DEF IInv, TypeOK, Row
    <3>5. QED
      BY <3>1, <3>3, <3>4
  <2>4. CASE Evolves
    BY <1>1, <2>1, <2>4 DEF Evolves
  <2>5. CASE (\E c \in Readers, unreadOnly \in BOOLEAN : ListFirst(c, unreadOnly))
             \/ (\E c \in Readers : ListNext(c))
    BY <2>2, <2>5 DEF ListFirst, ListNext, List
  <2>6. QED
    BY <1>1, <2>3, <2>4, <2>5, OtherStepsEvolve
<1>2. IInv /\ [Next]_vars
      => [\A q \in inbox' : q.id > lastID =>
            \A r \in inbox : r.identity = q.identity =>
              r.receivedAt < Cutoff(clock)]_vars
  BY <1>1
<1>3. QED
  BY <1>2, Invariance, PTL DEF Spec, NoSecondCopy

\* The capacity error is given only for an identity that is not retained and
\* while a full inbox of retained messages stands.
THEOREM RefusalJustified == Spec => RefusedOnlyWhenFull
<1> DEFINE Justified ==
      /\ inbox' = inbox
      /\ \A r \in Held(refused') : r.receivedAt < Cutoff(clock)
      /\ \E t \in Readings : Cardinality(Unexpired(inbox, Cutoff(t))) >= MaxInboxSize
<1>1. ASSUME IInv, Next, refused' # None PROVE Justified
  <2>1. PICK i \in Identities : \E now \in Readings : \E t \in now..clock :
               PublishCapacity(i, Cutoff(t))
    BY <1>1 DEF Next, Publish, PublishConflict, PublishReplay, PublishAccept, Insert,
       BindService, MarkReadGet, MarkReadCommit, MarkAllRead, ClearAll, Sweep,
       ListFirst, ListNext, List, Tick
  <2>2. PICK now \in Readings : \E t \in now..clock : PublishCapacity(i, Cutoff(t))
    BY <2>1
  <2>3. PICK t \in now..clock : PublishCapacity(i, Cutoff(t))
    BY <2>2
  <2>4. Cutoff(t) \in Int /\ Cutoff(t) <= Cutoff(clock) /\ Cutoff(clock) \in Int
    BY <1>1, LaterReadingType, InboxAssumption DEF IInv, TypeOK, Cutoff
  <2>5. t \in Readings
    BY <1>1, InboxAssumption DEF Readings, IInv, TypeOK
  <2>6. \A r \in Held(i) : r.receivedAt < Cutoff(clock)
    <3>1. \A r \in Held(i) : r.receivedAt \in Nat /\ ~(r.receivedAt >= Cutoff(t))
      BY <1>1, <2>3 DEF PublishCapacity, Unexpired, Held, IInv, TypeOK, Row
    <3>2. QED
      BY <2>4, <3>1
  <2>7. Room(i, Cutoff(t)) = Unexpired(inbox, Cutoff(t))
    <3> DEFINE A == Reclaimed(i, Cutoff(t))
    <3>1. IsFiniteSet(A)
      BY <1>1, FS_Subset DEF Reclaimed, Unexpired, IInv, WithinCapacity
    <3>2. Cardinality(A) \in Nat /\ Cardinality(Room(i, Cutoff(t))) >= MaxInboxSize
      BY <3>1, <2>3, FS_CardinalityType DEF PublishCapacity
    <3>3. Cardinality(A) >= MaxInboxSize
      BY <3>2 DEF Room
    <3>4. Room(i, Cutoff(t)) = Unexpired(A, Cutoff(t))
      BY <3>3 DEF Room
    <3>5. Unexpired(A, Cutoff(t)) = Unexpired(inbox, Cutoff(t))
      BY DEF Reclaimed, Unexpired
    <3>6. QED
      BY <3>4, <3>5
  <2>8. QED
    BY <2>3, <2>5, <2>6, <2>7 DEF PublishCapacity
<1>2. IInv /\ [Next]_vars => [refused' # None => Justified]_vars
  BY <1>1
<1>3. QED
  BY <1>2, Invariance, PTL DEF Spec, RefusedOnlyWhenFull
-----------------------------------------------------------------------------
\* The inbox implements the abstract inbox, for every capacity and retention.
THEOREM Refinement == Spec => ImplementsDedupInbox
<1> DEFINE P(r) == [id |-> r.id, identity |-> r.identity, payload |-> r.payload]
           live == {P(r) : r \in inbox}
<1>1. Init => Abstract!Init
  BY DEF Init, Abstract!Init
<1>2. ASSUME IInv, [Next]_vars PROVE [Abstract!Next]_(Abstract!vars)
  <2>1. CASE /\ lastID' = lastID
             /\ \A q \in inbox' : \E r \in inbox : Keeps(q, r)
    <3>1. \A q \in inbox' : \E r \in inbox : P(q) = P(r)
      BY <2>1 DEF Keeps
    <3>2. live' \in SUBSET live
      BY <3>1
    <3>3. Abstract!Drop
      BY <2>1, <3>2 DEF Abstract!Drop
    <3>4. QED
      BY <3>3 DEF Abstract!Next
  <2>2. ASSUME NEW i \in Identities, NEW p \in Payloads, NEW R \in SUBSET inbox, NEW x,
               /\ inbox' = R \cup {x}
               /\ x.id = lastID + 1 /\ x.identity = i /\ x.payload = p
               /\ lastID' = lastID + 1
               /\ \A r \in R : r.identity # i
               /\ IsFiniteSet(R) /\ Cardinality(R) < MaxInboxSize
        PROVE  Abstract!Accept(i, p)
    <3> DEFINE kept == {P(r) : r \in R}
               g == [r \in R |-> P(r)]
    <3>1. kept \in SUBSET live /\ \A m \in kept : m.identity # i
      BY <2>2
    <3>2. Cardinality(kept) < MaxInboxSize
      <4>1. g \in [R -> kept] /\ \A y \in kept : \E r \in R : y = g[r]
        OBVIOUS
      <4> HIDE DEF g, kept
      <4>2. IsFiniteSet(kept) /\ Cardinality(kept) <= Cardinality(R)
        BY <2>2, <4>1, ImageBound
      <4>3. Cardinality(kept) \in Nat /\ Cardinality(R) \in Nat
        BY <2>2, <4>2, FS_CardinalityType
      <4>4. QED
        BY <2>2, <4>2, <4>3, InboxAssumption
    <3>3. live' = kept \cup {[id |-> lastID + 1, identity |-> i, payload |-> p]}
      <4>1. P(x) = [id |-> lastID + 1, identity |-> i, payload |-> p]
        BY <2>2
      <4>2. live' = kept \cup {P(x)}
        BY <2>2
      <4>3. QED
        BY <4>1, <4>2
    <3> lastID' = lastID + 1
      BY <2>2
    <3> HIDE DEF kept
    <3>4. QED
      BY <3>1, <3>2, <3>3 DEF Abstract!Accept, Abstract!Cardinality, Cardinality
  <2>3. QED
    <3>1. CASE \E i \in Identities, p \in Payloads : Abstract!Accept(i, p)
      BY <3>1 DEF Abstract!Next
    <3>2. QED
      BY <1>2, <2>1, <2>2, <3>1, StepShape
<1>3. QED
  BY <1>1, <1>2, Invariance, PTL DEF Spec, ImplementsDedupInbox, Abstract!Spec
=============================================================================
