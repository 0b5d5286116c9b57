-------------------------- MODULE NotificationInbox --------------------------
(***************************************************************************)
(* The notification inbox of the API: internal/application/notifications    *)
(* (Service) over internal/adapters/sqlite (NotificationStore).             *)
(*                                                                         *)
(* The database has one connection, so a transaction is one step.  What is  *)
(* not atomic is everything a request reads before its transaction: the     *)
(* clock (the receipt time and the retention cutoff), the row MarkRead looks *)
(* up first, and the cursor a reader of several pages carries along.  A      *)
(* clock reading is chosen here, when the transaction runs, among the        *)
(* readings a request waiting for at most MaxLag could have taken.           *)
(*                                                                         *)
(* A message's uuid is the number of uuids drawn before it, plus one.        *)
(***************************************************************************)
EXTENDS Integers, FiniteSets

CONSTANTS Identities,    \* (source kind, source ID, connection ID, event ID)
          Payloads,      \* canonical payloads
          Services,      \* service IDs a message may be bound to
          None,          \* the empty service ID; no identity was refused
          Readers,       \* clients that list the inbox page by page
          MaxInboxSize,  \* notifications.MaxInboxSize
          Retention,     \* retentionDays, in ticks of the clock
          PageLimit,     \* ListOptions.Limit of the modelled readers
          MaxLag,        \* bound: how stale a request's clock reading may be
          MaxClock,      \* bound on the clock
          MaxSequence    \* bound on insertions

ASSUME InboxAssumption ==
  /\ None \notin Identities \cup Payloads \cup Services
  /\ MaxInboxSize \in Nat \ {0}
  /\ Retention \in Nat \ {0}
  /\ PageLimit \in Nat \ {0}
  /\ MaxLag \in Nat
  /\ MaxClock \in Nat
  /\ MaxSequence \in Nat

VARIABLES clock,         \* time.Now(), in seconds
          inbox,         \* the rows of table notifications
          lastSequence,  \* sqlite_sequence of that table
          lastID,        \* uuids drawn so far
          marking,       \* IDs for which MarkRead has passed its Get
          scan,          \* each reader's progress through the pages
          refused        \* the identity the last call got ErrCapacity for

vars == <<clock, inbox, lastSequence, lastID, marking, scan, refused>>

Unread == -1

Row == [seq : Nat, id : Nat, identity : Identities, payload : Payloads,
        receivedAt : Nat, readAt : Nat \cup {Unread},
        service : Services \cup {None}]

Scan == [active : BOOLEAN, unreadOnly : BOOLEAN, before : Nat,
         seen : SUBSET Nat, owed : SUBSET Nat, start : Nat]

TypeOK ==
  /\ clock \in Nat
  /\ inbox \in SUBSET Row
  /\ lastSequence \in Nat
  /\ lastID \in Nat
  /\ marking \in SUBSET Nat
  /\ scan \in [Readers -> Scan]
  /\ refused \in Identities \cup {None}
-----------------------------------------------------------------------------
NoScan == [active |-> FALSE, unreadOnly |-> FALSE, before |-> 0,
           seen |-> {}, owed |-> {}, start |-> 0]

Init ==
  /\ clock = 0
  /\ inbox = {}
  /\ lastSequence = 0
  /\ lastID = 0
  /\ marking = {}
  /\ scan = [c \in Readers |-> NoScan]
  /\ refused = None

(***************************************************************************)
(* Clock readings a request can hold when its transaction runs, and the     *)
(* cutoff computed from one (Service.cutoff).                               *)
(***************************************************************************)
Readings == {t \in 0..clock : clock - t <= MaxLag}

Cutoff(t) == t - Retention

Held(i) == {r \in inbox : r.identity = i}

\* Fault: the boundary second is lost.
UnexpiredExclusive(S, cutoff) == {r \in S : r.receivedAt > cutoff}

Unexpired(S, cutoff) == {r \in S : r.receivedAt >= cutoff}

\* FillNotificationService: an empty service ID is filled, another one kept.
FillService(r, s) == [r EXCEPT !.service = IF @ = None THEN s ELSE @]

Replace(r, new) == (inbox \ {r}) \cup {new}
-----------------------------------------------------------------------------
(***************************************************************************)
(* Publish.  The identity is resolved first; a retained one is replayed or   *)
(* is a conflict and never reaches the capacity check.                       *)
(***************************************************************************)
ServicesDiffer(r, s) == r.service # None /\ s # None /\ r.service # s

PublishConflict(i, p, s, cutoff) ==
  /\ \E r \in Unexpired(Held(i), cutoff) : r.payload # p \/ ServicesDiffer(r, s)
  /\ refused' = None
  /\ UNCHANGED <<clock, inbox, lastSequence, lastID, marking, scan>>

PublishReplay(i, p, s, cutoff) ==
  /\ \E r \in Unexpired(Held(i), cutoff) :
       /\ r.payload = p
       /\ ~ServicesDiffer(r, s)
       /\ inbox' = Replace(r, FillService(r, s))
  /\ refused' = None
  /\ UNCHANGED <<clock, lastSequence, lastID, marking, scan>>

\* The rows left once an expired holder of the identity has been reclaimed
\* (with every other expired row), and once a full inbox has been pruned.
ReclaimedKeepsHolder(i, cutoff) == inbox  \* Fault: the holder is not removed.

Reclaimed(i, cutoff) ==
  IF Held(i) # {} THEN Unexpired(inbox, cutoff) ELSE inbox

Room(i, cutoff) ==
  IF Cardinality(Reclaimed(i, cutoff)) >= MaxInboxSize
    THEN Unexpired(Reclaimed(i, cutoff), cutoff)
    ELSE Reclaimed(i, cutoff)

\* ErrCapacity rolls the transaction back: the pruned rows return.
PublishCapacity(i, cutoff) ==
  /\ Unexpired(Held(i), cutoff) = {}
  /\ Cardinality(Room(i, cutoff)) >= MaxInboxSize
  /\ refused' = i
  /\ UNCHANGED <<clock, inbox, lastSequence, lastID, marking, scan>>

Insert(rows, i, p, s, now) ==
  /\ lastSequence < MaxSequence
  /\ lastSequence' = lastSequence + 1
  /\ lastID' = lastID + 1
  /\ inbox' = rows \cup
       {[seq |-> lastSequence', id |-> lastID', identity |-> i, payload |-> p,
         receivedAt |-> now, readAt |-> Unread, service |-> s]}
  /\ refused' = None
  /\ UNCHANGED <<clock, marking, scan>>

PublishAccept(i, p, s, now, cutoff) ==
  /\ Unexpired(Held(i), cutoff) = {}
  /\ Cardinality(Room(i, cutoff)) < MaxInboxSize
  /\ Insert(Room(i, cutoff), i, p, s, now)

\* Service.Publish reads the clock for the receipt and again for the cutoff.
Publish(i, p, s) ==
  \E now \in Readings : \E t \in now..clock :
    \/ PublishConflict(i, p, s, Cutoff(t))
    \/ PublishReplay(i, p, s, Cutoff(t))
    \/ PublishCapacity(i, Cutoff(t))
    \/ PublishAccept(i, p, s, now, Cutoff(t))

(***************************************************************************)
(* BindService enriches a retained message; it never inserts one, and its    *)
(* errors (ErrNotFound, ErrConflict) change nothing.                         *)
(***************************************************************************)
BindService(i, s) ==
  /\ \E t \in Readings : \E r \in Unexpired(Held(i), Cutoff(t)) :
       /\ ~ServicesDiffer(r, s)
       /\ inbox' = Replace(r, FillService(r, s))
  /\ refused' = None
  /\ UNCHANGED <<clock, lastSequence, lastID, marking, scan>>

(***************************************************************************)
(* MarkRead looks the message up first (Service.Get, which hides expired     *)
(* rows) and marks it in a later transaction, which looks it up again.        *)
(***************************************************************************)
MarkReadGet(id) ==
  /\ id \notin marking
  /\ \E r \in inbox : r.id = id /\ r.receivedAt >= Cutoff(clock)
  /\ marking' = marking \cup {id}
  /\ refused' = None
  /\ UNCHANGED <<clock, inbox, lastSequence, lastID, scan>>

\* MarkNotificationRead: read_at = COALESCE(read_at, now).
SetRead(r, now) == [r EXCEPT !.readAt = IF @ = Unread THEN now ELSE @]

MarkReadCommit(id) ==
  /\ id \in marking
  /\ marking' = marking \ {id}
  /\ \E now \in Readings :
       inbox' = {IF r.id = id THEN SetRead(r, now) ELSE r : r \in inbox}
  /\ refused' = None
  /\ UNCHANGED <<clock, lastSequence, lastID, scan>>

MarkAllRead ==
  /\ \E now \in Readings : \E t \in now..clock :
       inbox' = {IF r.receivedAt >= Cutoff(t) THEN SetRead(r, now) ELSE r :
                 r \in inbox}
  /\ refused' = None
  /\ UNCHANGED <<clock, lastSequence, lastID, marking, scan>>

\* DELETE FROM notifications; sqlite_sequence is kept.
ClearAll ==
  /\ inbox' = {}
  /\ refused' = None
  /\ UNCHANGED <<clock, lastSequence, lastID, marking, scan>>

\* The retention worker (runNotificationRetention) calls PruneExpired.
Sweep ==
  /\ \E t \in Readings : inbox' = Unexpired(inbox, Cutoff(t))
  /\ refused' = None
  /\ UNCHANGED <<clock, lastSequence, lastID, marking, scan>>

(***************************************************************************)
(* List, called by a reader that follows NextBefore until it is zero.        *)
(* owed and start are history: the messages in the inbox, and the last       *)
(* uuid drawn, when the first page was read.                                 *)
(***************************************************************************)
Listed(before, unreadOnly, since) ==
  {r \in inbox : /\ before = 0 \/ r.seq < before
                 /\ unreadOnly => r.readAt = Unread
                 /\ r.receivedAt >= since}

\* ORDER BY sequence DESC LIMIT limit
Page(M) == {r \in M : Cardinality({q \in M : q.seq > r.seq}) < PageLimit}

IsNextBeforeDropped(n, M) ==  \* Fault: the cursor is the first row cut off.
  IF Cardinality(M) > PageLimit
    THEN \E r \in M \ Page(M) :
           n = r.seq /\ \A q \in M \ Page(M) : r.seq >= q.seq
    ELSE n = 0

\* The sequence of the page's last row if there are more rows, else zero.
IsNextBefore(n, M) ==
  IF Cardinality(M) > PageLimit
    THEN \E r \in Page(M) : n = r.seq /\ \A q \in Page(M) : r.seq <= q.seq
    ELSE n = 0

List(c, before, unreadOnly, seen, owed, start) ==
  /\ \E t \in Readings :
       LET M == Listed(before, unreadOnly, Cutoff(t)) IN
         \E n \in 0..lastSequence :
           /\ IsNextBefore(n, M)
           /\ scan' = [scan EXCEPT ![c] =
                [active |-> n # 0, unreadOnly |-> unreadOnly, before |-> n,
                 seen |-> seen \cup {r.id : r \in Page(M)},
                 owed |-> owed, start |-> start]]
  /\ refused' = None
  /\ UNCHANGED <<clock, inbox, lastSequence, lastID, marking>>

\* A first page may also be read while an older scan was left unfinished.
ListFirst(c, unreadOnly) ==
  List(c, 0, unreadOnly, {}, {r.id : r \in inbox}, lastID)

ListNext(c) ==
  /\ scan[c].active
  /\ List(c, scan[c].before, scan[c].unreadOnly, scan[c].seen, scan[c].owed,
          scan[c].start)

Tick ==
  /\ clock < MaxClock
  /\ clock' = clock + 1
  /\ refused' = None
  /\ UNCHANGED <<inbox, lastSequence, lastID, marking, scan>>
-----------------------------------------------------------------------------
Next ==
  \/ \E i \in Identities, p \in Payloads, s \in Services \cup {None} :
       Publish(i, p, s)
  \/ \E i \in Identities, s \in Services : BindService(i, s)
  \/ \E id \in 1..lastID : MarkReadGet(id) \/ MarkReadCommit(id)
  \/ MarkAllRead
  \/ ClearAll
  \/ Sweep
  \/ \E c \in Readers, unreadOnly \in BOOLEAN : ListFirst(c, unreadOnly)
  \/ \E c \in Readers : ListNext(c)
  \/ Tick

Spec == Init /\ [][Next]_vars

-----------------------------------------------------------------------------
(***************************************************************************)
(* Invariants.                                                              *)
(***************************************************************************)

\* Publish never inserts a second row for an identity, so the UNIQUE
\* constraint never turns a publication into an internal error.
UniqueIdentities ==
  \A r, q \in inbox :
    (r.identity = q.identity \/ r.id = q.id \/ r.seq = q.seq) => r = q

\* The inbox never holds more than MaxInboxSize messages.
WithinCapacity == IsFiniteSet(inbox) /\ Cardinality(inbox) <= MaxInboxSize

\* A reader's pages together miss no message that was in the inbox when the
\* first page was read and that is still there and still to be shown.
ScanMissesNothing ==
  \A c \in Readers : \A r \in inbox :
    (/\ r.id \in scan[c].owed
     /\ scan[c].unreadOnly => r.readAt = Unread
     /\ r.receivedAt >= Cutoff(clock)
     /\ scan[c].active => r.seq >= scan[c].before)
    => r.id \in scan[c].seen

\* "stale page cursors cannot alias new messages": no page shows a message
\* published after the first page, and no later page can show one twice.
ScanNeverAliases ==
  \A c \in Readers :
    /\ \A id \in scan[c].seen : id <= scan[c].start
    /\ scan[c].active =>
         \A r \in inbox : r.seq < scan[c].before =>
           r.id <= scan[c].start /\ r.id \notin scan[c].seen
-----------------------------------------------------------------------------
(***************************************************************************)
(* Action properties.                                                       *)
(***************************************************************************)

\* What a message says, when it was received and which one it is never
\* change; its first read time and its first service are final.
RowsOnlyGrow ==
  [][\A r \in inbox : \A q \in inbox' : q.id = r.id =>
       /\ \A f \in {"seq", "identity", "payload", "receivedAt"} : q[f] = r[f]
       /\ r.readAt # Unread => q.readAt = r.readAt
       /\ r.service # None => q.service = r.service]_vars

\* "Identical retries return the original receipt with Accepted=false": as
\* long as a message is retained, no publication inserts another one for its
\* identity.
NoSecondCopy ==
  [][\A q \in inbox' : q.id > lastID =>
       \A r \in inbox : r.identity = q.identity => r.receivedAt < Cutoff(clock)]_vars

\* Store: "resolve an existing identity before capacity checks".  A capacity
\* error changes no row, is given only when a full inbox is retained, and
\* never for an identity that is retained.
RefusedOnlyWhenFull ==
  [][refused' # None
     => /\ inbox' = inbox
        /\ \A r \in Held(refused') : r.receivedAt < Cutoff(clock)
        /\ \E t \in Readings :
             Cardinality(Unexpired(inbox, Cutoff(t))) >= MaxInboxSize]_vars

(***************************************************************************)
(* The inbox implements the abstract inbox of module DedupInbox.            *)
(***************************************************************************)
Abstract == INSTANCE DedupInbox WITH
  Capacity <- MaxInboxSize,
  live <- {[id |-> r.id, identity |-> r.identity, payload |-> r.payload] :
           r \in inbox},
  issued <- lastID

\* Every step of the inbox accepts one message under a new ID, or drops
\* messages, or leaves the set of messages alone.
ImplementsDedupInbox == Abstract!Spec

(***************************************************************************)
(* Liveness.                                                                *)
(***************************************************************************)

=============================================================================
