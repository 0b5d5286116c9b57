------------------------- MODULE PluginWidgetProofs -------------------------
(***************************************************************************)
(* Proofs about PluginWidget, for any number of requests and any bounds.   *)
(***************************************************************************)
EXTENDS PluginWidget, TLAPS

\* The render c is of the placement revision of k and of a configuration no
\* older; nor is its observation, if one child authorised and answered it.
Covers(c, k) ==
  /\ c.placement = k.placement
  /\ c.connection >= k.connection
  /\ c.child # 0 => c.observation >= k.observation

\* What a session has: a child of its own, nothing before Configure, the row's
\* revision after it, and a status no newer than the child.
SessionInv ==
  /\ session.child <= children
  /\ session.phase # "none" => session.child # 0
  /\ session.applied = 0 \/ session.applied = conn.revision
  /\ session.phase \in {"none", "configuring"} => ~session.ready /\ ~status.ready
  /\ session.phase = "up" /\ session.ready /\ session.alive
       => session.applied = conn.revision
  /\ status.ready => /\ session.ready
                     /\ status.applied = conn.revision
                     /\ session.applied # 0 => status.obs <= session.obs

\* A child whose status is in a key has been configured, and as long as it
\* answers it has an observation no older than the key's.
StillCovers(k) ==
  k.child # 0 /\ k.child = session.child =>
    /\ session.phase # "configuring"
    /\ session.applied # 0 => k.observation <= session.obs

\* A request's key is no newer than the row, and its child is known.
KeyInv(q) ==
  calls[q].at \in Stages \ {"idle"} =>
    /\ calls[q].key \in Traced
    /\ calls[q].key.connection <= conn.revision
    /\ calls[q].key.child <= children
    /\ calls[q].at # "placed" => calls[q].key.child # 0
    /\ StillCovers(calls[q].key)

ContentInv(q) ==
  calls[q].at \in {"queried", "shown"} =>
    calls[q].content \in Traced /\ Covers(calls[q].content, calls[q].key)

CacheInv == cache # None => Covers(cache.content, cache.key)

IInv ==
  /\ TypeOK
  /\ SessionInv
  /\ CacheInv
  /\ \A q \in Requests : KeyInv(q) /\ ContentInv(q)

LEMMA InitIInv == Init => IInv
  <1> SUFFICES ASSUME Init PROVE IInv
    OBVIOUS
  <1>1. TypeOK
    BY DEF Init, TypeOK, NoSession, NotReady, Call, Idle, Stages
  <1>2. SessionInv /\ CacheInv
    BY DEF Init, SessionInv, CacheInv, NoSession, NotReady
  <1>3. \A q \in Requests : KeyInv(q) /\ ContentInv(q)
    BY DEF Init, KeyInv, ContentInv, Idle
  <1> QED
    BY <1>1, <1>2, <1>3 DEF IInv

-----------------------------------------------------------------------------
(* The API process: the calls stand still, but for those that break.        *)

\* The session's child is none or a new one; or it is the child it was, whose
\* observation only grows once it is configured.
SameOrNewChild ==
  \/ session'.child = 0
  \/ session'.child > children
  \/ /\ session'.child = session.child
     /\ session'.phase = "configuring" => session.phase = "configuring"
     /\ session'.applied # 0 =>
          \/ session.phase = "configuring"
          \/ session.applied # 0 /\ session'.obs >= session.obs

LEMMA BackendStep ==
  ASSUME IInv, Backend
  PROVE  /\ TypeOK' /\ SessionInv' /\ UNCHANGED cache
         /\ conn'.revision >= conn.revision
         /\ children' >= children
         /\ SameOrNewChild
         /\ calls' = calls \/ calls' = Broken
  <1> DEFINE Onward ==
               /\ UNCHANGED cache
               /\ conn'.revision >= conn.revision
               /\ children' >= children
               /\ SameOrNewChild
               /\ calls' = calls \/ calls' = Broken
  <1>c. TypeOK /\ SessionInv /\ Broken \in [Requests -> Call]
    BY DEF IInv, TypeOK, Broken, Call, Stages
  <1>1. CASE SessionStart
    <2>1. children + 1 \in Nat
      BY <1>c DEF TypeOK
    <2>2. TypeOK'
      BY <1>c, <1>1, <2>1 DEF TypeOK, SessionStart, NoSession
    <2>3. SessionInv'
      BY <1>c, <1>1 DEF TypeOK, SessionInv, SessionStart, NoSession
    <2>4. Onward
      BY <1>c, <1>1 DEF TypeOK, SessionStart, NoSession, SameOrNewChild
    <2> QED
      BY <2>2, <2>3, <2>4
  <1>2. CASE ConfigureOK
    <2>1. PICK n \in 1..MaxObserved :
            /\ session' = [Adopted(conn.revision, n) EXCEPT !.phase = "up",
                                                            !.ready = TRUE]
            /\ status' = [ready |-> TRUE, applied |-> conn.revision, obs |-> n]
      BY <1>2 DEF ConfigureOK
    <2>2. conn.revision \in Nat /\ n \in Nat
      BY <1>c, WidgetAssumptions DEF TypeOK
    <2>3. session' \in [phase : {"none", "configuring", "up", "closing"},
                          alive : BOOLEAN, applied : Nat, obs : Nat, ready : BOOLEAN,
                          child : Nat]
      BY <1>c, <2>1, <2>2 DEF TypeOK, Adopted
    <2>4. status' \in [ready : BOOLEAN, applied : Nat, obs : Nat]
      BY <2>1, <2>2
    <2>5. TypeOK'
      BY <1>c, <1>2, <2>3, <2>4 DEF TypeOK, ConfigureOK
    <2>6. /\ session'.phase = "up" /\ session'.ready
          /\ session'.applied = conn.revision /\ session'.obs = n
          /\ session'.child = session.child
      BY <1>c, <2>1, <2>2 DEF TypeOK, Adopted
    <2>7. SessionInv'
      BY <1>c, <1>2, <2>1, <2>2, <2>6 DEF TypeOK, SessionInv, ConfigureOK
    <2>8. Onward
      BY <1>c, <1>2, <2>6 DEF TypeOK, ConfigureOK, SameOrNewChild
    <2> QED
      BY <2>5, <2>7, <2>8
  <1>3. CASE ConfigureFails
    <2>1. CASE session' = [session EXCEPT !.phase = "up"]
      <3>1. TypeOK'
        BY <1>c, <1>3, <2>1 DEF TypeOK, ConfigureFails, NotReady
      <3>2. SessionInv' /\ Onward
        BY <1>c, <1>3, <2>1 DEF TypeOK, SessionInv, ConfigureFails, NotReady,
                                SameOrNewChild
      <3> QED
        BY <3>1, <3>2
    <2>2. CASE \E n \in 1..MaxObserved :
                 session' = [Adopted(conn.revision, n) EXCEPT !.phase = "up"]
      <3>1. PICK n \in 1..MaxObserved :
              session' = [Adopted(conn.revision, n) EXCEPT !.phase = "up"]
        BY <2>2
      <3>2. conn.revision \in Nat /\ n \in Nat
        BY <1>c, WidgetAssumptions DEF TypeOK
      <3>3. session' \in [phase : {"none", "configuring", "up", "closing"},
                          alive : BOOLEAN, applied : Nat, obs : Nat, ready : BOOLEAN,
                          child : Nat]
        BY <1>c, <3>1, <3>2 DEF TypeOK, Adopted
      <3>4. TypeOK'
        BY <1>c, <1>3, <3>3 DEF TypeOK, ConfigureFails, NotReady
      <3>5. /\ session'.phase = "up" /\ session'.applied = conn.revision
            /\ session'.ready = session.ready /\ session'.child = session.child
        BY <1>c, <3>1, <3>2 DEF TypeOK, Adopted
      <3>6. SessionInv' /\ Onward
        BY <1>c, <1>3, <3>5 DEF TypeOK, SessionInv, ConfigureFails, NotReady,
                                SameOrNewChild
      <3> QED
        BY <3>4, <3>6
    <2> QED
      BY <1>3, <2>1, <2>2 DEF ConfigureFails
  <1>4. CASE Collect
    <2>1. PICK n \in (session.obs + 1)..MaxObserved :
            session' = [session EXCEPT !.obs = n]
      BY <1>4 DEF Collect
    <2>2. n \in Nat /\ n > session.obs
      BY <1>c, WidgetAssumptions DEF TypeOK
    <2>3. TypeOK'
      BY <1>c, <1>4, <2>1, <2>2 DEF TypeOK, Collect
    <2>4. SessionInv'
      BY <1>c, <1>4, <2>1, <2>2 DEF TypeOK, SessionInv, Collect
    <2>5. Onward
      BY <1>c, <1>4, <2>1, <2>2 DEF TypeOK, Collect, SameOrNewChild
    <2> QED
      BY <2>3, <2>4, <2>5
  <1>5. CASE PollStatus
    <2>1. TypeOK'
      <3>1. status' \in [ready : BOOLEAN, applied : Nat, obs : Nat]
        <4>1. session.applied \in Nat /\ session.obs \in Nat
          BY <1>c DEF TypeOK
        <4>2. NotReady \in [ready : BOOLEAN, applied : Nat, obs : Nat]
          BY DEF NotReady
        <4>3. [ready |-> TRUE, applied |-> session.applied, obs |-> session.obs]
                \in [ready : BOOLEAN, applied : Nat, obs : Nat]
          BY <4>1
        <4> QED
          BY <1>5, <4>2, <4>3 DEF PollStatus
      <3> QED
        BY <1>c, <1>5, <3>1 DEF TypeOK, PollStatus
    <2>2. SessionInv'
      BY <1>c, <1>5 DEF TypeOK, SessionInv, PollStatus, NotReady
    <2>3. Onward
      BY <1>c, <1>5 DEF TypeOK, SessionInv, PollStatus, NotReady, SameOrNewChild
    <2> QED
      BY <2>1, <2>2, <2>3
  <1>6. CASE ChildExits
    <2>1. TypeOK'
      BY <1>c, <1>6 DEF TypeOK, ChildExits
    <2>2. SessionInv'
      BY <1>c, <1>6 DEF TypeOK, SessionInv, ChildExits
    <2>3. Onward
      BY <1>c, <1>6 DEF TypeOK, SessionInv, ChildExits, SameOrNewChild
    <2> QED
      BY <2>1, <2>2, <2>3
  <1>7. CASE Withdraw
    <2>1. TypeOK'
      BY <1>c, <1>7 DEF TypeOK, Withdraw
    <2>2. SessionInv'
      BY <1>c, <1>7 DEF TypeOK, SessionInv, Withdraw
    <2>3. Onward
      BY <1>c, <1>7 DEF TypeOK, SessionInv, Withdraw, SameOrNewChild
    <2> QED
      BY <2>1, <2>2, <2>3
  <1>8. CASE SessionEnds
    <2>1. TypeOK'
      BY <1>c, <1>8 DEF TypeOK, SessionEnds, NoSession, NotReady
    <2>2. SessionInv'
      BY <1>c, <1>8 DEF TypeOK, SessionInv, SessionEnds, NoSession, NotReady
    <2>3. Onward
      BY <1>c, <1>8 DEF TypeOK, SessionInv, SessionEnds, NoSession, NotReady, SameOrNewChild
    <2> QED
      BY <2>1, <2>2, <2>3
  <1>9. CASE Restart
    <2>1. TypeOK'
      <3>1. conn.revision + 1 \in Nat \ {0}
        BY <1>c DEF TypeOK
      <3>2. conn' \in [revision : Nat \ {0}, enabled : BOOLEAN]
        <4>1. \A on \in BOOLEAN :
                 [revision |-> conn.revision + 1, enabled |-> on]
                   \in [revision : Nat \ {0}, enabled : BOOLEAN]
          BY <3>1
        <4>2. conn' \in Reconciled(conn)
          BY <1>9 DEF Restart
        <4>3. \/ conn' = conn
              \/ conn' = [revision |-> conn.revision + 1, enabled |-> TRUE]
              \/ conn' = [revision |-> conn.revision + 1, enabled |-> FALSE]
          BY <4>2 DEF Reconciled
        <4> QED
          BY <1>c, <4>1, <4>3 DEF TypeOK
      <3> QED
        BY <1>c, <1>9, <3>2 DEF TypeOK, Restart, NoSession, NotReady
    <2>2. SessionInv'
      BY <1>c, <1>9 DEF TypeOK, SessionInv, Restart, Reconciled, NoSession, NotReady
    <2>3. Onward
      BY <1>c, <1>9 DEF TypeOK, SessionInv, Restart, Reconciled, NoSession, NotReady, SameOrNewChild
    <2> QED
      BY <2>1, <2>2, <2>3
  <1> QED
    BY <1>1, <1>2, <1>3, <1>4, <1>5, <1>6, <1>7, <1>8, <1>9 DEF Backend

LEMMA BackendIInv == IInv /\ Backend => IInv'
  <1> SUFFICES ASSUME IInv, Backend PROVE IInv'
    OBVIOUS
  <1>1. TypeOK' /\ SessionInv'
    BY BackendStep
  <1>2. CacheInv'
    BY BackendStep DEF IInv, CacheInv
  <1>3. ASSUME NEW q \in Requests PROVE KeyInv(q)' /\ ContentInv(q)'
    <2>1. /\ calls'[q].key = calls[q].key /\ calls'[q].content = calls[q].content
          /\ \/ calls'[q].at = calls[q].at
             \/ calls[q].at = "querying" /\ calls'[q].at = "granted"
      <3>1. calls \in [Requests -> Call]
        BY DEF IInv, TypeOK
      <3>2. CASE calls' = calls
        BY <3>2
      <3>3. CASE calls' = Broken
        BY <3>1, <3>3 DEF Broken, Call
      <3> QED
        BY <3>2, <3>3, BackendStep
    <2>2. ContentInv(q)'
      BY <2>1 DEF IInv, ContentInv
    <2>3. ASSUME calls'[q].at # "idle"
          PROVE  KeyInv(q)'
      <3>0. calls[q].at \in Stages \ {"idle"}
        BY <2>1, <2>3 DEF IInv, TypeOK, Call
      <3>k. PICK k : k = calls[q].key
        OBVIOUS
      <3>1. /\ k \in Traced /\ k.connection <= conn.revision /\ k.child <= children
            /\ calls[q].at # "placed" => k.child # 0
            /\ StillCovers(k)
        BY <3>0, <3>k DEF IInv, KeyInv
      <3>2. k.connection \in Nat /\ k.child \in Nat /\ k.observation \in Nat
        BY <3>1 DEF Traced
      <3>3. /\ conn.revision \in Nat /\ conn'.revision \in Nat
            /\ children \in Nat /\ children' \in Nat
            /\ session.obs \in Nat /\ session'.obs \in Nat
            /\ session.child \in Nat /\ session'.child \in Nat
        BY BackendStep DEF IInv, TypeOK
      <3>4. /\ conn'.revision >= conn.revision /\ children' >= children
            /\ SameOrNewChild
        BY BackendStep
      <3>5. calls'[q].key = k
        BY <2>1, <3>k
      <3>6. calls'[q].at # "placed" => calls[q].at # "placed"
        BY <2>1
      <3>7. StillCovers(k)'
        BY <3>1, <3>2, <3>3, <3>4 DEF StillCovers, SameOrNewChild
      <3>8. k.connection <= conn'.revision /\ k.child <= children'
        BY <3>1, <3>2, <3>3, <3>4
      <3> QED
        BY <3>1, <3>5, <3>6, <3>7, <3>8 DEF KeyInv, StillCovers
    <2>4. KeyInv(q)'
      BY <2>3 DEF KeyInv
    <2> QED
      BY <2>2, <2>4
  <1> QED
    BY <1>1, <1>2, <1>3 DEF IInv

-----------------------------------------------------------------------------
(* The widget requests: each step changes its own call, and perhaps the     *)
(* cache.                                                                   *)

LEMMA OneCall ==
  ASSUME IInv, NEW q \in Requests, NEW call \in Call, Step(q, call),
         UNCHANGED <<conn, session, status, placement, children>>,
         cache' \in Renders \cup {None}, CacheInv',
         KeyInv(q)', ContentInv(q)'
  PROVE  IInv'
  <1>1. TypeOK'
    BY DEF IInv, TypeOK, Step
  <1>2. SessionInv'
    BY DEF IInv, SessionInv
  <1>3. ASSUME NEW p \in Requests PROVE KeyInv(p)' /\ ContentInv(p)'
    <2>1. CASE p = q
      BY <2>1
    <2>2. CASE p # q
      <3>1. calls'[p] = calls[p]
        BY <2>2 DEF IInv, TypeOK, Step
      <3> QED
        BY <3>1 DEF IInv, KeyInv, StillCovers, ContentInv
    <2> QED
      BY <2>1, <2>2
  <1> QED
    BY <1>1, <1>2, <1>3 DEF IInv

\* What a granted request's key is compared with.
LEMMA FreshKey ==
  ASSUME IInv, NEW q \in Requests, calls[q].at = "placed", Granted
  PROVE  /\ Key(q) \in Traced
         /\ Key(q).connection <= conn.revision
         /\ Key(q).child <= children
         /\ Key(q).child # 0
         /\ StillCovers(Key(q))
  <1>1. calls[q].key \in Traced
    BY DEF IInv, KeyInv, Stages
  <1>2. /\ conn.revision \in Nat /\ status.obs \in Nat /\ session.child \in Nat
        /\ calls[q].key.placement \in Nat
    BY <1>1 DEF IInv, TypeOK, Traced
  <1>3. /\ session.child <= children /\ session.child # 0
        /\ session.phase # "configuring"
        /\ session.applied # 0 => status.obs <= session.obs
    BY DEF IInv, SessionInv, Granted, Ready
  <1>4. /\ Key(q).connection = conn.revision /\ Key(q).child = session.child
        /\ Key(q).observation = status.obs
    BY DEF Key
  <1>5. Key(q) \in Traced
    BY <1>2 DEF Key, Traced
  <1> QED
    BY <1>2, <1>3, <1>4, <1>5 DEF StillCovers

LEMMA WidgetIInv ==
  ASSUME IInv, NEW q \in Requests, Widget(q)
  PROVE  IInv'
  <1>t. /\ calls \in [Requests -> Call] /\ calls[q] \in Call
        /\ cache \in Renders \cup {None}
        /\ conn.revision \in Nat /\ children \in Nat /\ session.obs \in Nat /\ session.child \in Nat
        /\ session.applied \in Nat /\ placement.revision \in Nat
    BY DEF IInv, TypeOK
  <1>i. SessionInv /\ CacheInv /\ KeyInv(q) /\ ContentInv(q)
    BY DEF IInv
  <1>n. Idle \in Call
    BY DEF Idle, Call, Stages
  <1>0. ASSUME Step(q, Idle), UNCHANGED <<conn, session, status, placement, cache, children>>
        PROVE  IInv'
    <2>1. calls'[q] = Idle
      BY <1>t, <1>0 DEF Step
    <2>2. KeyInv(q)' /\ ContentInv(q)'
      BY <2>1 DEF KeyInv, ContentInv, Idle
    <2>3. CacheInv'
      BY <1>0, <1>i DEF CacheInv
    <2> QED
      BY <1>0, <1>n, <1>t, <2>2, <2>3, OneCall
  <1>s. ASSUME NEW c \in Call, Step(q, c), c.key = calls[q].key,
               calls[q].at \in Stages \ {"idle", "placed"}, c.at # "placed",
               UNCHANGED <<conn, session, status, placement, children>>,
               cache' \in Renders \cup {None}, CacheInv',
               c.at \in {"queried", "shown"} => c.content \in Traced /\ Covers(c.content, c.key)
        PROVE  IInv'
    <2>1. calls'[q] = c
      BY <1>t, <1>s DEF Step
    <2>2. KeyInv(q)' /\ ContentInv(q)'
      BY <1>i, <1>s, <2>1 DEF KeyInv, StillCovers, ContentInv
    <2> QED
      BY <1>s, <2>2, OneCall
  <1>h. ASSUME calls[q].at \in Stages \ {"idle", "placed"}, Matches(q),
               Step(q, [calls[q] EXCEPT !.at = "shown", !.content = cache.content]),
               UNCHANGED <<conn, session, status, placement, cache, children>>
        PROVE  IInv'
    <2> DEFINE c == [calls[q] EXCEPT !.at = "shown", !.content = cache.content]
    <2>1. cache.content \in Traced /\ Covers(cache.content, calls[q].key)
      BY <1>t, <1>i, <1>h DEF Matches, Untraced, Renders, CacheInv, Covers
    <2>2. c \in Call /\ c.at = "shown" /\ c.key = calls[q].key /\ c.content = cache.content
      BY <1>t, <2>1 DEF Call, Stages
    <2>3. CacheInv'
      BY <1>i, <1>h DEF CacheInv
    <2> QED
      BY <1>h, <1>s, <1>t, <2>1, <2>2, <2>3
  <1>1. CASE ReadPlacement(q)
    <2> DEFINE k == [NoRevs EXCEPT !.placement = placement.revision]
               c == [at |-> "placed", content |-> None, key |-> k]
    <2>1. k \in Traced /\ k.connection = 0 /\ k.child = 0
      BY <1>t DEF NoRevs, Traced
    <2>2. c \in Call /\ c.at = "placed" /\ c.key = k
      BY <2>1 DEF Call, Stages
    <2>3. Step(q, c) /\ UNCHANGED <<conn, session, status, placement, cache, children>>
      BY <1>1 DEF ReadPlacement
    <2>4. calls'[q] = c
      BY <1>t, <2>3 DEF Step
    <2>5. KeyInv(q)' /\ ContentInv(q)'
      <3>1. calls'[q].key = k /\ calls'[q].at = "placed"
        BY <2>2, <2>4
      <3>2. k \in Traced /\ k.child = 0 /\ k.connection <= conn'.revision /\ k.child <= children'
        BY <1>t, <2>1, <2>3
      <3> HIDE DEF k
      <3> QED
        BY <3>1, <3>2 DEF KeyInv, StillCovers, ContentInv
    <2>6. CacheInv'
      BY <1>i, <2>3 DEF CacheInv
    <2> QED
      BY <1>t, <2>2, <2>3, <2>5, <2>6, OneCall
  <1>2. CASE ReadGrants(q)
    <2>1. CASE ~Granted
      BY <1>0, <1>2, <2>1 DEF ReadGrants
    <2>2. CASE Granted
      <3> DEFINE c == [calls[q] EXCEPT !.at = "granted", !.key = Key(q)]
      <3>1. calls[q].at = "placed" /\ Step(q, c)
            /\ UNCHANGED <<conn, session, status, placement, cache, children>>
        BY <1>2, <2>2 DEF ReadGrants, At
      <3>2. c \in Call /\ c.at = "granted" /\ c.key = Key(q)
        BY <1>t, <2>2, <3>1, FreshKey DEF Call, Stages
      <3>3. calls'[q] = c
        BY <1>t, <3>1 DEF Step
      <3>4. KeyInv(q)' /\ ContentInv(q)'
        <4>1. PICK k : k = Key(q)
          OBVIOUS
        <4>2. /\ k \in Traced /\ k.connection <= conn.revision
              /\ k.child <= children /\ k.child # 0 /\ StillCovers(k)
          BY <2>2, <3>1, <4>1, FreshKey
        <4>3. calls'[q].at = "granted" /\ calls'[q].key = k
          BY <3>2, <3>3, <4>1
        <4> QED
          BY <3>1, <4>2, <4>3 DEF KeyInv, StillCovers, ContentInv
      <3>5. CacheInv'
        BY <1>i, <3>1 DEF CacheInv
      <3> QED
        BY <1>t, <3>1, <3>2, <3>4, <3>5, OneCall
    <2> QED
      BY <2>1, <2>2
  <1>3. CASE ShowCached(q)
    BY <1>h, <1>3 DEF ShowCached, At, Stages
  <1>4. CASE NoUI(q)
    BY <1>0, <1>4 DEF NoUI
  <1>5. CASE QuerySnapshot(q)
    <2> DEFINE c == [calls[q] EXCEPT !.at = "querying"]
    <2>1. c \in Call /\ c.key = calls[q].key /\ c.at = "querying"
      BY <1>t DEF Call, Stages
    <2>2. CacheInv'
      BY <1>5, <1>i DEF CacheInv, QuerySnapshot
    <2> QED
      BY <1>5, <1>s, <1>t, <2>1, <2>2 DEF QuerySnapshot, At, Stages
  <1>6. CASE QueryAnswers(q)
    <2> DEFINE n == [connection |-> session.applied,
                     placement |-> calls[q].key.placement,
                     observation |-> session.obs,
                     child |-> IF calls[q].key.child = session.child
                               THEN session.child ELSE 0]
               c == [calls[q] EXCEPT !.at = "queried", !.content = n]
    <2>1. calls[q].at = "querying" /\ session.applied # 0 /\ Step(q, c)
          /\ UNCHANGED <<conn, session, status, placement, cache, children>>
      BY <1>6 DEF QueryAnswers, At
    <2>2. /\ calls[q].key \in Traced
          /\ calls[q].key.child # 0
          /\ calls[q].key.connection <= session.applied
          /\ calls[q].key.child = session.child => calls[q].key.observation <= session.obs
      BY <1>i, <2>1 DEF KeyInv, StillCovers, Stages, SessionInv
    <2>3. n \in Traced /\ Covers(n, calls[q].key)
      BY <1>t, <2>2 DEF Traced, Covers
    <2>4. c \in Call /\ c.at = "queried" /\ c.key = calls[q].key /\ c.content = n
      BY <1>t, <2>3 DEF Call, Stages
    <2>5. CacheInv'
      BY <1>i, <2>1 DEF CacheInv
    <2> QED
      BY <1>s, <1>t, <2>1, <2>3, <2>4, <2>5 DEF Stages
  <1>7. CASE Rendered(q)
    <2> DEFINE r == [key |-> Untraced(q), content |-> calls[q].content]
               c == [calls[q] EXCEPT !.at = "shown"]
    <2>1. calls[q].at = "queried" /\ Step(q, c) /\ cache' = r
          /\ UNCHANGED <<conn, session, status, placement, children>>
      BY <1>7 DEF Rendered, At
    <2>2. /\ calls[q].key \in Traced /\ calls[q].content \in Traced
          /\ Covers(calls[q].content, calls[q].key)
      BY <1>i, <2>1 DEF KeyInv, ContentInv, Stages
    <2>3. r \in Renders /\ Covers(r.content, r.key)
      BY <2>2 DEF Renders, Revs, Traced, Untraced, Covers
    <2>4. c \in Call /\ c.at = "shown" /\ c.key = calls[q].key /\ c.content = calls[q].content
      BY <1>t DEF Call, Stages
    <2>5. CacheInv'
      BY <2>1, <2>2, <2>3 DEF CacheInv
    <2> QED
      BY <1>s, <2>1, <2>2, <2>3, <2>4, <2>5 DEF Stages
  <1>8. CASE RenderFails(q)
    <2>1. CASE Matches(q)
      BY <1>8, <1>h, <2>1 DEF RenderFails, Stages
    <2>2. CASE ~Matches(q)
      BY <1>0, <1>8, <2>2 DEF RenderFails
    <2> QED
      BY <2>1, <2>2
  <1>9. CASE Finish(q)
    BY <1>0, <1>9 DEF Finish
  <1> QED
    BY <1>1, <1>2, <1>3, <1>4, <1>5, <1>6, <1>7, <1>8, <1>9 DEF Widget

-----------------------------------------------------------------------------
LEMMA PlacementIInv ==
  ASSUME IInv, EditPlacement \/ DeletePlacement \/ CreatePlacement
  PROVE  IInv'
  <1>1. /\ placement' \in [revision : Nat, enabled : BOOLEAN]
        /\ UNCHANGED <<conn, session, status, cache, calls, children>>
    <2>1. placement.revision + 1 \in Nat
      BY DEF IInv, TypeOK
    <2>2. CASE EditPlacement
      BY <2>1, <2>2 DEF EditPlacement
    <2>3. CASE DeletePlacement
      BY <2>3 DEF DeletePlacement
    <2>4. CASE CreatePlacement
      BY <2>4 DEF CreatePlacement
    <2> QED
      BY <2>2, <2>3, <2>4
  <1> QED
    BY <1>1 DEF IInv, TypeOK, SessionInv, CacheInv, KeyInv, StillCovers, ContentInv

LEMMA EvictIInv ==
  ASSUME IInv, Evict
  PROVE  IInv'
  BY DEF Evict, IInv, TypeOK, SessionInv, CacheInv, KeyInv, StillCovers, ContentInv

LEMMA StepIInv == IInv /\ [Next]_vars => IInv'
  <1> SUFFICES ASSUME IInv, [Next]_vars PROVE IInv'
    OBVIOUS
  <1>1. CASE UNCHANGED vars
    BY <1>1 DEF vars, IInv, TypeOK, SessionInv, CacheInv, KeyInv, StillCovers, ContentInv
  <1>2. CASE \E q \in Requests : Widget(q)
    BY <1>2, WidgetIInv
  <1> QED
    BY <1>1, <1>2, BackendIInv, PlacementIInv, EvictIInv DEF Next

(* The inductive invariant: a session's status is no newer than its child; *)
(* a request's key names no newer configuration than the row has, nor a    *)
(* newer observation than its child, as long as that answers; and no       *)
(* answer or cached render falls behind its key where one child gave both. *)
THEOREM Invariance == Spec => []IInv
  BY InitIInv, StepIInv, PTL DEF Spec

(* The state of the widget path has its type: rows, session, status, cache *)
(* and requests.                                                           *)
THEOREM TypeCorrect == Spec => []TypeOK
  BY Invariance, PTL DEF IInv

(* A request never shows HTML of another placement revision, nor of a      *)
(* configuration older than the descriptor it was authorised by; nor, when *)
(* the same child authorised and answered the render, of an older          *)
(* observation: for any number of requests, restarts, children and         *)
(* observations.  Children may reuse one another's observation revisions   *)
(* (PersistentWidget, retained, Runtime.Query).                            *)
THEOREM NeverStale == Spec => []ShownNotStale
  <1>1. IInv => ShownNotStale
    BY DEF IInv, KeyInv, ContentInv, Covers, Stages, ShownNotStale
  <1> QED
    BY <1>1, Invariance, PTL

(* Grants are published only for a connection whose child has confirmed    *)
(* the configuration of the row (Runtime.session, CachedStatus,            *)
(* Descriptors).                                                           *)
THEOREM OnlyConfiguredGranted == Spec => []GrantsConfigured
  <1>1. IInv => GrantsConfigured
    BY DEF IInv, TypeOK, SessionInv, GrantsConfigured, Ready
  <1> QED
    BY <1>1, Invariance, PTL

=============================================================================
