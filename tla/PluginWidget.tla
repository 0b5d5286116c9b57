---------------------------- MODULE PluginWidget ----------------------------
(***************************************************************************)
(* A plugin widget on the home page, from the backend child to the HTML.   *)
(* The API process configures a backend child once per session, polls its  *)
(* status into a cache every five seconds and publishes grants from that   *)
(* cache (Runtime.session, CachedStatus, Service.Descriptors).  The BFF    *)
(* answers a widget request in several steps: it reads the placement, then *)
(* the grants, and then serves its cached render or has the UI child       *)
(* render again, which queries the backend through the API                 *)
(* (Registry.PersistentWidget, Runtime.Query).  Children die, sessions     *)
(* end, the API process restarts with another configuration and the        *)
(* placement is edited between any two of these steps.                     *)
(*                                                                         *)
(* One connection and one placement.  Queries and HTML are abstracted to   *)
(* the revisions they come from; the grants of a connection are a function *)
(* of its revision, which its configuration's digest decides.  The number  *)
(* of an observation is the plugin's own choice: the host checks only that *)
(* it is one, so another child may use it again.                           *)
(***************************************************************************)
EXTENDS Integers, FiniteSets

CONSTANTS Requests,        \* widget requests under way in the BFF
          None,
          MaxRevision,     \* bound on the connection's revision
          MaxPlacement,    \* bound on the placement's revision
          MaxObserved,     \* bound on a child's observation revisions
          MaxChildren      \* bound on the backend children started

ASSUME WidgetAssumptions ==
  /\ MaxRevision \in Nat \ {0} /\ MaxPlacement \in Nat \ {0}
  /\ MaxObserved \in Nat \ {0} /\ MaxChildren \in Nat \ {0}

VARIABLES
  conn,       \* row of plugin_connections: revision, enabled
  session,    \* Runtime.session: its place, the child and c.ready
  status,     \* c.status: ready, appliedRevision, observationRevision
  placement,  \* row of plugin_placements: revision, enabled; 0 when absent
  cache,      \* Registry.cache of the placement
  calls,      \* the requests under way
  children    \* the backend children started so far, each with its number

vars == <<conn, session, status, placement, cache, calls, children>>

\* The revisions of a cache key.
Revs == [connection : Nat, placement : Nat, observation : Nat]

\* The revisions of a request's key, or those HTML was made from, with the child
\* they come from.  That is a history which nothing compares: the child whose
\* status is in the key; the child that both authorised and answered the
\* render, 0 when those were two.
Traced == [connection : Nat, placement : Nat, observation : Nat, child : Nat]

Renders == [key : Revs, content : Traced]
Stages == {"idle", "placed", "granted", "querying", "queried", "shown"}
Call == [at : Stages, key : Traced \cup {None}, content : Traced \cup {None}]
Idle == [at |-> "idle", key |-> None, content |-> None]
NoRevs == [connection |-> 0, placement |-> 0, observation |-> 0, child |-> 0]

TypeOK ==
  /\ conn \in [revision : Nat \ {0}, enabled : BOOLEAN]
  /\ session \in [phase : {"none", "configuring", "up", "closing"},
                  alive : BOOLEAN, applied : Nat, obs : Nat, ready : BOOLEAN,
                  child : Nat]
  /\ status \in [ready : BOOLEAN, applied : Nat, obs : Nat]
  /\ placement \in [revision : Nat, enabled : BOOLEAN]
  /\ cache \in Renders \cup {None}
  /\ calls \in [Requests -> Call]
  /\ children \in Nat

NoSession == [phase |-> "none", alive |-> FALSE, applied |-> 0, obs |-> 0,
              ready |-> FALSE, child |-> 0]

\* The revisions beside a status that is not ready are diagnostics only.
NotReady == [ready |-> FALSE, applied |-> 0, obs |-> 0]

Init ==
  /\ conn = [revision |-> 1, enabled |-> TRUE]
  /\ session = NoSession
  /\ status = NotReady
  /\ placement = [revision |-> 1, enabled |-> TRUE]
  /\ cache = None
  /\ calls = [q \in Requests |-> Idle]
  /\ children = 0

-----------------------------------------------------------------------------
(* The API process: Runtime.session over one backend child. *)

\* The supervisor publishes a child: session sets p.client.
SessionStart ==
  /\ session.phase = "none" /\ conn.enabled
  /\ children < MaxChildren
  /\ children' = children + 1
  /\ session' = [NoSession EXCEPT !.phase = "configuring", !.alive = TRUE,
                                  !.child = children + 1]
  /\ UNCHANGED <<conn, status, placement, cache, calls>>

\* What the child holds once it has adopted a configuration: its observation
\* has a revision of the child's choosing, perhaps one that an earlier child
\* used (the scaffold takes the configuration's).
Adopted(revision, n) == [session EXCEPT !.applied = revision, !.obs = n]

\* Configure answers with the record's revision: ready, and the status is the
\* answer.
ConfigureOK ==
  /\ session.phase = "configuring" /\ session.alive
  /\ \E n \in 1..MaxObserved :
       /\ session' = [Adopted(conn.revision, n) EXCEPT !.phase = "up",
                                                       !.ready = TRUE]
       /\ status' = [ready |-> TRUE, applied |-> conn.revision, obs |-> n]
  /\ UNCHANGED <<conn, placement, cache, calls, children>>

\* A faulty form: a rejected Configure publishes the connection all the same.
ConfigureFailsFault ==
  /\ session.phase = "configuring"
  /\ session' = [session EXCEPT !.phase = "up", !.ready = TRUE]
  /\ status' = [status EXCEPT !.ready = TRUE, !.applied = conn.revision]
  /\ UNCHANGED <<conn, placement, cache, calls, children>>

\* Configure is rejected, or its answer is lost after the child adopted it,
\* or the child is gone.  What Status says then is kept as not ready.  The
\* session goes on; Configure is not tried again in it.
ConfigureFails ==
  /\ session.phase = "configuring"
  /\ \/ session' = [session EXCEPT !.phase = "up"]
     \/ /\ session.alive
        /\ \E n \in 1..MaxObserved :
             session' = [Adopted(conn.revision, n) EXCEPT !.phase = "up"]
  /\ status' = NotReady
  /\ UNCHANGED <<conn, placement, cache, calls, children>>

\* The child observes its source.  "Observation revision changes when data or
\* reported source state changes": one child numbers what it observes upwards.
Collect ==
  /\ session.alive /\ session.applied # 0
  /\ \E n \in (session.obs + 1)..MaxObserved :
       session' = [session EXCEPT !.obs = n]
  /\ UNCHANGED <<conn, status, placement, cache, calls, children>>

\* One round of the five-second loop: the child's status, or not ready.
PollStatus ==
  /\ session.phase = "up"
  /\ \/ /\ session.alive /\ session.ready /\ session.applied = conn.revision
        /\ status' = [ready |-> TRUE, applied |-> session.applied,
                      obs |-> session.obs]
     \/ status' = NotReady
  /\ UNCHANGED <<conn, session, placement, cache, calls, children>>

\* The child's process ends by itself, and what it held is gone.
ChildExits ==
  /\ session.alive
  /\ session' = [session EXCEPT !.alive = FALSE, !.applied = 0, !.obs = 0]
  /\ UNCHANGED <<conn, status, placement, cache, calls, children>>

\* The supervisor withdraws the child: the deferred calls of session close
\* the connections in the child while p.client and c.ready still stand.
Withdraw ==
  /\ session.phase \in {"configuring", "up"}
  /\ session' = [session EXCEPT !.phase = "closing", !.applied = 0,
                                !.obs = 0]
  /\ UNCHANGED <<conn, status, placement, cache, calls, children>>

\* A query that is with a child that is closed gets an error: the render may
\* query again, or fail.
Broken == [q \in Requests |->
             IF calls[q].at = "querying" THEN [calls[q] EXCEPT !.at = "granted"]
             ELSE calls[q]]

\* The last deferred call: no client, nothing ready.  The supervisor then
\* closes the child.
SessionEnds ==
  /\ session.phase = "closing"
  /\ session' = NoSession
  /\ status' = NotReady
  /\ calls' = Broken
  /\ UNCHANGED <<conn, placement, cache, children>>

\* PluginStore.Reconcile of the deployment with the row: unchanged, changed or
\* enabled again, or omitted.
Reconciled(c) ==
  {[revision |-> c.revision + 1, enabled |-> TRUE]}
    \cup (IF c.enabled THEN {c, [revision |-> c.revision + 1, enabled |-> FALSE]}
          ELSE {c})

\* The API process is restarted: children end with it, the connections are
\* reconciled, and the runtime starts with no status.
Restart ==
  /\ conn' \in {c \in Reconciled(conn) : c.revision <= MaxRevision}
  /\ session' = NoSession
  /\ status' = NotReady
  /\ calls' = Broken
  /\ UNCHANGED <<placement, cache, children>>

-----------------------------------------------------------------------------
(* What the API serves. *)

\* Runtime.CachedStatus and Service.Descriptors: the connection is ready.
Ready == conn.enabled /\ session.phase # "none" /\ session.alive /\ status.ready

\* Source.granted: ready, with the revision applied that the row has.
Granted == Ready /\ status.applied = conn.revision

\* Runtime.Query: the child and c.ready as the lock shows them.
Queryable == conn.enabled /\ session.phase # "none" /\ session.ready /\ session.alive

-----------------------------------------------------------------------------
(* The placement, edited through the API. *)

\* PutPlacement of an existing placement: options or home selection.
EditPlacement ==
  /\ placement.revision \in 1..(MaxPlacement - 1)
  /\ \E on \in BOOLEAN :
       placement' = [revision |-> placement.revision + 1, enabled |-> on]
  /\ UNCHANGED <<conn, session, status, cache, calls, children>>

DeletePlacement ==
  /\ placement.revision # 0
  /\ placement' = [revision |-> 0, enabled |-> FALSE]
  /\ UNCHANGED <<conn, session, status, cache, calls, children>>

\* PutPlacement of a new one, under the identity it had: revision 1.
CreatePlacement ==
  /\ placement.revision = 0 /\ conn.enabled
  /\ \E on \in BOOLEAN : placement' = [revision |-> 1, enabled |-> on]
  /\ UNCHANGED <<conn, session, status, cache, calls, children>>

-----------------------------------------------------------------------------
(* The BFF: Registry.PersistentWidget. *)

At(q, stage) == calls[q].at = stage
Step(q, call) == calls' = [calls EXCEPT ![q] = call]

\* CurrentPlacement: an enabled placement, or the request is over.
ReadPlacement(q) ==
  /\ At(q, "idle")
  /\ placement.revision # 0 /\ placement.enabled
  /\ Step(q, [at |-> "placed", content |-> None,
              key |-> [NoRevs EXCEPT !.placement = placement.revision]])
  /\ UNCHANGED <<conn, session, status, placement, cache, children>>

\* The cache key: the revisions of the descriptor and of the placement read.
Key(q) == [connection |-> conn.revision, placement |-> calls[q].key.placement,
           observation |-> status.obs, child |-> session.child]

\* Source.granted answers, or fails and the request with it: nothing retained
\* is shown without current grants.
ReadGrants(q) ==
  /\ At(q, "placed")
  /\ Step(q, IF Granted THEN [calls[q] EXCEPT !.at = "granted", !.key = Key(q)]
             ELSE Idle)
  /\ UNCHANGED <<conn, session, status, placement, cache, children>>

\* A faulty form: the render of an older observation matches too.
MatchesFault(q) ==
  /\ cache # None
  /\ cache.key.placement = calls[q].key.placement
  /\ cache.key.connection = calls[q].key.connection

\* The revisions of a request's key, as the cache keeps them.
Untraced(q) == [connection |-> calls[q].key.connection,
                placement |-> calls[q].key.placement,
                observation |-> calls[q].key.observation]

\* The retained render is of this key.
Matches(q) == cache # None /\ cache.key = Untraced(q)

\* The cached render is shown: at once while the UI child runs, as retained
\* content when it does not or its render fails before or without a query.
ShowCached(q) ==
  /\ At(q, "granted") /\ Matches(q)
  /\ Step(q, [calls[q] EXCEPT !.at = "shown", !.content = cache.content])
  /\ UNCHANGED <<conn, session, status, placement, cache, children>>

\* Without a UI child, which may come and go at any time, or when its render
\* fails, and without a matching render: the request fails.
NoUI(q) ==
  /\ At(q, "granted") /\ ~Matches(q)
  /\ Step(q, Idle)
  /\ UNCHANGED <<conn, session, status, placement, cache, children>>

\* HandleWithServices: the UI child renders and queries; a plugin that resolves
\* catalog services does so although a cached render matches.  The query
\* reaches Runtime.Query through scopedServices.Query, which looks at the child
\* and c.ready under the lock and calls the child after it.
QuerySnapshot(q) ==
  /\ At(q, "granted") /\ Queryable
  /\ Step(q, [calls[q] EXCEPT !.at = "querying"])
  /\ UNCHANGED <<conn, session, status, placement, cache, children>>

\* The child answers from its observation, if it still has the connection.
QueryAnswers(q) ==
  /\ At(q, "querying")
  /\ session.alive /\ session.applied # 0
  /\ Step(q, [calls[q] EXCEPT !.at = "queried",
                !.content = [connection |-> session.applied,
                             placement |-> calls[q].key.placement,
                             observation |-> session.obs,
                             child |-> IF calls[q].key.child = session.child
                                       THEN session.child ELSE 0]])
  /\ UNCHANGED <<conn, session, status, placement, cache, children>>

\* A render that ends with status 200 replaces the placement's cached one,
\* whoever wrote that and whenever it began.
Rendered(q) ==
  /\ At(q, "queried")
  /\ cache' = [key |-> Untraced(q), content |-> calls[q].content]
  /\ Step(q, [calls[q] EXCEPT !.at = "shown"])
  /\ UNCHANGED <<conn, session, status, placement, children>>

\* A render that fails, by a query that is refused or has no answer, by the UI
\* child or by its deadline, shows the retained content of its key if there is
\* one.
RenderFails(q) ==
  /\ calls[q].at \in {"querying", "queried"}
  /\ Step(q, IF Matches(q)
             THEN [calls[q] EXCEPT !.at = "shown", !.content = cache.content]
             ELSE Idle)
  /\ UNCHANGED <<conn, session, status, placement, cache, children>>

\* The response has been sent.
Finish(q) ==
  /\ At(q, "shown")
  /\ Step(q, Idle)
  /\ UNCHANGED <<conn, session, status, placement, cache, children>>

\* 128 other placements have been rendered since: the oldest render goes.
Evict ==
  /\ cache # None
  /\ cache' = None
  /\ UNCHANGED <<conn, session, status, placement, calls, children>>

-----------------------------------------------------------------------------
Backend == \/ SessionStart \/ ConfigureOK \/ ConfigureFails \/ Collect
           \/ PollStatus \/ ChildExits \/ Withdraw \/ SessionEnds \/ Restart

Widget(q) == \/ ReadPlacement(q) \/ ReadGrants(q) \/ ShowCached(q) \/ NoUI(q)
             \/ QuerySnapshot(q) \/ QueryAnswers(q) \/ Rendered(q)
             \/ RenderFails(q) \/ Finish(q)

Next ==
  \/ Backend
  \/ EditPlacement \/ DeletePlacement \/ CreatePlacement
  \/ Evict
  \/ \E q \in Requests : Widget(q)

Spec == Init /\ [][Next]_vars

-----------------------------------------------------------------------------
(* Properties. *)

\* What a request shows, cached, retained or rendered for it, was rendered for
\* the placement revision it read and under a configuration no older than the
\* descriptor that authorised it.  When the child that authorised the request
\* also authorised and answered the render, the observation shown is no older
\* than the descriptor's either: whatever died, restarted or was edited while
\* it and other requests were under way (PersistentWidget, retained).  A key
\* tells no more: another child may use an observation revision again, and a
\* placement deleted and created again starts at revision 1 as before.
ShownNotStale ==
  \A q \in Requests : calls[q].at = "shown" =>
    LET shown == calls[q].content
        read == calls[q].key
    IN  /\ shown.placement = read.placement
        /\ shown.connection >= read.connection
        /\ shown.child = read.child => shown.observation >= read.observation

\* The API publishes grants only for a connection whose child confirmed the
\* configuration the row now has, in this session and this process; a child
\* that is being closed may still be advertised ("Grants are published only
\* after successful Configure").
GrantsConfigured ==
  Ready => /\ session.ready
           /\ status.applied = conn.revision
           /\ session.phase = "closing" \/ session.applied = conn.revision
=============================================================================
