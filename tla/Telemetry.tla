------------------------------ MODULE Telemetry ------------------------------
(***************************************************************************)
(* Host telemetry: an agent collects a batch about its machine or cluster  *)
(* every minute, stores it and publishes it to a gateway, which stores it  *)
(* the same way (cmd/balemoh/telemetry.go, internal/adapters/sqlite/       *)
(* telemetry.go, application/telemetry, adapters/federation/publisher.go,  *)
(* adapters/http/telemetry.go).                                            *)
(*                                                                         *)
(* One federated source.  The agent's clock may differ from the gateway's  *)
(* and may be set forward or back.  A batch on the wire arrives late or    *)
(* never: the publisher gives up after its deadline and does not know what *)
(* became of the request, and never sends it again.  A measurement is      *)
(* complete or partial; workloads and other contents of an observation are *)
(* left out, they are stored and shown as they are.                        *)
(***************************************************************************)
EXTENDS Integers, FiniteSets

CONSTANTS
  Nodes,       \* node names of the cluster
  Root,        \* the host that stands for the source itself, node ""
  NoRow,       \* no row of telemetry_hosts
  NoBatch,     \* the agent's loop holds no batch
  MaxHosts,    \* 128 retained hosts
  Day,         \* 24 hours, in ticks
  Minute,      \* a minute, in ticks
  Ahead,       \* 30 seconds, in ticks
  Fresh,       \* 3 minutes, in ticks
  Measured,    \* how complete the measurements of a batch are
  MaxDrift,    \* bound on the difference of the clocks
  MaxTime,     \* bound on the gateway's clock
  MaxCycles,   \* bound on the agent's cycles
  Charted      \* the stores whose samples are followed

ASSUME TelemetryAssumptions ==
  /\ IsFiniteSet(Nodes) /\ Root \notin Nodes
  /\ NoRow \notin [observed: Int, received: Int, collected: Int,
                   metrics: {"full", "partial", "none"}]
  /\ MaxHosts \in Nat \ {0} /\ Minute \in Nat \ {0} /\ Day \in Nat
  /\ Ahead \in Nat /\ Fresh \in Nat /\ MaxDrift \in Nat /\ MaxTime \in Nat
  /\ Measured \subseteq {"full", "partial"} /\ MaxCycles \in Nat
  /\ Charted \subseteq {"agent", "gateway"}

VARIABLES
  clock,    \* the gateway's clock, the measure of true time
  drift,    \* the agent's clock minus the gateway's
  hosts,    \* telemetry_hosts of the agent and of the gateway
  samples,  \* telemetry_samples: [host, minute, metrics]
  held,     \* the batch between the agent's Ingest and its publication
  wire,     \* batches sent and not yet arrived
  cycles    \* cycles of the agent so far

vars == <<clock, drift, hosts, samples, held, wire, cycles>>

Stores == {"agent", "gateway"}

Hosts == Nodes \cup {Root}

Metrics == {"full", "partial", "none"}

\* A row of telemetry_hosts; collected is the true time of the observation.
Rows == [observed: Int, received: Int, collected: Int, metrics: Metrics]

Batches == [observed: Int, collected: Int, hosts: SUBSET Hosts,
            metrics: Metrics]

Samples == [host: Hosts, minute: Int, metrics: Metrics]

\* time.Now() of the process that owns the store.
Now(store) == IF store = "agent" THEN clock + drift ELSE clock

MinuteOf(t) == t \div Minute

\* Register has inserted the root; the clocks start late enough for a day to
\* have passed.
Start == Day + MaxDrift

Init ==
  /\ clock = Start
  /\ drift = 0
  /\ hosts = [store \in Stores |->
                [h \in Hosts |->
                   IF h = Root
                   THEN [observed |-> 0, received |-> 0, collected |-> 0,
                         metrics |-> "none"]
                   ELSE NoRow]]
  /\ samples = [store \in Stores |-> {}]
  /\ held = NoBatch
  /\ wire = {}
  /\ cycles = 0

-----------------------------------------------------------------------------
(* The store. *)

Kept(store) == {h \in Hosts : hosts[store][h] # NoRow}

\* Node rows that have not been received for a day; the root is never one.
Expired(store, now) ==
  {h \in Kept(store) \ {Root} : hosts[store][h].received < now - Day}

\* The cutoff is rounded up to the next minute.
SurvivingSamplesFault(store, gone, now) ==
  {s \in samples[store] :
     s.host \notin gone /\ s.minute > MinuteOf(now - Day) + 1}

\* Rows older than the day, samples of hosts that are gone (ON DELETE CASCADE).
SurvivingSamples(store, gone, now) ==
  {s \in samples[store] : s.host \notin gone /\ s.minute >= MinuteOf(now - Day)}

\* Batch.Validate, as far as it is not about the shape of the batch.
Valid(b, now) ==
  /\ Root \in b.hosts
  /\ now - Day <= b.observed
  /\ b.observed <= now + Ahead

\* A batch as old as the last one counts as new.
SupersededFault(store, b) == b.observed < hosts[store][Root].observed

\* The batch is not newer than what the store has; Ingest ignores it.
Superseded(store, b) == b.observed <= hosts[store][Root].observed

\* The rows after the deletion of expired nodes and the upserts of the batch.
Upserted(store, b, now) ==
  [h \in Hosts |->
     IF h \in b.hosts
     THEN [observed |-> b.observed, received |-> now,
           collected |-> b.collected, metrics |-> b.metrics]
     ELSE IF h \in Expired(store, now) THEN NoRow
     ELSE hosts[store][h]]

\* The retained hosts are counted before the batch is stored.
WithinLimitFault(store, b, now) ==
  Cardinality(Kept(store) \ Expired(store, now)) <= MaxHosts

\* count(*) after the upserts.
WithinLimit(store, b, now) ==
  Cardinality({h \in Hosts : Upserted(store, b, now)[h] # NoRow}) <= MaxHosts

\* The transaction commits: the batch is valid, new and within the limit.
Commits(store, b, now) ==
  /\ Valid(b, now)
  /\ ~Superseded(store, b)
  /\ WithinLimit(store, b, now)

\* The batch is published whatever became of it in the agent's store.
SucceedsFault(store, b, now) == Valid(b, now)

\* Ingest returns no error, which is also so when the batch is ignored.
Succeeds(store, b, now) ==
  Valid(b, now) /\ (Superseded(store, b) \/ WithinLimit(store, b, now))

\* Ingest; a batch that does not commit leaves the store as it is.
Ingest(store, b) ==
  LET now == Now(store)
      minute == MinuteOf(b.observed)
  IN IF Commits(store, b, now)
     THEN /\ hosts' = [hosts EXCEPT ![store] = Upserted(store, b, now)]
          /\ samples' =
               IF store \notin Charted THEN samples
               ELSE [samples EXCEPT ![store] =
                  {s \in SurvivingSamples(store, Expired(store, now), now) :
                     ~(s.host \in b.hosts /\ s.minute = minute)}
                  \cup (IF minute >= MinuteOf(now - Day)
                        THEN {[host |-> h, minute |-> minute,
                               metrics |-> b.metrics] : h \in b.hosts}
                        ELSE {})]
     ELSE UNCHANGED <<hosts, samples>>

\* The two statements of Prune run on their own.
PruneSamples(store) ==
  /\ samples' = [samples EXCEPT ![store] =
                   SurvivingSamples(store, {}, Now(store))]
  /\ UNCHANGED <<clock, drift, hosts, held, wire, cycles>>

PruneHosts(store) ==
  LET gone == Expired(store, Now(store)) IN
  /\ hosts' = [hosts EXCEPT ![store] =
                 [h \in Hosts |-> IF h \in gone THEN NoRow ELSE @[h]]]
  /\ samples' = [samples EXCEPT ![store] = {s \in @ : s.host \notin gone}]
  /\ UNCHANGED <<clock, drift, held, wire, cycles>>

-----------------------------------------------------------------------------
(* What the store shows. *)

\* List: the root, and the nodes received within a day.
Listed(store, h) ==
  /\ hosts[store][h] # NoRow
  /\ h # Root => hosts[store][h].received >= Now(store) - Day

\* The receipt alone decides.
SetStatusFault(row, now) ==
  IF row.observed = 0 THEN "unavailable"
  ELSE IF now - row.received > Fresh THEN "stale"
  ELSE IF row.metrics = "full" THEN "fresh"
  ELSE "partial"

SetStatus(row, now) ==
  IF row.observed = 0 \/ row.received = 0 THEN "unavailable"
  ELSE IF now - row.received > Fresh \/ now - row.observed > Fresh THEN "stale"
  ELSE IF row.metrics = "full" THEN "fresh"
  ELSE "partial"

\* Detail: the minutes of the 24h chart that end with the current one.
Window(now) == (MinuteOf(now - Day) + 1)..MinuteOf(now)

-----------------------------------------------------------------------------
(* The agent's loop and the wire. *)

\* The collector reports the root and the nodes it could list; the agent
\* stores the batch at once and publishes it only when Ingest did not fail.
Collect(reported, metrics) ==
  LET b == [observed |-> Now("agent"), collected |-> clock,
            hosts |-> reported \cup {Root}, metrics |-> metrics]
  IN /\ held = NoBatch
     /\ cycles < MaxCycles
     /\ cycles' = cycles + 1
     /\ Ingest("agent", b)
     /\ held' = IF Succeeds("agent", b, Now("agent")) THEN b ELSE NoBatch
     /\ UNCHANGED <<clock, drift, wire>>

\* PublishTelemetry validates again; the request may be lost.
Publish ==
  /\ held # NoBatch
  /\ wire' = IF Valid(held, Now("agent")) THEN wire \cup {held} ELSE wire
  /\ held' = NoBatch
  /\ UNCHANGED <<clock, drift, hosts, samples, cycles>>

\* The cycle's deadline or a restart of the agent comes first.
GiveUp ==
  /\ held # NoBatch
  /\ held' = NoBatch
  /\ UNCHANGED <<clock, drift, hosts, samples, wire, cycles>>

\* ImportTelemetry at the gateway.
ImportTelemetry(b) ==
  /\ Ingest("gateway", b)
  /\ wire' = wire \ {b}
  /\ UNCHANGED <<clock, drift, held, cycles>>

-----------------------------------------------------------------------------
(* The clocks. *)

Tick ==
  /\ clock < MaxTime
  /\ clock' = clock + 1
  /\ UNCHANGED <<drift, hosts, samples, held, wire, cycles>>

SetAgentClock(d) ==
  /\ drift' = d
  /\ UNCHANGED <<clock, hosts, samples, held, wire, cycles>>

Next ==
  \/ \E reported \in SUBSET Nodes, m \in Measured :
       Collect(reported, m)
  \/ Publish
  \/ GiveUp
  \/ \E b \in wire : ImportTelemetry(b)
  \/ \E store \in Stores : PruneSamples(store)
  \/ \E store \in Stores : PruneHosts(store)
  \/ Tick
  \/ \E d \in (-MaxDrift)..MaxDrift : SetAgentClock(d)

Spec == Init /\ [][Next]_vars

-----------------------------------------------------------------------------
(* Properties. *)

TypeOK ==
  /\ clock \in Int
  /\ drift \in (-MaxDrift)..MaxDrift
  /\ hosts \in [Stores -> [Hosts -> Rows \cup {NoRow}]]
  /\ samples \in [Stores -> SUBSET Samples]
  /\ held \in Batches \cup {NoBatch}
  /\ wire \subseteq Batches
  /\ cycles \in 0..MaxCycles

\* Repeated, reordered and late batches never refresh a heartbeat or put back
\* an older observation: a host's row changes only to a newer observation.
OnlyNewerObservations ==
  [][\A store \in Stores, h \in Hosts :
       hosts'[store][h] # hosts[store][h] =>
         \/ hosts'[store][h] = NoRow
         \/ hosts[store][h] = NoRow
         \/ hosts'[store][h].observed > hosts[store][h].observed]_vars

\* A store holds no node that is newer than its source, and no more hosts
\* than the limit, whatever nodes come and go.
SourceConsistent ==
  \A store \in Stores :
    /\ hosts[store][Root] # NoRow
    /\ \A h \in Kept(store) :
         hosts[store][h].observed <= hosts[store][Root].observed
    /\ Cardinality(Kept(store)) <= MaxHosts

\* The gateway never runs ahead of the agent, although an agent publishes
\* also the batches its own store ignored.
GatewayNotAhead ==
  hosts["gateway"][Root].observed <= hosts["agent"][Root].observed

\* A late batch does not make a silent host look alive: what is shown as
\* reporting was collected, in true time, within three minutes, give or take
\* the difference of the clocks.
ReportingIsRecent ==
  \A h \in Hosts :
    hosts["gateway"][h] # NoRow =>
      (SetStatus(hosts["gateway"][h], clock) \in {"fresh", "partial"} =>
         clock - hosts["gateway"][h].collected <= Fresh + MaxDrift)

\* Retention takes no measurement out of a chart: a minute that the 24 hours
\* of a host that stays listed still cover keeps its sample.
ChartsKeepMinutes ==
  [][\A store \in Stores : \A s \in samples[store] :
       Listed(store, s.host) /\ Listed(store, s.host)' /\ s.minute \in Window(Now(store)')
       => \E n \in samples'[store] : n.host = s.host /\ n.minute = s.minute]_vars

=============================================================================
