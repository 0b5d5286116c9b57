-------------------------- MODULE TelemetryProofs --------------------------
(***************************************************************************)
(* Proofs about Telemetry, for any nodes, limits, clocks and orders of     *)
(* arrival.                                                                *)
(***************************************************************************)
EXTENDS Telemetry, FiniteSetTheorems, TLAPS

\* What holds of every table of hosts: the source's row is there and is the
\* newest, no row is observed far ahead of the true time of its collection,
\* and the rows are within the limit.
Sound(table) ==
  /\ table[Root] # NoRow
  /\ \A h \in Hosts : table[h] # NoRow =>
       /\ table[h].observed <= table[Root].observed
       /\ table[h].observed - table[h].collected <= MaxDrift
  /\ Cardinality({h \in Hosts : table[h] # NoRow}) <= MaxHosts

\* The batch's clock reading is the agent's, and the agent's store has it or
\* a newer one.
Known(b) ==
  /\ b.observed - b.collected <= MaxDrift
  /\ b.observed <= hosts["agent"][Root].observed

IInv ==
  /\ TypeOK
  /\ \A store \in Stores : Sound(hosts[store])
  /\ held # NoBatch => Known(held)
  /\ \A b \in wire : Known(b)
  /\ GatewayNotAhead

\* A table changes only to newer rows.
Newer(old, new) ==
  \A h \in Hosts : new[h] # old[h] =>
    \/ new[h] = NoRow
    \/ old[h] = NoRow
    \/ new[h].observed > old[h].observed

Tables == [Hosts -> Rows \cup {NoRow}]

-----------------------------------------------------------------------------
(* The store. *)

LEMMA NoRowIsNone == NoRow \notin Rows
  BY TelemetryAssumptions DEF Rows, Metrics

LEMMA HostsFinite == IsFiniteSet(Hosts)
  BY TelemetryAssumptions, FS_AddElement DEF Hosts

LEMMA UpsertSound ==
  ASSUME TypeOK, NEW store \in Stores, Sound(hosts[store]), NEW b \in Batches,
         b.observed - b.collected <= MaxDrift, NEW now \in Int,
         Commits(store, b, now)
  PROVE  /\ Upserted(store, b, now) \in Tables
         /\ Sound(Upserted(store, b, now))
         /\ Upserted(store, b, now)[Root].observed = b.observed
         /\ b.observed > hosts[store][Root].observed
         /\ Newer(hosts[store], Upserted(store, b, now))
  <1> DEFINE old == hosts[store]
             new == Upserted(store, b, now)
             row == [observed |-> b.observed, received |-> now,
                     collected |-> b.collected, metrics |-> b.metrics]
  <1>1. old \in Tables /\ Root \in Hosts /\ Root \in b.hosts
    BY DEF TypeOK, Tables, Hosts, Commits, Valid
  <1>2. row \in Rows /\ row # NoRow /\ row.observed = b.observed /\ row.collected = b.collected
    BY NoRowIsNone DEF Batches, Rows
  <1>3. \A h \in Hosts : /\ h \in b.hosts => new[h] = row
                         /\ h \notin b.hosts => new[h] = NoRow \/ new[h] = old[h]
    BY DEF Upserted
  <1>4. new \in Tables
    BY <1>1, <1>2 DEF Upserted, Tables
  <1>5. old[Root] \in Rows /\ b.observed \in Int /\ b.observed > old[Root].observed
    BY <1>1 DEF Sound, Tables, Commits, Superseded, Rows, Batches
  <1>6. new[Root] = row
    BY <1>1, <1>3
  <1> HIDE DEF new, row, old
  <1>7. Sound(new)
    <2>1. new[Root] # NoRow
      BY <1>2, <1>6
    <2>2. ASSUME NEW h \in Hosts, new[h] # NoRow
          PROVE  /\ new[h].observed <= new[Root].observed
                 /\ new[h].observed - new[h].collected <= MaxDrift
      <3>1. CASE new[h] = row
        BY <1>2, <1>5, <1>6, <3>1
      <3>2. CASE new[h] = old[h]
        <4>1. old[h] \in Rows
          BY <1>1, <2>2, <3>2 DEF Tables
        <4>2. old[h].observed <= old[Root].observed
              /\ old[h].observed - old[h].collected <= MaxDrift
          BY <2>2, <3>2 DEF Sound, old
        <4> QED
          BY <1>2, <1>5, <1>6, <3>2, <4>1, <4>2 DEF Rows
      <3> QED
        BY <1>3, <2>2, <3>1, <3>2
    <2>3. Cardinality({h \in Hosts : new[h] # NoRow}) <= MaxHosts
      BY DEF Commits, WithinLimit, new
    <2> QED
      BY <2>1, <2>2, <2>3 DEF Sound
  <1>8. Newer(old, new)
    <2> SUFFICES ASSUME NEW h \in Hosts, new[h] # old[h], new[h] # NoRow, old[h] # NoRow
                 PROVE  new[h].observed > old[h].observed
      BY DEF Newer
    <2>1. new[h] = row
      BY <1>3
    <2>2. old[h] \in Rows /\ old[h].observed <= old[Root].observed
      BY <1>1 DEF Tables, Sound, old
    <2> QED
      BY <1>2, <1>5, <2>1, <2>2 DEF Rows
  <1> QED
    BY <1>2, <1>4, <1>5, <1>6, <1>7, <1>8 DEF new, old

LEMMA PruneSound ==
  ASSUME NEW old \in Tables, NEW new \in Tables, Sound(old),
         new[Root] = old[Root],
         \A h \in Hosts : new[h] = NoRow \/ new[h] = old[h]
  PROVE  Sound(new) /\ Newer(old, new)
  <1>1. Root \in Hosts
    BY DEF Hosts
  <1>2. \A h \in Hosts : new[h] # NoRow =>
          /\ new[h].observed <= new[Root].observed
          /\ new[h].observed - new[h].collected <= MaxDrift
    BY DEF Sound
  <1>3. Cardinality({h \in Hosts : new[h] # NoRow}) <= MaxHosts
    <2> DEFINE A == {h \in Hosts : old[h] # NoRow}
               B == {h \in Hosts : new[h] # NoRow}
    <2>1. IsFiniteSet(A) /\ B \subseteq A
      BY HostsFinite, FS_Subset
    <2>2. Cardinality(B) <= Cardinality(A) /\ Cardinality(A) \in Nat /\ Cardinality(B) \in Nat
      BY <2>1, FS_Subset, FS_CardinalityType
    <2>3. Cardinality(A) <= MaxHosts
      BY DEF Sound
    <2> QED
      BY <2>2, <2>3, TelemetryAssumptions
  <1> QED
    BY <1>1, <1>2, <1>3 DEF Sound, Newer

-----------------------------------------------------------------------------
(* Steps. *)

LEMMA NowType == TypeOK => \A store \in Stores : Now(store) \in Int
  BY TelemetryAssumptions DEF TypeOK, Now, Stores

LEMMA MinuteType == \A n \in Int : MinuteOf(n) \in Int
  BY TelemetryAssumptions DEF MinuteOf

\* The tables after a step, whichever store it is of.
TablesStep ==
  /\ hosts' \in [Stores -> Tables]
  /\ \A store \in Stores :
       /\ Sound(hosts'[store])
       /\ Newer(hosts[store], hosts'[store])
       /\ hosts'[store][Root].observed >= hosts[store][Root].observed

LEMMA SameTables ==
  ASSUME IInv, UNCHANGED hosts
  PROVE  TablesStep
  <1>1. \A store \in Stores : hosts[store][Root].observed \in Int
    BY DEF IInv, TypeOK, Sound, Rows, Hosts
  <1> QED
    BY <1>1 DEF IInv, TypeOK, TablesStep, Tables, Newer

LEMMA OneTable ==
  ASSUME IInv, NEW store \in Stores, NEW table \in Tables,
         hosts' = [hosts EXCEPT ![store] = table],
         Sound(table), Newer(hosts[store], table),
         table[Root].observed >= hosts[store][Root].observed
  PROVE  TablesStep
  <1>1. hosts \in [Stores -> Tables]
    BY DEF IInv, TypeOK, Tables
  <1>2. hosts' \in [Stores -> Tables]
    BY <1>1
  <1>3. ASSUME NEW s \in Stores
        PROVE  /\ Sound(hosts'[s]) /\ Newer(hosts[s], hosts'[s])
               /\ hosts'[s][Root].observed >= hosts[s][Root].observed
    <2>1. CASE s = store
      BY <1>1, <2>1
    <2>2. CASE s # store
      <3>1. hosts'[s] = hosts[s]
        BY <1>1, <2>2
      <3>2. hosts[s][Root].observed \in Int
        BY <1>1 DEF IInv, Sound, Rows, Hosts, Tables
      <3> QED
        BY <3>1, <3>2 DEF IInv, Newer
    <2> QED
      BY <2>1, <2>2
  <1> QED
    BY <1>2, <1>3 DEF TablesStep

LEMMA IngestStep ==
  ASSUME IInv, NEW store \in Stores, NEW b \in Batches,
         b.observed - b.collected <= MaxDrift, Ingest(store, b)
  PROVE  /\ TablesStep
         /\ samples' \in [Stores -> SUBSET Samples]
         /\ \A s \in Stores \ {store} : hosts'[s] = hosts[s]
         /\ \/ hosts'[store] = hosts[store]
            \/ hosts'[store][Root].observed = b.observed
         /\ Succeeds(store, b, Now(store)) =>
              b.observed <= hosts'[store][Root].observed
  <1> DEFINE now == Now(store)
             table == Upserted(store, b, now)
  <1>1. now \in Int /\ hosts \in [Stores -> Tables]
    BY NowType DEF IInv, TypeOK, Tables
  <1>2. b.observed \in Int /\ hosts[store][Root].observed \in Int
    BY <1>1 DEF IInv, Sound, Rows, Hosts, Tables, Batches
  <1>3. CASE Commits(store, b, now)
    <2>1. hosts' = [hosts EXCEPT ![store] = table]
      BY <1>3 DEF Ingest
    <2>2. /\ table \in Tables /\ Sound(table) /\ Newer(hosts[store], table)
          /\ table[Root].observed = b.observed
          /\ b.observed > hosts[store][Root].observed
      BY <1>1, <1>3, UpsertSound DEF IInv
    <2>3. TablesStep
      <3> HIDE DEF table
      <3>1. table[Root].observed >= hosts[store][Root].observed
        BY <1>2, <2>2
      <3> QED
        BY <2>1, <2>2, <3>1, OneTable
    <2>4. samples' \in [Stores -> SUBSET Samples]
      <3> DEFINE minute == MinuteOf(b.observed)
                 old == {s \in SurvivingSamples(store, Expired(store, now), now) :
                           ~(s.host \in b.hosts /\ s.minute = minute)}
                 new == IF minute >= MinuteOf(now - Day)
                        THEN {[host |-> h, minute |-> minute,
                               metrics |-> b.metrics] : h \in b.hosts}
                        ELSE {}
      <3>1. samples \in [Stores -> SUBSET Samples]
        BY DEF IInv, TypeOK
      <3>2. old \subseteq Samples
        BY <3>1 DEF SurvivingSamples
      <3>3. new \subseteq Samples
        BY <1>2, MinuteType DEF Batches, Samples
      <3>4. samples' = samples \/ samples' = [samples EXCEPT ![store] = old \cup new]
        BY <1>3 DEF Ingest
      <3> QED
        BY <3>1, <3>2, <3>3, <3>4
    <2>5. /\ \A s \in Stores \ {store} : hosts'[s] = hosts[s]
          /\ hosts'[store] = table
      BY <1>1, <2>1
    <2> QED
      BY <1>2, <2>2, <2>3, <2>4, <2>5
  <1>4. CASE ~Commits(store, b, now)
    <2>1. hosts' = hosts /\ samples' = samples
      BY <1>4 DEF Ingest
    <2>2. TablesStep
      BY <2>1, SameTables
    <2>3. Succeeds(store, b, now) => b.observed <= hosts[store][Root].observed
      BY <1>2, <1>4 DEF Succeeds, Commits, Superseded
    <2> QED
      BY <2>1, <2>2, <2>3 DEF IInv, TypeOK
  <1> QED
    BY <1>3, <1>4

LEMMA PruneStep ==
  ASSUME IInv, NEW store \in Stores, PruneHosts(store)
  PROVE  /\ TablesStep
         /\ samples' \in [Stores -> SUBSET Samples]
         /\ \A s \in Stores : hosts'[s][Root] = hosts[s][Root]
  <1> DEFINE gone == Expired(store, Now(store))
             table == [h \in Hosts |-> IF h \in gone THEN NoRow ELSE hosts[store][h]]
  <1>1. hosts \in [Stores -> Tables] /\ samples \in [Stores -> SUBSET Samples]
    BY DEF IInv, TypeOK, Tables
  <1>2. hosts' = [hosts EXCEPT ![store] = table]
    BY <1>1 DEF PruneHosts
  <1>3. Root \in Hosts /\ Root \notin gone
    BY DEF Hosts, Expired
  <1>4. /\ table \in Tables /\ table[Root] = hosts[store][Root]
        /\ \A h \in Hosts : table[h] = NoRow \/ table[h] = hosts[store][h]
    BY <1>1, <1>3 DEF Tables
  <1>5. samples' \in [Stores -> SUBSET Samples]
    BY <1>1 DEF PruneHosts
  <1> HIDE DEF table
  <1>6. Sound(table) /\ Newer(hosts[store], table)
    BY <1>1, <1>4, PruneSound DEF IInv
  <1>7. hosts[store][Root].observed \in Int
    BY <1>1 DEF IInv, Sound, Rows, Hosts, Tables
  <1>8. table[Root].observed >= hosts[store][Root].observed
    BY <1>4, <1>7
  <1>9. TablesStep
    BY <1>2, <1>4, <1>6, <1>8, OneTable
  <1> QED
    BY <1>1, <1>2, <1>4, <1>5, <1>9

\* The rest of the invariant needs only that the agent's store does not go
\* back and that the gateway's root has stayed or become a known batch's.
LEMMA KeptKnown ==
  ASSUME IInv, TablesStep, NEW b, b \in Batches, Known(b)
  PROVE  Known(b)'
  <1>1. /\ hosts["agent"][Root].observed \in Int
        /\ hosts'["agent"][Root].observed \in Int
        /\ hosts'["agent"][Root].observed >= hosts["agent"][Root].observed
    BY DEF IInv, TypeOK, TablesStep, Tables, Sound, Rows, Hosts, Stores
  <1>2. b.observed \in Int
    BY DEF Batches
  <1> QED
    BY <1>1, <1>2 DEF Known

LEMMA StepIInv == IInv /\ [Next]_vars => IInv' /\ TablesStep
  <1> SUFFICES ASSUME IInv, [Next]_vars PROVE IInv' /\ TablesStep
    OBVIOUS
  <1>t. /\ clock \in Int /\ drift \in (-MaxDrift)..MaxDrift
        /\ samples \in [Stores -> SUBSET Samples]
        /\ held \in Batches \cup {NoBatch} /\ wire \subseteq Batches
        /\ cycles \in 0..MaxCycles /\ MaxCycles \in Nat /\ MaxDrift \in Nat
    BY TelemetryAssumptions DEF IInv, TypeOK
  <1>r. \A s \in Stores : hosts[s][Root].observed \in Int
    BY DEF IInv, TypeOK, Sound, Rows, Hosts
  <1>g. Root \in Hosts /\ "agent" \in Stores /\ "gateway" \in Stores
    BY DEF Hosts, Stores
  <1>q. ASSUME TablesStep,
               clock' \in Int, drift' \in (-MaxDrift)..MaxDrift,
               samples' \in [Stores -> SUBSET Samples],
               held' \in Batches \cup {NoBatch}, wire' \subseteq Batches,
               cycles' \in 0..MaxCycles,
               held' # NoBatch => held' = held \/ Known(held)',
               \A b \in wire' : b \in wire \/ (b = held /\ held # NoBatch),
               GatewayNotAhead'
        PROVE  IInv' /\ TablesStep
    <2>1. TypeOK'
      BY <1>q DEF TypeOK, TablesStep, Tables
    <2>2. \A store \in Stores : Sound(hosts'[store])
      BY <1>q DEF TablesStep
    <2>3. held' # NoBatch => Known(held)'
      BY <1>q, <1>t, KeptKnown DEF IInv
    <2>4. ASSUME NEW b \in wire' PROVE Known(b)'
      BY <1>q, <1>t, <2>4, KeptKnown DEF IInv
    <2>5. (\A b \in wire : Known(b))'
      BY <2>4
    <2>6. (\A store \in Stores : Sound(hosts[store]))'
      BY <2>2
    <2> QED
      BY <1>q, <2>1, <2>3, <2>5, <2>6 DEF IInv
  <1>s. ASSUME UNCHANGED <<hosts, samples>>,
               clock' \in Int, drift' \in (-MaxDrift)..MaxDrift,
               held' \in {held, NoBatch}, wire' \subseteq Batches,
               UNCHANGED cycles,
               \A b \in wire' : b \in wire \/ (b = held /\ held # NoBatch)
        PROVE  IInv' /\ TablesStep
    <2>1. TablesStep
      BY <1>s, SameTables
    <2>2. GatewayNotAhead'
      BY <1>s DEF IInv, GatewayNotAhead
    <2> QED
      BY <1>q, <1>s, <1>t, <2>1, <2>2
  <1>1. ASSUME NEW reported \in SUBSET Nodes, NEW m \in Measured, Collect(reported, m)
        PROVE  IInv' /\ TablesStep
    <2> DEFINE b == [observed |-> Now("agent"), collected |-> clock,
                     hosts |-> reported \cup {Root}, metrics |-> m]
    <2>1. b \in Batches /\ b.observed = clock + drift /\ b.collected = clock
      BY <1>t, <1>1, TelemetryAssumptions DEF Batches, Hosts, Metrics, Now
    <2>2. b.observed - b.collected <= MaxDrift
      BY <1>t, <2>1
    <2>3. /\ Ingest("agent", b)
          /\ held' = IF Succeeds("agent", b, Now("agent")) THEN b ELSE NoBatch
          /\ cycles' = cycles + 1 /\ cycles < MaxCycles
          /\ UNCHANGED <<clock, drift, wire>>
      BY <1>1 DEF Collect
    <2> HIDE DEF b
    <2>4. /\ TablesStep /\ samples' \in [Stores -> SUBSET Samples]
          /\ hosts'["gateway"] = hosts["gateway"]
          /\ Succeeds("agent", b, Now("agent")) =>
               b.observed <= hosts'["agent"][Root].observed
      BY <1>g, <2>1, <2>2, <2>3, IngestStep
    <2>5. held' # NoBatch => held' = b /\ Known(held)'
      BY <2>2, <2>3, <2>4 DEF Known
    <2>6. GatewayNotAhead'
      <3>1. hosts'["agent"][Root].observed \in Int
        BY <1>g, <2>4 DEF TablesStep, Tables, Sound, Rows
      <3>2. hosts'["agent"][Root].observed >= hosts["agent"][Root].observed
        BY <1>g, <2>4 DEF TablesStep
      <3> QED
        BY <1>g, <1>r, <2>4, <3>1, <3>2 DEF IInv, GatewayNotAhead
    <2>7. cycles' \in 0..MaxCycles
      BY <1>t, <2>3
    <2> QED
      BY <1>q, <1>t, <2>1, <2>3, <2>4, <2>5, <2>6, <2>7
  <1>2. CASE Publish
    <2>1. UNCHANGED <<hosts, samples, clock, drift, cycles>> /\ held' = NoBatch
      BY <1>2 DEF Publish
    <2>2. held # NoBatch /\ wire' \in {wire, wire \cup {held}}
      BY <1>2 DEF Publish
    <2> QED
      BY <1>s, <1>t, <2>1, <2>2
  <1>3. CASE GiveUp
    BY <1>3, <1>s, <1>t DEF GiveUp
  <1>4. ASSUME NEW b \in wire, ImportTelemetry(b)
        PROVE  IInv' /\ TablesStep
    <2>1. /\ Ingest("gateway", b) /\ wire' = wire \ {b}
          /\ UNCHANGED <<clock, drift, held, cycles>>
      BY <1>4 DEF ImportTelemetry
    <2>2. b \in Batches /\ Known(b)
      BY <1>t, <1>4 DEF IInv
    <2>3. /\ TablesStep /\ samples' \in [Stores -> SUBSET Samples]
          /\ hosts'["agent"] = hosts["agent"]
          /\ \/ hosts'["gateway"] = hosts["gateway"]
             \/ hosts'["gateway"][Root].observed = b.observed
      BY <1>g, <2>1, <2>2, IngestStep DEF Known
    <2>4. GatewayNotAhead'
      BY <2>2, <2>3 DEF IInv, GatewayNotAhead, Known
    <2> QED
      BY <1>q, <1>t, <2>1, <2>3, <2>4
  <1>5. ASSUME NEW store \in Stores, PruneSamples(store)
        PROVE  IInv' /\ TablesStep
    <2>1. UNCHANGED <<clock, drift, hosts, held, wire, cycles>>
      BY <1>5 DEF PruneSamples
    <2>2. samples' \in [Stores -> SUBSET Samples]
      BY <1>t, <1>5 DEF PruneSamples, SurvivingSamples
    <2>3. TablesStep /\ GatewayNotAhead'
      BY <2>1, SameTables DEF IInv, GatewayNotAhead
    <2> QED
      BY <1>q, <1>t, <2>1, <2>2, <2>3
  <1>6. ASSUME NEW store \in Stores, PruneHosts(store)
        PROVE  IInv' /\ TablesStep
    <2>1. UNCHANGED <<clock, drift, held, wire, cycles>>
      BY <1>6 DEF PruneHosts
    <2>2. /\ TablesStep /\ samples' \in [Stores -> SUBSET Samples]
          /\ \A s \in Stores : hosts'[s][Root] = hosts[s][Root]
      BY <1>6, PruneStep
    <2>3. GatewayNotAhead'
      BY <1>g, <2>2 DEF IInv, GatewayNotAhead
    <2> QED
      BY <1>q, <1>t, <2>1, <2>2, <2>3
  <1>7. CASE Tick
    BY <1>7, <1>s, <1>t DEF Tick
  <1>8. ASSUME NEW d \in (-MaxDrift)..MaxDrift, SetAgentClock(d)
        PROVE  IInv' /\ TablesStep
    BY <1>8, <1>s, <1>t DEF SetAgentClock
  <1>9. CASE UNCHANGED vars
    BY <1>9, <1>s, <1>t DEF vars
  <1> QED
    BY <1>1, <1>2, <1>3, <1>4, <1>5, <1>6, <1>7, <1>8, <1>9 DEF Next

LEMMA InitIInv == Init => IInv
  <1> SUFFICES ASSUME Init PROVE IInv
    OBVIOUS
  <1> DEFINE root == [observed |-> 0, received |-> 0, collected |-> 0, metrics |-> "none"]
             table == [h \in Hosts |-> IF h = Root THEN root ELSE NoRow]
  <1>1. root \in Rows /\ root # NoRow /\ Root \in Hosts
    BY NoRowIsNone DEF Rows, Metrics, Hosts
  <1>2. hosts = [store \in Stores |-> table]
    BY DEF Init
  <1>3. table \in Tables
    BY <1>1 DEF Tables
  <1>4. Sound(table)
    <2>1. {h \in Hosts : table[h] # NoRow} = {Root}
      BY <1>1
    <2>2. Cardinality({Root}) = 1
      BY FS_Singleton
    <2>3. Cardinality({h \in Hosts : table[h] # NoRow}) <= MaxHosts
      <3>1. 1 <= MaxHosts
        BY TelemetryAssumptions
      <3> QED
        BY <2>1, <2>2, <3>1
    <2> QED
      BY <1>1, <2>3, TelemetryAssumptions DEF Sound
  <1> HIDE DEF table
  <1>5. TypeOK
    BY <1>2, <1>3, TelemetryAssumptions DEF Init, TypeOK, Tables, Start, Batches
  <1>6. GatewayNotAhead
    <2>1. table[Root].observed = 0
      BY <1>1 DEF table
    <2> QED
      BY <1>2, <2>1 DEF GatewayNotAhead, Stores
  <1> QED
    BY <1>2, <1>4, <1>5, <1>6 DEF IInv, Init

-----------------------------------------------------------------------------
(* Results. *)

(* The inductive invariant: every table is sound, and the agent's store    *)
(* has every batch that is held or on the wire, or a newer one.            *)
THEOREM Invariance == Spec => []IInv
  <1>1. IInv /\ [Next]_vars => IInv'
    BY StepIInv
  <1> QED
    BY <1>1, InitIInv, PTL DEF Spec

(* The stores, batches and clocks have their types. *)
THEOREM TypeCorrect == Spec => []TypeOK
  BY Invariance, PTL DEF IInv

(* Every store has its source's row, no node newer than it, and no more    *)
(* hosts than the limit (TelemetryStore.Ingest).                           *)
THEOREM StoresConsistent == Spec => []SourceConsistent
  <1>1. IInv => SourceConsistent
    BY DEF IInv, Sound, SourceConsistent, Kept
  <1> QED
    BY <1>1, Invariance, PTL

(* The gateway never holds an observation that the agent's own store has   *)
(* not reached, whatever is late, lost or set back (telemetryLoop,         *)
(* PublishTelemetry, Ingest).                                              *)
THEOREM AgentLeads == Spec => []GatewayNotAhead
  BY Invariance, PTL DEF IInv

(* What the gateway shows as reporting was collected within the three      *)
(* minutes and the difference of the clocks (SetStatus).                   *)
THEOREM StatusHonest == Spec => []ReportingIsRecent
  <1>1. IInv => ReportingIsRecent
    <2> SUFFICES ASSUME IInv, NEW h \in Hosts, hosts["gateway"][h] # NoRow,
                        SetStatus(hosts["gateway"][h], clock) \in {"fresh", "partial"}
                 PROVE  clock - hosts["gateway"][h].collected <= Fresh + MaxDrift
      BY DEF ReportingIsRecent
    <2> DEFINE row == hosts["gateway"][h]
    <2>1. row \in Rows /\ row.observed - row.collected <= MaxDrift /\ clock \in Int
      BY DEF IInv, TypeOK, Sound, Stores
    <2>2. ~(clock - row.observed > Fresh)
      BY DEF SetStatus
    <2> QED
      BY <2>1, <2>2, TelemetryAssumptions DEF Rows
  <1> QED
    BY <1>1, Invariance, PTL

(* No repeated, late or reordered batch puts a row back: a row changes     *)
(* only to a newer observation (Ingest, Prune).                            *)
THEOREM NeverBack == Spec => OnlyNewerObservations
  <1>1. IInv /\ [Next]_vars =>
          [\A store \in Stores, h \in Hosts :
             hosts'[store][h] # hosts[store][h] =>
               \/ hosts'[store][h] = NoRow
               \/ hosts[store][h] = NoRow
               \/ hosts'[store][h].observed > hosts[store][h].observed]_vars
    BY StepIInv DEF TablesStep, Newer
  <1> QED
    BY <1>1, Invariance, PTL DEF Spec, OnlyNewerObservations

\* The deletion of old samples leaves those of hosts that stay, in the chart.
LEMMA InWindowSurvives ==
  ASSUME NEW now \in Int, NEW minute \in Int, minute \in Window(now)
  PROVE  minute >= MinuteOf(now - Day)
  <1>1. MinuteOf(now - Day) \in Int /\ MinuteOf(now) \in Int
    BY MinuteType, TelemetryAssumptions
  <1> QED
    BY <1>1 DEF Window

LEMMA ListedNotExpired ==
  ASSUME TypeOK, NEW store \in Stores, NEW h \in Hosts, Listed(store, h)
  PROVE  h \notin Expired(store, Now(store))
  <1>1. CASE h = Root
    BY <1>1 DEF Expired
  <1>2. CASE h # Root
    <2>1. hosts[store][h] \in Rows
      BY DEF Listed, TypeOK
    <2>2. hosts[store][h].received \in Int /\ Now(store) - Day \in Int
      BY <2>1, NowType, TelemetryAssumptions DEF Rows
    <2> QED
      BY <1>2, <2>2 DEF Listed, Expired
  <1> QED
    BY <1>1, <1>2

Keeps(store, s) == \E n \in samples'[store] : n.host = s.host /\ n.minute = s.minute

LEMMA StepKeeps ==
  ASSUME TypeOK, Next, NEW store \in Stores, NEW s \in samples[store],
         Listed(store, s.host), s.minute \in Window(Now(store)')
  PROVE  Keeps(store, s)
  <1>t. samples \in [Stores -> SUBSET Samples] /\ s \in Samples
        /\ s.host \in Hosts /\ s.minute \in Int /\ Now(store) \in Int
    BY NowType DEF TypeOK, Samples
  <1>0. ASSUME samples'[store] = samples[store] PROVE Keeps(store, s)
    BY <1>0 DEF Keeps
  <1>n. ASSUME UNCHANGED <<clock, drift>>
        PROVE  s.minute >= MinuteOf(Now(store) - Day)
    <2>1. Now(store)' = Now(store)
      BY <1>n DEF Now
    <2> QED
      BY <1>t, <2>1, InWindowSurvives
  <1>i. ASSUME NEW at \in Stores, NEW b \in Batches, Ingest(at, b), UNCHANGED <<clock, drift>>
        PROVE  Keeps(store, s)
    <2>1. CASE at # store \/ samples' = samples
      <3>1. samples'[store] = samples[store]
        BY <1>t, <1>i, <2>1 DEF Ingest
      <3> QED
        BY <1>0, <3>1
    <2>2. CASE at = store /\ samples' # samples
      <3> DEFINE now == Now(store)
                 minute == MinuteOf(b.observed)
                 old == {r \in SurvivingSamples(store, Expired(store, now), now) :
                           ~(r.host \in b.hosts /\ r.minute = minute)}
                 new == {[host |-> h, minute |-> minute, metrics |-> b.metrics] : h \in b.hosts}
      <3>1. samples' = [samples EXCEPT ![store] =
                          old \cup (IF minute >= MinuteOf(now - Day) THEN new ELSE {})]
        BY <1>i, <2>2 DEF Ingest
      <3>2. samples'[store] = old \cup (IF minute >= MinuteOf(now - Day) THEN new ELSE {})
        BY <1>t, <3>1
      <3>3. s.minute >= MinuteOf(now - Day)
        BY <1>i, <1>n
      <3>4. s \in SurvivingSamples(store, Expired(store, now), now)
        BY <1>t, <3>3, ListedNotExpired DEF SurvivingSamples
      <3>5. CASE s.host \in b.hosts /\ s.minute = minute
        <4> DEFINE n == [host |-> s.host, minute |-> minute, metrics |-> b.metrics]
        <4>1. n \in new /\ n.host = s.host /\ n.minute = s.minute
          BY <3>5
        <4>2. n \in samples'[store]
          BY <3>2, <3>3, <3>5, <4>1
        <4> QED
          BY <4>1, <4>2 DEF Keeps
      <3>6. CASE ~(s.host \in b.hosts /\ s.minute = minute)
        <4>1. s \in samples'[store]
          BY <3>2, <3>4, <3>6
        <4> QED
          BY <4>1 DEF Keeps
      <3> QED
        BY <3>5, <3>6
    <2> QED
      BY <2>1, <2>2
  <1>1. ASSUME NEW reported \in SUBSET Nodes, NEW m \in Measured, Collect(reported, m)
        PROVE  Keeps(store, s)
    <2> DEFINE b == [observed |-> Now("agent"), collected |-> clock,
                     hosts |-> reported \cup {Root}, metrics |-> m]
    <2>1. b \in Batches
      BY <1>1, NowType, TelemetryAssumptions DEF TypeOK, Batches, Hosts, Metrics, Stores
    <2>2. Ingest("agent", b) /\ UNCHANGED <<clock, drift>>
      BY <1>1 DEF Collect
    <2>3. "agent" \in Stores
      BY DEF Stores
    <2> HIDE DEF b
    <2> QED
      BY <1>i, <2>1, <2>2, <2>3
  <1>2. CASE Publish \/ GiveUp \/ Tick
    BY <1>0, <1>2 DEF Publish, GiveUp, Tick
  <1>3. ASSUME NEW b \in wire, ImportTelemetry(b)
        PROVE  Keeps(store, s)
    <2>1. b \in Batches /\ Ingest("gateway", b) /\ UNCHANGED <<clock, drift>>
      BY <1>3 DEF ImportTelemetry, TypeOK
    <2>2. "gateway" \in Stores
      BY DEF Stores
    <2> QED
      BY <1>i, <2>1, <2>2
  <1>4. ASSUME NEW at \in Stores, PruneSamples(at)
        PROVE  Keeps(store, s)
    <2>1. CASE at # store
      <3>1. samples'[store] = samples[store]
        BY <1>t, <1>4, <2>1 DEF PruneSamples
      <3> QED
        BY <1>0, <3>1
    <2>2. CASE at = store
      <3>1. s.minute >= MinuteOf(Now(store) - Day)
        BY <1>4, <1>n DEF PruneSamples
      <3>2. s \in samples'[store]
        BY <1>t, <1>4, <2>2, <3>1 DEF PruneSamples, SurvivingSamples
      <3> QED
        BY <3>2 DEF Keeps
    <2> QED
      BY <2>1, <2>2
  <1>5. ASSUME NEW at \in Stores, PruneHosts(at)
        PROVE  Keeps(store, s)
    <2>1. CASE at # store
      <3>1. samples'[store] = samples[store]
        BY <1>t, <1>5, <2>1 DEF PruneHosts
      <3> QED
        BY <1>0, <3>1
    <2>2. CASE at = store
      <3>1. s.host \notin Expired(store, Now(store))
        BY <1>t, ListedNotExpired
      <3>2. s \in samples'[store]
        BY <1>t, <1>5, <2>2, <3>1 DEF PruneHosts
      <3> QED
        BY <3>2 DEF Keeps
    <2> QED
      BY <2>1, <2>2
  <1>6. ASSUME NEW d \in (-MaxDrift)..MaxDrift, SetAgentClock(d)
        PROVE  Keeps(store, s)
    BY <1>0, <1>6 DEF SetAgentClock
  <1> QED
    BY <1>1, <1>2, <1>3, <1>4, <1>5, <1>6 DEF Next

(* Retention and ingestion take no minute out of the chart of a host that  *)
(* stays listed (Ingest, Prune, Detail).                                   *)
THEOREM ChartsComplete == Spec => ChartsKeepMinutes
  <1>1. TypeOK /\ [Next]_vars =>
          [\A store \in Stores : \A s \in samples[store] :
             Listed(store, s.host) /\ Listed(store, s.host)' /\ s.minute \in Window(Now(store)')
             => \E n \in samples'[store] : n.host = s.host /\ n.minute = s.minute]_vars
    <2> SUFFICES ASSUME TypeOK, Next, NEW store \in Stores, NEW s \in samples[store],
                        Listed(store, s.host), s.minute \in Window(Now(store)')
                 PROVE  Keeps(store, s)
      BY Zenon DEF Keeps
    <2> QED
      BY StepKeeps, Zenon
  <1> QED
    BY <1>1, TypeCorrect, PTL DEF Spec, ChartsKeepMinutes

============================================================================
