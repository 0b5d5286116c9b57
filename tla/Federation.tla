----------------------------- MODULE Federation -----------------------------
(***************************************************************************)
(* An agent that discovers and a gateway that presents: Service.Sync of the  *)
(* agent, the federation publisher, and the gateway's import handler.        *)
(*                                                                         *)
(* The variables of Catalog are the gateway's store; the agent has a store   *)
(* of the same kind.  Syncs overlap: the periodic worker and the sync        *)
(* endpoint run Service.Sync at the same time.  A request may be lost, or    *)
(* arrive after its sender has timed out and a later sync has published; an  *)
(* answer may be lost after the gateway has applied the snapshot.            *)
(***************************************************************************)
EXTENDS Catalog, Sequences

CONSTANTS Syncs,       \* callers of Service.Sync that may overlap
          Discoverers  \* the sources of the agent's discoverers, in order

ASSUME FederationAssumption ==
  /\ Discoverers \in Seq(Sources) /\ Len(Discoverers) > 0
  /\ MaxTime > 0

VARIABLES agentRows, agentWatermark, agentNewest,  \* the agent's store
          clock,     \* the agent's time
          sync,      \* what each sync is doing
          requests,  \* snapshots on their way to the gateway
          acked      \* history: snapshots whose Publish returned nil

agent == <<agentRows, agentWatermark, agentNewest>>
fedVars == <<vars, agent, clock, sync, requests, acked>>

Agent == INSTANCE Catalog WITH
  rows <- agentRows, watermark <- agentWatermark, newest <- agentNewest,
  pinning <- {}, unpinning <- {}

Idle == [pc |-> "idle", i |-> 1, snapshot |-> None]

SyncState == [pc : {"discover", "store", "publish", "sending", "answered"},
              i : DOMAIN Discoverers, snapshot : Snapshot] \cup {Idle}

FedTypeOK ==
  /\ TypeOK /\ Agent!TypeOK
  /\ clock \in 1..MaxTime
  /\ sync \in [Syncs -> SyncState]
  /\ requests \in SUBSET Snapshot
  /\ acked \in SUBSET Snapshot

FedInit ==
  /\ Init /\ Agent!Init
  /\ clock = 1
  /\ sync = [w \in Syncs |-> Idle]
  /\ requests = {} /\ acked = {}
-----------------------------------------------------------------------------
(***************************************************************************)
(* Service.Sync: for each discoverer, list, store, then publish what was     *)
(* stored.  startedAt is read before the listing; the discoverer stamps its  *)
(* candidates during the listing.                                           *)
(***************************************************************************)
Listing(i) ==
  [pc |-> "discover", i |-> i,
   snapshot |-> [source |-> Discoverers[i], at |-> clock, stamp |-> clock, seen |-> {}]]

\* On to the next discoverer, or done.
Advanced(w) ==
  IF sync[w].i < Len(Discoverers) THEN Listing(sync[w].i + 1) ELSE Idle

Begin(w) ==
  /\ sync[w] = Idle
  /\ sync' = [sync EXCEPT ![w] = Listing(1)]
  /\ UNCHANGED <<vars, agent, clock, requests, acked>>

DiscoverBefore(w, seen, stamp) ==  \* Fault: startedAt is read after the listing.
  /\ sync[w].pc = "discover"
  /\ sync' = [sync EXCEPT ![w].pc = "store", ![w].snapshot.at = clock,
                          ![w].snapshot.seen = seen, ![w].snapshot.stamp = stamp]
  /\ UNCHANGED <<vars, agent, clock, requests, acked>>

Discover(w, seen, stamp) ==
  /\ sync[w].pc = "discover"
  /\ sync' = [sync EXCEPT ![w].pc = "store",
                          ![w].snapshot.seen = seen, ![w].snapshot.stamp = stamp]
  /\ UNCHANGED <<vars, agent, clock, requests, acked>>

StorePublishes(w) ==  \* Fault: a snapshot the store refused is published too.
  /\ sync[w].pc = "store"
  /\ Agent!ReplaceSourceSnapshot(sync[w].snapshot)
  /\ sync' = [sync EXCEPT ![w].pc = "publish"]
  /\ UNCHANGED <<vars, clock, requests, acked>>

\* Only a snapshot that was applied is published.
Store(w) ==
  /\ sync[w].pc = "store"
  /\ Agent!ReplaceSourceSnapshot(sync[w].snapshot)
  /\ sync' = [sync EXCEPT ![w] =
       IF IsNewer(agentWatermark, sync[w].snapshot) THEN [@ EXCEPT !.pc = "publish"]
                                                    ELSE Advanced(w)]
  /\ UNCHANGED <<vars, clock, requests, acked>>

Publish(w) ==
  /\ sync[w].pc = "publish"
  /\ requests' = requests \cup {sync[w].snapshot}
  /\ sync' = [sync EXCEPT ![w].pc = "sending"]
  /\ UNCHANGED <<vars, agent, clock, acked>>

\* The gateway answered 200.
PublishReturns(w) ==
  /\ sync[w].pc = "answered"
  /\ acked' = acked \cup {sync[w].snapshot}
  /\ sync' = [sync EXCEPT ![w] = Advanced(w)]
  /\ UNCHANGED <<vars, agent, clock, requests>>

\* An error at any step, a timeout, a lost answer or a restart ends the sync;
\* the discoverers after this one are not tried.
Fail(w) ==
  /\ sync[w] # Idle
  /\ sync' = [sync EXCEPT ![w] = Idle]
  /\ UNCHANGED <<vars, agent, clock, requests, acked>>
-----------------------------------------------------------------------------
(***************************************************************************)
(* The gateway and the network.                                             *)
(***************************************************************************)

\* The sender, if it still waits, will get the answer.
Answer(request) ==
  [w \in Syncs |-> IF sync[w].pc = "sending" /\ sync[w].snapshot = request
                     THEN [sync[w] EXCEPT !.pc = "answered"] ELSE sync[w]]

ImportOnReceipt(request) ==  \* Fault: the answer is sent before the transaction.
  /\ request \in requests
  /\ sync' = Answer(request)
  /\ requests' = requests
  /\ UNCHANGED <<vars, agent, clock, acked>>

ImportSnapshot(request) ==
  /\ request \in requests
  /\ ReplaceSourceSnapshot(request)
  /\ requests' = requests \ {request}
  /\ sync' = Answer(request)
  /\ UNCHANGED <<agent, clock, acked>>

\* The request does not arrive, or the gateway answers 503.
Lose(request) ==
  /\ request \in requests
  /\ requests' = requests \ {request}
  /\ UNCHANGED <<vars, agent, clock, sync, acked>>

\* A user of the gateway purges what is missing there.
GatewayPurge(g) == Purge(g) /\ UNCHANGED <<agent, clock, sync, requests, acked>>

Tick ==
  /\ clock < MaxTime
  /\ clock' = clock + 1
  /\ UNCHANGED <<vars, agent, sync, requests, acked>>

FedNext ==
  \/ \E w \in Syncs :
       \/ Begin(w) \/ Store(w) \/ Publish(w) \/ PublishReturns(w) \/ Fail(w)
       \/ /\ sync[w].pc = "discover"
          /\ \E seen \in SUBSET Of(sync[w].snapshot.source),
                stamp \in sync[w].snapshot.at..clock : Discover(w, seen, stamp)
  \/ \E r \in requests : ImportSnapshot(r) \/ Lose(r)
  \/ \E g \in DOMAIN rows : GatewayPurge(g)
  \/ Tick

FedSpec == FedInit /\ [][FedNext]_fedVars
-----------------------------------------------------------------------------
(***************************************************************************)
(* Properties.                                                              *)
(***************************************************************************)
Present(store, s) == {c \in Of(s) \cap DOMAIN store : ~store[c].missing}

\* The gateway is never ahead of the agent, and once it has reached the
\* agent's snapshot it presents the same candidates, whatever requests were
\* lost, delayed past a later one, or sent by overlapping syncs.
GatewayFollowsAgent ==
  \A s \in Sources :
    /\ watermark[s] <= agentWatermark[s]
    /\ watermark[s] = agentWatermark[s] => Present(rows, s) = Present(agentRows, s)

\* A publication that returned nil has reached the gateway's store: the gateway
\* presents what it saw, or what a later snapshot saw.
AcknowledgedIsApplied ==
  \A a \in acked :
    \/ watermark[a.source] > a.at
    \/ watermark[a.source] = a.at /\ Present(rows, a.source) = a.seen

\* Overlapping syncs and late requests are, for either store, snapshots offered
\* in some order: each is the catalog that is specified on its own.
ImplementsCatalogs == Spec /\ Agent!Spec
=============================================================================
