-------------------------- MODULE DashboardStream --------------------------
(***************************************************************************)
(* The homepage's live stream.  One goroutine per open page                *)
(* (streamDashboard in ui/internal/bff/dashboard_events.go) reads a        *)
(* snapshot of the dashboard from the API on every tick, compares it with  *)
(* the one it published last and sends the page nothing, the changed       *)
(* widgets, the whole page or a status line.  A whole page needs a second  *)
(* request, for the layout, and the layout may change between the two.     *)
(*                                                                         *)
(* A snapshot is the function from the selected widgets to their data, the *)
(* source kinds that could not be read and the layout revision; the digest *)
(* the code compares is the snapshot itself.  The data is a model value,   *)
(* NoData where the source gave none.                                      *)
(***************************************************************************)
EXTENDS Integers, FiniteSets

CONSTANTS
    Widgets,       \* the widgets that can be selected
    Kinds,         \* source kinds: one provider each
    KindOf,        \* the kind of each widget
    Data,          \* what a source can report
    NoData,        \* a widget whose source reported nothing
    NoSnapshot,    \* the zero digest, a snapshot never sent
    MaxRevision,   \* bound: layout revisions
    MaxConnections,\* bound: streams one page opens, one after the other
    MaxChanges     \* bound: changes of the dashboard under the stream

ASSUME StreamAssumptions ==
    /\ KindOf \in [Widgets -> Kinds]
    /\ NoData \notin Data
    /\ MaxRevision \in Nat
    /\ MaxConnections \in Nat \ {0}
    /\ MaxChanges \in Nat

VARIABLES
    grouped,    \* the API sends resolved groups (it runs with layouts)
    selected,   \* the selected widgets
    data,       \* what each widget's source would report now
    broken,     \* the kinds whose provider fails
    revision,   \* the saved layout's revision
    up,         \* the API answers
    pc,         \* where streamDashboard stands: "tick", "render"
    snap,       \* the snapshot of this tick
    previous,   \* the snapshot last published
    published,  \* its items
    layout,     \* publishedLayout: its layout revision
    retained,   \* the items of the last snapshot read
    cached,     \* cachedLayout: the revision of the layout document held
    failed,     \* the last tick could not read
    page,       \* what the page shows: items and the layout revision
    status,     \* the page's status line
    connections,\* streams opened so far
    changes     \* changes of the dashboard so far

backend == <<grouped, selected, data, broken, revision, up>>
stream == <<pc, snap, previous, published, layout, retained, cached, failed>>
streamVars == <<backend, changes, stream, page, status, connections>>

ItemData == UNION {[S -> Data \cup {NoData}] : S \in SUBSET Widgets}

Snapshots ==
    [items : ItemData, unavailable : SUBSET Kinds, revision : 0..MaxRevision]

StreamTypeOK ==
    /\ grouped \in BOOLEAN
    /\ selected \subseteq Widgets
    /\ data \in [Widgets -> Data]
    /\ broken \subseteq Kinds
    /\ revision \in 0..MaxRevision
    /\ up \in BOOLEAN
    /\ pc \in {"tick", "render"}
    /\ snap \in Snapshots \cup {NoSnapshot}
    /\ previous \in Snapshots \cup {NoSnapshot}
    /\ published \in ItemData
    /\ layout \in 0..MaxRevision \cup {NoSnapshot}
    /\ retained \in ItemData
    /\ cached \in 0..MaxRevision \cup {NoSnapshot}
    /\ failed \in BOOLEAN
    /\ page \in [items : ItemData, groups : 0..MaxRevision, geometry : 0..MaxRevision]
    /\ status \in {"live", "partial", "retrying", "layout"}
    /\ connections \in 1..MaxConnections
    /\ changes \in 0..MaxChanges

----------------------------------------------------------------------------
(* What GET /api/v1/dashboard answers.  With layouts the items are the     *)
(* selected ones whatever their provider says; without, a failed provider  *)
(* contributes none.                                                       *)

Snapshot ==
    LET shown == IF grouped THEN selected
                 ELSE {w \in selected : KindOf[w] \notin broken}
    IN  [items |-> [w \in shown |->
                      IF KindOf[w] \in broken THEN NoData ELSE data[w]],
         unavailable |-> broken,
         revision |-> IF grouped THEN revision ELSE 0]

\* Fault: only what is still reported is kept.
RetainFault(s) == s

\* Items of a failed provider keep the data this stream read last.
Retain(s) ==
    LET lost == {w \in DOMAIN retained : KindOf[w] \in s.unavailable}
        kept == DOMAIN s.items \cup IF grouped THEN {} ELSE lost
    IN  [s EXCEPT !.items =
           [w \in kept |-> IF w \in lost THEN retained[w] ELSE s.items[w]]]

Nothing == [w \in {} |-> NoData]

\* What a new stream starts from.
Connect ==
    /\ pc' = "tick"
    /\ snap' = NoSnapshot
    /\ previous' = NoSnapshot
    /\ published' = Nothing
    /\ layout' = NoSnapshot
    /\ retained' = Nothing
    /\ cached' = NoSnapshot
    /\ failed' = FALSE

\* The page was rendered from a snapshot before it opened its stream.
StreamInit ==
    /\ grouped \in BOOLEAN
    /\ selected \in SUBSET Widgets
    /\ data \in [Widgets -> Data]
    /\ broken = {}
    /\ revision = 0
    /\ up = TRUE
    /\ pc = "tick"
    /\ snap = NoSnapshot
    /\ previous = NoSnapshot
    /\ published = Nothing
    /\ layout = NoSnapshot
    /\ retained = Nothing
    /\ cached = NoSnapshot
    /\ failed = FALSE
    /\ page = [items |-> [w \in selected |-> data[w]], groups |-> 0, geometry |-> 0]
    /\ status = "live"
    /\ connections = 1
    /\ changes = 0

----------------------------------------------------------------------------
(* One tick of streamDashboard.                                            *)

\* The status line that goes with a snapshot.
Message(s) == IF s.unavailable = {} THEN "live" ELSE "partial"

StructureChanged(s) ==
    \/ DOMAIN published # DOMAIN s.items
    \/ s.revision # layout

\* The API does not answer: the first failure is reported, later ones are
\* keepalives.
TickFails ==
    /\ pc = "tick"
    /\ ~up
    /\ status' = IF failed THEN status ELSE "retrying"
    /\ failed' = TRUE
    /\ UNCHANGED <<backend, changes, pc, snap, previous, published, layout, retained,
                   cached, page, connections>>

\* The same snapshot as the one published: a keepalive.
TickKeepalive ==
    LET s == Retain(Snapshot) IN
    /\ pc = "tick"
    /\ up
    /\ s = previous
    /\ ~failed
    /\ retained' = s.items
    /\ UNCHANGED <<backend, changes, pc, snap, previous, published, layout, cached,
                   failed, page, status, connections>>

\* First snapshot of a stream, without groups and with a provider missing:
\* only the status line, the page may show data this stream never read.
TickUnavailable ==
    LET s == Retain(Snapshot) IN
    /\ pc = "tick"
    /\ up
    /\ previous = NoSnapshot
    /\ s.unavailable # {}
    /\ ~grouped
    /\ status' = "partial"
    /\ retained' = s.items
    /\ failed' = FALSE
    /\ UNCHANGED <<backend, changes, pc, snap, previous, published, layout, cached,
                   page, connections>>

\* A snapshot that was sent becomes the published one, unless this tick
\* recovered from a failure.
Publish(s) ==
    IF failed
    THEN UNCHANGED <<previous, published, layout>>
    ELSE /\ previous' = s
         /\ published' = s.items
         /\ layout' = s.revision

\* Same widgets and layout, other data: only the widgets that differ from
\* the published ones are sent.
TickWidgets ==
    LET s == Retain(Snapshot)
        changed == {w \in DOMAIN s.items : s.items[w] # published[w]}
    IN
    /\ pc = "tick"
    /\ up
    /\ s # previous \/ failed
    /\ previous # NoSnapshot
    /\ ~StructureChanged(s)
    /\ page' = [page EXCEPT !.items =
                  [w \in DOMAIN page.items |->
                     IF w \in changed THEN s.items[w] ELSE page.items[w]]]
    /\ status' = Message(s)
    /\ Publish(s)
    /\ retained' = s.items
    /\ failed' = FALSE
    /\ UNCHANGED <<backend, changes, pc, snap, cached, connections>>

\* The first snapshot, another set of widgets or another layout: the whole
\* page must be rendered, from this snapshot and the layout document.
TickStructure ==
    LET s == Retain(Snapshot) IN
    /\ pc = "tick"
    /\ up
    /\ s # previous \/ failed
    /\ ~(previous = NoSnapshot /\ s.unavailable # {} /\ ~grouped)
    /\ previous = NoSnapshot \/ StructureChanged(s)
    /\ snap' = s
    /\ pc' = "render"
    /\ UNCHANGED <<backend, changes, previous, published, layout, retained, cached,
                   failed, page, status, connections>>

\* Fault: whatever layout the API has now will do.
LayoutForFault(s) == cached = s.revision \/ up

\* renderDashboard needs a layout document of the snapshot's revision: the
\* cached one, or the one the API has now.
LayoutFor(s) == cached = s.revision \/ (up /\ revision = s.revision)

RenderPage ==
    /\ pc = "render"
    /\ grouped => LayoutFor(snap)
    /\ cached' = IF ~grouped THEN cached
                 ELSE IF cached = snap.revision THEN cached ELSE revision
    /\ page' = [items |-> snap.items, groups |-> snap.revision,
                geometry |-> IF grouped THEN cached' ELSE 0]
    /\ status' = Message(snap)
    /\ Publish(snap)
    /\ retained' = snap.items
    /\ failed' = FALSE
    /\ pc' = "tick"
    /\ snap' = NoSnapshot
    /\ UNCHANGED <<backend, changes, connections>>

\* No such document: the page is told and keeps what it shows.
RenderFails ==
    /\ pc = "render"
    /\ grouped
    /\ ~LayoutFor(snap)
    /\ status' = "layout"
    /\ retained' = snap.items
    /\ failed' = FALSE
    /\ pc' = "tick"
    /\ snap' = NoSnapshot
    /\ UNCHANGED <<backend, changes, previous, published, layout, cached, page,
                   connections>>

----------------------------------------------------------------------------
(* The connection ends (a write deadline, a proxy, a closed laptop) and    *)
(* the page opens a new one; what it shows stays.                          *)

Reconnect ==
    /\ connections < MaxConnections
    /\ connections' = connections + 1
    /\ Connect
    /\ UNCHANGED <<backend, changes, page, status>>

(* The dashboard changes under the stream. *)

Change ==
    /\ changes < MaxChanges
    /\ changes' = changes + 1
    /\ UNCHANGED <<grouped, stream, page, status, connections>>

Select(w) ==
    /\ Change
    /\ selected' = IF w \in selected THEN selected \ {w} ELSE selected \cup {w}
    /\ UNCHANGED <<data, broken, revision, up>>

Report(w) ==
    /\ Change
    /\ \E d \in Data \ {data[w]} : data' = [data EXCEPT ![w] = d]
    /\ UNCHANGED <<selected, broken, revision, up>>

\* A provider starts to fail, or works again.
Provider(k) ==
    /\ Change
    /\ broken' = IF k \in broken THEN broken \ {k} ELSE broken \cup {k}
    /\ UNCHANGED <<selected, data, revision, up>>

SaveLayout ==
    /\ Change
    /\ grouped
    /\ revision < MaxRevision
    /\ revision' = revision + 1
    /\ UNCHANGED <<selected, data, broken, up>>

\* The API stops answering, or answers again.
Outage ==
    /\ Change
    /\ up' = ~up
    /\ UNCHANGED <<selected, data, broken, revision>>

Tick ==
    \/ TickFails \/ TickKeepalive \/ TickUnavailable \/ TickWidgets
    \/ TickStructure \/ RenderPage \/ RenderFails

Environment ==
    \/ Reconnect \/ SaveLayout \/ Outage
    \/ \E w \in Widgets : Select(w) \/ Report(w)
    \/ \E k \in Kinds : Provider(k)

StreamNext == Tick \/ Environment

StreamSpec == StreamInit /\ [][StreamNext]_streamVars

----------------------------------------------------------------------------
(* Properties *)

(* The groups a page shows and the arrangement they are laid out in belong *)
(* to one saved layout, although they come from two requests.  Code:       *)
(* renderDashboard refuses a layout of another revision and streamDashboard*)
(* keeps the old page.                                                     *)
PageOfOneLayout == page.groups = page.geometry

(* A failing provider never wipes a value the page shows and the stream    *)
(* has read: not while it fails, nor when the page is rendered anew for    *)
(* another layout meanwhile.  Code: the retained items ("Preserve only     *)
(* failed providers; successful providers still update or remove items").  *)
FailureKeepsValues ==
    [][\A w \in DOMAIN page.items \cap DOMAIN page'.items \cap DOMAIN retained :
         (page'.items[w] = NoData /\ page.items[w] # NoData)
            => retained[w] = NoData]_streamVars

(* A page that says it is live, and whose last tick read the dashboard,    *)
(* shows what that tick read.  Docs: "Unchanged snapshots produce          *)
(* keepalives" (2026-10-14-home-widgets-design.md:44).                     *)
LiveIsCurrent ==
    (pc = "tick" /\ status = "live" /\ previous # NoSnapshot) =>
        page.items = retained

=============================================================================
