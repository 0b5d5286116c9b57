----------------------------- MODULE Dashboard -----------------------------
(***************************************************************************)
(* The homepage's configuration: the saved layout                          *)
(* (internal/application/dashboard, internal/adapters/sqlite/              *)
(* dashboard_layout.go), the selected widgets it arranges, and the clients *)
(* that edit it through the API or the BFF's editor (ui/internal/bff/      *)
(* layout_editor.go, dashboard_layout_client.go, layout_state.go).         *)
(*                                                                         *)
(* Every request of the API is one transaction on the only SQLite          *)
(* connection, so serving it is one step; the steps between which others   *)
(* run are the client's: reading the layout, previewing it, sending a      *)
(* change and learning, or not, what became of it.                         *)
(***************************************************************************)
EXTENDS LayoutDocument

CONSTANTS
    Clients,     \* editors and API clients
    None,        \* no layout, no request
    Limit,       \* selections and placements together: 128 in the code
    MaxRequests, \* bound: changes sent
    MaxToggles   \* bound: selections and placements changed

ASSUME DashboardAssumptions == Limit \in Nat

Hosts == {i \in Items : SourceOf[i] = "host"}

Services == {i \in Items : SourceOf[i] = "service"}

Plugins == {i \in Items : SourceOf[i] = "other"}

VARIABLES
    row,        \* the dashboard_layout row; there is none at revision 0
    selections, \* selected hosts
    pins,       \* pinned services
    placements, \* plugin widgets: [revision, enabled] or None
    tabs,       \* what each client holds
    inflight,   \* requests sent and not served
    answers,    \* answers on their way
    requests,   \* requests sent so far: the identity of the next one
    toggles,    \* selections and placements changed so far
    log         \* history: the layouts written, by whom and from which

widgets == <<selections, pins, placements>>
vars == <<row, widgets, tabs, inflight, answers, requests, toggles, log>>

\* The saved layout, or the default at revision 0.
Start == [revision |-> 0, doc |-> DefaultLayout(CHOOSE s \in Styles : TRUE)]

readLayout == IF row.revision = 0 THEN Start ELSE row

\* identities: the widgets a layout may arrange now.
active ==
    selections \cup pins
    \cup {p \in Plugins : placements[p] # None /\ placements[p].enabled}

Used == Cardinality(selections) + Cardinality({p \in Plugins : placements[p] # None})

Idle == [pc |-> "idle", base |-> None, tokens |-> None, attempt |-> 0, request |-> 0]

Init ==
    /\ row = Start
    /\ selections \in SUBSET Hosts
    /\ pins = {}
    /\ placements \in [Plugins -> {None, [revision |-> 1, enabled |-> TRUE]}]
    /\ Used <= Limit
    /\ tabs = [c \in Clients |-> Idle]
    /\ inflight = {}
    /\ answers = {}
    /\ requests = 0
    /\ toggles = 0
    /\ log = <<>>

----------------------------------------------------------------------------
(* Selections and placements.                                              *)

Toggle ==
    /\ toggles < MaxToggles
    /\ toggles' = toggles + 1
    /\ UNCHANGED <<row, tabs, inflight, answers, requests, log>>

\* Both tables share one limit, checked in the statement that inserts.
Room == Used < Limit

\* DashboardSelections.Set, behind HostProvider.SetSelected.
SelectHost(h) ==
    /\ Toggle
    /\ h \in selections \/ Room
    /\ selections' = selections \cup {h}
    /\ UNCHANGED <<pins, placements>>

DeselectHost(h) ==
    /\ Toggle
    /\ h \in selections
    /\ selections' = selections \ {h}
    /\ UNCHANGED <<pins, placements>>

\* ServiceProvider.SetSelected: the catalogue pins and unpins.
SelectService(s) ==
    /\ Toggle
    /\ pins' = IF s \in pins THEN pins \ {s} ELSE pins \cup {s}
    /\ UNCHANGED <<selections, placements>>

\* PutPlacement: match is the revision of If-Match, None without one.
PutPlacement(p, match, enabled) ==
    LET old == placements[p] IN
    /\ Toggle
    /\ IF old = None
       THEN /\ match = None
            /\ Room
            /\ placements' = [placements EXCEPT ![p] = [revision |-> 1, enabled |-> enabled]]
       ELSE /\ match = old.revision
            /\ enabled # old.enabled
            /\ placements' = [placements EXCEPT
                   ![p] = [revision |-> old.revision + 1, enabled |-> enabled]]
    /\ UNCHANGED <<selections, pins>>

DeletePlacement(p, match) ==
    /\ Toggle
    /\ placements[p] # None
    /\ placements[p].revision = match
    /\ placements' = [placements EXCEPT ![p] = None]
    /\ UNCHANGED <<selections, pins>>

----------------------------------------------------------------------------
(* A client opens the editor: it reads the layout, then previews it, and   *)
(* starts over once if the layout changed in between.                      *)

ReadLayout(c) ==
    /\ tabs[c].pc = "idle"
    /\ tabs' = [tabs EXCEPT ![c] =
                  [@ EXCEPT !.pc = "previewing", !.base = readLayout, !.attempt = 1]]
    /\ UNCHANGED <<row, widgets, inflight, answers, requests, toggles, log>>

\* Layouts.Preview of the document just read.
Previewed(c) ==
    ValidateLayout(tabs[c].base.doc, readLayout.doc, active) = "ok"

PreviewReady(c) ==
    /\ tabs[c].pc = "previewing"
    /\ Previewed(c)
    /\ tabs[c].base.revision = readLayout.revision
    /\ tabs' = [tabs EXCEPT ![c] =
                  [@ EXCEPT !.pc = "editing", !.attempt = 0,
                            !.tokens = MembershipTokens(readLayout.doc, active)]]
    /\ UNCHANGED <<row, widgets, inflight, answers, requests, toggles, log>>

PreviewStale(c) ==
    /\ tabs[c].pc = "previewing"
    /\ ~Previewed(c) \/ tabs[c].base.revision # readLayout.revision
    /\ tabs' = [tabs EXCEPT ![c] =
                  IF Previewed(c) /\ @.attempt = 1
                  THEN [@ EXCEPT !.base = readLayout, !.attempt = 2]
                  ELSE Idle]
    /\ UNCHANGED <<row, widgets, inflight, answers, requests, toggles, log>>

----------------------------------------------------------------------------
(* The change a client sends: a whole document edited from the one it read *)
(* or one of the targeted edits.  Whatever it does, it names the revision  *)
(* it read.                                                                *)

\* Documents a client makes of d: a group added, deleted with and without
\* moving what it holds, a widget placed, a style changed.
Drafts(d) ==
    {[d EXCEPT !.groups = @ \cup {u}, !.shown[u] = 1] : u \in UserGroups \ d.groups}
    \cup {[d EXCEPT !.groups = @ \ {gh[1]},
                    !.placed = [g \in Groups |->
                       IF g = gh[1] THEN {}
                       ELSE IF g = gh[2] THEN d.placed[g] \cup d.placed[gh[1]]
                       ELSE d.placed[g]],
                    !.order[gh[1]] = Alphabetical,
                    !.page.ids = Without(@, gh[1]),
                    !.shown[gh[1]] = 0,
                    !.sources = [k \in Sources |->
                       IF d.sources[k] = gh[1] THEN gh[2] ELSE d.sources[k]]]
          : gh \in {x \in d.groups \X d.groups : x[1] # x[2]}}
    \cup {[d EXCEPT !.groups = @ \ {g}, !.shown[g] = 0] : g \in d.groups}
    \cup {[d EXCEPT !.placed[gi[1]] = @ \cup {gi[2]}] : gi \in d.groups \X Items}
    \cup {[d EXCEPT !.style = s] : s \in (Styles \cup {BadStyle}) \ {d.style}}

Permutings(S) == {s \in [1..Cardinality(S) -> S] : IsInjective(s)}

\* What a client that read d and the tokens may ask for.
Changes(d, tokens) ==
    [kind : {"replace"}, doc : Drafts(d)]
    \cup [kind : {"orderGroups"},
          order : {Alphabetical, Custom(Reverse(Ordered(d.groups, Alphabetical)))}]
    \cup (UNION {[kind : {"orderItems"}, group : {g}, token : {tokens[g]},
                  order : {Alphabetical} \cup {Custom(s) : s \in Permutings(tokens[g][2])}]
                 : g \in d.groups})
    \cup (UNION {[kind : {"move"}, item : Items, group : {g},
                  before : {"absent", "null"} \cup tokens[g][2]] : g \in d.groups})

\* The request carries its change; what that is matters only once it is
\* served, and is chosen there.
Submit(c) ==
    /\ tabs[c].pc = "editing"
    /\ requests < MaxRequests
    /\ requests' = requests + 1
    /\ inflight' = inflight \cup {[id |-> requests + 1, client |-> c,
                                   base |-> tabs[c].base, tokens |-> tabs[c].tokens]}
    /\ tabs' = [tabs EXCEPT ![c] = [Idle EXCEPT !.pc = "waiting", !.request = requests + 1]]
    /\ UNCHANGED <<row, widgets, answers, toggles, log>>

----------------------------------------------------------------------------
(* The API serves a request: LayoutStore.Update around the edit.           *)

\* The function the route hands to Update.
Edit(change, d) ==
    CASE change.kind = "replace" -> Edited(change.doc)
      [] change.kind = "orderGroups" -> OrderGroups(d, change.order)
      [] change.kind = "orderItems" ->
            OrderItems(d, active, change.group, change.token, change.order)
      [] change.kind = "move" ->
            Move(d, active, change.item, change.group, change.before)

\* Fault: an edit of a saved document is taken to be valid.
EditedLayoutFault(change, d) == Edit(change, d)

\* Layouts.change: the edit, then validation against what it replaces.
EditedLayout(change, d) ==
    LET edit == Edit(change, d)
        valid == ValidateLayout(edit.doc, d, active)
    IN  IF edit.code # "ok" THEN edit
        ELSE IF valid # "ok" THEN Refused(valid, d)
        ELSE edit

\* Nobody reads the answer once the client has given up.
Answer(r, change, code, state) ==
    IF tabs[r.client].pc = "waiting" /\ tabs[r.client].request = r.id
    THEN answers \cup {[id |-> r.id, client |-> r.client, base |-> r.base.revision,
                        change |-> change, code |-> code, state |-> state]}
    ELSE answers

Written(r, d) ==
    /\ row' = [revision |-> readLayout.revision + 1, doc |-> d]
    /\ log' = Append(log, [value |-> d, base |-> r.base.revision, by |-> r.id])

\* Fault: the request's revision is not compared.
CurrentFault(r) == TRUE

Current(r) == r.base.revision = readLayout.revision

\* Refused: another revision, or an edit that is not accepted.
ServeRefused(r, edit) ==
    LET code == IF Current(r) THEN edit.code ELSE "revision_conflict" IN
    /\ code # "ok"
    /\ inflight' = inflight \ {r}
    /\ answers' = Answer(r, None, code, None)
    /\ UNCHANGED <<row, widgets, tabs, requests, toggles, log>>

\* Accepted: a document that differs is written at the next revision.
ServeAccepted(r, change, edit) ==
    /\ Current(r)
    /\ edit.code = "ok"
    /\ IF edit.doc = readLayout.doc THEN UNCHANGED <<row, log>> ELSE Written(r, edit.doc)
    /\ inflight' = inflight \ {r}
    /\ answers' = Answer(r, change, "ok",
                    IF edit.doc = readLayout.doc THEN readLayout
                    ELSE [revision |-> readLayout.revision + 1, doc |-> edit.doc])
    /\ UNCHANGED <<widgets, tabs, requests, toggles>>

\* Unavailable: the write lock was not had in time, a statement failed, or
\* the commit reported an error, after which the write may be there.
ServeUnavailable(r, edit) ==
    /\ \/ UNCHANGED <<row, log>>
       \/ Current(r) /\ edit.code = "ok" /\ edit.doc # readLayout.doc /\ Written(r, edit.doc)
    /\ inflight' = inflight \ {r}
    /\ answers' = Answer(r, None, "unavailable", None)
    /\ UNCHANGED <<widgets, tabs, requests, toggles>>

ServeEdit(r, change, edit) ==
    ServeRefused(r, edit) \/ ServeAccepted(r, change, edit) \/ ServeUnavailable(r, edit)

Serve(r, change) == ServeEdit(r, change, EditedLayout(change, readLayout.doc))

----------------------------------------------------------------------------
(* The client learns what became of its request.                           *)

\* Fault: any documented code proves that nothing was written.
documentedLayoutFailureFault(code) == code # "ok"

\* Codes after which nothing was written.
documentedLayoutFailure(code) ==
    code \in {"not_found", "limit_exceeded", "membership_changed",
              "revision_conflict", "invalid_layout"}

\* validLayoutState: the editor's own reading of a consistent document.
ValidLayoutState(state) ==
    LET d == state.doc IN
    /\ Cardinality(d.groups) \in 1..MaxGroups
    /\ ~(References(d) > MaxRefs)
    /\ Consistent(d)

\* SaveLayout accepts the same revision or the next, and the document sent.
Confirmed(a) ==
    /\ ValidLayoutState(a.state)
    /\ a.state.revision \in {a.base, a.base + 1}
    /\ a.change.kind = "replace" => a.state.doc = a.change.doc

Outcome(a) ==
    IF a.code = "ok" /\ Confirmed(a) THEN "saved"
    ELSE IF documentedLayoutFailure(a.code) THEN "refused"
    ELSE "uncertain"

\* The client is told; its editor starts from what is saved.
Receive(a) ==
    /\ answers' = answers \ {a}
    /\ tabs' = [tabs EXCEPT ![a.client] = Idle]
    /\ UNCHANGED <<row, widgets, inflight, requests, toggles, log>>

\* The client's deadline passes or the answer is lost; a request still on
\* its way may be served all the same.
GiveUp(c) ==
    /\ tabs[c].pc = "waiting"
    /\ answers' = {a \in answers : a.client # c}
    /\ tabs' = [tabs EXCEPT ![c] = Idle]
    /\ UNCHANGED <<row, widgets, inflight, requests, toggles, log>>

----------------------------------------------------------------------------
Revisions == {None} \cup 1..MaxToggles

Next ==
    \/ \E h \in Hosts : SelectHost(h) \/ DeselectHost(h)
    \/ \E s \in Services : SelectService(s)
    \/ \E p \in Plugins, match \in Revisions, enabled \in BOOLEAN :
          PutPlacement(p, match, enabled)
    \/ \E p \in Plugins, match \in Revisions : DeletePlacement(p, match)
    \/ \E c \in Clients : \/ ReadLayout(c) \/ PreviewReady(c) \/ PreviewStale(c)
                          \/ Submit(c) \/ GiveUp(c)
    \/ \E r \in inflight : \E change \in Changes(r.base.doc, r.tokens) : Serve(r, change)
    \/ \E a \in answers : Receive(a)

Spec == Init /\ [][Next]_vars

----------------------------------------------------------------------------
(* Properties *)

TypeOK ==
    /\ row \in [revision : Nat, doc : LayoutDocuments]
    /\ selections \subseteq Hosts
    /\ pins \subseteq Services
    /\ placements \in [Plugins -> {None} \cup [revision : Nat \ {0}, enabled : BOOLEAN]]
    /\ requests \in Nat
    /\ toggles \in Nat
    /\ \A c \in Clients : tabs[c].pc \in {"idle", "previewing", "editing", "waiting"}
    /\ \A r \in inflight : r.id \in 1..requests

(* A layout the API has accepted can be read back: validated on its own,   *)
(* with nothing selected, it passes.  Otherwise readLayout answers         *)
(* layout_unreadable and neither the homepage nor the editor opens again.  *)
StoredLayoutReadable ==
    row.revision # 0 => ValidateLayout(row.doc, row.doc, {}) = "ok"

(* Whatever was saved and whatever is selected now, every selected widget  *)
(* and every dormant reference resolves to exactly one group, once.        *)
(* Code: ResolveLayout; the editor refuses a preview that lists an item    *)
(* twice.                                                                  *)
EveryWidgetOnce ==
    LET d == readLayout.doc
        resolved == ResolveLayout(d, active)
    IN  \A i \in active \cup Refs(d) :
          Cardinality({gn \in d.groups \X (1..Cardinality(Items)) :
                         /\ gn[2] \in DOMAIN resolved[gn[1]]
                         /\ resolved[gn[1]][gn[2]] = i}) = 1

(* What a client concludes from an answer is true: saved means that the    *)
(* layout answered is in the history at the revision answered, refused     *)
(* that nothing was written for this request, and an answer that says ok   *)
(* is never taken for a doubtful one.  Code: documentedLayoutFailure,      *)
(* SaveLayout; Update's commit error.                                      *)
AnswersTruthful ==
    \A a \in answers :
      /\ Outcome(a) = "saved" =>
           /\ a.state.revision <= Len(log)
           /\ a.state.revision > 0 => log[a.state.revision].value = a.state.doc
      /\ Outcome(a) = "refused" => \A n \in DOMAIN log : log[n].by # a.id
      /\ a.code = "ok" => Outcome(a) = "saved"

GroupsOf(d, sel, i) == {g \in d.groups : i \in Members(d, sel, g)}

(* An edit that is accepted does what its client asked and nothing else.   *)
(* An order of items applies to the very members its client saw; a move    *)
(* puts its widget in the group and place asked for and leaves every other *)
(* widget in its group, although it may have to pin down members that were *)
(* there by default.  Code: OrderItems, Move and the membership token.     *)
EditsAsAsked ==
    [][\A a \in answers' \ answers :
         LET change == a.change
             d == readLayout.doc
         IN  a.code = "ok" =>
             /\ change.kind = "orderItems" =>
                  LET g == change.group
                      resolved == ResolveLayout(a.state.doc, active)[g]
                  IN  /\ ToSet(resolved) = change.token[2]
                      /\ change.order.mode = "custom" => resolved = change.order.ids
             /\ change.kind = "move" =>
                  /\ GroupsOf(a.state.doc, active, change.item) = {change.group}
                  /\ \A i \in (active \cup Refs(d)) \ {change.item} :
                        GroupsOf(a.state.doc, active, i) = GroupsOf(d, active, i)
                  /\ change.before \in Items =>
                        LET seq == ResolveLayout(a.state.doc, active)[change.group]
                        IN  \E n \in 2..Len(seq) : /\ seq[n] = change.before
                                                   /\ seq[n - 1] = change.item]_vars

(* Nobody's save is overwritten unseen: every version was made from the    *)
(* version just before it.  Code: the revision compared and advanced in    *)
(* LayoutStore.Update.                                                     *)
Register == INSTANCE LayoutRegister
    WITH Initial <- Start.doc, versions <- log

ImplementsRegister == Register!Spec

(* Host selections and plugin placements never exceed the limit they       *)
(* share.  Code: the count in DashboardSelections.Set and in PutPlacement. *)
SharedLimit == Used <= Limit

=============================================================================
