--------------------------- MODULE LayoutDocument ---------------------------
(***************************************************************************)
(* The homepage layout document and the pure functions on it               *)
(* (internal/application/dashboard/layout_*.go): validation against the    *)
(* document it replaces, resolution of every widget to one group, the      *)
(* membership token, and the targeted edits.                               *)
(*                                                                         *)
(* A document keeps its groups and placements in canonical order, which is *)
(* what a set stands for here; titles, geometry, spans and widths are one  *)
(* "style", accepted or not.                                               *)
(***************************************************************************)
EXTENDS Integers, FiniteSets, SequencesExt

CONSTANTS
    Items,       \* widget identities
    SourceOf,    \* the source mapping each falls under
    UserGroups,  \* group identities a user can create
    Rank,        \* the order of item and group names, then of identities
    Styles,      \* the accepted styles
    BadStyle,    \* a title, geometry or span outside the accepted ones
    MaxGroups,   \* 32 in the code
    MaxRefs      \* 512 in the code

Builtins == {"builtin:hosts", "builtin:services", "builtin:widgets"}

Groups == Builtins \cup UserGroups

Sources == {"host", "service", "other"}

ASSUME LayoutAssumptions ==
    /\ IsFiniteSet(Items)
    /\ SourceOf \in [Items -> Sources]
    /\ {"absent", "null"} \cap Items = {}
    /\ Rank \in [Items \cup Groups -> Nat]
    /\ \A S \in {Items, Groups} : \A a, b \in S : Rank[a] = Rank[b] => a = b
    /\ Styles # {} /\ BadStyle \notin Styles
    /\ MaxGroups \in Nat
    /\ MaxRefs \in Nat

Alphabetical == [mode |-> "alphabetical", ids |-> <<>>]

Custom(ids) == [mode |-> "custom", ids |-> ids]

Orderings(S) == [mode : {"alphabetical", "custom"}, ids : Seq(S)]

LayoutDocuments ==
    [groups : SUBSET Groups,
     placed : [Groups -> SUBSET Items],   \* explicit placements
     order : [Groups -> Orderings(Items)],
     page : Orderings(Groups),            \* the order of the groups
     shown : [Groups -> Nat],             \* homepage placements of each group
     sources : [Sources -> Groups],       \* where unplaced widgets go
     style : Styles \cup {BadStyle}]

\* What an installation without a saved layout shows.
DefaultLayout(style) ==
    [groups |-> Builtins,
     placed |-> [g \in Groups |-> {}],
     order |-> [g \in Groups |-> Alphabetical],
     page |-> Alphabetical,
     shown |-> [g \in Groups |-> IF g \in Builtins THEN 1 ELSE 0],
     sources |-> [k \in Sources |-> CASE k = "host" -> "builtin:hosts"
                                      [] k = "service" -> "builtin:services"
                                      [] OTHER -> "builtin:widgets"],
     style |-> style]

Refs(d) == UNION {d.placed[g] : g \in d.groups}

----------------------------------------------------------------------------
(* ValidateLayout *)

WellOrdered(o, members) ==
    /\ o.mode = "alphabetical" => o.ids = <<>>
    /\ IsInjective(o.ids)
    /\ ToSet(o.ids) \subseteq members

\* What the document says of itself.
Consistent(d) ==
    /\ d.style \in Styles
    /\ \A g, h \in d.groups : g # h => d.placed[g] \cap d.placed[h] = {}
    /\ \A g \in d.groups : WellOrdered(d.order[g], d.placed[g])
    /\ WellOrdered(d.page, d.groups)
    /\ \A g \in Groups : d.shown[g] = IF g \in d.groups THEN 1 ELSE 0
    /\ \A k \in Sources : d.sources[k] \in d.groups

\* What the document may change of the one before it.
Succeeds(d, previous) ==
    /\ d.groups \cap Builtins \subseteq previous.groups
    /\ \A g \in previous.groups \ d.groups : previous.placed[g] \subseteq Refs(d)

References(d) == Cardinality({r \in d.groups \X Items : r[2] \in d.placed[r[1]]})

\* The answer's code: limits first, then field errors, then references to
\* widgets that are neither selected nor in the document before.
ValidateLayout(d, previous, active) ==
    IF Cardinality(d.groups) \notin 1..MaxGroups \/ References(d) > MaxRefs
    THEN "limit_exceeded"
    ELSE IF ~(Consistent(d) /\ Succeeds(d, previous)) THEN "invalid_layout"
    ELSE IF ~(Refs(d) \subseteq Refs(previous) \cup active) THEN "not_found"
    ELSE "ok"

----------------------------------------------------------------------------
(* ResolveLayout: explicit placements first, the source's default group    *)
(* for every other selected widget.                                        *)

\* Ranked identities in their order, the others after them alphabetically.
Position(o, id) ==
    IF o.mode = "custom" /\ id \in ToSet(o.ids)
    THEN CHOOSE n \in DOMAIN o.ids : o.ids[n] = id
    ELSE Len(o.ids) + 1 + Rank[id]

\* The n-th has n - 1 before it.
Ordered(ids, o) ==
    LET before(x) == {y \in ids : Position(o, y) < Position(o, x)}
    IN  [n \in 1..Cardinality(ids) |->
           CHOOSE x \in ids : Cardinality(before(x)) = n - 1]

Places(d, i) == {g \in d.groups : i \in d.placed[g]}

\* Fault: a widget is listed under its source's group wherever it was put.
MembersFault(d, active, g) ==
    d.placed[g] \cup {i \in active : d.sources[SourceOf[i]] = g}

Members(d, active, g) ==
    d.placed[g] \cup
    {i \in active : Places(d, i) = {} /\ d.sources[SourceOf[i]] = g}

ResolveLayout(d, active) ==
    [g \in d.groups |-> Ordered(Members(d, active, g), d.order[g])]

\* A digest of the group and its members, dormant ones included.
MembershipToken(g, ids) == <<g, ids>>

MembershipTokens(d, active) ==
    [g \in d.groups |-> MembershipToken(g, Members(d, active, g))]

\* The groups a homepage shows: those with a selected widget, in order.
ActiveLayoutGroups(d, active) ==
    LET resolved == ResolveLayout(d, active)
        shown(g) == SelectSeq(resolved[g], LAMBDA i : i \in active)
        groups == SelectSeq(Ordered(d.groups, d.page), LAMBDA g : shown(g) # <<>>)
    IN  [n \in DOMAIN groups |-> [group |-> groups[n], items |-> shown(groups[n])]]

----------------------------------------------------------------------------
(* The edits of the API's targeted routes.  Each takes the saved document  *)
(* and yields a code and the edited document, which ValidateLayout still   *)
(* has to accept.                                                          *)

Edited(d) == [code |-> "ok", doc |-> d]

Refused(code, d) == [code |-> code, doc |-> d]

\* A custom order must name every member exactly once.
CompleteOrder(o, members) ==
    IF (o.mode = "alphabetical" /\ o.ids # <<>>) \/ ~IsInjective(o.ids)
    THEN "invalid_layout"
    ELSE IF o.mode = "custom" /\ ToSet(o.ids) # members THEN "membership_changed"
    ELSE "ok"

OrderGroups(d, o) ==
    IF CompleteOrder(o, d.groups) = "ok"
    THEN Edited([d EXCEPT !.page = o])
    ELSE Refused(CompleteOrder(o, d.groups), d)

\* Custom order makes every member of the group explicit.
OrderItems(d, active, g, token, o) ==
    LET members == Members(d, active, g)
        complete == CompleteOrder(o, members)
    IN  IF g \notin d.groups THEN Refused("not_found", d)
        ELSE IF MembershipToken(g, members) # token
        THEN Refused("membership_changed", d)
        ELSE IF complete # "ok" THEN Refused(complete, d)
        ELSE Edited([d EXCEPT
               !.placed[g] = IF o.mode = "custom" THEN members ELSE @,
               !.order[g] = o])

\* A list of identities, which holds each of them once, without i.
Without(ids, i) ==
    IF i \in ToSet(ids) THEN RemoveAt(ids, CHOOSE n \in DOMAIN ids : ids[n] = i) ELSE ids

\* The document without the widget's explicit place and rank.
Lift(d, i) ==
    [d EXCEPT !.placed = [g \in Groups |-> d.placed[g] \ {i}],
              !.order = [g \in Groups |->
                 [d.order[g] EXCEPT !.ids = Without(@, i)]]]

\* Fault: only the moved widget is ranked and placed.
MoveFault(d, active, i, g, before) ==
    IF {h \in d.groups : i \in Members(d, active, h)} = {} \/ g \notin d.groups
    THEN Refused("not_found", d)
    ELSE Edited([Lift(d, i) EXCEPT !.placed[g] = {i}, !.order[g] = Custom(<<i>>)])

\* before: "absent" leaves the destination's order alone, "null" puts the
\* widget last, a member puts it before that member; the latter two make the
\* whole destination explicit and ranked.
Move(d, active, i, g, before) ==
    LET source == {h \in d.groups : i \in Members(d, active, h)}
        others == Without(ResolveLayout(d, active)[g], i)
        at == IF before = "null" THEN Len(others) + 1
              ELSE CHOOSE n \in 1..Len(others) : others[n] = before
        ids == InsertAt(others, at, i)
    IN  IF source = {} \/ g \notin d.groups THEN Refused("not_found", d)
        ELSE IF source = {g} /\ before = "absent" THEN Edited(d)
        ELSE IF before = "absent"
        THEN Edited([Lift(d, i) EXCEPT !.placed[g] = @ \cup {i}])
        ELSE IF before # "null" /\ before \notin ToSet(others)
        THEN Refused("invalid_layout", d)
        ELSE Edited([Lift(d, i) EXCEPT !.placed[g] = ToSet(ids),
                                       !.order[g] = Custom(ids)])

=============================================================================
