-------------------------- MODULE DashboardProofs --------------------------
(***************************************************************************)
(* Proofs about Dashboard, for any widgets, groups, clients and limits,    *)
(* and about DashboardStream.                                              *)
(*                                                                         *)
(* The saved layout is a register (Recorded); what its clients are told    *)
(* about it is true because each request is served once and leaves its     *)
(* identity in the history (Identified).  Documents keep their type        *)
(* through every edit (DInv); that their lists hold each widget once, and  *)
(* that edits do as asked, rests on the lists in order being counted, not  *)
(* built.                                                                  *)
(***************************************************************************)
EXTENDS Dashboard, DashboardStream, FiniteSetTheorems, SequenceTheorems, TLAPS

\* The row is the last layout written, and its revision their number.
Recorded ==
  /\ \E S : log \in Seq(S)
  /\ readLayout.revision = Len(log)
  /\ readLayout.doc = IF log = <<>> THEN Start.doc ELSE log[Len(log)].value

\* What a step does to the layout: nothing, or one layout that was accepted
\* against the one saved and differs from it.
Wrote(r, d) ==
  /\ Written(r, d)
  /\ r.base.revision = readLayout.revision
  /\ d # readLayout.doc
  /\ ValidateLayout(d, readLayout.doc, active) = "ok"

LEMMA AcceptedIsValid ==
  ASSUME NEW change, NEW d, EditedLayout(change, d).code = "ok"
  PROVE  /\ EditedLayout(change, d) = Edit(change, d)
         /\ ValidateLayout(EditedLayout(change, d).doc, d, active) = "ok"
  <1> DEFINE edit == Edit(change, d)
             valid == ValidateLayout(edit.doc, d, active)
  <1>1. EditedLayout(change, d) =
          IF edit.code # "ok" THEN edit
          ELSE IF valid # "ok" THEN Refused(valid, d)
          ELSE edit
    BY DEF EditedLayout
  <1> HIDE DEF edit, valid
  <1>2. Refused(valid, d).code = valid
    BY DEF Refused
  <1>3. valid = "ok" /\ EditedLayout(change, d) = edit
    BY <1>1, <1>2
  <1> QED
    BY <1>3 DEF edit, valid

LEMMA LayoutStep ==
  ASSUME [Next]_vars
  PROVE  \/ UNCHANGED <<row, log>>
         \/ \E r, d : Wrote(r, d)
  <1>1. ASSUME NEW r, NEW change, Serve(r, change)
        PROVE  UNCHANGED <<row, log>> \/ \E q, d : Wrote(q, d)
    <2> DEFINE edit == EditedLayout(change, readLayout.doc)
    <2>1. ServeEdit(r, change, edit)
      BY <1>1 DEF Serve
    <2>2. edit.code = "ok" => ValidateLayout(edit.doc, readLayout.doc, active) = "ok"
      BY AcceptedIsValid
    <2> HIDE DEF edit
    <2>3. \/ UNCHANGED <<row, log>>
          \/ /\ Current(r) /\ edit.code = "ok" /\ edit.doc # readLayout.doc
             /\ Written(r, edit.doc)
      BY <2>1 DEF ServeEdit, ServeRefused, ServeAccepted, ServeUnavailable
    <2> QED
      BY <2>2, <2>3 DEF Wrote, Current
  <1>2. CASE UNCHANGED vars
    BY <1>2 DEF vars
  <1>3. CASE Next
    <2>1. ASSUME NEW c PROVE ReadLayout(c) \/ PreviewReady(c) \/ PreviewStale(c)
                              \/ Submit(c) \/ GiveUp(c) => UNCHANGED <<row, log>>
      BY DEF ReadLayout, PreviewReady, PreviewStale, Submit, GiveUp
    <2>2. ASSUME NEW a PROVE Receive(a) => UNCHANGED <<row, log>>
      BY DEF Receive
    <2>3. Toggle => UNCHANGED <<row, log>>
      BY DEF Toggle
    <2>4. ASSUME NEW x, NEW y, NEW z
          PROVE  SelectHost(x) \/ DeselectHost(x) \/ SelectService(x)
                 \/ PutPlacement(x, y, z) \/ DeletePlacement(x, y) => Toggle
      BY DEF SelectHost, DeselectHost, SelectService, PutPlacement, DeletePlacement
    <2> QED
      BY <1>1, <1>3, <2>1, <2>2, <2>3, <2>4 DEF Next
  <1> QED
    BY <1>2, <1>3

(* A layout that was accepted can be read back: what ValidateLayout accepts *)
(* over another document it accepts over itself, with nothing selected.     *)
LEMMA AcceptedIsReadable ==
  ASSUME NEW d, NEW old, NEW sel, ValidateLayout(d, old, sel) = "ok"
  PROVE  ValidateLayout(d, d, {}) = "ok"
  <1>1. /\ ~(Cardinality(d.groups) \notin 1..MaxGroups \/ References(d) > MaxRefs)
        /\ Consistent(d)
    BY DEF ValidateLayout
  <1>2. Succeeds(d, d)
    BY DEF Succeeds
  <1> QED
    BY <1>1, <1>2 DEF ValidateLayout

(* Whatever was saved, by however many clients, the homepage and the       *)
(* editor can read it again (LayoutStore.Update, readLayout).              *)
THEOREM AlwaysReadable == Spec => []StoredLayoutReadable
  <1>1. Init => StoredLayoutReadable
    BY DEF Init, Start, StoredLayoutReadable
  <1>2. StoredLayoutReadable /\ [Next]_vars => StoredLayoutReadable'
    <2> SUFFICES ASSUME StoredLayoutReadable, [Next]_vars PROVE StoredLayoutReadable'
      OBVIOUS
    <2>1. CASE UNCHANGED <<row, log>>
      BY <2>1 DEF StoredLayoutReadable
    <2>2. ASSUME NEW r, NEW d, Wrote(r, d) PROVE StoredLayoutReadable'
      <3>1. row'.doc = d
        BY <2>2 DEF Wrote, Written
      <3>2. ValidateLayout(d, d, {}) = "ok"
        BY <2>2, AcceptedIsReadable DEF Wrote
      <3> QED
        BY <3>1, <3>2 DEF StoredLayoutReadable
    <2> QED
      BY <2>1, <2>2, LayoutStep
  <1> QED
    BY <1>1, <1>2, PTL DEF Spec

-----------------------------------------------------------------------------
(* Refinement of the register. *)

LEMMA WroteRecorded ==
  ASSUME Recorded, NEW r, NEW d, Wrote(r, d)
  PROVE  Recorded' /\ Register!Write
  <1> DEFINE e == [value |-> d, base |-> r.base.revision, by |-> r.id]
  <1>1. PICK S : log \in Seq(S)
    BY DEF Recorded
  <1>2. log \in Seq(S \cup {e})
    BY <1>1, SeqMonotonic
  <1>3. log' = Append(log, e)
    BY DEF Wrote, Written
  <1>4. e.value = d /\ e.base = Len(log)
    BY DEF Wrote, Recorded
  <1> HIDE DEF e
  <1>5. /\ log' \in Seq(S \cup {e}) /\ log' # <<>>
        /\ Len(log') = Len(log) + 1 /\ log'[Len(log) + 1] = e
    BY <1>2, <1>3, AppendProperties
  <1>6. Len(log) \in Nat
    BY <1>1, LenProperties
  <1>7. /\ row'.revision = Len(log) + 1 /\ row'.doc = d
    BY DEF Wrote, Written, Recorded
  <1>8. Recorded'
    <2>1. readLayout' = row'
      BY <1>6, <1>7 DEF readLayout
    <2> QED
      BY <1>4, <1>5, <1>7, <2>1 DEF Recorded
  <1>9. Register!Write
    <2>1. d # readLayout.doc
      BY DEF Wrote
    <2>2. Register!Current = readLayout.doc
      BY DEF Register!Current, Recorded
    <2> QED
      BY <1>3, <1>4, <1>5, <2>1, <2>2 DEF Register!Write
  <1> QED
    BY <1>8, <1>9

LEMMA InitRecorded == Init => Recorded /\ Register!Init
  <1> SUFFICES ASSUME Init PROVE Recorded /\ Register!Init
    OBVIOUS
  <1>1. log = <<>> /\ log \in Seq({}) /\ Len(log) = 0
    BY DEF Init
  <1>2. readLayout = Start /\ Start.revision = 0
    BY DEF Init, readLayout, Start
  <1> QED
    BY <1>1, <1>2 DEF Recorded, Register!Init

LEMMA StepRecorded == Recorded /\ [Next]_vars => Recorded' /\ [Register!Write]_log
  <1> SUFFICES ASSUME Recorded, [Next]_vars PROVE Recorded' /\ [Register!Write]_log
    OBVIOUS
  <1>1. CASE UNCHANGED <<row, log>>
    BY <1>1 DEF Recorded, readLayout
  <1>2. ASSUME NEW r, NEW d, Wrote(r, d) PROVE Recorded' /\ [Register!Write]_log
    BY <1>2, WroteRecorded
  <1> QED
    BY <1>1, <1>2, LayoutStep

(* The saved layout is a register of numbered versions: every version was  *)
(* made by a client that had read the version just before it, and differs  *)
(* from it (LayoutStore.Update).                                           *)
THEOREM Refinement == Spec => ImplementsRegister
  BY InitRecorded, StepRecorded, PTL DEF Spec, ImplementsRegister, Register!Spec

-----------------------------------------------------------------------------
(* What clients conclude from answers. *)

\* An answer that says ok is of a layout written; one that says why not is of
\* a request for which nothing was written.
Truthful(a) ==
  /\ a.code = "ok" =>
       /\ Confirmed(a) /\ a.state.revision \in 0..Len(log)
       /\ a.state.revision > 0 => log[a.state.revision].value = a.state.doc
  /\ documentedLayoutFailure(a.code) => \A n \in DOMAIN log : log[n].by # a.id

\* A request is served once: while it is on its way nothing has been written
\* or answered for it.
Identified ==
  /\ requests \in Nat
  /\ \A r \in inflight : r.id \in 1..requests
  /\ \A r, q \in inflight : r.id = q.id => r = q
  /\ \A n \in DOMAIN log : /\ log[n].by \in 1..requests
                           /\ \A r \in inflight : log[n].by # r.id
  /\ \A a \in answers : /\ a.id \in 1..requests
                        /\ \A r \in inflight : a.id # r.id

\* The inductive invariant.
AInv == Recorded /\ Identified /\ \A a \in answers : Truthful(a)

\* Nothing is asked, written or answered at first.
LEMMA InitAInv == Init => AInv
  <1> SUFFICES ASSUME Init PROVE AInv
    OBVIOUS
  <1>1. /\ requests = 0 /\ inflight = {} /\ answers = {} /\ DOMAIN log = {}
    BY DEF Init
  <1> QED
    BY <1>1, InitRecorded DEF AInv, Identified

\* The log grows at its end only.
LEMMA LogGrows ==
  ASSUME Recorded, NEW r, NEW d, Wrote(r, d)
  PROVE  /\ Len(log) \in Nat /\ Len(log') = Len(log) + 1
         /\ DOMAIN log = 1..Len(log) /\ DOMAIN log' = 1..(Len(log) + 1)
         /\ \A n \in 1..Len(log) : log'[n] = log[n]
         /\ log'[Len(log) + 1].by = r.id /\ log'[Len(log) + 1].value = d
  <1> DEFINE e == [value |-> d, base |-> r.base.revision, by |-> r.id]
  <1>1. PICK S : log \in Seq(S)
    BY DEF Recorded
  <1>2. log \in Seq(S \cup {e})
    BY <1>1, SeqMonotonic
  <1>3. log' = Append(log, e)
    BY DEF Wrote, Written
  <1>4. e.value = d /\ e.by = r.id
    OBVIOUS
  <1> HIDE DEF e
  <1>5. /\ log' \in Seq(S \cup {e})
        /\ Len(log') = Len(log) + 1 /\ log'[Len(log) + 1] = e
        /\ \A n \in 1..Len(log) : log'[n] = log[n]
    BY <1>2, <1>3, AppendProperties
  <1>6. Len(log) \in Nat /\ DOMAIN log = 1..Len(log) /\ DOMAIN log' = 1..Len(log')
    BY <1>1, <1>5, LenProperties
  <1> QED
    BY <1>4, <1>5, <1>6

\* A step may write a layout for a request that is on its way, or none.
WroteFor(r) == UNCHANGED <<row, log>> \/ \E d : Wrote(r, d)

\* What was true of an answer stays true: what is written later is written
\* later in the history, and for another request.
LEMMA StaysTruthful ==
  ASSUME AInv, NEW r \in inflight, WroteFor(r), NEW a, Truthful(a), a.id # r.id
  PROVE  Truthful(a)'
  <1>1. CASE UNCHANGED <<row, log>>
    BY <1>1 DEF Truthful
  <1>2. ASSUME NEW d, Wrote(r, d) PROVE Truthful(a)'
    <2>1. /\ Len(log) \in Nat /\ Len(log') = Len(log) + 1
          /\ DOMAIN log = 1..Len(log) /\ DOMAIN log' = 1..(Len(log) + 1)
          /\ \A n \in 1..Len(log) : log'[n] = log[n]
          /\ log'[Len(log) + 1].by = r.id
      BY <1>2, LogGrows DEF AInv
    <2>2. a.code = "ok" =>
            /\ Confirmed(a) /\ a.state.revision \in 0..Len(log')
            /\ a.state.revision > 0 => log'[a.state.revision].value = a.state.doc
      BY <2>1 DEF Truthful
    <2>3. documentedLayoutFailure(a.code) => \A n \in DOMAIN log' : log'[n].by # a.id
      BY <2>1 DEF Truthful
    <2> QED
      BY <2>2, <2>3 DEF Truthful
  <1> QED
    BY <1>1, <1>2 DEF WroteFor

\* A request that has been served, with an answer that is true.
LEMMA ServedKeeps ==
  ASSUME AInv, NEW r \in inflight, WroteFor(r), NEW a, a.id = r.id, Truthful(a)',
         inflight' = inflight \ {r}, answers' \subseteq answers \cup {a},
         requests' = requests
  PROVE  AInv'
  <1>1. Recorded'
    <2>1. CASE UNCHANGED <<row, log>>
      BY <2>1 DEF AInv, Recorded, readLayout
    <2>2. ASSUME NEW d, Wrote(r, d) PROVE Recorded'
      BY <2>2, WroteRecorded DEF AInv
    <2> QED
      BY <2>1, <2>2 DEF WroteFor
  <1>2. \A n \in DOMAIN log' : \/ n \in DOMAIN log /\ log'[n] = log[n]
                               \/ log'[n].by = r.id
    <2>1. ASSUME NEW d, Wrote(r, d), NEW n \in DOMAIN log'
          PROVE  (n \in DOMAIN log /\ log'[n] = log[n]) \/ log'[n].by = r.id
      BY <2>1, LogGrows DEF AInv
    <2> QED
      BY <2>1 DEF WroteFor
  <1>3. r.id \in 1..requests /\ \A q \in inflight' : q \in inflight /\ q.id # r.id
    BY DEF AInv, Identified
  <1>4. Identified'
    <2>1. \A n \in DOMAIN log' : /\ log'[n].by \in 1..requests
                                 /\ \A q \in inflight' : log'[n].by # q.id
      BY <1>2, <1>3 DEF AInv, Identified
    <2>2. \A b \in answers' : /\ b.id \in 1..requests
                              /\ \A q \in inflight' : b.id # q.id
      BY <1>3 DEF AInv, Identified
    <2> QED
      BY <1>3, <2>1, <2>2 DEF AInv, Identified
  <1>5. \A b \in answers' : Truthful(b)'
    <2> SUFFICES ASSUME NEW b \in answers, b # a PROVE Truthful(b)'
      OBVIOUS
    <2> QED
      BY StaysTruthful DEF AInv, Identified
  <1> QED
    BY <1>1, <1>4, <1>5 DEF AInv

\* The answer's fields.
Answers(r, change, code, state) ==
  [id |-> r.id, client |-> r.client, base |-> r.base.revision,
   change |-> change, code |-> code, state |-> state]

\* Answer adds that record or nothing.
LEMMA AnswerAdds ==
  ASSUME NEW r, NEW change, NEW code, NEW state, answers' = Answer(r, change, code, state)
  PROVE  /\ answers' \subseteq answers \cup {Answers(r, change, code, state)}
         /\ Answers(r, change, code, state).id = r.id
         /\ Answers(r, change, code, state).base = r.base.revision
         /\ Answers(r, change, code, state).change = change
         /\ Answers(r, change, code, state).code = code
         /\ Answers(r, change, code, state).state = state
  BY DEF Answer, Answers

\* A refusal: nothing was written for the request, and nothing will be.
LEMMA RefusedKeeps ==
  ASSUME AInv, NEW r \in inflight, NEW edit, ServeRefused(r, edit)
  PROVE  AInv'
  <1>0. PICK code : code = IF Current(r) THEN edit.code ELSE "revision_conflict"
    OBVIOUS
  <1> DEFINE a == Answers(r, None, code, None)
  <1>1. /\ code # "ok" /\ inflight' = inflight \ {r} /\ requests' = requests
        /\ answers' = Answer(r, None, code, None) /\ UNCHANGED <<row, log>>
    BY <1>0 DEF ServeRefused
  <1>2. answers' \subseteq answers \cup {a} /\ a.id = r.id /\ a.code = code
    BY <1>1, AnswerAdds
  <1> HIDE DEF a
  <1>3. Truthful(a)'
    BY <1>1, <1>2 DEF Truthful, AInv, Identified
  <1> QED
    BY <1>1, <1>2, <1>3, ServedKeeps DEF WroteFor

\* A failure that may have written is reported as one nobody may rely on.
LEMMA UnavailableKeeps ==
  ASSUME AInv, NEW r \in inflight, NEW edit, ServeUnavailable(r, edit), WroteFor(r)
  PROVE  AInv'
  <1> DEFINE a == Answers(r, None, "unavailable", None)
  <1>1. /\ inflight' = inflight \ {r} /\ requests' = requests
        /\ answers' = Answer(r, None, "unavailable", None)
    BY DEF ServeUnavailable
  <1>2. answers' \subseteq answers \cup {a} /\ a.id = r.id /\ a.code = "unavailable"
    BY <1>1, AnswerAdds
  <1> HIDE DEF a
  <1>3. Truthful(a)'
    BY <1>2 DEF Truthful, documentedLayoutFailure
  <1> QED
    BY <1>1, <1>2, <1>3, ServedKeeps

\* What the validation of an edit says of its document.
LEMMA AcceptedIsSound ==
  ASSUME NEW d, NEW old, NEW sel, ValidateLayout(d, old, sel) = "ok"
  PROVE  /\ Cardinality(d.groups) \in 1..MaxGroups /\ ~(References(d) > MaxRefs)
         /\ Consistent(d)
  BY DEF ValidateLayout

\* An answer ok: the layout that is there, or the one just written.
LEMMA AcceptedKeeps ==
  ASSUME AInv, NEW r \in inflight, NEW change, NEW edit, ServeAccepted(r, change, edit),
         WroteFor(r), ValidateLayout(edit.doc, readLayout.doc, active) = "ok",
         change.kind = "replace" => edit.doc = change.doc
  PROVE  AInv'
  <1> DEFINE same == edit.doc = readLayout.doc
  <1>0. PICK state : state = IF same THEN readLayout
                             ELSE [revision |-> readLayout.revision + 1, doc |-> edit.doc]
    OBVIOUS
  <1> DEFINE a == Answers(r, change, "ok", state)
  <1>1. /\ Current(r) /\ inflight' = inflight \ {r} /\ requests' = requests
        /\ answers' = Answer(r, change, "ok", state)
        /\ IF same THEN UNCHANGED <<row, log>> ELSE Written(r, edit.doc)
    BY <1>0 DEF ServeAccepted
  <1>2. /\ state.doc = edit.doc
        /\ state.revision = IF same THEN readLayout.revision ELSE readLayout.revision + 1
    BY <1>0
  <1>3. /\ answers' \subseteq answers \cup {a} /\ a.id = r.id /\ a.code = "ok"
        /\ a.base = r.base.revision /\ a.change = change /\ a.state = state
    BY <1>1, AnswerAdds
  <1> HIDE DEF a
  <1>4. /\ Len(log) \in Nat /\ readLayout.revision = Len(log) /\ r.base.revision = Len(log)
    <2>1. PICK S : log \in Seq(S)
      BY DEF AInv, Recorded
    <2>2. Len(log) \in Nat
      BY <2>1, LenProperties
    <2> QED
      BY <1>1, <2>2 DEF AInv, Recorded, Current
  <1>5. Confirmed(a)
    <2>1. ValidLayoutState(state)
      BY <1>2, AcceptedIsSound DEF ValidLayoutState
    <2> QED
      BY <1>2, <1>3, <1>4, <2>1 DEF Confirmed
  <1>6. /\ state.revision \in 0..Len(log')
        /\ state.revision > 0 => log'[state.revision].value = state.doc
    <2>1. CASE same
      <3>1. log' = log
        BY <1>1, <2>1
      <3>2. Len(log) > 0 => log # <<>>
        OBVIOUS
      <3>3. Len(log) > 0 => readLayout.doc = log[Len(log)].value
        BY <3>2 DEF AInv, Recorded
      <3> QED
        BY <1>2, <1>4, <2>1, <3>1, <3>3
    <2>2. CASE ~same
      <3>1. Wrote(r, edit.doc)
        BY <1>1, <2>2 DEF Wrote, Current
      <3>2. Len(log') = Len(log) + 1 /\ log'[Len(log) + 1].value = edit.doc
        BY <3>1, LogGrows DEF AInv
      <3> QED
        BY <1>2, <1>4, <2>2, <3>2
    <2> QED
      BY <2>1, <2>2
  <1>7. Truthful(a)'
    BY <1>3, <1>5, <1>6 DEF Truthful, documentedLayoutFailure
  <1> QED
    BY <1>1, <1>3, <1>7, ServedKeeps

\* An edit that replaces the document, once accepted, is the document sent.
LEMMA ReplacedBySent ==
  ASSUME NEW change, NEW d, EditedLayout(change, d).code = "ok", change.kind = "replace"
  PROVE  EditedLayout(change, d).doc = change.doc
  <1> DEFINE edit == Edit(change, d)
             valid == ValidateLayout(edit.doc, d, active)
  <1>1. edit = Edited(change.doc)
    BY DEF Edit
  <1>2. edit.code = "ok" /\ edit.doc = change.doc
    BY <1>1 DEF Edited
  <1>3. EditedLayout(change, d) =
          IF edit.code # "ok" THEN edit
          ELSE IF valid # "ok" THEN Refused(valid, d)
          ELSE edit
    BY DEF EditedLayout
  <1> HIDE DEF edit, valid
  <1>4. Refused(valid, d).code = valid
    BY DEF Refused
  <1> QED
    BY <1>2, <1>3, <1>4

\* Serving a request, all outcomes.
LEMMA ServeKeeps ==
  ASSUME AInv, NEW r \in inflight, NEW change, Serve(r, change)
  PROVE  AInv'
  <1> DEFINE edit == EditedLayout(change, readLayout.doc)
  <1>1. ServeEdit(r, change, edit)
    BY DEF Serve
  <1>2. edit.code = "ok" => /\ ValidateLayout(edit.doc, readLayout.doc, active) = "ok"
                            /\ change.kind = "replace" => edit.doc = change.doc
    BY AcceptedIsValid, ReplacedBySent
  <1> HIDE DEF edit
  <1>3. WroteFor(r)
    BY <1>1, <1>2 DEF ServeEdit, ServeRefused, ServeAccepted, ServeUnavailable, WroteFor,
                      Wrote, Current
  <1>4. CASE ServeRefused(r, edit)
    BY <1>4, RefusedKeeps
  <1>5. CASE ServeAccepted(r, change, edit)
    <2>1. edit.code = "ok"
      BY <1>5 DEF ServeAccepted
    <2> QED
      BY <1>2, <1>3, <1>5, <2>1, AcceptedKeeps
  <1>6. CASE ServeUnavailable(r, edit)
    BY <1>3, <1>6, UnavailableKeeps
  <1> QED
    BY <1>1, <1>4, <1>5, <1>6 DEF ServeEdit

\* Answers are lost or received; nothing is written.
LEMMA FewerAnswers ==
  ASSUME AInv, UNCHANGED <<row, log, inflight, requests>>, answers' \subseteq answers
  PROVE  AInv'
  <1>1. Recorded'
    BY DEF AInv, Recorded, readLayout
  <1>2. Identified'
    BY DEF AInv, Identified
  <1>3. \A a \in answers' : Truthful(a)'
    BY DEF AInv, Truthful
  <1> QED
    BY <1>1, <1>2, <1>3 DEF AInv

\* A new request has an identity of its own.
LEMMA SubmitKeeps == ASSUME AInv, NEW c, Submit(c) PROVE AInv'
  <1> DEFINE r == [id |-> requests + 1, client |-> c,
                   base |-> tabs[c].base, tokens |-> tabs[c].tokens]
  <1>1. /\ requests' = requests + 1 /\ inflight' = inflight \cup {r}
        /\ UNCHANGED <<row, answers, log>>
    BY DEF Submit
  <1>2. r.id = requests + 1
    OBVIOUS
  <1> HIDE DEF r
  <1>3. Recorded'
    BY <1>1 DEF AInv, Recorded, readLayout
  <1>4. Identified'
    BY <1>1, <1>2 DEF AInv, Identified
  <1>5. \A a \in answers' : Truthful(a)'
    BY <1>1 DEF AInv, Truthful
  <1> QED
    BY <1>3, <1>4, <1>5 DEF AInv

\* Every step preserves the invariant.
LEMMA StepAInv == AInv /\ [Next]_vars => AInv'
  <1> SUFFICES ASSUME AInv, [Next]_vars PROVE AInv'
    OBVIOUS
  <1>1. ASSUME NEW c, ReadLayout(c) \/ PreviewReady(c) \/ PreviewStale(c) \/ GiveUp(c)
                      \/ Receive(c)
        PROVE  AInv'
    BY <1>1, FewerAnswers DEF ReadLayout, PreviewReady, PreviewStale, GiveUp, Receive
  <1>2. Toggle => AInv'
    BY FewerAnswers DEF Toggle
  <1>3. ASSUME NEW x, NEW y, NEW z
        PROVE  SelectHost(x) \/ DeselectHost(x) \/ SelectService(x)
               \/ PutPlacement(x, y, z) \/ DeletePlacement(x, y) => Toggle
    BY DEF SelectHost, DeselectHost, SelectService, PutPlacement, DeletePlacement
  <1>4. CASE UNCHANGED vars
    BY <1>4, FewerAnswers DEF vars
  <1>5. CASE Next
    BY <1>1, <1>2, <1>3, <1>5, ServeKeeps, SubmitKeeps DEF Next
  <1> QED
    BY <1>4, <1>5

(* What a client concludes from an answer is true, however requests and    *)
(* answers are delayed, lost or overtaken: a layout reported as saved is   *)
(* in the history at its revision, nothing was written for a request       *)
(* reported as refused, and an ok is never doubted (SaveLayout,            *)
(* documentedLayoutFailure, LayoutStore.Update).                           *)
THEOREM AnswersAreTruthful == Spec => []AnswersTruthful
  <1>1. AInv => AnswersTruthful
    <2> SUFFICES ASSUME AInv, NEW a \in answers
                 PROVE  /\ Outcome(a) = "saved" =>
                             /\ a.state.revision <= Len(log)
                             /\ a.state.revision > 0 =>
                                  log[a.state.revision].value = a.state.doc
                        /\ Outcome(a) = "refused" => \A n \in DOMAIN log : log[n].by # a.id
                        /\ a.code = "ok" => Outcome(a) = "saved"
      BY DEF AnswersTruthful
    <2>1. PICK S : log \in Seq(S)
      BY DEF AInv, Recorded
    <2>2. Len(log) \in Nat
      BY <2>1, LenProperties
    <2>3. Truthful(a)
      BY DEF AInv
    <2>4. /\ Outcome(a) = "saved" => a.code = "ok"
          /\ Outcome(a) = "refused" => documentedLayoutFailure(a.code)
          /\ a.code = "ok" /\ Confirmed(a) => Outcome(a) = "saved"
      BY DEF Outcome
    <2> QED
      BY <2>2, <2>3, <2>4 DEF Truthful
  <1> QED
    BY <1>1, InitAInv, StepAInv, PTL DEF Spec

-----------------------------------------------------------------------------
(* The limit shared by host selections and placements. *)

Placed == {p \in Plugins : placements[p] # None}

Limited ==
  /\ selections \subseteq Hosts
  /\ pins \subseteq Services
  /\ DOMAIN placements = Plugins
  /\ SharedLimit

LEMMA FiniteWidgets ==
  IsFiniteSet(Hosts) /\ IsFiniteSet(Plugins)
  BY LayoutAssumptions, FS_Subset DEF Hosts, Plugins

LEMMA InitLimited == Init => Limited
  BY DEF Init, Limited, SharedLimit

LEMMA PlacedStep ==
  ASSUME Limited, NEW p \in Plugins, NEW v, placements' = [placements EXCEPT ![p] = v],
         UNCHANGED <<selections, pins>>, v = None \/ placements[p] # None \/ Room
  PROVE  Limited'
  <1>1. IsFiniteSet(Placed) /\ Cardinality(Placed) \in Nat
    BY FiniteWidgets, FS_Subset, FS_CardinalityType DEF Placed
  <1>2. IsFiniteSet(Placed \cup {p}) /\ Cardinality(Placed \cup {p}) \in Nat
        /\ Cardinality(Placed \cup {p}) <= Cardinality(Placed) + 1
    <2>1. IsFiniteSet(Placed \cup {p}) /\ Cardinality(Placed \cup {p}) =
            IF p \in Placed THEN Cardinality(Placed) ELSE Cardinality(Placed) + 1
      BY <1>1, FS_AddElement
    <2>2. Cardinality(Placed \cup {p}) \in Nat
      BY <2>1, FS_CardinalityType
    <2> QED
      BY <1>1, <2>1, <2>2
  <1>3. Cardinality(selections) \in Nat
    BY FiniteWidgets, FS_Subset, FS_CardinalityType DEF Limited
  <1>4. Cardinality(Placed') \in Nat
    <2>1. Placed' \subseteq Plugins
      BY DEF Placed
    <2> QED
      BY <2>1, FiniteWidgets, FS_Subset, FS_CardinalityType
  <1>5. Used = Cardinality(selections) + Cardinality(Placed)
        /\ Used' = Cardinality(selections) + Cardinality(Placed')
    BY DEF Used, Placed
  <1>6. CASE v = None \/ placements[p] # None
    <2>1. Placed' \subseteq Placed
      BY <1>6 DEF Placed, Limited
    <2>2. Cardinality(Placed') <= Cardinality(Placed)
      BY <1>1, <2>1, FS_Subset
    <2> QED
      BY <1>1, <1>3, <1>4, <1>5, <2>2, DashboardAssumptions DEF Limited, SharedLimit
  <1>7. CASE Room
    <2>1. Placed' \subseteq Placed \cup {p}
      BY DEF Placed, Limited
    <2>2. Cardinality(Placed') <= Cardinality(Placed \cup {p})
      BY <1>2, <2>1, FS_Subset
    <2> QED
      BY <1>1, <1>2, <1>3, <1>4, <1>5, <1>7, <2>2, DashboardAssumptions
         DEF Limited, SharedLimit, Room
  <1> QED
    BY <1>6, <1>7

LEMMA StepLimited == Limited /\ [Next]_vars => Limited'
  <1> SUFFICES ASSUME Limited, [Next]_vars PROVE Limited'
    OBVIOUS
  <1>0. ASSUME UNCHANGED <<selections, placements>>, pins' \subseteq Services
        PROVE  Limited'
    BY <1>0 DEF Limited, SharedLimit, Used
  <1>f. /\ IsFiniteSet(selections) /\ Cardinality(selections) \in Nat
        /\ Cardinality(Placed) \in Nat
        /\ Used = Cardinality(selections) + Cardinality(Placed)
    BY FiniteWidgets, FS_Subset, FS_CardinalityType DEF Limited, Placed, Used
  <1>1. ASSUME NEW h \in Hosts, SelectHost(h) PROVE Limited'
    <2>1. /\ Cardinality(selections') \in Nat
          /\ Cardinality(selections') <=
               IF h \in selections THEN Cardinality(selections) ELSE Cardinality(selections) + 1
      <3>1. selections' = selections \cup {h}
        BY <1>1 DEF SelectHost
      <3>2. IsFiniteSet(selections \cup {h}) /\ Cardinality(selections \cup {h}) =
              IF h \in selections THEN Cardinality(selections) ELSE Cardinality(selections) + 1
        BY <1>f, FS_AddElement
      <3> QED
        BY <1>f, <3>1, <3>2
    <2>2. Used' = Cardinality(selections') + Cardinality(Placed)
      BY <1>1 DEF SelectHost, Used, Placed
    <2>3. Used' <= Limit
      BY <1>1, <1>f, <2>1, <2>2, DashboardAssumptions DEF SelectHost, Room, Limited, SharedLimit
    <2> QED
      BY <1>1, <2>3 DEF SelectHost, Limited, SharedLimit
  <1>2. ASSUME NEW h \in Hosts, DeselectHost(h) PROVE Limited'
    <2>1. Cardinality(selections') \in Nat /\ Cardinality(selections') <= Cardinality(selections)
      BY <1>2, <1>f, FS_Subset, FS_CardinalityType DEF DeselectHost
    <2>2. Used' = Cardinality(selections') + Cardinality(Placed)
      BY <1>2 DEF DeselectHost, Used, Placed
    <2>3. Used' <= Limit
      BY <1>f, <2>1, <2>2, DashboardAssumptions DEF Limited, SharedLimit
    <2> QED
      BY <1>2, <2>3 DEF DeselectHost, Limited, SharedLimit
  <1>3. ASSUME NEW s \in Services, SelectService(s) PROVE Limited'
    BY <1>0, <1>3 DEF SelectService, Limited
  <1>4. ASSUME NEW p \in Plugins, NEW match, NEW enabled, PutPlacement(p, match, enabled)
        PROVE  Limited'
    <2>1. CASE placements[p] = None
      <3>1. /\ Room
            /\ placements' = [placements EXCEPT ![p] = [revision |-> 1, enabled |-> enabled]]
            /\ UNCHANGED <<selections, pins>>
        BY <1>4, <2>1 DEF PutPlacement
      <3> QED
        BY <3>1, PlacedStep
    <2>2. CASE placements[p] # None
      <3>1. /\ placements' = [placements EXCEPT ![p] =
                  [revision |-> placements[p].revision + 1, enabled |-> enabled]]
            /\ UNCHANGED <<selections, pins>>
        BY <1>4, <2>2 DEF PutPlacement
      <3> QED
        BY <2>2, <3>1, PlacedStep
    <2> QED
      BY <2>1, <2>2
  <1>5. ASSUME NEW p \in Plugins, NEW match, DeletePlacement(p, match)
        PROVE  Limited'
    <2>1. placements' = [placements EXCEPT ![p] = None] /\ UNCHANGED <<selections, pins>>
      BY <1>5 DEF DeletePlacement
    <2> QED
      BY <2>1, PlacedStep
  <1>6. ASSUME UNCHANGED widgets PROVE Limited'
    BY <1>0, <1>6 DEF widgets, Limited
  <1>7. ASSUME NEW c, ReadLayout(c) \/ PreviewReady(c) \/ PreviewStale(c)
                      \/ Submit(c) \/ GiveUp(c) \/ Receive(c)
        PROVE  Limited'
    BY <1>6, <1>7 DEF ReadLayout, PreviewReady, PreviewStale, Submit, GiveUp, Receive
  <1>8. ASSUME NEW r, NEW change, Serve(r, change) PROVE Limited'
    BY <1>6, <1>8 DEF Serve, ServeEdit, ServeRefused, ServeAccepted, ServeUnavailable
  <1>9. CASE UNCHANGED vars
    BY <1>6, <1>9 DEF vars
  <1> QED
    BY <1>1, <1>2, <1>3, <1>4, <1>5, <1>7, <1>8, <1>9 DEF Next

(* Host selections and plugin placements together stay within the limit    *)
(* of 128 they share, in whichever order the two tables are written        *)
(* (DashboardSelections.Set, PutPlacement).                                *)
THEOREM LimitShared == Spec => []SharedLimit
  <1>1. Limited => SharedLimit
    BY DEF Limited
  <1> QED
    BY <1>1, InitLimited, StepLimited, PTL DEF Spec

-----------------------------------------------------------------------------
(* Every widget in one group. *)

\* The part of Consistent that decides where a widget goes.
Partitioned(d) ==
  /\ \A g, h \in d.groups : g # h => d.placed[g] \cap d.placed[h] = {}
  /\ \A k \in Sources : d.sources[k] \in d.groups

LEMMA OneGroupEach ==
  ASSUME NEW d, Partitioned(d), NEW sel \in SUBSET Items, NEW i \in sel \cup Refs(d)
  PROVE  \E g \in d.groups : GroupsOf(d, sel, i) = {g}
  <1>1. CASE Places(d, i) # {}
    <2>1. PICK g \in d.groups : i \in d.placed[g]
      BY <1>1 DEF Places
    <2>2. \A h \in d.groups : i \in Members(d, sel, h) <=> h = g
      BY <1>1, <2>1 DEF Members, Partitioned
    <2> QED
      BY <2>1, <2>2 DEF GroupsOf
  <1>2. CASE Places(d, i) = {}
    <2>1. \A h \in d.groups : i \notin d.placed[h]
      BY <1>2 DEF Places
    <2>2. i \in sel /\ i \in Items
      BY <2>1 DEF Refs
    <2> DEFINE g == d.sources[SourceOf[i]]
    <2>3. g \in d.groups
      BY <2>2, LayoutAssumptions DEF Partitioned
    <2>4. \A h \in d.groups : i \in Members(d, sel, h) <=> h = g
      BY <1>2, <2>1, <2>2 DEF Members
    <2> QED
      BY <2>3, <2>4 DEF GroupsOf
  <1> QED
    BY <1>1, <1>2

LEMMA ReadablePartitioned == StoredLayoutReadable => Partitioned(readLayout.doc)
  <1> SUFFICES ASSUME StoredLayoutReadable PROVE Partitioned(readLayout.doc)
    OBVIOUS
  <1>1. CASE row.revision = 0
    <2>1. readLayout = Start
      BY <1>1 DEF readLayout
    <2>2. /\ Start.doc.groups = Builtins
          /\ Start.doc.placed = [g \in Groups |-> {}]
          /\ \A k \in Sources : Start.doc.sources[k] \in Builtins
      BY DEF Start, DefaultLayout, Sources, Builtins
    <2>3. Builtins \subseteq Groups
      BY DEF Groups
    <2> HIDE DEF Start
    <2> QED
      BY <2>1, <2>2, <2>3 DEF Partitioned
  <1>2. CASE row.revision # 0
    <2>1. readLayout = row
      BY <1>2 DEF readLayout
    <2>2. Consistent(row.doc)
      BY <1>2 DEF StoredLayoutReadable, ValidateLayout
    <2> QED
      BY <2>1, <2>2 DEF Partitioned, Consistent
  <1> QED
    BY <1>1, <1>2

(* Whatever is saved and selected, each selected widget and each dormant   *)
(* reference is a member of exactly one group of the layout that is read:  *)
(* nothing vanishes from the homepage and nothing is listed twice          *)
(* (ResolveLayout, ValidateLayout).  WidgetsListedOnce says the same of    *)
(* the ordered lists.                                                      *)
THEOREM EveryWidgetInOneGroup ==
  Spec => [](\A i \in active \cup Refs(readLayout.doc) :
               \E g \in readLayout.doc.groups :
                 GroupsOf(readLayout.doc, active, i) = {g})
  <1>1. Spec => []Limited
    BY InitLimited, StepLimited, PTL DEF Spec
  <1>2. Limited => active \subseteq Items
    BY DEF Limited, active, Hosts, Services, Plugins
  <1>3. Limited /\ StoredLayoutReadable =>
          \A i \in active \cup Refs(readLayout.doc) :
            \E g \in readLayout.doc.groups :
              GroupsOf(readLayout.doc, active, i) = {g}
    BY <1>2, ReadablePartitioned, OneGroupEach
  <1> QED
    BY <1>1, <1>3, AlwaysReadable, PTL

-----------------------------------------------------------------------------
(* Lists in order.  The identities ranked against each other are all of    *)
(* one kind: items or groups.                                              *)

\* Two different identities never have one position.
LEMMA PositionFacts ==
  ASSUME NEW S \in {Items, Groups}, NEW o, o.ids \in Seq(S)
  PROVE  /\ \A a \in S : Position(o, a) \in Nat
         /\ \A a, b \in S : Position(o, a) = Position(o, b) => a = b
  <1>1. Len(o.ids) \in Nat /\ DOMAIN o.ids = 1..Len(o.ids)
    BY LenProperties
  <1>2. \A a \in S : Rank[a] \in Nat
    BY LayoutAssumptions
  <1>3. \A a, b \in S : Rank[a] = Rank[b] => a = b
    BY LayoutAssumptions
  <1>4. ASSUME NEW a, o.mode = "custom", a \in ToSet(o.ids)
        PROVE  Position(o, a) \in 1..Len(o.ids) /\ o.ids[Position(o, a)] = a
    <2>1. \E n \in DOMAIN o.ids : o.ids[n] = a
      BY <1>4 DEF ToSet
    <2> QED
      BY <1>1, <1>4, <2>1 DEF Position
  <1>5. ASSUME NEW a \in S, ~(o.mode = "custom" /\ a \in ToSet(o.ids))
        PROVE  Position(o, a) = Len(o.ids) + 1 + Rank[a]
    BY <1>5 DEF Position
  <1> QED
    BY <1>1, <1>2, <1>3, <1>4, <1>5

\* The identities that come before x.
Earlier(ids, o, x) == {y \in ids : Position(o, y) < Position(o, x)}

\* Where x comes among them, counted from zero.
Place(ids, o) == [x \in ids |-> Cardinality(Earlier(ids, o, x))]

\* Each identity has a place of its own, and each place an identity.
LEMMA PlaceFacts ==
  ASSUME NEW S \in {Items, Groups}, NEW ids \in SUBSET S, IsFiniteSet(ids),
         NEW o, o.ids \in Seq(S)
  PROVE  /\ Cardinality(ids) \in Nat
         /\ \A x \in ids : Place(ids, o)[x] \in 0..(Cardinality(ids) - 1)
         /\ \A x, y \in ids : Place(ids, o)[x] = Place(ids, o)[y] => x = y
         /\ \A n \in 1..Cardinality(ids) : \E x \in ids : Place(ids, o)[x] = n - 1
  <1> DEFINE f == Place(ids, o)
             N == Cardinality(ids)
             T == 0..(N - 1)
  <1>1. N \in Nat
    BY FS_CardinalityType
  <1>2. ASSUME NEW x \in ids
        PROVE  IsFiniteSet(Earlier(ids, o, x)) /\ f[x] \in Nat /\ f[x] <= N - 1
    <2>1. x \notin Earlier(ids, o, x)
      BY PositionFacts DEF Earlier
    <2>2. Earlier(ids, o, x) \in SUBSET (ids \ {x})
      BY <2>1 DEF Earlier
    <2>3. IsFiniteSet(ids \ {x}) /\ Cardinality(ids \ {x}) = N - 1
      BY FS_RemoveElement
    <2>4. /\ IsFiniteSet(Earlier(ids, o, x))
          /\ Cardinality(Earlier(ids, o, x)) <= N - 1
      BY <2>2, <2>3, FS_Subset
    <2> QED
      BY <2>4, FS_CardinalityType DEF Place
  <1>3. ASSUME NEW x \in ids, NEW y \in ids, Position(o, x) < Position(o, y)
        PROVE  f[x] < f[y]
    <2>1. Earlier(ids, o, x) \in SUBSET Earlier(ids, o, y)
      BY <1>3, PositionFacts DEF Earlier
    <2>2. x \in Earlier(ids, o, y) /\ x \notin Earlier(ids, o, x)
      BY <1>3, PositionFacts DEF Earlier
    <2>3. Cardinality(Earlier(ids, o, x)) <= Cardinality(Earlier(ids, o, y))
          /\ Cardinality(Earlier(ids, o, x)) # Cardinality(Earlier(ids, o, y))
      BY <1>2, <2>1, <2>2, FS_Subset
    <2> QED
      BY <1>2, <2>3 DEF Place
  <1>4. \A x, y \in ids : f[x] = f[y] => x = y
    <2> SUFFICES ASSUME NEW x \in ids, NEW y \in ids, x # y PROVE f[x] # f[y]
      OBVIOUS
    <2>1. Position(o, x) < Position(o, y) \/ Position(o, y) < Position(o, x)
      BY PositionFacts
    <2> QED
      BY <1>2, <1>3, <2>1
  <1>5. f \in Injection(ids, T)
    BY <1>1, <1>2, <1>4 DEF Place, Injection, IsInjective
  <1>6. IsFiniteSet(T) /\ Cardinality(T) = N
    <2>1. 0 \in Int /\ N - 1 \in Int
      BY <1>1
    <2>2. /\ IsFiniteSet(T)
          /\ Cardinality(T) = IF 0 > N - 1 THEN 0 ELSE (N - 1) - 0 + 1
      BY <2>1, FS_Interval
    <2> QED
      BY <1>1, <2>2
  <1>7. f \in Surjection(ids, T)
    BY <1>5, <1>6, FS_Injection
  <1>8. \A n \in 1..N : \E x \in ids : f[x] = n - 1
    BY <1>1, <1>7 DEF Surjection
  <1> QED
    BY <1>1, <1>2, <1>4, <1>8

\* Ordered is a list of all the identities, each of them once.
LEMMA OrderedFacts ==
  ASSUME NEW S \in {Items, Groups}, NEW ids \in SUBSET S, IsFiniteSet(ids),
         NEW o, o.ids \in Seq(S)
  PROVE  /\ Cardinality(ids) \in Nat
         /\ Ordered(ids, o) \in [1..Cardinality(ids) -> ids]
         /\ IsInjective(Ordered(ids, o))
         /\ ToSet(Ordered(ids, o)) = ids
  <1> DEFINE f == Place(ids, o)
             N == Cardinality(ids)
             s == Ordered(ids, o)
  <1>1. /\ N \in Nat /\ \A x \in ids : f[x] \in 0..(N - 1)
        /\ \A x, y \in ids : f[x] = f[y] => x = y
        /\ \A n \in 1..N : \E x \in ids : f[x] = n - 1
    BY PlaceFacts
  <1>2. s = [n \in 1..N |-> CHOOSE x \in ids : f[x] = n - 1]
    <2>1. \A n \in 1..N : (CHOOSE x \in ids : f[x] = n - 1)
                          = CHOOSE x \in ids : Cardinality(Earlier(ids, o, x)) = n - 1
      BY DEF Place
    <2> QED
      BY <2>1 DEF Ordered, Earlier
  <1>3. ASSUME NEW n \in 1..N PROVE s[n] \in ids /\ f[s[n]] = n - 1
    BY <1>1, <1>2
  <1> HIDE DEF f, s
  <1>4. s \in [1..N -> ids]
    BY <1>2, <1>3
  <1>5. IsInjective(s)
    BY <1>1, <1>3, <1>4 DEF IsInjective
  <1>6. ASSUME NEW x \in ids PROVE \E n \in 1..N : s[n] = x
    <2>1. f[x] + 1 \in 1..N /\ f[s[f[x] + 1]] = f[x]
      BY <1>1, <1>3
    <2> QED
      BY <1>1, <1>3, <2>1
  <1>7. ToSet(s) = ids
    BY <1>4, <1>6 DEF ToSet
  <1> QED
    BY <1>1, <1>4, <1>5, <1>7 DEF s

\* In a custom order that ranks all of them, each stands at its rank.
LEMMA OrderedRanked ==
  ASSUME NEW S \in {Items, Groups}, NEW s \in Seq(S), IsInjective(s)
  PROVE  Ordered(ToSet(s), Custom(s)) = s
  <1> DEFINE o == Custom(s)
             ids == ToSet(s)
             N == Len(s)
             f == Place(ids, o)
  <1>1. N \in Nat /\ DOMAIN s = 1..N /\ s \in [1..N -> S]
    BY LenProperties
  <1>2. o.ids = s /\ o.mode = "custom"
    BY DEF Custom
  <1> HIDE DEF o
  <1>3. ids \in SUBSET S /\ \A n \in 1..N : s[n] \in ids
    BY <1>1 DEF ToSet
  <1>4. s \in Bijection(1..N, ids)
    <2>1. s \in [1..N -> ids] /\ \A x \in ids : \E n \in 1..N : s[n] = x
      BY <1>1, <1>3 DEF ToSet
    <2> QED
      BY <1>1, <2>1 DEF Bijection, Injection, Surjection, IsInjective
  <1>5. IsFiniteSet(ids) /\ Cardinality(ids) = N
    <2>1. IsFiniteSet(1..N) /\ Cardinality(1..N) = N
      BY <1>1, FS_Interval
    <2>2. ExistsBijection(1..N, ids)
      BY <1>4 DEF ExistsBijection
    <2> QED
      BY <2>1, <2>2, FS_Bijection
  <1>6. ASSUME NEW n \in 1..N PROVE Position(o, s[n]) = n
    <2>1. s[n] \in ToSet(s) /\ \A m \in 1..N : s[m] = s[n] => m = n
      BY <1>1, <1>3 DEF IsInjective
    <2> QED
      BY <1>1, <1>2, <2>1 DEF Position
  <1>7. ASSUME NEW n \in 1..N PROVE f[s[n]] = n - 1
    <2>1. s[n] \in ids
      BY <1>3
    <2>2. Earlier(ids, o, s[n]) = {s[m] : m \in 1..(n - 1)}
      BY <1>1, <1>6 DEF Earlier, ToSet
    <2> DEFINE g == [m \in 1..(n - 1) |-> s[m]]
               E == Earlier(ids, o, s[n])
    <2>3. g \in Bijection(1..(n - 1), E)
      <3>1. g \in [1..(n - 1) -> E] /\ \A x \in E : \E m \in 1..(n - 1) : g[m] = x
        BY <2>2
      <3>2. \A m, k \in 1..(n - 1) : g[m] = g[k] => m = k
        BY <1>1 DEF IsInjective
      <3> QED
        BY <3>1, <3>2 DEF Bijection, Injection, Surjection, IsInjective
    <2>4. IsFiniteSet(1..(n - 1)) /\ Cardinality(1..(n - 1)) = n - 1
      <3>1. 1 \in Int /\ n - 1 \in Int
        BY <1>1
      <3>2. /\ IsFiniteSet(1..(n - 1))
            /\ Cardinality(1..(n - 1)) = IF 1 > n - 1 THEN 0 ELSE (n - 1) - 1 + 1
        BY <3>1, FS_Interval
      <3> QED
        BY <1>1, <3>2
    <2>5. ExistsBijection(1..(n - 1), E)
      BY <2>3 DEF ExistsBijection
    <2>6. Cardinality(E) = n - 1
      BY <2>4, <2>5, FS_Bijection
    <2> QED
      BY <2>1, <2>6 DEF Place
  <1>8. ASSUME NEW n \in 1..N
        PROVE  (CHOOSE x \in ids : Cardinality(Earlier(ids, o, x)) = n - 1) = s[n]
    <2>1. \A x \in ids : \E m \in 1..N : x = s[m]
      BY <1>1 DEF ToSet
    <2>2. \A x \in ids : f[x] = n - 1 => x = s[n]
      BY <1>7, <2>1
    <2>3. \A x \in ids : Cardinality(Earlier(ids, o, x)) = f[x]
      BY DEF Place
    <2>4. s[n] \in ids /\ f[s[n]] = n - 1
      BY <1>3, <1>7
    <2> HIDE DEF f, ids
    <2> QED
      BY <2>2, <2>3, <2>4
  <1>9. Ordered(ids, o) = [n \in 1..N |-> s[n]]
    BY <1>5, <1>8 DEF Ordered, Earlier
  <1> QED
    BY <1>1, <1>9 DEF o

\* What is left of a list without i.
LEMMA WithoutFacts ==
  ASSUME NEW S, NEW s \in Seq(S), NEW i
  PROVE  /\ Without(s, i) \in Seq(S)
         /\ IsInjective(s) => /\ ToSet(Without(s, i)) = ToSet(s) \ {i}
                              /\ IsInjective(Without(s, i))
  <1>1. Len(s) \in Nat /\ DOMAIN s = 1..Len(s) /\ s \in [1..Len(s) -> S]
    BY LenProperties
  <1>2. CASE i \notin ToSet(s)
    BY <1>2 DEF Without
  <1>3. CASE i \in ToSet(s)
    <2>1. PICK k : k = CHOOSE n \in DOMAIN s : s[n] = i
      OBVIOUS
    <2>2. k \in 1..Len(s) /\ s[k] = i
      BY <1>1, <1>3, <2>1 DEF ToSet
    <2> DEFINE a == SubSeq(s, 1, k - 1)
               b == SubSeq(s, k + 1, Len(s))
               t == a \o b
    <2>3. Without(s, i) = t
      BY <1>3, <2>1 DEF Without, RemoveAt
    <2>4. /\ a \in Seq(S) /\ Len(a) = k - 1
          /\ \A n \in 1..(k - 1) : a[n] = s[n]
      <3>1. 1 \in Int /\ k - 1 \in Int /\ \A n \in 1..(k - 1) : s[n] \in S
        BY <1>1, <2>2
      <3>2. /\ a \in Seq(S) /\ Len(a) = IF 1 <= k - 1 THEN (k - 1) - 1 + 1 ELSE 0
            /\ \A n \in 1..((k - 1) - 1 + 1) : a[n] = s[1 + n - 1]
        BY <3>1, SubSeqProperties
      <3> QED
        BY <2>2, <3>2
    <2>5. /\ b \in Seq(S) /\ Len(b) = Len(s) - k
          /\ \A n \in 1..(Len(s) - k) : b[n] = s[n + k]
      <3>1. k + 1 \in Int /\ Len(s) \in Int /\ \A n \in (k + 1)..Len(s) : s[n] \in S
        BY <1>1, <2>2
      <3>2. /\ b \in Seq(S) /\ Len(b) = IF k + 1 <= Len(s) THEN Len(s) - (k + 1) + 1 ELSE 0
            /\ \A n \in 1..(Len(s) - (k + 1) + 1) : b[n] = s[(k + 1) + n - 1]
        BY <3>1, SubSeqProperties
      <3> QED
        BY <1>1, <2>2, <3>2
    <2> HIDE DEF a, b
    <2>6. /\ t \in Seq(S) /\ Len(t) = Len(a) + Len(b)
          /\ \A n \in 1..(Len(a) + Len(b)) :
                t[n] = IF n <= Len(a) THEN a[n] ELSE b[n - Len(a)]
      BY <2>4, <2>5, ConcatProperties
    <2> HIDE DEF t
    <2>7. /\ DOMAIN t = 1..(Len(s) - 1)
          /\ \A n \in 1..(Len(s) - 1) : t[n] = IF n < k THEN s[n] ELSE s[n + 1]
      <3>1. DOMAIN t = 1..Len(t) /\ Len(t) = Len(s) - 1
        BY <1>1, <2>2, <2>4, <2>5, <2>6, LenProperties
      <3>2. ASSUME NEW n \in 1..(k - 1) PROVE t[n] = s[n]
        <4>1. n \in 1..(Len(a) + Len(b)) /\ n <= Len(a)
          BY <1>1, <2>2, <2>4, <2>5
        <4> QED
          BY <2>4, <2>6, <4>1
      <3>3. ASSUME NEW n \in k..(Len(s) - 1) PROVE t[n] = s[n + 1]
        <4>1. n - (k - 1) \in 1..(Len(s) - k) /\ n - (k - 1) + k = n + 1
          BY <1>1, <2>2
        <4>2. t[n] = b[n - (k - 1)]
          <5>1. n \in 1..(Len(a) + Len(b)) /\ ~(n <= Len(a)) /\ Len(a) = k - 1
            BY <1>1, <2>2, <2>4, <2>5
          <5> QED
            BY <2>6, <5>1
        <4>3. b[n - (k - 1)] = s[n - (k - 1) + k]
          BY <2>5, <4>1
        <4> QED
          BY <4>1, <4>2, <4>3
      <3> QED
        BY <1>1, <2>2, <3>1, <3>2, <3>3
    <2>8. ASSUME IsInjective(s) PROVE IsInjective(t)
      <3> SUFFICES ASSUME NEW m \in DOMAIN t, NEW n \in DOMAIN t, t[m] = t[n] PROVE m = n
        BY DEF IsInjective
      <3>1. PICK u, v : u = (IF m < k THEN m ELSE m + 1) /\ v = (IF n < k THEN n ELSE n + 1)
        OBVIOUS
      <3>2. u \in DOMAIN s /\ v \in DOMAIN s /\ s[u] = t[m] /\ s[v] = t[n]
        BY <1>1, <2>2, <2>7, <3>1
      <3>3. u = v
        BY <2>8, <3>2 DEF IsInjective
      <3> QED
        BY <1>1, <2>2, <2>7, <3>1, <3>3
    <2>9. ASSUME IsInjective(s) PROVE ToSet(t) = ToSet(s) \ {i}
      <3>1. \A n \in DOMAIN t : t[n] \in ToSet(s) \ {i}
        BY <1>1, <2>2, <2>7, <2>9 DEF ToSet, IsInjective
      <3>2. ASSUME NEW n \in 1..Len(s), n # k PROVE s[n] \in ToSet(t)
        <4>1. CASE n < k
          <5>1. n \in DOMAIN t /\ t[n] = s[n]
            BY <1>1, <2>2, <2>7, <4>1
          <5> QED
            BY <5>1 DEF ToSet
        <4>2. CASE n > k
          <5>1. n - 1 \in DOMAIN t /\ t[n - 1] = s[n]
            BY <1>1, <2>2, <2>7, <4>2
          <5> QED
            BY <5>1 DEF ToSet
        <4> QED
          BY <1>1, <2>2, <3>2, <4>1, <4>2
      <3> QED
        BY <1>1, <2>2, <3>1, <3>2 DEF ToSet
    <2> QED
      BY <2>3, <2>6, <2>8, <2>9
  <1> QED
    BY <1>2, <1>3

\* What becomes of a list when i is put at a place of it.
LEMMA InsertFacts ==
  ASSUME NEW S, NEW s \in Seq(S), NEW i \in S, NEW at \in 1..(Len(s) + 1)
  PROVE  /\ InsertAt(s, at, i) \in Seq(S)
         /\ Len(InsertAt(s, at, i)) = Len(s) + 1
         /\ \A n \in 1..(Len(s) + 1) :
               InsertAt(s, at, i)[n] = CASE n < at -> s[n] [] n = at -> i [] OTHER -> s[n - 1]
         /\ ToSet(InsertAt(s, at, i)) = ToSet(s) \cup {i}
  <1>1. Len(s) \in Nat /\ DOMAIN s = 1..Len(s) /\ s \in [1..Len(s) -> S]
    BY LenProperties
  <1> DEFINE a == SubSeq(s, 1, at - 1)
             b == SubSeq(s, at, Len(s))
             c == a \o <<i>>
             t == c \o b
  <1>2. InsertAt(s, at, i) = t
    BY DEF InsertAt
  <1>3. a \in Seq(S) /\ Len(a) = at - 1 /\ \A n \in 1..(at - 1) : a[n] = s[n]
    <2>1. 1 \in Int /\ at - 1 \in Int /\ \A n \in 1..(at - 1) : s[n] \in S
      BY <1>1
    <2>2. /\ a \in Seq(S) /\ Len(a) = IF 1 <= at - 1 THEN (at - 1) - 1 + 1 ELSE 0
          /\ \A n \in 1..((at - 1) - 1 + 1) : a[n] = s[1 + n - 1]
      BY <2>1, SubSeqProperties
    <2> QED
      BY <1>1, <2>2
  <1>4. /\ b \in Seq(S) /\ Len(b) = Len(s) + 1 - at
        /\ \A n \in 1..(Len(s) + 1 - at) : b[n] = s[n + at - 1]
    <2>1. at \in Int /\ Len(s) \in Int /\ \A n \in at..Len(s) : s[n] \in S
      BY <1>1
    <2>2. /\ b \in Seq(S) /\ Len(b) = IF at <= Len(s) THEN Len(s) - at + 1 ELSE 0
          /\ \A n \in 1..(Len(s) - at + 1) : b[n] = s[at + n - 1]
      BY <2>1, SubSeqProperties
    <2> QED
      BY <1>1, <2>2
  <1>5. <<i>> \in Seq(S) /\ Len(<<i>>) = 1 /\ <<i>>[1] = i
    OBVIOUS
  <1> HIDE DEF a, b
  <1>6. /\ c \in Seq(S) /\ Len(c) = at
        /\ \A n \in 1..at : c[n] = IF n < at THEN s[n] ELSE i
    <2>1. /\ c \in Seq(S) /\ Len(c) = Len(a) + Len(<<i>>)
          /\ \A n \in 1..(Len(a) + Len(<<i>>)) :
                c[n] = IF n <= Len(a) THEN a[n] ELSE <<i>>[n - Len(a)]
      BY <1>3, <1>5, ConcatProperties
    <2> HIDE DEF c
    <2> QED
      BY <1>1, <1>3, <1>5, <2>1
  <1> HIDE DEF c
  <1>7. /\ t \in Seq(S) /\ Len(t) = Len(c) + Len(b)
        /\ \A n \in 1..(Len(c) + Len(b)) :
              t[n] = IF n <= Len(c) THEN c[n] ELSE b[n - Len(c)]
    BY <1>4, <1>6, ConcatProperties
  <1> HIDE DEF t
  <1>8. /\ Len(t) = Len(s) + 1 /\ DOMAIN t = 1..(Len(s) + 1)
        /\ \A n \in 1..(Len(s) + 1) :
              t[n] = CASE n < at -> s[n] [] n = at -> i [] OTHER -> s[n - 1]
    <2>1. Len(t) = Len(s) + 1 /\ DOMAIN t = 1..Len(t)
      BY <1>1, <1>4, <1>6, <1>7, LenProperties
    <2>2. ASSUME NEW n \in 1..at PROVE t[n] = IF n < at THEN s[n] ELSE i
      BY <1>1, <1>4, <1>6, <1>7
    <2>3. ASSUME NEW n \in (at + 1)..(Len(s) + 1) PROVE t[n] = s[n - 1]
      <3>1. n - at \in 1..(Len(s) + 1 - at) /\ n - at + at - 1 = n - 1
        BY <1>1
      <3>2. t[n] = b[n - at]
        BY <1>1, <1>4, <1>6, <1>7
      <3>3. b[n - at] = s[n - at + at - 1]
        BY <1>4, <3>1
      <3> QED
        BY <3>1, <3>2, <3>3
    <2> QED
      BY <1>1, <2>1, <2>2, <2>3
  <1>9. ToSet(t) = ToSet(s) \cup {i}
    <2>1. \A n \in DOMAIN t : t[n] \in ToSet(s) \cup {i}
      BY <1>1, <1>8 DEF ToSet
    <2>2. i \in ToSet(t)
      BY <1>1, <1>8 DEF ToSet
    <2>3. ASSUME NEW n \in 1..Len(s) PROVE s[n] \in ToSet(t)
      <3>1. CASE n < at
        <4>1. n \in DOMAIN t /\ t[n] = s[n]
          BY <1>1, <1>8, <3>1
        <4> QED
          BY <4>1 DEF ToSet
      <3>2. CASE n >= at
        <4>1. n + 1 \in DOMAIN t /\ t[n + 1] = s[n]
          BY <1>1, <1>8, <3>2
        <4> QED
          BY <4>1 DEF ToSet
      <3> QED
        BY <3>1, <3>2
    <2> QED
      BY <1>1, <2>1, <2>2, <2>3 DEF ToSet
  <1> QED
    BY <1>2, <1>7, <1>8, <1>9

-----------------------------------------------------------------------------
(* Documents have their type. *)

\* A document has its type and finitely many groups.
Shaped(d) == d \in LayoutDocuments /\ IsFiniteSet(d.groups)

\* What belongs to an order.
LEMMA OrderTypes ==
  ASSUME NEW S
  PROVE  /\ Alphabetical \in Orderings(S) /\ Alphabetical.ids = <<>>
         /\ \A s \in Seq(S) : Custom(s) \in Orderings(S) /\ Custom(s).ids = s
         /\ \A o \in Orderings(S) : /\ o.ids \in Seq(S)
                                    /\ \A t \in Seq(S) : [o EXCEPT !.ids = t] \in Orderings(S)
  BY DEF Orderings, Alphabetical, Custom

\* What belongs to a document.
LEMMA DocTypes ==
  ASSUME NEW d \in LayoutDocuments
  PROVE  /\ d.groups \subseteq Groups /\ d.placed \in [Groups -> SUBSET Items]
         /\ d.order \in [Groups -> Orderings(Items)] /\ d.page \in Orderings(Groups)
         /\ d.shown \in [Groups -> Nat] /\ d.sources \in [Sources -> Groups]
         /\ d.style \in Styles \cup {BadStyle}
  BY DEF LayoutDocuments

\* The default layout is a document.
LEMMA DefaultShaped == Shaped(Start.doc)
  <1> DEFINE style == CHOOSE s \in Styles : TRUE
             d == DefaultLayout(style)
  <1>1. style \in Styles
    BY LayoutAssumptions
  <1> HIDE DEF style
  <1>2. Builtins \subseteq Groups /\ IsFiniteSet(Builtins)
    <2>1. IsFiniteSet({"builtin:hosts"})
      BY FS_Singleton
    <2>2. IsFiniteSet({"builtin:hosts"} \cup {"builtin:services"})
      BY <2>1, FS_AddElement
    <2>3. IsFiniteSet({"builtin:hosts"} \cup {"builtin:services"} \cup {"builtin:widgets"})
      BY <2>2, FS_AddElement
    <2>4. Builtins = {"builtin:hosts"} \cup {"builtin:services"} \cup {"builtin:widgets"}
      BY DEF Builtins
    <2> QED
      BY <2>3, <2>4 DEF Groups
  <1>3. [g \in Groups |-> {}] \in [Groups -> SUBSET Items]
    OBVIOUS
  <1>4. [g \in Groups |-> Alphabetical] \in [Groups -> Orderings(Items)]
        /\ Alphabetical \in Orderings(Groups)
    BY OrderTypes
  <1>5. [g \in Groups |-> IF g \in Builtins THEN 1 ELSE 0] \in [Groups -> Nat]
    OBVIOUS
  <1>6. [k \in Sources |-> CASE k = "host" -> "builtin:hosts"
                             [] k = "service" -> "builtin:services"
                             [] OTHER -> "builtin:widgets"] \in [Sources -> Groups]
    BY <1>2 DEF Builtins
  <1>7. d \in LayoutDocuments /\ d.groups = Builtins
    BY <1>1, <1>2, <1>3, <1>4, <1>5, <1>6 DEF DefaultLayout, LayoutDocuments
  <1>8. Start.doc = d
    BY DEF Start, style
  <1> QED
    BY <1>2, <1>7, <1>8 DEF Shaped

\* What a client makes of a document is one.
LEMMA DraftShaped ==
  ASSUME NEW d, Shaped(d), NEW e \in Drafts(d)
  PROVE  Shaped(e)
  <1>0. d \in LayoutDocuments /\ IsFiniteSet(d.groups)
    BY DEF Shaped
  <1>1. ASSUME NEW u \in UserGroups \ d.groups,
               e = [d EXCEPT !.groups = @ \cup {u}, !.shown[u] = 1]
        PROVE  Shaped(e)
    <2>1. u \in Groups
      BY DEF Groups
    <2>2. e \in LayoutDocuments /\ e.groups = d.groups \cup {u}
      BY <1>0, <1>1, <2>1, DocTypes DEF LayoutDocuments
    <2> QED
      BY <1>0, <2>2, FS_AddElement DEF Shaped
  <1>2. ASSUME NEW g \in d.groups, NEW h \in d.groups,
               e = [d EXCEPT !.groups = @ \ {g},
                    !.placed = [k \in Groups |->
                       IF k = g THEN {}
                       ELSE IF k = h THEN d.placed[k] \cup d.placed[g]
                       ELSE d.placed[k]],
                    !.order[g] = Alphabetical,
                    !.page.ids = Without(@, g),
                    !.shown[g] = 0,
                    !.sources = [k \in Sources |->
                       IF d.sources[k] = g THEN h ELSE d.sources[k]]]
        PROVE  Shaped(e)
    <2> DEFINE placed == [k \in Groups |-> IF k = g THEN {}
                            ELSE IF k = h THEN d.placed[k] \cup d.placed[g]
                            ELSE d.placed[k]]
               sources == [k \in Sources |-> IF d.sources[k] = g THEN h ELSE d.sources[k]]
               order == [d.order EXCEPT ![g] = Alphabetical]
               ranks == [d.page EXCEPT !.ids = Without(@, g)]
               shown == [d.shown EXCEPT ![g] = 0]
    <2>1. g \in Groups /\ h \in Groups
      BY <1>0, DocTypes
    <2>2. placed \in [Groups -> SUBSET Items] /\ sources \in [Sources -> Groups]
      BY <1>0, <2>1, DocTypes
    <2>3. order \in [Groups -> Orderings(Items)] /\ shown \in [Groups -> Nat]
      BY <1>0, <2>1, DocTypes, OrderTypes
    <2>4. ranks \in Orderings(Groups)
      <3>1. d.page \in Orderings(Groups) /\ d.page.ids \in Seq(Groups)
        BY <1>0, DocTypes, OrderTypes
      <3>2. Without(d.page.ids, g) \in Seq(Groups)
        BY <3>1, WithoutFacts
      <3> QED
        BY <3>1, <3>2, OrderTypes
    <2>5. e = [d EXCEPT !.groups = @ \ {g}, !.placed = placed, !.order = order,
                        !.page = ranks, !.shown = shown, !.sources = sources]
      BY <1>2
    <2>6. d.groups \ {g} \subseteq Groups
      BY <1>0, DocTypes
    <2> HIDE DEF placed, order, ranks, shown, sources
    <2>7. e \in LayoutDocuments /\ e.groups = d.groups \ {g}
      BY <1>0, <2>2, <2>3, <2>4, <2>5, <2>6 DEF LayoutDocuments
    <2> QED
      BY <1>0, <2>7, FS_RemoveElement DEF Shaped
  <1>3. ASSUME NEW g \in d.groups, e = [d EXCEPT !.groups = @ \ {g}, !.shown[g] = 0]
        PROVE  Shaped(e)
    <2>1. e \in LayoutDocuments /\ e.groups = d.groups \ {g}
      BY <1>0, <1>3, DocTypes DEF LayoutDocuments
    <2> QED
      BY <1>0, <2>1, FS_RemoveElement DEF Shaped
  <1>4. ASSUME NEW g \in d.groups, NEW i \in Items, e = [d EXCEPT !.placed[g] = @ \cup {i}]
        PROVE  Shaped(e)
    <2>1. e \in LayoutDocuments /\ e.groups = d.groups
      BY <1>0, <1>4, DocTypes DEF LayoutDocuments
    <2> QED
      BY <1>0, <2>1 DEF Shaped
  <1>5. ASSUME NEW s \in Styles \cup {BadStyle}, e = [d EXCEPT !.style = s] PROVE Shaped(e)
    <2>1. e \in LayoutDocuments /\ e.groups = d.groups
      BY <1>0, <1>5, DocTypes DEF LayoutDocuments
    <2> QED
      BY <1>0, <2>1 DEF Shaped
  <1>6. ASSUME NEW x \in {x \in d.groups \X d.groups : x[1] # x[2]},
               e = [d EXCEPT !.groups = @ \ {x[1]},
                    !.placed = [k \in Groups |->
                       IF k = x[1] THEN {}
                       ELSE IF k = x[2] THEN d.placed[k] \cup d.placed[x[1]]
                       ELSE d.placed[k]],
                    !.order[x[1]] = Alphabetical,
                    !.page.ids = Without(@, x[1]),
                    !.shown[x[1]] = 0,
                    !.sources = [k \in Sources |->
                       IF d.sources[k] = x[1] THEN x[2] ELSE d.sources[k]]]
        PROVE  Shaped(e)
    <2>1. x[1] \in d.groups /\ x[2] \in d.groups
      OBVIOUS
    <2> QED
      BY <1>2, <1>6, <2>1
  <1>7. ASSUME NEW x \in d.groups \X Items, e = [d EXCEPT !.placed[x[1]] = @ \cup {x[2]}]
        PROVE  Shaped(e)
    <2>1. x[1] \in d.groups /\ x[2] \in Items
      OBVIOUS
    <2> QED
      BY <1>4, <1>7, <2>1
  <1> QED
    BY <1>1, <1>3, <1>5, <1>6, <1>7 DEF Drafts

-----------------------------------------------------------------------------
(* Edits, and the documents they write. *)

\* What a client may ask for.
LEMMA ChangeCases ==
  ASSUME NEW base, NEW tokens, NEW change \in Changes(base, tokens)
  PROVE  \/ change.kind = "replace" /\ change.doc \in Drafts(base)
         \/ /\ change.kind = "orderGroups"
            /\ change.order \in
                 {Alphabetical, Custom(Reverse(Ordered(base.groups, Alphabetical)))}
         \/ /\ change.kind = "orderItems"
            /\ change.order \in
                 {Alphabetical} \cup {Custom(s) : s \in Permutings(change.token[2])}
         \/ /\ change.kind = "move"
            /\ change.item \in Items
  <1> DEFINE R == [kind : {"replace"}, doc : Drafts(base)]
             P == [kind : {"orderGroups"},
                   order : {Alphabetical, Custom(Reverse(Ordered(base.groups, Alphabetical)))}]
             O(g) == [kind : {"orderItems"}, group : {g}, token : {tokens[g]},
                      order : {Alphabetical}
                              \cup {Custom(s) : s \in Permutings(tokens[g][2])}]
             M(g) == [kind : {"move"}, item : Items, group : {g},
                      before : {"absent", "null"} \cup tokens[g][2]]
             OO == UNION {O(g) : g \in base.groups}
             MM == UNION {M(g) : g \in base.groups}
  <1>1. Changes(base, tokens) = R \cup P \cup OO \cup MM
    BY DEF Changes
  <1>7. change \in OO => \E g \in base.groups : change \in O(g)
    OBVIOUS
  <1>8. change \in MM => \E g \in base.groups : change \in M(g)
    OBVIOUS
  <1>2. ASSUME NEW g, change \in O(g)
        PROVE  /\ change.kind = "orderItems"
               /\ change.order \in
                    {Alphabetical} \cup {Custom(s) : s \in Permutings(change.token[2])}
    BY <1>2
  <1>3. ASSUME NEW g, change \in M(g)
        PROVE  change.kind = "move" /\ change.item \in Items
    BY <1>3
  <1>4. change \in R => change.kind = "replace" /\ change.doc \in Drafts(base)
    OBVIOUS
  <1>5. change \in P =>
          /\ change.kind = "orderGroups"
          /\ change.order \in
               {Alphabetical, Custom(Reverse(Ordered(base.groups, Alphabetical)))}
    OBVIOUS
  <1> HIDE DEF R, P, OO, MM, O, M
  <1>6. change \in R \/ change \in P \/ change \in OO \/ change \in MM
    BY <1>1
  <1> QED
    BY <1>2, <1>3, <1>4, <1>5, <1>6, <1>7, <1>8

\* Which edit serves it.
LEMMA EditCases ==
  ASSUME NEW change, NEW d
  PROVE  /\ change.kind = "replace" => Edit(change, d) = Edited(change.doc)
         /\ change.kind = "orderGroups" => Edit(change, d) = OrderGroups(d, change.order)
         /\ change.kind = "orderItems" => Edit(change, d) =
              OrderItems(d, active, change.group, change.token, change.order)
         /\ change.kind = "move" =>
              Edit(change, d) = Move(d, active, change.item, change.group, change.before)
  BY DEF Edit

\* The members of a group, listed in its order.
LEMMA MembersFacts ==
  ASSUME NEW d, Shaped(d), active \subseteq Items, NEW g \in d.groups
  PROVE  /\ Members(d, active, g) \in SUBSET Items /\ IsFiniteSet(Members(d, active, g))
         /\ g \in Groups /\ d.order[g].ids \in Seq(Items)
         /\ ResolveLayout(d, active)[g] = Ordered(Members(d, active, g), d.order[g])
         /\ ResolveLayout(d, active)[g] \in Seq(Items)
         /\ IsInjective(ResolveLayout(d, active)[g])
         /\ ToSet(ResolveLayout(d, active)[g]) = Members(d, active, g)
         /\ Len(ResolveLayout(d, active)[g]) = Cardinality(Members(d, active, g))
  <1> DEFINE M == Members(d, active, g)
             o == d.order[g]
  <1>1. g \in Groups /\ d.placed[g] \subseteq Items /\ o \in Orderings(Items)
    BY DocTypes DEF Shaped
  <1>2. M \in SUBSET Items
    BY <1>1 DEF Members
  <1>3. IsFiniteSet(M)
    BY <1>2, LayoutAssumptions, FS_Subset
  <1>4. o.ids \in Seq(Items)
    BY <1>1, OrderTypes
  <1>5. ResolveLayout(d, active)[g] = Ordered(M, o)
    BY DEF ResolveLayout
  <1> HIDE DEF M, o
  <1>6. /\ Cardinality(M) \in Nat /\ Ordered(M, o) \in [1..Cardinality(M) -> M]
        /\ IsInjective(Ordered(M, o)) /\ ToSet(Ordered(M, o)) = M
    BY <1>2, <1>3, <1>4, OrderedFacts
  <1>7. Ordered(M, o) \in Seq(Items) /\ Len(Ordered(M, o)) = Cardinality(M)
    BY <1>2, <1>6
  <1> QED
    BY <1>1, <1>2, <1>3, <1>4, <1>5, <1>6, <1>7 DEF M, o

\* The order of groups a client may ask for.
LEMMA CustomGroups ==
  ASSUME NEW d, Shaped(d)
  PROVE  Custom(Reverse(Ordered(d.groups, Alphabetical))) \in Orderings(Groups)
  <1> DEFINE s == Ordered(d.groups, Alphabetical)
  <1>1. d.groups \in SUBSET Groups /\ IsFiniteSet(d.groups)
    BY DocTypes DEF Shaped
  <1>2. Alphabetical.ids \in Seq(Groups)
    BY OrderTypes
  <1>3. Cardinality(d.groups) \in Nat /\ s \in [1..Cardinality(d.groups) -> d.groups]
    BY <1>1, <1>2, OrderedFacts
  <1>4. s \in Seq(Groups)
    BY <1>1, <1>3
  <1> HIDE DEF s
  <1>5. Reverse(s) \in Seq(Groups)
    <2>1. Len(s) \in Nat /\ s \in [1..Len(s) -> Groups]
      BY <1>4, LenProperties
    <2>2. \A n \in 1..Len(s) : s[Len(s) - n + 1] \in Groups
      BY <2>1
    <2>3. Reverse(s) = [n \in 1..Len(s) |-> s[Len(s) - n + 1]]
      BY DEF Reverse
    <2> QED
      BY <2>1, <2>2, <2>3
  <1> QED
    BY <1>5, OrderTypes DEF s

\* Taking a widget out.
LEMMA LiftFacts ==
  ASSUME NEW d, Shaped(d), NEW i
  PROVE  /\ Shaped(Lift(d, i))
         /\ Lift(d, i).groups = d.groups /\ Lift(d, i).sources = d.sources
         /\ Lift(d, i).placed = [g \in Groups |-> d.placed[g] \ {i}]
  <1> DEFINE placed == [g \in Groups |-> d.placed[g] \ {i}]
             order == [g \in Groups |-> [d.order[g] EXCEPT !.ids = Without(@, i)]]
  <1>1. d \in LayoutDocuments /\ IsFiniteSet(d.groups)
    BY DEF Shaped
  <1>2. placed \in [Groups -> SUBSET Items]
    BY <1>1, DocTypes
  <1>3. ASSUME NEW g \in Groups
        PROVE  [d.order[g] EXCEPT !.ids = Without(@, i)] \in Orderings(Items)
    <2>1. d.order[g] \in Orderings(Items) /\ d.order[g].ids \in Seq(Items)
      BY <1>1, DocTypes, OrderTypes
    <2>2. Without(d.order[g].ids, i) \in Seq(Items)
      BY <2>1, WithoutFacts
    <2> QED
      BY <2>1, <2>2, OrderTypes
  <1>4. order \in [Groups -> Orderings(Items)]
    BY <1>3
  <1>5. Lift(d, i) = [d EXCEPT !.placed = placed, !.order = order]
    BY DEF Lift
  <1> HIDE DEF placed, order
  <1>6. /\ Lift(d, i) \in LayoutDocuments /\ Lift(d, i).groups = d.groups
        /\ Lift(d, i).sources = d.sources /\ Lift(d, i).placed = placed
    BY <1>1, <1>2, <1>4, <1>5 DEF LayoutDocuments
  <1> QED
    BY <1>1, <1>6 DEF Shaped, placed

\* The list a move puts into its destination.
Others(d, i, g) == Without(ResolveLayout(d, active)[g], i)

Spot(d, i, g, before) ==
  IF before = "null" THEN Len(Others(d, i, g)) + 1
  ELSE CHOOSE n \in 1..Len(Others(d, i, g)) : Others(d, i, g)[n] = before

Moved(d, i, g, before) == InsertAt(Others(d, i, g), Spot(d, i, g, before), i)

\* The documents a move writes: the widget is added, or the destination ranked.
MovedIn(d, i, g) == [Lift(d, i) EXCEPT !.placed[g] = @ \cup {i}]

Ranked(d, g, S, o) == [d EXCEPT !.placed[g] = S, !.order[g] = o]

MovedBefore(d, i, g, before) ==
  Ranked(Lift(d, i), g, ToSet(Moved(d, i, g, before)), Custom(Moved(d, i, g, before)))

\* What Move does when it does something.
LEMMA MoveCases ==
  ASSUME NEW d, NEW i, NEW g, NEW before, NEW edit, edit = Move(d, active, i, g, before)
  PROVE  \/ edit.code # "ok" /\ edit.doc = d
         \/ /\ edit.doc = d /\ g \in d.groups /\ before = "absent"
            /\ GroupsOf(d, active, i) = {g}
         \/ g \in d.groups /\ before = "absent" /\ edit.doc = MovedIn(d, i, g)
         \/ /\ g \in d.groups /\ before # "absent"
            /\ before = "null" \/ before \in ToSet(Others(d, i, g))
            /\ edit.doc = MovedBefore(d, i, g, before)
  <1> DEFINE source == {h \in d.groups : i \in Members(d, active, h)}
  <1>1. edit = IF source = {} \/ g \notin d.groups THEN Refused("not_found", d)
        ELSE IF source = {g} /\ before = "absent" THEN Edited(d)
        ELSE IF before = "absent" THEN Edited(MovedIn(d, i, g))
        ELSE IF before # "null" /\ before \notin ToSet(Others(d, i, g))
        THEN Refused("invalid_layout", d)
        ELSE Edited(MovedBefore(d, i, g, before))
    BY DEF Move, Others, Spot, Moved, MovedIn, MovedBefore, Ranked
  <1>2. /\ Refused("not_found", d).code # "ok" /\ Refused("not_found", d).doc = d
        /\ Refused("invalid_layout", d).code # "ok" /\ Refused("invalid_layout", d).doc = d
        /\ \A e : Edited(e).doc = e
    BY DEF Refused, Edited
  <1>3. source = GroupsOf(d, active, i)
    BY DEF GroupsOf
  <1> HIDE DEF source
  <1> QED
    BY <1>1, <1>2, <1>3

\* The document an order of items writes.
ItemsOrdered(d, g, members, o) ==
  [d EXCEPT !.placed[g] = IF o.mode = "custom" THEN members ELSE @, !.order[g] = o]

\* What OrderItems does when it does something.
LEMMA OrderItemsCases ==
  ASSUME NEW d, NEW g, NEW token, NEW o, NEW edit,
         edit = OrderItems(d, active, g, token, o)
  PROVE  LET members == Members(d, active, g) IN
         \/ edit.code # "ok" /\ edit.doc = d
         \/ /\ g \in d.groups /\ token = <<g, members>>
            /\ CompleteOrder(o, members) = "ok"
            /\ edit.doc = ItemsOrdered(d, g, members, o)
  <1> DEFINE members == Members(d, active, g)
             complete == CompleteOrder(o, members)
  <1>1. edit = IF g \notin d.groups THEN Refused("not_found", d)
        ELSE IF <<g, members>> # token THEN Refused("membership_changed", d)
        ELSE IF complete # "ok" THEN Refused(complete, d)
        ELSE Edited(ItemsOrdered(d, g, members, o))
    BY DEF OrderItems, MembershipToken, ItemsOrdered
  <1>2. /\ Refused("not_found", d).code # "ok" /\ Refused("not_found", d).doc = d
        /\ Refused("membership_changed", d).code # "ok"
        /\ Refused("membership_changed", d).doc = d
        /\ Refused(complete, d).code = complete /\ Refused(complete, d).doc = d
        /\ \A e : Edited(e).doc = e
    BY DEF Refused, Edited
  <1> HIDE DEF members, complete
  <1>3. \/ edit.code # "ok" /\ edit.doc = d
        \/ /\ g \in d.groups /\ token = <<g, members>> /\ complete = "ok"
           /\ edit.doc = ItemsOrdered(d, g, members, o)
    BY <1>1, <1>2
  <1> QED
    BY <1>3 DEF members, complete

\* The explicit places when i is put in g, which then holds S.
PlacedIn(d, i, g, S) == [h \in Groups |-> IF h = g THEN S ELSE d.placed[h] \ {i}]

\* e is d with i put in g among the members S, and nowhere else.
Put(d, e, i, g, S) ==
  /\ e.groups = d.groups /\ e.sources = d.sources
  /\ e.placed = PlacedIn(d, i, g, (S \ {i}) \cup {i})

\* A list names i right before another.
RightBefore(seq, i, before) ==
  \E n \in 2..Len(seq) : seq[n] = before /\ seq[n - 1] = i

\* What a move puts in its destination: its other members and the widget.
LEMMA MovedFacts ==
  ASSUME NEW d, Shaped(d), active \subseteq Items, NEW g \in d.groups, NEW i \in Items,
         NEW before, before = "null" \/ before \in ToSet(Others(d, i, g))
  PROVE  /\ Moved(d, i, g, before) \in Seq(Items)
         /\ ToSet(Moved(d, i, g, before)) = (Members(d, active, g) \ {i}) \cup {i}
         /\ before # "null" =>
              RightBefore(Moved(d, i, g, before), i, before)
  <1> DEFINE s == Others(d, i, g)
             at == Spot(d, i, g, before)
             t == Moved(d, i, g, before)
  <1>1. s \in Seq(Items) /\ ToSet(s) = Members(d, active, g) \ {i}
    BY MembersFacts, WithoutFacts DEF Others
  <1>2. Len(s) \in Nat /\ DOMAIN s = 1..Len(s)
    BY <1>1, LenProperties
  <1>3. /\ at \in 1..(Len(s) + 1)
        /\ before # "null" => at \in 1..Len(s) /\ s[at] = before
    <2>1. CASE before = "null"
      BY <1>2, <2>1 DEF Spot
    <2>2. CASE before # "null"
      <3>1. \E n \in 1..Len(s) : s[n] = before
        BY <1>2, <2>2 DEF ToSet
      <3> QED
        BY <1>2, <2>2, <3>1 DEF Spot
    <2> QED
      BY <2>1, <2>2
  <1>4. t = InsertAt(s, at, i)
    BY DEF Moved
  <1> HIDE DEF s, at, t
  <1>5. /\ t \in Seq(Items) /\ Len(t) = Len(s) + 1 /\ ToSet(t) = ToSet(s) \cup {i}
        /\ \A n \in 1..(Len(s) + 1) :
             t[n] = CASE n < at -> s[n] [] n = at -> i [] OTHER -> s[n - 1]
    BY <1>1, <1>3, <1>4, InsertFacts
  <1>6. ASSUME before # "null"
        PROVE  at + 1 \in 2..Len(t) /\ t[at + 1] = before /\ t[at] = i
    BY <1>2, <1>3, <1>5, <1>6
  <1>7. before # "null" => RightBefore(t, i, before)
    <2> SUFFICES ASSUME before # "null"
                 PROVE  \E n \in 2..Len(t) : t[n] = before /\ t[n - 1] = i
      BY DEF RightBefore
    <2>1. PICK n \in Nat : n = at + 1
      BY <1>2, <1>3
    <2>2. n \in 2..Len(t) /\ t[n] = before
      BY <1>6, <2>1
    <2>3. n - 1 = at
      BY <1>2, <1>3, <2>1
    <2>4. t[n - 1] = i
      BY <1>6, <2>3
    <2> QED
      BY <2>2, <2>4
  <1> QED
    BY <1>1, <1>5, <1>7 DEF t

\* What a move writes are documents that differ in the widget and its group.
LEMMA MoveShaped ==
  ASSUME NEW d, Shaped(d), active \subseteq Items, NEW i \in Items, NEW g \in d.groups
  PROVE  /\ Shaped(MovedIn(d, i, g)) /\ Put(d, MovedIn(d, i, g), i, g, d.placed[g])
         /\ \A before : before = "null" \/ before \in ToSet(Others(d, i, g)) =>
              /\ Shaped(MovedBefore(d, i, g, before))
              /\ Put(d, MovedBefore(d, i, g, before), i, g, Members(d, active, g))
              /\ MovedBefore(d, i, g, before).order[g] = Custom(Moved(d, i, g, before))
  <1> DEFINE l == Lift(d, i)
  <1>1. /\ Shaped(l) /\ l.groups = d.groups /\ l.sources = d.sources
        /\ l.placed = [h \in Groups |-> d.placed[h] \ {i}]
    BY LiftFacts
  <1>2. MovedIn(d, i, g) = [l EXCEPT !.placed[g] = l.placed[g] \cup {i}]
    BY DEF MovedIn
  <1>3. ASSUME NEW before
        PROVE  MovedBefore(d, i, g, before) =
                 Ranked(l, g, ToSet(Moved(d, i, g, before)), Custom(Moved(d, i, g, before)))
    BY DEF MovedBefore
  <1> HIDE DEF l
  <1>4. /\ l \in LayoutDocuments /\ IsFiniteSet(l.groups) /\ g \in Groups
        /\ l.order \in [Groups -> Orderings(Items)]
        /\ l.placed \in [Groups -> SUBSET Items] /\ d.placed \in [Groups -> SUBSET Items]
    BY <1>1, DocTypes DEF Shaped
  <1>5. ASSUME NEW S \in SUBSET Items, NEW e, e = [l EXCEPT !.placed[g] = S]
        PROVE  /\ Shaped(e) /\ e.groups = d.groups /\ e.sources = d.sources
               /\ e.placed = PlacedIn(d, i, g, S)
    <2>1. e \in LayoutDocuments /\ e.groups = l.groups /\ e.sources = l.sources
          /\ e.placed = [l.placed EXCEPT ![g] = S]
      BY <1>4, <1>5 DEF LayoutDocuments
    <2>2. e.placed = PlacedIn(d, i, g, S)
      BY <1>1, <1>4, <2>1 DEF PlacedIn
    <2> QED
      BY <1>1, <1>4, <2>1, <2>2 DEF Shaped
  <1>6. ASSUME NEW S \in SUBSET Items, NEW o \in Orderings(Items), NEW e,
               e = Ranked(l, g, S, o)
        PROVE  /\ Shaped(e) /\ e.groups = d.groups /\ e.sources = d.sources
               /\ e.placed = PlacedIn(d, i, g, S)
               /\ e.order[g] = o
    <2>1. e \in LayoutDocuments /\ e.groups = l.groups /\ e.sources = l.sources
          /\ e.placed = [l.placed EXCEPT ![g] = S] /\ e.order[g] = o
      BY <1>4, <1>6 DEF LayoutDocuments, Ranked
    <2>2. e.placed = PlacedIn(d, i, g, S)
      BY <1>1, <1>4, <2>1 DEF PlacedIn
    <2> QED
      BY <1>1, <1>4, <2>1, <2>2 DEF Shaped
  <1>7. Shaped(MovedIn(d, i, g)) /\ Put(d, MovedIn(d, i, g), i, g, d.placed[g])
    <2> DEFINE S == (d.placed[g] \ {i}) \cup {i}
    <2>1. S \in SUBSET Items /\ S = l.placed[g] \cup {i}
      BY <1>1, <1>4
    <2> HIDE DEF S
    <2>2. MovedIn(d, i, g) = [l EXCEPT !.placed[g] = S]
      BY <1>2, <2>1
    <2> QED
      BY <1>5, <2>1, <2>2 DEF S, Put
  <1>8. ASSUME NEW before, before = "null" \/ before \in ToSet(Others(d, i, g))
        PROVE  /\ Shaped(MovedBefore(d, i, g, before))
               /\ Put(d, MovedBefore(d, i, g, before), i, g, Members(d, active, g))
               /\ MovedBefore(d, i, g, before).order[g] = Custom(Moved(d, i, g, before))
    <2> DEFINE S == (Members(d, active, g) \ {i}) \cup {i}
               t == Moved(d, i, g, before)
    <2>1. t \in Seq(Items) /\ ToSet(t) = S
      BY <1>8, MovedFacts
    <2>2. S \in SUBSET Items
      BY MembersFacts
    <2>3. Custom(t) \in Orderings(Items)
      BY <2>1, OrderTypes
    <2> HIDE DEF S, t
    <2>4. MovedBefore(d, i, g, before) = Ranked(l, g, S, Custom(t))
      BY <1>3, <2>1 DEF t
    <2> DEFINE e == MovedBefore(d, i, g, before)
               o == Custom(t)
    <2>5. e = Ranked(l, g, S, o) /\ o \in Orderings(Items)
      BY <2>3, <2>4
    <2> HIDE DEF e, o
    <2>6. /\ Shaped(e) /\ e.groups = d.groups /\ e.sources = d.sources
          /\ e.placed = PlacedIn(d, i, g, S)
          /\ e.order[g] = o
      BY <1>6, <2>2, <2>5
    <2> QED
      BY <2>6 DEF S, t, e, o, Put
  <1> QED
    BY <1>7, <1>8

\* The orders a client may ask for are orders of what its token lists.
LEMMA AskedOrders ==
  ASSUME NEW S \in SUBSET Items,
         NEW o \in {Alphabetical} \cup {Custom(s) : s \in Permutings(S)}
  PROVE  /\ o \in Orderings(Items)
         /\ o.mode = "custom" => IsInjective(o.ids) /\ o = Custom(o.ids)
  <1>1. CASE o = Alphabetical
    BY <1>1, OrderTypes DEF Alphabetical
  <1>2. ASSUME NEW s \in Permutings(S), o = Custom(s)
        PROVE  o \in Orderings(Items) /\ IsInjective(o.ids) /\ o = Custom(o.ids)
    <2>1. Cardinality(S) \in Nat
      BY LayoutAssumptions, FS_Subset, FS_CardinalityType
    <2>2. s \in [1..Cardinality(S) -> S] /\ IsInjective(s)
      BY DEF Permutings
    <2>3. s \in Seq(Items)
      BY <2>1, <2>2
    <2> QED
      BY <1>2, <2>2, <2>3, OrderTypes
  <1> QED
    BY <1>1, <1>2

\* What an order of items writes is a document that differs in that group.
LEMMA ItemsShaped ==
  ASSUME NEW d, Shaped(d), NEW g \in d.groups, NEW members \in SUBSET Items,
         NEW o \in Orderings(Items)
  PROVE  LET e == ItemsOrdered(d, g, members, o)
             S == IF o.mode = "custom" THEN members ELSE d.placed[g]
         IN  /\ Shaped(e) /\ e.groups = d.groups /\ e.sources = d.sources
             /\ e.placed = [d.placed EXCEPT ![g] = S] /\ e.order[g] = o
  <1> DEFINE e == ItemsOrdered(d, g, members, o)
             S == IF o.mode = "custom" THEN members ELSE d.placed[g]
  <1>1. /\ d \in LayoutDocuments /\ IsFiniteSet(d.groups) /\ g \in Groups
        /\ d.order \in [Groups -> Orderings(Items)]
        /\ d.placed \in [Groups -> SUBSET Items]
    BY DocTypes DEF Shaped
  <1>2. e = [d EXCEPT !.placed[g] = S, !.order[g] = o] /\ S \in SUBSET Items
    BY <1>1 DEF ItemsOrdered
  <1> HIDE DEF e, S
  <1>3. e \in LayoutDocuments /\ e.groups = d.groups /\ e.sources = d.sources
        /\ e.placed = [d.placed EXCEPT ![g] = S] /\ e.order[g] = o
    BY <1>1, <1>2 DEF LayoutDocuments
  <1> QED
    BY <1>1, <1>3 DEF Shaped, e, S

\* Every edit of a document yields one.
LEMMA EditShaped ==
  ASSUME NEW d, Shaped(d), NEW base, Shaped(base), active \subseteq Items,
         NEW tokens, NEW change \in Changes(base, tokens)
  PROVE  Shaped(Edit(change, d).doc)
  <1>0. \A e : Edited(e).doc = e /\ Edited(e).code = "ok"
    BY DEF Edited
  <1>1. CASE change.kind = "replace" /\ change.doc \in Drafts(base)
    BY <1>0, <1>1, EditCases, DraftShaped
  <1>2. CASE /\ change.kind = "orderGroups"
             /\ change.order \in
                  {Alphabetical, Custom(Reverse(Ordered(base.groups, Alphabetical)))}
    <2>1. change.order \in Orderings(Groups)
      BY <1>2, CustomGroups, OrderTypes
    <2>2. Edit(change, d).doc = d \/ Edit(change, d).doc = [d EXCEPT !.page = change.order]
      BY <1>0, <1>2, EditCases DEF OrderGroups, Refused
    <2>3. /\ [d EXCEPT !.page = change.order] \in LayoutDocuments
          /\ [d EXCEPT !.page = change.order].groups = d.groups
      BY <2>1 DEF Shaped, LayoutDocuments
    <2> QED
      BY <2>2, <2>3 DEF Shaped
  <1>3. CASE /\ change.kind = "orderItems"
             /\ change.order \in
                  {Alphabetical} \cup {Custom(s) : s \in Permutings(change.token[2])}
    <2> DEFINE g == change.group
               o == change.order
               edit == Edit(change, d)
               members == Members(d, active, g)
    <2>1. edit = OrderItems(d, active, g, change.token, o)
      BY <1>3, EditCases
    <2> HIDE DEF g, o, edit
    <2>2. \/ edit.doc = d
          \/ /\ g \in d.groups /\ change.token = <<g, members>>
             /\ edit.doc = ItemsOrdered(d, g, members, o)
      BY <2>1, OrderItemsCases
    <2>3. ASSUME g \in d.groups, change.token = <<g, members>>
          PROVE  Shaped(ItemsOrdered(d, g, members, o))
      <3>1. members \in SUBSET Items
        BY <2>3, MembersFacts
      <3>2. o \in {Alphabetical} \cup {Custom(s) : s \in Permutings(members)}
        BY <1>3, <2>3 DEF o
      <3> HIDE DEF members
      <3>3. o \in Orderings(Items)
        BY <3>1, <3>2, AskedOrders
      <3> QED
        BY <2>3, <3>1, <3>3, ItemsShaped
    <2> QED
      BY <2>2, <2>3 DEF edit
  <1>4. CASE change.kind = "move" /\ change.item \in Items
    <2> DEFINE g == change.group
               i == change.item
               before == change.before
               edit == Edit(change, d)
    <2>1. edit = Move(d, active, i, g, before)
      BY <1>4, EditCases
    <2>2. i \in Items
      BY <1>4
    <2> HIDE DEF g, i, before, edit
    <2>3. \/ edit.doc = d
          \/ g \in d.groups /\ edit.doc = MovedIn(d, i, g)
          \/ /\ g \in d.groups
             /\ before = "null" \/ before \in ToSet(Others(d, i, g))
             /\ edit.doc = MovedBefore(d, i, g, before)
      BY <2>1, MoveCases
    <2>4. ASSUME g \in d.groups PROVE Shaped(MovedIn(d, i, g))
      BY <2>2, <2>4, MoveShaped
    <2>5. ASSUME g \in d.groups, before = "null" \/ before \in ToSet(Others(d, i, g))
          PROVE  Shaped(MovedBefore(d, i, g, before))
      BY <2>2, <2>5, MoveShaped
    <2> QED
      BY <2>3, <2>4, <2>5 DEF edit
  <1> QED
    BY <1>1, <1>2, <1>3, <1>4, ChangeCases

-----------------------------------------------------------------------------
(* Every document that is saved, held and sent has its type. *)

\* A client's tab has its fields, and a document once it has read one.
TabShaped(t) ==
  /\ \E B, T : t \in [pc : {"idle", "previewing", "editing", "waiting"}, base : B,
                       tokens : T, attempt : Nat, request : Nat]
  /\ t.pc \in {"previewing", "editing"} => Shaped(t.base.doc)

\* The documents that are saved, held and sent.
DocumentsShaped ==
  /\ Shaped(row.doc)
  /\ tabs = [c \in Clients |-> tabs[c]]
  /\ \A c \in Clients : TabShaped(tabs[c])
  /\ \A r \in inflight : Shaped(r.base.doc)

\* The inductive invariant.
DInv == TypeOK /\ Limited /\ DocumentsShaped

\* What is selected are widgets.
LEMMA ActiveItems == Limited => active \subseteq Items
  BY DEF Limited, active, Hosts, Services, Plugins

\* What is read is a document.
LEMMA ReadShaped == DInv => Shaped(readLayout.doc) /\ readLayout.revision \in Nat
  <1> SUFFICES ASSUME DInv PROVE Shaped(readLayout.doc) /\ readLayout.revision \in Nat
    OBVIOUS
  <1>1. CASE row.revision = 0
    <2>1. readLayout = Start /\ Start.revision = 0
      BY <1>1 DEF readLayout, Start
    <2> QED
      BY <2>1, DefaultShaped
  <1>2. CASE row.revision # 0
    <2>1. readLayout = row
      BY <1>2 DEF readLayout
    <2> QED
      BY <2>1 DEF DInv, DocumentsShaped, TypeOK
  <1> QED
    BY <1>1, <1>2

\* A tab that holds nothing is well formed.
LEMMA IdleShaped ==
  /\ TabShaped(Idle)
  /\ \A n \in Nat : TabShaped([Idle EXCEPT !.pc = "waiting", !.request = n])
  <1> DEFINE T == [pc : {"idle", "previewing", "editing", "waiting"}, base : {None},
                   tokens : {None}, attempt : Nat, request : Nat]
  <1>1. Idle \in T /\ Idle.pc = "idle"
    BY DEF Idle
  <1>2. ASSUME NEW n \in Nat, NEW t, t = [Idle EXCEPT !.pc = "waiting", !.request = n]
        PROVE  t \in T /\ t.pc = "waiting"
    BY <1>2 DEF Idle
  <1> QED
    BY <1>1, <1>2 DEF TabShaped

\* It holds initially.
LEMMA InitDInv == Init => DInv
  <1> SUFFICES ASSUME Init PROVE DInv
    OBVIOUS
  <1>1. row = Start /\ Start.revision = 0 /\ Shaped(Start.doc)
    BY DefaultShaped DEF Init, Start
  <1>2. row \in [revision : Nat, doc : LayoutDocuments]
    <2>1. Start = [revision |-> 0, doc |-> Start.doc]
      BY DEF Start
    <2> QED
      BY <1>1, <2>1 DEF Shaped
  <1>3. tabs = [c \in Clients |-> Idle] /\ inflight = {}
    BY DEF Init
  <1>4. \A c \in Clients : tabs[c] = Idle /\ tabs[c].pc = "idle"
    BY <1>3 DEF Idle
  <1>5. TypeOK
    <2>1. [revision |-> 1, enabled |-> TRUE] \in [revision : Nat \ {0}, enabled : BOOLEAN]
      OBVIOUS
    <2>2. placements \in [Plugins -> {None} \cup [revision : Nat \ {0}, enabled : BOOLEAN]]
      BY <2>1 DEF Init
    <2>3. /\ selections \subseteq Hosts /\ pins \subseteq Services
          /\ requests \in Nat /\ toggles \in Nat
      BY DEF Init
    <2> QED
      BY <1>2, <1>3, <1>4, <2>2, <2>3 DEF TypeOK
  <1>6. DocumentsShaped
    BY <1>1, <1>3, <1>4, IdleShaped DEF DocumentsShaped
  <1> QED
    BY <1>5, <1>6, InitLimited DEF DInv

\* Selections and placements leave documents alone.
LEMMA ToggleTyped ==
  ASSUME DInv, Toggle, selections' \subseteq Hosts, pins' \subseteq Services,
         placements' \in [Plugins -> {None} \cup [revision : Nat \ {0}, enabled : BOOLEAN]]
  PROVE  TypeOK' /\ DocumentsShaped'
  <1>1. UNCHANGED <<row, tabs, inflight, requests>> /\ toggles' \in Nat
    BY DEF Toggle, DInv, TypeOK
  <1>2. TypeOK'
    BY <1>1 DEF DInv, TypeOK
  <1>3. DocumentsShaped'
    BY <1>1 DEF DInv, DocumentsShaped
  <1> QED
    BY <1>2, <1>3

\* A client's tab is replaced by another that is well formed.
LEMMA TabTyped ==
  ASSUME DInv, NEW c, NEW t, TabShaped(t), tabs' = [tabs EXCEPT ![c] = t],
         UNCHANGED <<row, widgets, toggles>>, requests' \in Nat, requests' >= requests,
         \A r \in inflight' : r.id \in 1..requests' /\ Shaped(r.base.doc)
  PROVE  TypeOK' /\ DocumentsShaped'
  <1>1. UNCHANGED <<row, selections, pins, placements, toggles>>
    BY DEF widgets
  <1>2. tabs' = [k \in Clients |-> tabs'[k]] /\ \A k \in Clients : TabShaped(tabs'[k])
    BY DEF DInv, DocumentsShaped
  <1>3. \A k \in Clients : tabs'[k].pc \in {"idle", "previewing", "editing", "waiting"}
    BY <1>2 DEF TabShaped
  <1>4. TypeOK'
    BY <1>1, <1>3 DEF DInv, TypeOK
  <1>5. DocumentsShaped'
    BY <1>1, <1>2 DEF DInv, DocumentsShaped
  <1> QED
    BY <1>4, <1>5

\* What is left of the requests when nothing is sent.
LEMMA RequestsTyped ==
  ASSUME DInv, inflight' \subseteq inflight, requests' = requests
  PROVE  /\ requests' \in Nat /\ requests' >= requests
         /\ \A r \in inflight' : r.id \in 1..requests' /\ Shaped(r.base.doc)
  BY DEF DInv, TypeOK, DocumentsShaped

\* A client reads, previews, sends or gives up.
LEMMA ClientTyped ==
  ASSUME DInv, NEW c \in Clients,
         ReadLayout(c) \/ PreviewReady(c) \/ PreviewStale(c) \/ Submit(c) \/ GiveUp(c)
  PROVE  TypeOK' /\ DocumentsShaped'
  <1>1. TabShaped(tabs[c])
    BY DEF DInv, DocumentsShaped
  <1>t. PICK B, T : tabs[c] \in [pc : {"idle", "previewing", "editing", "waiting"}, base : B,
                                 tokens : T, attempt : Nat, request : Nat]
    BY <1>1 DEF TabShaped
  <1> DEFINE Tab == [pc : {"idle", "previewing", "editing", "waiting"},
                     base : B \cup {readLayout},
                     tokens : T \cup {MembershipTokens(readLayout.doc, active)},
                     attempt : Nat, request : Nat]
  <1>2. Shaped(readLayout.doc)
    BY ReadShaped
  <1>3. CASE ReadLayout(c)
    <2> DEFINE t == [tabs[c] EXCEPT !.pc = "previewing", !.base = readLayout, !.attempt = 1]
    <2>1. TabShaped(t)
      <3>1. t \in Tab /\ t.base = readLayout
        BY <1>t
      <3> QED
        BY <1>2, <3>1 DEF TabShaped
    <2>2. /\ tabs' = [tabs EXCEPT ![c] = t] /\ UNCHANGED <<row, widgets, toggles>>
          /\ inflight' = inflight /\ requests' = requests
      BY <1>3 DEF ReadLayout
    <2> QED
      BY <2>1, <2>2, TabTyped, RequestsTyped
  <1>4. CASE PreviewReady(c)
    <2> DEFINE t == [tabs[c] EXCEPT !.pc = "editing", !.attempt = 0,
                       !.tokens = MembershipTokens(readLayout.doc, active)]
    <2>1. TabShaped(t)
      <3>1. t \in Tab /\ t.base = tabs[c].base
        BY <1>t
      <3>2. Shaped(tabs[c].base.doc)
        BY <1>1, <1>4 DEF TabShaped, PreviewReady
      <3> QED
        BY <3>1, <3>2 DEF TabShaped
    <2>2. /\ tabs' = [tabs EXCEPT ![c] = t] /\ UNCHANGED <<row, widgets, toggles>>
          /\ inflight' = inflight /\ requests' = requests
      BY <1>4 DEF PreviewReady
    <2> QED
      BY <2>1, <2>2, TabTyped, RequestsTyped
  <1>5. CASE PreviewStale(c)
    <2> DEFINE u == [tabs[c] EXCEPT !.base = readLayout, !.attempt = 2]
               t == IF Previewed(c) /\ tabs[c].attempt = 1 THEN u ELSE Idle
    <2>1. TabShaped(u)
      <3>1. u \in Tab /\ u.base = readLayout
        BY <1>t
      <3> QED
        BY <1>2, <3>1 DEF TabShaped
    <2>2. TabShaped(t)
      BY <2>1, IdleShaped
    <2>3. /\ tabs' = [tabs EXCEPT ![c] = t] /\ UNCHANGED <<row, widgets, toggles>>
          /\ inflight' = inflight /\ requests' = requests
      BY <1>5 DEF PreviewStale
    <2> QED
      BY <2>2, <2>3, TabTyped, RequestsTyped
  <1>6. CASE Submit(c)
    <2> DEFINE t == [Idle EXCEPT !.pc = "waiting", !.request = requests + 1]
               q == [id |-> requests + 1, client |-> c,
                     base |-> tabs[c].base, tokens |-> tabs[c].tokens]
    <2>1. TabShaped(t)
      <3>1. requests + 1 \in Nat
        BY DEF DInv, TypeOK
      <3> QED
        BY <3>1, IdleShaped
    <2>2. /\ tabs' = [tabs EXCEPT ![c] = t] /\ UNCHANGED <<row, widgets, toggles>>
          /\ inflight' = inflight \cup {q} /\ requests' = requests + 1
      BY <1>6 DEF Submit
    <2>3. Shaped(tabs[c].base.doc) /\ requests \in Nat
      BY <1>1, <1>6 DEF TabShaped, Submit, DInv, TypeOK
    <2>4. q.id = requests + 1 /\ q.base.doc = tabs[c].base.doc
      OBVIOUS
    <2> HIDE DEF t, q
    <2>5. \A r \in inflight' : r.id \in 1..requests' /\ Shaped(r.base.doc)
      BY <2>2, <2>3, <2>4 DEF DInv, TypeOK, DocumentsShaped
    <2>6. requests' \in Nat /\ requests' >= requests
      BY <2>2, <2>3
    <2> QED
      BY <2>1, <2>2, <2>5, <2>6, TabTyped
  <1>7. CASE GiveUp(c)
    <2>1. /\ tabs' = [tabs EXCEPT ![c] = Idle] /\ UNCHANGED <<row, widgets, toggles>>
          /\ inflight' = inflight /\ requests' = requests
      BY <1>7 DEF GiveUp
    <2> QED
      BY <2>1, TabTyped, RequestsTyped, IdleShaped
  <1> QED
    BY <1>3, <1>4, <1>5, <1>6, <1>7

\* What the API makes of a request is a document.
LEMMA EditedShaped ==
  ASSUME DInv, NEW r \in inflight, NEW change \in Changes(r.base.doc, r.tokens)
  PROVE  Shaped(EditedLayout(change, readLayout.doc).doc)
  <1> DEFINE d == readLayout.doc
             edit == Edit(change, d)
  <1>1. Shaped(d) /\ Shaped(r.base.doc) /\ active \subseteq Items
    BY ReadShaped, ActiveItems DEF DInv, DocumentsShaped
  <1>2. Shaped(edit.doc)
    BY <1>1, EditShaped
  <1>3. EditedLayout(change, d).doc = edit.doc \/ EditedLayout(change, d).doc = d
    BY DEF EditedLayout, Refused
  <1> QED
    BY <1>1, <1>2, <1>3

\* A request is served.
LEMMA ServeTyped ==
  ASSUME DInv, NEW r \in inflight, NEW change \in Changes(r.base.doc, r.tokens),
         Serve(r, change)
  PROVE  TypeOK' /\ DocumentsShaped'
  <1>1. PICK edit : edit = EditedLayout(change, readLayout.doc)
    OBVIOUS
  <1>2. Shaped(edit.doc)
    BY <1>1, EditedShaped
  <1>3. ServeEdit(r, change, edit)
    BY <1>1 DEF Serve
  <1>4. /\ UNCHANGED <<widgets, tabs, requests, toggles>> /\ inflight' = inflight \ {r}
        /\ \/ row' = row
           \/ row' = [revision |-> readLayout.revision + 1, doc |-> edit.doc]
    BY <1>3 DEF ServeEdit, ServeRefused, ServeAccepted, ServeUnavailable, Written
  <1>5. row' \in [revision : Nat, doc : LayoutDocuments] /\ Shaped(row'.doc)
    BY <1>2, <1>4, ReadShaped DEF DInv, TypeOK, DocumentsShaped, Shaped
  <1>6. UNCHANGED <<selections, pins, placements, tabs, requests, toggles>>
    BY <1>4 DEF widgets
  <1>7. TypeOK'
    BY <1>4, <1>5, <1>6 DEF DInv, TypeOK
  <1>8. DocumentsShaped'
    BY <1>4, <1>5, <1>6 DEF DInv, DocumentsShaped
  <1> QED
    BY <1>7, <1>8

\* Every step preserves it.
LEMMA StepDInv == DInv /\ [Next]_vars => DInv'
  <1> SUFFICES ASSUME DInv, [Next]_vars PROVE TypeOK' /\ DocumentsShaped'
    BY StepLimited DEF DInv
  <1>0. /\ selections \subseteq Hosts /\ pins \subseteq Services
        /\ placements \in [Plugins -> {None} \cup [revision : Nat \ {0}, enabled : BOOLEAN]]
    BY DEF DInv, TypeOK
  <1>1. ASSUME NEW h \in Hosts, SelectHost(h) \/ DeselectHost(h)
        PROVE  TypeOK' /\ DocumentsShaped'
    BY <1>0, <1>1, ToggleTyped DEF SelectHost, DeselectHost
  <1>2. ASSUME NEW s \in Services, SelectService(s) PROVE TypeOK' /\ DocumentsShaped'
    BY <1>0, <1>2, ToggleTyped DEF SelectService
  <1>3. ASSUME NEW p \in Plugins, NEW match, NEW enabled \in BOOLEAN,
               PutPlacement(p, match, enabled)
        PROVE  TypeOK' /\ DocumentsShaped'
    <2>1. PICK v \in [revision : Nat \ {0}, enabled : BOOLEAN] :
             placements' = [placements EXCEPT ![p] = v]
      <3>1. CASE placements[p] = None
        <4>1. placements' = [placements EXCEPT ![p] = [revision |-> 1, enabled |-> enabled]]
          BY <1>3, <3>1 DEF PutPlacement
        <4>2. [revision |-> 1, enabled |-> enabled]
                \in [revision : Nat \ {0}, enabled : BOOLEAN]
          OBVIOUS
        <4> QED
          BY <4>1, <4>2
      <3>2. CASE placements[p] # None
        <4> DEFINE v == [revision |-> placements[p].revision + 1, enabled |-> enabled]
        <4>1. placements' = [placements EXCEPT ![p] = v]
          BY <1>3, <3>2 DEF PutPlacement
        <4>2. placements[p] \in [revision : Nat \ {0}, enabled : BOOLEAN]
          BY <1>0, <3>2
        <4>3. v \in [revision : Nat \ {0}, enabled : BOOLEAN]
          BY <4>2
        <4> QED
          BY <4>1, <4>3
      <3> QED
        BY <3>1, <3>2
    <2>2. Toggle /\ UNCHANGED <<selections, pins>>
      BY <1>3 DEF PutPlacement
    <2> QED
      BY <1>0, <2>1, <2>2, ToggleTyped
  <1>4. ASSUME NEW p \in Plugins, NEW match, DeletePlacement(p, match)
        PROVE  TypeOK' /\ DocumentsShaped'
    BY <1>0, <1>4, ToggleTyped DEF DeletePlacement
  <1>5. ASSUME NEW a, Receive(a) PROVE TypeOK' /\ DocumentsShaped'
    <2>1. /\ tabs' = [tabs EXCEPT ![a.client] = Idle] /\ UNCHANGED <<row, widgets, toggles>>
          /\ inflight' = inflight /\ requests' = requests
      BY <1>5 DEF Receive
    <2> QED
      BY <2>1, TabTyped, RequestsTyped, IdleShaped
  <1>6. CASE UNCHANGED vars
    BY <1>6 DEF vars, widgets, DInv, TypeOK, DocumentsShaped
  <1> QED
    BY <1>1, <1>2, <1>3, <1>4, <1>5, <1>6, ClientTyped, ServeTyped DEF Next

(* Every layout that is saved, held in an editor or on its way to the API  *)
(* is a document with all its parts, whatever edits it went through        *)
(* (LayoutDocument, Layouts.change).                                       *)
THEOREM DashboardTyped == Spec => []TypeOK
  <1>1. DInv => TypeOK
    BY DEF DInv
  <1> QED
    BY <1>1, InitDInv, StepDInv, PTL DEF Spec

-----------------------------------------------------------------------------
(* Every widget once. *)

\* A widget stands at one place of the lists of a layout that is consistent.
LEMMA OnePlaceEach ==
  ASSUME NEW d, Shaped(d), Partitioned(d), active \subseteq Items,
         NEW i \in active \cup Refs(d)
  PROVE  Cardinality({gn \in d.groups \X (1..Cardinality(Items)) :
                        /\ gn[2] \in DOMAIN ResolveLayout(d, active)[gn[1]]
                        /\ ResolveLayout(d, active)[gn[1]][gn[2]] = i}) = 1
  <1> DEFINE R == ResolveLayout(d, active)
             N == Cardinality(Items)
             P == {gn \in d.groups \X (1..N) :
                     gn[2] \in DOMAIN R[gn[1]] /\ R[gn[1]][gn[2]] = i}
  <1>1. PICK g \in d.groups : GroupsOf(d, active, i) = {g}
    BY OneGroupEach
  <1>2. \A h \in d.groups : i \in Members(d, active, h) <=> h = g
    BY <1>1 DEF GroupsOf
  <1>3. ASSUME NEW h \in d.groups
        PROVE  /\ IsInjective(R[h]) /\ ToSet(R[h]) = Members(d, active, h)
               /\ DOMAIN R[h] \subseteq 1..N
    <2>1. /\ R[h] \in Seq(Items) /\ Len(R[h]) = Cardinality(Members(d, active, h))
          /\ IsInjective(R[h]) /\ ToSet(R[h]) = Members(d, active, h)
          /\ Members(d, active, h) \in SUBSET Items
      BY MembersFacts
    <2>2. Cardinality(Members(d, active, h)) <= N /\ N \in Nat
      BY <2>1, LayoutAssumptions, FS_Subset, FS_CardinalityType
    <2>3. DOMAIN R[h] = 1..Len(R[h]) /\ Len(R[h]) \in Nat
      BY <2>1, LenProperties
    <2> QED
      BY <2>1, <2>2, <2>3
  <1> HIDE DEF R, N
  <1>4. PICK n \in DOMAIN R[g] : R[g][n] = i
    BY <1>2, <1>3 DEF ToSet
  <1>5. <<g, n>> \in P
    BY <1>3, <1>4
  <1>6. ASSUME NEW x \in P PROVE x = <<g, n>>
    <2>1. x[1] \in d.groups /\ x = <<x[1], x[2]>> /\ x[2] \in DOMAIN R[x[1]] /\ R[x[1]][x[2]] = i
      OBVIOUS
    <2>2. x[1] = g
      BY <1>2, <1>3, <2>1 DEF ToSet
    <2>3. x[2] = n
      BY <1>3, <1>4, <2>1, <2>2 DEF IsInjective
    <2> QED
      BY <2>1, <2>2, <2>3
  <1>7. P = {<<g, n>>}
    BY <1>5, <1>6
  <1>8. Cardinality(P) = 1
    BY <1>7, FS_Singleton
  <1> QED
    BY <1>8 DEF R, N

(* Whatever is saved and selected, each selected widget and each dormant   *)
(* reference stands at exactly one place of the homepage's lists: nothing  *)
(* vanishes and nothing is listed twice (ResolveLayout, ordered,           *)
(* ValidateLayout).                                                        *)
THEOREM WidgetsListedOnce == Spec => []EveryWidgetOnce
  <1>1. DInv /\ StoredLayoutReadable => EveryWidgetOnce
    <2> SUFFICES ASSUME DInv, StoredLayoutReadable PROVE EveryWidgetOnce
      OBVIOUS
    <2>1. /\ Shaped(readLayout.doc) /\ Partitioned(readLayout.doc)
          /\ active \subseteq Items
      BY ReadShaped, ReadablePartitioned, ActiveItems DEF DInv
    <2> QED
      BY <2>1, OnePlaceEach DEF EveryWidgetOnce
  <1>2. Spec => []DInv
    BY InitDInv, StepDInv, PTL DEF Spec
  <1> QED
    BY <1>1, <1>2, AlwaysReadable, PTL

-----------------------------------------------------------------------------
(* Edits do what was asked. *)

\* What an edit from d to e was asked to do.
AsAsked(change, d, e) ==
  /\ change.kind = "orderItems" =>
       LET g == change.group
           resolved == ResolveLayout(e, active)[g]
       IN  /\ ToSet(resolved) = change.token[2]
           /\ change.order.mode = "custom" => resolved = change.order.ids
  /\ change.kind = "move" =>
       /\ GroupsOf(e, active, change.item) = {change.group}
       /\ \A i \in (active \cup Refs(d)) \ {change.item} :
             GroupsOf(e, active, i) = GroupsOf(d, active, i)
       /\ change.before \in Items =>
             LET seq == ResolveLayout(e, active)[change.group]
             IN  \E n \in 2..Len(seq) : /\ seq[n] = change.before
                                        /\ seq[n - 1] = change.item

\* Making the members of a group explicit does not change them.
LEMMA OrderedMembers ==
  ASSUME NEW d, Shaped(d), active \subseteq Items, NEW g \in d.groups,
         NEW e, e.groups = d.groups, e.sources = d.sources,
         \/ e.placed = d.placed
         \/ e.placed = [d.placed EXCEPT ![g] = Members(d, active, g)]
  PROVE  Members(e, active, g) = Members(d, active, g)
  <1>1. d.placed \in [Groups -> SUBSET Items] /\ g \in Groups /\ d.groups \subseteq Groups
    BY DocTypes DEF Shaped
  <1>2. CASE e.placed = d.placed
    BY <1>2 DEF Members, Places
  <1>3. CASE e.placed = [d.placed EXCEPT ![g] = Members(d, active, g)]
    <2>1. e.placed[g] = Members(d, active, g)
      BY <1>1, <1>3
    <2>2. \A i \in active : Places(e, i) = {} /\ e.sources[SourceOf[i]] = g
                            => i \in Members(d, active, g)
      <3> SUFFICES ASSUME NEW i \in active, Places(e, i) = {}, e.sources[SourceOf[i]] = g,
                          i \notin Members(d, active, g)
                   PROVE  FALSE
        OBVIOUS
      <3>1. \A h \in d.groups : i \notin e.placed[h]
        BY DEF Places
      <3>2. \A h \in d.groups : h # g => e.placed[h] = d.placed[h]
        BY <1>1, <1>3
      <3>3. i \notin d.placed[g]
        BY DEF Members
      <3>4. Places(d, i) = {}
        BY <3>1, <3>2, <3>3 DEF Places
      <3> QED
        BY <3>4 DEF Members
    <2> QED
      BY <2>1, <2>2 DEF Members
  <1> QED
    BY <1>2, <1>3

\* An order of items applies to the members its client saw.
LEMMA OrderAsAsked ==
  ASSUME NEW d, Shaped(d), active \subseteq Items, NEW g \in d.groups,
         NEW o \in {Alphabetical}
                   \cup {Custom(s) : s \in Permutings(Members(d, active, g))},
         CompleteOrder(o, Members(d, active, g)) = "ok",
         NEW e, e = ItemsOrdered(d, g, Members(d, active, g), o)
  PROVE  /\ ToSet(ResolveLayout(e, active)[g]) = Members(d, active, g)
         /\ o.mode = "custom" => ResolveLayout(e, active)[g] = o.ids
  <1> DEFINE M == Members(d, active, g)
  <1>1. M \in SUBSET Items
    BY MembersFacts
  <1>2. /\ o \in Orderings(Items)
        /\ o.mode = "custom" => IsInjective(o.ids) /\ o = Custom(o.ids)
    BY <1>1, AskedOrders
  <1>3. /\ Shaped(e) /\ e.groups = d.groups /\ e.sources = d.sources /\ e.order[g] = o
        /\ e.placed = [d.placed EXCEPT ![g] = IF o.mode = "custom" THEN M ELSE d.placed[g]]
    BY <1>1, <1>2, ItemsShaped
  <1>4. o.mode # "custom" => e.placed = d.placed
    BY <1>3, DocTypes DEF Shaped
  <1>5. Members(e, active, g) = M
    <2>1. CASE o.mode = "custom"
      <3>1. e.placed = [d.placed EXCEPT ![g] = Members(d, active, g)]
        BY <1>3, <2>1
      <3> HIDE DEF M
      <3>2. Members(e, active, g) = Members(d, active, g)
        BY <1>3, <3>1, OrderedMembers
      <3> QED
        BY <3>2 DEF M
    <2>2. CASE o.mode # "custom"
      <3> HIDE DEF M
      <3>1. e.placed = d.placed /\ e.groups = d.groups /\ e.sources = d.sources
        BY <1>3, <1>4, <2>2
      <3>2. Members(e, active, g) = Members(d, active, g)
        BY <3>1, OrderedMembers
      <3> QED
        BY <3>2 DEF M
    <2> QED
      BY <2>1, <2>2
  <1>6. /\ ToSet(ResolveLayout(e, active)[g]) = M
        /\ ResolveLayout(e, active)[g] = Ordered(M, o)
    BY <1>3, <1>5, MembersFacts
  <1>7. ASSUME o.mode = "custom" PROVE Ordered(M, o) = o.ids
    <2>1. ToSet(o.ids) = M
      BY <1>7 DEF CompleteOrder
    <2>2. o.ids \in Seq(Items) /\ IsInjective(o.ids) /\ o = Custom(o.ids)
      BY <1>2, <1>7, OrderTypes
    <2>3. Ordered(ToSet(o.ids), Custom(o.ids)) = o.ids
      BY <2>2, OrderedRanked
    <2> QED
      BY <2>1, <2>2, <2>3
  <1> QED
    BY <1>6, <1>7

\* A move puts its widget in its group and leaves the others where they are.
LEMMA MoveKeepsOthers ==
  ASSUME NEW d, Shaped(d), active \subseteq Items, NEW g \in d.groups, NEW i \in Items,
         NEW e, NEW S, S = d.placed[g] \/ S = Members(d, active, g), Put(d, e, i, g, S)
  PROVE  /\ GroupsOf(e, active, i) = {g}
         /\ \A j : j # i => GroupsOf(e, active, j) = GroupsOf(d, active, j)
  <1>1. g \in Groups /\ d.groups \subseteq Groups
    BY DocTypes DEF Shaped
  <1>2. /\ e.placed[g] = (S \ {i}) \cup {i}
        /\ \A h \in d.groups : h # g => e.placed[h] = d.placed[h] \ {i}
        /\ e.groups = d.groups /\ e.sources = d.sources
    BY <1>1 DEF Put, PlacedIn
  <1>3. Places(e, i) = {g}
    BY <1>2 DEF Places
  <1>4. GroupsOf(e, active, i) = {g}
    <2>1. \A h \in d.groups : i \in Members(e, active, h) <=> h = g
      BY <1>2, <1>3 DEF Members
    <2> QED
      BY <1>2, <2>1 DEF GroupsOf
  <1>5. ASSUME NEW j, j # i, NEW h \in d.groups
        PROVE  j \in Members(e, active, h) <=> j \in Members(d, active, h)
    <2>1. \A k \in d.groups : k # g => (j \in e.placed[k] <=> j \in d.placed[k])
      BY <1>2, <1>5
    <2>2. j \in e.placed[g] <=> j \in S
      BY <1>2, <1>5
    <2>3. CASE S = d.placed[g]
      <3>1. \A k \in d.groups : j \in e.placed[k] <=> j \in d.placed[k]
        BY <2>1, <2>2, <2>3
      <3>2. Places(e, j) = Places(d, j)
        BY <1>2, <3>1 DEF Places
      <3> QED
        BY <1>2, <3>1, <3>2 DEF Members
    <2>4. CASE S = Members(d, active, g)
      <3>1. CASE j \in Members(d, active, g)
        <4>1. Places(e, j) # {}
          BY <1>2, <2>2, <2>4, <3>1 DEF Places
        <4>2. j \in Members(e, active, h) <=> j \in e.placed[h]
          BY <1>2, <4>1 DEF Members
        <4>3. CASE h = g
          BY <2>2, <2>4, <3>1, <4>2, <4>3
        <4>4. CASE h # g
          <5>1. j \in Members(e, active, h) <=> j \in d.placed[h]
            BY <2>1, <4>2, <4>4
          <5>2. Places(d, j) = {} => d.sources[SourceOf[j]] = g
            BY <3>1 DEF Members, Places
          <5>3. j \in Members(d, active, h) <=> j \in d.placed[h]
            BY <4>4, <5>2 DEF Members
          <5> QED
            BY <5>1, <5>3
        <4> QED
          BY <4>3, <4>4
      <3>2. CASE j \notin Members(d, active, g)
        <4>1. j \notin d.placed[g]
          BY <3>2 DEF Members
        <4>2. \A k \in d.groups : j \in e.placed[k] <=> j \in d.placed[k]
          BY <2>1, <2>2, <2>4, <3>2, <4>1
        <4>3. Places(e, j) = Places(d, j)
          BY <1>2, <4>2 DEF Places
        <4> QED
          BY <1>2, <4>2, <4>3 DEF Members
      <3> QED
        BY <3>1, <3>2
    <2> QED
      BY <2>3, <2>4
  <1> QED
    BY <1>2, <1>4, <1>5 DEF GroupsOf

\* An accepted move before a widget puts the moved one right before it.
LEMMA MovedBeforeAsAsked ==
  ASSUME NEW d, Shaped(d), active \subseteq Items, NEW g \in d.groups, NEW i \in Items,
         NEW before, before = "null" \/ before \in ToSet(Others(d, i, g)),
         NEW e, e = MovedBefore(d, i, g, before), Consistent(e)
  PROVE  /\ GroupsOf(e, active, i) = {g}
         /\ \A j : j # i => GroupsOf(e, active, j) = GroupsOf(d, active, j)
         /\ before # "null" => RightBefore(ResolveLayout(e, active)[g], i, before)
  <1> DEFINE t == Moved(d, i, g, before)
             S == Members(d, active, g)
  <1>1. Shaped(e) /\ Put(d, e, i, g, S) /\ e.order[g] = Custom(t)
    BY MoveShaped
  <1>g. e.groups = d.groups
    BY <1>1 DEF Put
  <1>2. /\ t \in Seq(Items) /\ ToSet(t) = (S \ {i}) \cup {i}
        /\ before # "null" => RightBefore(t, i, before)
    BY MovedFacts
  <1> HIDE DEF t
  <1>3. /\ GroupsOf(e, active, i) = {g}
        /\ \A j : j # i => GroupsOf(e, active, j) = GroupsOf(d, active, j)
    BY <1>1, MoveKeepsOthers
  <1>4. Members(e, active, g) = ToSet(t)
    <2>0. g \in Groups
      BY DocTypes DEF Shaped
    <2>1. e.placed[g] = (S \ {i}) \cup {i}
      BY <1>1, <2>0 DEF Put, PlacedIn
    <2>2. ASSUME NEW j PROVE j \in Members(e, active, g) <=> j \in ToSet(t)
      <3>1. CASE j = i
        BY <1>2, <2>1, <3>1 DEF Members
      <3>2. CASE j # i
        <4>1. GroupsOf(e, active, j) = GroupsOf(d, active, j)
          BY <1>3, <3>2
        <4>2. j \in Members(e, active, g) <=> j \in S
          BY <1>g, <4>1 DEF GroupsOf
        <4> QED
          BY <1>2, <3>2, <4>2
      <3> QED
        BY <3>1, <3>2
    <2> QED
      BY <2>2
  <1>5. IsInjective(t)
    <2>1. WellOrdered(e.order[g], e.placed[g])
      BY <1>g DEF Consistent
    <2>2. Custom(t).ids = t
      BY DEF Custom
    <2> QED
      BY <1>1, <2>1, <2>2 DEF WellOrdered
  <1>6. ResolveLayout(e, active)[g] = t
    <2>1. ResolveLayout(e, active)[g] = Ordered(ToSet(t), Custom(t))
      BY <1>1, <1>4, <1>g DEF ResolveLayout
    <2> QED
      BY <1>2, <1>5, <2>1, OrderedRanked
  <1> QED
    BY <1>2, <1>3, <1>6

\* An accepted move does what was asked.
LEMMA MoveAsAsked ==
  ASSUME NEW d, Shaped(d), active \subseteq Items, NEW i \in Items, NEW g, NEW before,
         NEW edit, edit = Move(d, active, i, g, before), edit.code = "ok",
         NEW e, e = edit.doc, Consistent(e)
  PROVE  /\ GroupsOf(e, active, i) = {g}
         /\ \A j : j # i => GroupsOf(e, active, j) = GroupsOf(d, active, j)
         /\ before \in Items => RightBefore(ResolveLayout(e, active)[g], i, before)
  <1>0. before \in Items => before # "absent" /\ before # "null"
    BY LayoutAssumptions
  <1>1. CASE e = d /\ before = "absent" /\ GroupsOf(d, active, i) = {g}
    BY <1>0, <1>1
  <1>2. CASE g \in d.groups /\ before = "absent" /\ e = MovedIn(d, i, g)
    <2>1. Put(d, e, i, g, d.placed[g])
      BY <1>2, MoveShaped
    <2>2. /\ GroupsOf(e, active, i) = {g}
          /\ \A j : j # i => GroupsOf(e, active, j) = GroupsOf(d, active, j)
      BY <1>2, <2>1, MoveKeepsOthers
    <2> QED
      BY <1>0, <1>2, <2>2
  <1>3. CASE /\ g \in d.groups
             /\ before = "null" \/ before \in ToSet(Others(d, i, g))
             /\ e = MovedBefore(d, i, g, before)
    <2>1. /\ GroupsOf(e, active, i) = {g}
          /\ \A j : j # i => GroupsOf(e, active, j) = GroupsOf(d, active, j)
          /\ before # "null" => RightBefore(ResolveLayout(e, active)[g], i, before)
      BY <1>3, MovedBeforeAsAsked
    <2> QED
      BY <1>0, <2>1
  <1> QED
    BY <1>1, <1>2, <1>3, MoveCases

\* An accepted order of items does what was asked.
LEMMA OrderItemsAsAsked ==
  ASSUME NEW d, Shaped(d), active \subseteq Items, NEW g, NEW token,
         NEW o \in {Alphabetical} \cup {Custom(s) : s \in Permutings(token[2])},
         NEW edit, edit = OrderItems(d, active, g, token, o), edit.code = "ok",
         NEW e, e = edit.doc
  PROVE  /\ ToSet(ResolveLayout(e, active)[g]) = token[2]
         /\ o.mode = "custom" => ResolveLayout(e, active)[g] = o.ids
  <1> DEFINE M == Members(d, active, g)
  <1>1. /\ g \in d.groups /\ token = <<g, M>> /\ CompleteOrder(o, M) = "ok"
        /\ e = ItemsOrdered(d, g, M, o)
    BY OrderItemsCases
  <1>2. token[2] = M
    BY <1>1
  <1> QED
    BY <1>1, <1>2, OrderAsAsked

\* What validation accepts.
LEMMA ValidIsConsistent ==
  ASSUME NEW e, NEW d, NEW sel, ValidateLayout(e, d, sel) = "ok"
  PROVE  Consistent(e)
  BY DEF ValidateLayout

\* An edit that passes validation does what was asked.
LEMMA EditAsAsked ==
  ASSUME NEW d, Shaped(d), NEW base, active \subseteq Items, NEW tokens,
         NEW change \in Changes(base, tokens), NEW edit, edit = EditedLayout(change, d),
         edit.code = "ok"
  PROVE  AsAsked(change, d, edit.doc)
  <1>1. edit = Edit(change, d) /\ Consistent(edit.doc)
    <2>1. edit = Edit(change, d) /\ ValidateLayout(edit.doc, d, active) = "ok"
      BY AcceptedIsValid
    <2> QED
      BY <2>1, ValidIsConsistent
  <1>2. ASSUME change.kind = "orderItems" PROVE AsAsked(change, d, edit.doc)
    <2>1. change.order \in {Alphabetical} \cup {Custom(s) : s \in Permutings(change.token[2])}
      BY <1>2, ChangeCases
    <2>2. edit = OrderItems(d, active, change.group, change.token, change.order)
      BY <1>1, <1>2, EditCases
    <2> QED
      BY <1>2, <2>1, <2>2, OrderItemsAsAsked DEF AsAsked
  <1>3. ASSUME change.kind = "move" PROVE AsAsked(change, d, edit.doc)
    <2>1. change.item \in Items
      BY <1>3, ChangeCases
    <2>2. edit = Move(d, active, change.item, change.group, change.before)
      BY <1>1, <1>3, EditCases
    <2>3. PICK i, g, before, e :
            i = change.item /\ g = change.group /\ before = change.before /\ e = edit.doc
      OBVIOUS
    <2>4. /\ GroupsOf(e, active, i) = {g}
          /\ \A j : j # i => GroupsOf(e, active, j) = GroupsOf(d, active, j)
          /\ before \in Items => RightBefore(ResolveLayout(e, active)[g], i, before)
      <3>1. /\ i \in Items /\ edit = Move(d, active, i, g, before)
            /\ e = edit.doc /\ Consistent(e)
        BY <1>1, <2>1, <2>2, <2>3
      <3> QED
        BY <3>1, MoveAsAsked
    <2> QED
      BY <1>3, <2>3, <2>4 DEF AsAsked, RightBefore
  <1> QED
    BY <1>2, <1>3 DEF AsAsked

\* An answer that says ok is new only where an edit was accepted.
LEMMA NewAnswers ==
  ASSUME [Next]_vars, NEW a \in answers' \ answers, a.code = "ok"
  PROVE  \E r \in inflight : \E change \in Changes(r.base.doc, r.tokens) :
           /\ EditedLayout(change, readLayout.doc).code = "ok"
           /\ a.change = change
           /\ a.state.doc = EditedLayout(change, readLayout.doc).doc
  <1>1. ASSUME NEW r \in inflight, NEW change \in Changes(r.base.doc, r.tokens),
               Serve(r, change)
        PROVE  /\ EditedLayout(change, readLayout.doc).code = "ok"
               /\ a.change = change
               /\ a.state.doc = EditedLayout(change, readLayout.doc).doc
    <2>1. PICK edit : edit = EditedLayout(change, readLayout.doc)
      OBVIOUS
    <2>2. ServeEdit(r, change, edit)
      BY <1>1, <2>1 DEF Serve
    <2>3. CASE ServeRefused(r, edit)
      <3>1. PICK code : code # "ok" /\ answers' = Answer(r, None, code, None)
        BY <2>3 DEF ServeRefused
      <3>2. a.code = code
        BY <3>1, AnswerAdds
      <3> QED
        BY <3>1, <3>2
    <2>4. CASE ServeUnavailable(r, edit)
      <3>1. answers' = Answer(r, None, "unavailable", None)
        BY <2>4 DEF ServeUnavailable
      <3>2. a.code = "unavailable"
        BY <3>1, AnswerAdds
      <3> QED
        BY <3>2
    <2>5. CASE ServeAccepted(r, change, edit)
      <3> DEFINE next == [revision |-> readLayout.revision + 1, doc |-> edit.doc]
                 state == IF edit.doc = readLayout.doc THEN readLayout ELSE next
      <3>1. answers' = Answer(r, change, "ok", state) /\ edit.code = "ok"
        BY <2>5 DEF ServeAccepted
      <3>2. next.doc = edit.doc
        OBVIOUS
      <3>3. state.doc = edit.doc
        BY <3>2
      <3> HIDE DEF state
      <3>4. a.change = change /\ a.state = state
        BY <3>1, AnswerAdds
      <3> QED
        BY <2>1, <3>1, <3>3, <3>4
    <2> QED
      BY <2>2, <2>3, <2>4, <2>5 DEF ServeEdit
  <1>2. \/ \E r \in inflight : \E change \in Changes(r.base.doc, r.tokens) : Serve(r, change)
        \/ answers' \subseteq answers
    BY DEF Next, SelectHost, DeselectHost, SelectService, PutPlacement, DeletePlacement,
           Toggle, ReadLayout, PreviewReady, PreviewStale, Submit, GiveUp, Receive, vars
  <1> QED
    BY <1>1, <1>2

(* An edit that is accepted does what its client asked and nothing else,   *)
(* whatever the document, the selections and the interleaving: an order of *)
(* items applies to the members its client saw, and a move puts its widget *)
(* where it was asked and leaves every other widget in its group           *)
(* (Layouts.OrderItems, Layouts.Move, the membership token).               *)
THEOREM EditsDoAsAsked == Spec => EditsAsAsked
  <1>1. DInv /\ [Next]_vars =>
          \A a \in answers' \ answers :
            a.code = "ok" => AsAsked(a.change, readLayout.doc, a.state.doc)
    <2> SUFFICES ASSUME DInv, [Next]_vars, NEW a \in answers' \ answers, a.code = "ok"
                 PROVE  AsAsked(a.change, readLayout.doc, a.state.doc)
      OBVIOUS
    <2>0. PICK r \in inflight : \E change \in Changes(r.base.doc, r.tokens) :
             /\ EditedLayout(change, readLayout.doc).code = "ok"
             /\ a.change = change
             /\ a.state.doc = EditedLayout(change, readLayout.doc).doc
      BY NewAnswers
    <2>1. PICK change \in Changes(r.base.doc, r.tokens) :
             /\ EditedLayout(change, readLayout.doc).code = "ok"
             /\ a.change = change
             /\ a.state.doc = EditedLayout(change, readLayout.doc).doc
      BY <2>0
    <2>2. Shaped(readLayout.doc) /\ active \subseteq Items
      BY ReadShaped, ActiveItems DEF DInv
    <2>3. AsAsked(change, readLayout.doc, EditedLayout(change, readLayout.doc).doc)
      BY <2>1, <2>2, EditAsAsked
    <2> QED
      BY <2>1, <2>3
  <1>2. DInv /\ [Next]_vars =>
          [\A a \in answers' \ answers :
            a.code = "ok" => AsAsked(a.change, readLayout.doc, a.state.doc)]_vars
    BY <1>1
  <1>3. Spec => []DInv
    BY InitDInv, StepDInv, PTL DEF Spec
  <1>4. Spec => [][\A a \in answers' \ answers :
            a.code = "ok" => AsAsked(a.change, readLayout.doc, a.state.doc)]_vars
    BY <1>2, <1>3, PTL DEF Spec
  <1> QED
    BY <1>4 DEF EditsAsAsked, AsAsked

-----------------------------------------------------------------------------
(* The homepage's stream (DashboardStream), for any widgets, providers and *)
(* data.  A page's two requests and the ticks before it are tied together  *)
(* by what the stream retains.                                             *)

\* A widget without data, in a snapshot made by retaining, had none before.
Explained(s) ==
  \A w \in DOMAIN s.items \cap DOMAIN retained : s.items[w] = NoData => retained[w] = NoData

\* The snapshot to be rendered is of the layout of a dashboard without groups,
\* if there are none, and follows from what is still retained.
Rendering ==
  pc = "render" =>
    /\ snap \in Snapshots
    /\ ~grouped => snap.revision = 0
    /\ Explained(snap)

\* The inductive invariant.
SInv == StreamTypeOK /\ Rendering /\ PageOfOneLayout

\* The functions on sets of widgets.
LEMMA ItemsFacts ==
  /\ \A f \in ItemData : /\ DOMAIN f \subseteq Widgets
                         /\ \A w \in DOMAIN f : f[w] \in Data \cup {NoData}
  /\ \A S \in SUBSET Widgets : \A f \in [S -> Data \cup {NoData}] : f \in ItemData
  <1>1. ASSUME NEW f \in ItemData
        PROVE  DOMAIN f \subseteq Widgets /\ \A w \in DOMAIN f : f[w] \in Data \cup {NoData}
    <2>1. PICK S \in SUBSET Widgets : f \in [S -> Data \cup {NoData}]
      BY DEF ItemData
    <2> QED
      BY <2>1
  <1>2. ASSUME NEW S \in SUBSET Widgets, NEW f \in [S -> Data \cup {NoData}]
        PROVE  f \in ItemData
    BY <1>2 DEF ItemData
  <1> QED
    BY <1>1, <1>2

\* A page without widgets.
LEMMA NothingTyped == Nothing \in ItemData
  <1>1. Nothing \in [{} -> Data \cup {NoData}]
    BY DEF Nothing
  <1> QED
    BY <1>1, ItemsFacts

\* The snapshot of a tick.
LEMMA ReadNow ==
  ASSUME StreamTypeOK
  PROVE  /\ Retain(Snapshot) \in Snapshots
         /\ Explained(Retain(Snapshot))
         /\ ~grouped => Retain(Snapshot).revision = 0
  <1> DEFINE shown == IF grouped THEN selected ELSE {w \in selected : KindOf[w] \notin broken}
             read == [w \in shown |-> IF KindOf[w] \in broken THEN NoData ELSE data[w]]
             lost == {w \in DOMAIN retained : KindOf[w] \in broken}
             kept == shown \cup IF grouped THEN {} ELSE lost
             items == [w \in kept |-> IF w \in lost THEN retained[w] ELSE read[w]]
             rev == IF grouped THEN revision ELSE 0
  <1>1. Snapshot = [items |-> read, unavailable |-> broken, revision |-> rev]
    BY DEF Snapshot
  <1>2. Retain(Snapshot) = [items |-> items, unavailable |-> broken, revision |-> rev]
    <2>1. DOMAIN read = shown
      OBVIOUS
    <2> HIDE DEF read, shown, rev
    <2>2. /\ Snapshot.items = read /\ Snapshot.unavailable = broken
          /\ \A f : [Snapshot EXCEPT !.items = f] =
                     [items |-> f, unavailable |-> broken, revision |-> rev]
      BY <1>1
    <2> HIDE DEF Snapshot
    <2> QED
      BY <2>1, <2>2 DEF Retain
  <1>3. shown \subseteq Widgets /\ DOMAIN retained \subseteq Widgets /\ kept \subseteq Widgets
    BY ItemsFacts DEF StreamTypeOK
  <1>4. \A w \in kept : items[w] \in Data \cup {NoData}
    <2> SUFFICES ASSUME NEW w \in kept PROVE items[w] \in Data \cup {NoData}
      OBVIOUS
    <2>1. CASE w \in lost
      BY <2>1, ItemsFacts DEF StreamTypeOK
    <2>2. CASE w \notin lost
      BY <2>2, <1>3 DEF StreamTypeOK
    <2> QED
      BY <2>1, <2>2
  <1>5. items \in ItemData
    <2>1. items \in [kept -> Data \cup {NoData}]
      BY <1>4
    <2> HIDE DEF items, kept
    <2> QED
      BY <1>3, <2>1, ItemsFacts
  <1>6. rev \in 0..MaxRevision
    BY StreamAssumptions DEF StreamTypeOK
  <1>7. \A w \in kept \cap DOMAIN retained : items[w] = NoData => retained[w] = NoData
    <2> SUFFICES ASSUME NEW w \in kept \cap DOMAIN retained, w \notin lost
                 PROVE  items[w] # NoData
      OBVIOUS
    <2>1. w \in shown /\ KindOf[w] \notin broken
      OBVIOUS
    <2>2. items[w] = data[w] /\ data[w] \in Data
      BY <1>3, <2>1 DEF StreamTypeOK
    <2> QED
      BY <2>2, StreamAssumptions
  <1>8. DOMAIN items = kept
    OBVIOUS
  <1> HIDE DEF items, kept, rev
  <1>9. Retain(Snapshot).items = items /\ Retain(Snapshot).revision = rev
    BY <1>2
  <1>10. Retain(Snapshot) \in Snapshots
    BY <1>2, <1>5, <1>6 DEF Snapshots, StreamTypeOK
  <1>11. Explained(Retain(Snapshot))
    BY <1>7, <1>8, <1>9 DEF Explained
  <1> QED
    BY <1>9, <1>10, <1>11 DEF rev

\* The page was rendered before its stream opened.
LEMMA InitSInv == StreamInit => SInv
  <1> SUFFICES ASSUME StreamInit PROVE SInv
    OBVIOUS
  <1>1. /\ Nothing \in ItemData
        /\ 0 \in 0..MaxRevision /\ 1 \in 1..MaxConnections /\ 0 \in 0..MaxChanges
    BY NothingTyped, StreamAssumptions
  <1>2. [w \in selected |-> data[w]] \in ItemData
    <2>1. selected \subseteq Widgets /\ [w \in selected |-> data[w]] \in [selected -> Data \cup {NoData}]
      BY DEF StreamInit
    <2> QED
      BY <2>1, ItemsFacts
  <1>3. page \in [items : ItemData, groups : 0..MaxRevision, geometry : 0..MaxRevision]
    BY <1>2, StreamAssumptions DEF StreamInit
  <1>4. StreamTypeOK
    BY <1>1, <1>3 DEF StreamInit, StreamTypeOK
  <1> QED
    BY <1>4 DEF StreamInit, SInv, Rendering, PageOfOneLayout

\* What the backend does leaves the stream and the page alone.
LEMMA ChangeKeeps ==
  ASSUME SInv, Change, selected' \subseteq Widgets, data' \in [Widgets -> Data],
         broken' \subseteq Kinds, revision' \in 0..MaxRevision, up' \in BOOLEAN
  PROVE  SInv'
  <1>1. UNCHANGED <<grouped, pc, snap, previous, published, layout, retained, cached, failed,
                    page, status, connections>>
    BY DEF Change, stream
  <1>2. changes' \in 0..MaxChanges
    BY StreamAssumptions DEF Change, SInv, StreamTypeOK
  <1>3. StreamTypeOK'
    BY <1>1, <1>2 DEF SInv, StreamTypeOK
  <1> QED
    BY <1>1, <1>3 DEF SInv, Rendering, Explained, PageOfOneLayout

\* Reconnecting starts a stream that has read nothing.
LEMMA EnvironmentKeeps == ASSUME SInv, Environment PROVE SInv'
  <1>1. CASE Reconnect
    <2>1. Nothing \in ItemData
      BY NothingTyped
    <2>2. connections' \in 1..MaxConnections
      BY <1>1, StreamAssumptions DEF Reconnect, SInv, StreamTypeOK
    <2>3. StreamTypeOK'
      BY <1>1, <2>1, <2>2 DEF Reconnect, Connect, backend, SInv, StreamTypeOK
    <2> QED
      BY <1>1, <2>3 DEF Reconnect, Connect, SInv, Rendering, PageOfOneLayout
  <1>2. CASE SaveLayout
    <2>1. revision' \in 0..MaxRevision
      BY <1>2, StreamAssumptions DEF SaveLayout, SInv, StreamTypeOK
    <2> QED
      BY <1>2, <2>1, ChangeKeeps DEF SaveLayout, SInv, StreamTypeOK
  <1>3. CASE Outage
    BY <1>3, ChangeKeeps DEF Outage, SInv, StreamTypeOK
  <1>4. ASSUME NEW w \in Widgets, Select(w) PROVE SInv'
    BY <1>4, ChangeKeeps DEF Select, SInv, StreamTypeOK
  <1>5. ASSUME NEW w \in Widgets, Report(w) PROVE SInv'
    BY <1>5, ChangeKeeps DEF Report, SInv, StreamTypeOK
  <1>6. ASSUME NEW k \in Kinds, Provider(k) PROVE SInv'
    BY <1>6, ChangeKeeps DEF Provider, SInv, StreamTypeOK
  <1> QED
    BY <1>1, <1>2, <1>3, <1>4, <1>5, <1>6 DEF Environment

\* A snapshot's parts.
LEMMA SnapshotParts ==
  ASSUME NEW s \in Snapshots
  PROVE  s.items \in ItemData /\ s.revision \in 0..MaxRevision
  BY DEF Snapshots

\* What is published is a snapshot, its items and its revision.
LEMMA PublishKeeps ==
  ASSUME StreamTypeOK, NEW s \in Snapshots, Publish(s)
  PROVE  /\ previous' \in Snapshots \cup {NoSnapshot} /\ published' \in ItemData
         /\ layout' \in 0..MaxRevision \cup {NoSnapshot}
  BY SnapshotParts DEF Publish, StreamTypeOK

\* A tick, and the rendering that may follow it.
LEMMA TickKeeps == ASSUME SInv, Tick PROVE SInv'
  <1> DEFINE s == Retain(Snapshot)
  <1>s. s \in Snapshots /\ Explained(s) /\ (~grouped => s.revision = 0)
    BY ReadNow DEF SInv
  <1>i. s.items \in ItemData
    BY <1>s, SnapshotParts
  <1>1. CASE TickFails
    <2>1. StreamTypeOK'
      BY <1>1 DEF TickFails, backend, SInv, StreamTypeOK
    <2> QED
      BY <1>1, <2>1 DEF TickFails, backend, SInv, Rendering, Explained, PageOfOneLayout
  <1>2. CASE TickKeepalive
    <2>1. retained' = s.items /\ pc' = "tick" /\ page' = page
      BY <1>2 DEF TickKeepalive
    <2>2. StreamTypeOK'
      BY <1>2, <1>i, <2>1 DEF TickKeepalive, backend, SInv, StreamTypeOK
    <2> QED
      BY <2>1, <2>2 DEF SInv, Rendering, PageOfOneLayout
  <1>3. CASE TickUnavailable
    <2>1. retained' = s.items /\ pc' = "tick" /\ page' = page
      BY <1>3 DEF TickUnavailable
    <2>2. StreamTypeOK'
      BY <1>3, <1>i, <2>1 DEF TickUnavailable, backend, SInv, StreamTypeOK
    <2> QED
      BY <2>1, <2>2 DEF SInv, Rendering, PageOfOneLayout
  <1>4. CASE TickWidgets
    <2> DEFINE changed == {w \in DOMAIN s.items : s.items[w] # published[w]}
               new == [w \in DOMAIN page.items |->
                         IF w \in changed THEN s.items[w] ELSE page.items[w]]
    <2>1. /\ retained' = s.items /\ pc = "tick" /\ pc' = pc
          /\ page' = [page EXCEPT !.items = new]
          /\ status' = Message(s) /\ failed' = FALSE /\ Publish(s)
          /\ UNCHANGED <<grouped, selected, data, broken, revision, up, changes, snap,
                         cached, connections>>
      BY <1>4 DEF TickWidgets, backend
    <2>2. page.items \in ItemData /\ page.groups \in 0..MaxRevision /\ page.geometry \in 0..MaxRevision
      BY DEF SInv, StreamTypeOK
    <2>3. new \in ItemData
      <3>1. DOMAIN page.items \subseteq Widgets
        BY <2>2, ItemsFacts
      <3>2. \A w \in DOMAIN page.items : new[w] \in Data \cup {NoData}
        BY <1>i, <2>2, ItemsFacts
      <3> QED
        BY <3>1, <3>2, ItemsFacts
    <2> HIDE DEF new, s
    <2>4. /\ page' \in [items : ItemData, groups : 0..MaxRevision, geometry : 0..MaxRevision]
          /\ page'.groups = page.groups /\ page'.geometry = page.geometry
      BY <2>1, <2>3 DEF SInv, StreamTypeOK
    <2>5. /\ previous' \in Snapshots \cup {NoSnapshot} /\ published' \in ItemData
          /\ layout' \in 0..MaxRevision \cup {NoSnapshot}
      BY <1>s, <2>1, PublishKeeps DEF SInv
    <2>6. status' \in {"live", "partial", "retrying", "layout"}
      BY <2>1 DEF Message
    <2>7. StreamTypeOK'
      BY <1>i, <2>1, <2>4, <2>5, <2>6 DEF SInv, StreamTypeOK
    <2> QED
      BY <2>1, <2>4, <2>7 DEF SInv, Rendering, PageOfOneLayout
  <1>5. CASE TickStructure
    <2>1. /\ snap' = s /\ pc' = "render"
          /\ UNCHANGED <<grouped, selected, data, broken, revision, up, changes, previous,
                         published, layout, retained, cached, failed, page, status,
                         connections>>
      BY <1>5 DEF TickStructure, backend
    <2> HIDE DEF s
    <2>2. StreamTypeOK'
      BY <1>s, <2>1 DEF SInv, StreamTypeOK
    <2>3. Explained(snap)'
      BY <1>s, <2>1 DEF Explained
    <2> QED
      BY <1>s, <2>1, <2>2, <2>3 DEF SInv, Rendering, PageOfOneLayout
  <1>6. CASE RenderPage
    <2>1. /\ snap \in Snapshots /\ (~grouped => snap.revision = 0)
      BY <1>6 DEF RenderPage, SInv, Rendering
    <2>2. snap.items \in ItemData /\ snap.revision \in 0..MaxRevision
      BY <2>1, SnapshotParts
    <2>3. IF grouped THEN cached' = snap.revision ELSE cached' = cached /\ snap.revision = 0
      BY <1>6, <2>1 DEF RenderPage, LayoutFor
    <2>4. /\ page' = [items |-> snap.items, groups |-> snap.revision,
                      geometry |-> snap.revision]
      BY <1>6, <2>3 DEF RenderPage
    <2>5. /\ previous' \in Snapshots \cup {NoSnapshot} /\ published' \in ItemData
          /\ layout' \in 0..MaxRevision \cup {NoSnapshot}
      BY <1>6, <2>1, PublishKeeps DEF RenderPage, SInv
    <2>6. status' \in {"live", "partial", "retrying", "layout"}
      BY <1>6 DEF RenderPage, Message
    <2>7. cached' \in 0..MaxRevision \cup {NoSnapshot}
      BY <2>2, <2>3 DEF SInv, StreamTypeOK
    <2>a. page' \in [items : ItemData, groups : 0..MaxRevision, geometry : 0..MaxRevision]
      BY <2>2, <2>4
    <2>8. StreamTypeOK'
      BY <1>6, <2>2, <2>a, <2>5, <2>6, <2>7 DEF RenderPage, backend, SInv, StreamTypeOK
    <2> QED
      BY <1>6, <2>4, <2>8 DEF RenderPage, SInv, Rendering, PageOfOneLayout
  <1>7. CASE RenderFails
    <2>1. snap.items \in ItemData
      BY <1>7, SnapshotParts DEF RenderFails, SInv, Rendering
    <2>2. StreamTypeOK'
      BY <1>7, <2>1 DEF RenderFails, backend, SInv, StreamTypeOK
    <2> QED
      BY <1>7, <2>2 DEF RenderFails, SInv, Rendering, PageOfOneLayout
  <1> QED
    BY <1>1, <1>2, <1>3, <1>4, <1>5, <1>6, <1>7 DEF Tick

(* The snapshot a page is about to be rendered from still follows from the *)
(* items the stream retains, whatever the dashboard and the connection did *)
(* between the two requests (streamDashboard).                             *)
THEOREM StreamInvariance == StreamSpec => []SInv
  <1>1. SInv /\ [StreamNext]_streamVars => SInv'
    <2> SUFFICES ASSUME SInv, [StreamNext]_streamVars PROVE SInv'
      OBVIOUS
    <2>1. CASE UNCHANGED streamVars
      <3>1. StreamTypeOK'
        BY <2>1 DEF streamVars, backend, stream, SInv, StreamTypeOK
      <3> QED
        BY <2>1, <3>1 DEF streamVars, backend, stream, SInv, Rendering, Explained, PageOfOneLayout
    <2> QED
      BY <2>1, TickKeeps, EnvironmentKeeps DEF StreamNext
  <1> QED
    BY <1>1, InitSInv, PTL DEF StreamSpec

(* Groups and geometry of a page always come from one saved layout,        *)
(* although they are read by two requests with saves in between            *)
(* (renderDashboard, streamDashboard).                                     *)
THEOREM OneLayout == StreamSpec => []PageOfOneLayout
  <1>1. SInv => PageOfOneLayout
    BY DEF SInv
  <1> QED
    BY <1>1, StreamInvariance, PTL

\* The action of FailureKeepsValues.
KeepsValues ==
  \A w \in DOMAIN page.items \cap DOMAIN page'.items \cap DOMAIN retained :
    (page'.items[w] = NoData /\ page.items[w] # NoData) => retained[w] = NoData

\* Only a patch of widgets and a rendering change what the page shows.
LEMMA StepKeepsValues == ASSUME SInv, [StreamNext]_streamVars PROVE KeepsValues
  <1> DEFINE s == Retain(Snapshot)
  <1>1. CASE page' = page
    BY <1>1 DEF KeepsValues
  <1>2. CASE TickWidgets
    <2> DEFINE changed == {w \in DOMAIN s.items : s.items[w] # published[w]}
               new == [w \in DOMAIN page.items |->
                         IF w \in changed THEN s.items[w] ELSE page.items[w]]
    <2>1. page'.items = new
      BY <1>2 DEF TickWidgets, SInv, StreamTypeOK
    <2>2. Explained(s)
      BY ReadNow DEF SInv
    <2> QED
      BY <2>1, <2>2 DEF KeepsValues, Explained
  <1>3. CASE RenderPage
    <2>1. page'.items = snap.items /\ Explained(snap)
      BY <1>3 DEF RenderPage, SInv, Rendering
    <2> QED
      BY <2>1 DEF KeepsValues, Explained
  <1>4. TickFails \/ TickKeepalive \/ TickUnavailable \/ TickStructure \/ RenderFails
          => page' = page
    BY DEF TickFails, TickKeepalive, TickUnavailable, TickStructure, RenderFails
  <1>5. Environment => page' = page
    BY DEF Environment, Reconnect, Change, SaveLayout, Outage, Select, Report, Provider
  <1>6. UNCHANGED streamVars => page' = page
    BY DEF streamVars
  <1> QED
    BY <1>1, <1>2, <1>3, <1>4, <1>5, <1>6 DEF StreamNext, Tick

(* No step of a stream wipes a value that the page shows and the stream    *)
(* has read, whichever providers fail or recover and whatever is rendered  *)
(* meanwhile (the retained items of streamDashboard).                      *)
THEOREM FailuresKeepValues == StreamSpec => FailureKeepsValues
  <1>1. SInv /\ [StreamNext]_streamVars => [KeepsValues]_streamVars
    BY StepKeepsValues
  <1>2. FailureKeepsValues <=> [][KeepsValues]_streamVars
    BY DEF FailureKeepsValues, KeepsValues
  <1> QED
    BY <1>1, <1>2, StreamInvariance, PTL DEF StreamSpec

============================================================================
