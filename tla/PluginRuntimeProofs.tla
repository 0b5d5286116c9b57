------------------------- MODULE PluginRuntimeProofs -------------------------
(***************************************************************************)
(* Proofs about the two halves of the plugin runtime: the publishing         *)
(* sessions (PluginNotifications) and the supervisor of a child process      *)
(* (Supervisor).                                                             *)
(*                                                                         *)
(* Sessions.  NInv follows a callback through its life: the call that        *)
(* creates it, the request that waits for the child, the binding that uses it *)
(* and the revocation that ends it.  The calls are served in any order, so    *)
(* nothing is said of their numbers but that they differ: the callback of a   *)
(* waiting call is used by no binding and no other call (Fresh), what the     *)
(* child has open is exactly what its bindings and the call it is serving     *)
(* account for (Held), and no call is served twice, so a connection on which  *)
(* a late call has overtaken the last success does not become the agreed one  *)
(* again by accident (Agreed).                                                *)
(***************************************************************************)
EXTENDS PluginNotifications, Supervisor, FiniteSetTheorems, TLAPS

\* The host waits for the answer to a Configure, or to a CloseConnection with
\* the connections closed so far.
WaitsConfigure ==
  [phase : {"waiting"}, req : {r \in Request : r.kind = "configure"},
   answer : {"none", "ok", "err"}]

WaitsClose ==
  [phase : {"waiting"}, req : {r \in Request : r.kind = "close"},
   answer : {"none", "ok", "err"}, closed : SUBSET Connections]

\* What the session goroutine, and the holder of notificationConfigureMu, may
\* be doing.
HostState ==
  {Idle, [phase |-> "revoking"], [phase |-> "ended"]}
  \cup [phase : {"failed"}, cb : 0..MaxCalls]
  \cup [phase : {"closing"}, closed : SUBSET Connections]
  \cup WaitsConfigure \cup WaitsClose

ServingState ==
  {Idle}
  \cup [phase : {"handler"}, req : Request, same : BOOLEAN]
  \cup [phase : {"revoking"}, req : Request, answer : {"ok", "err"},
        handle : 0..MaxCalls, session : 0..MaxCalls]

Binding == [rev : Revisions \cup {None}, session : 0..MaxCalls, handle : 0..MaxCalls]

\* TypeOK with the form of every record.
Typed ==
  /\ calls \in 0..MaxCalls /\ ending \in BOOLEAN /\ exited \in BOOLEAN
  /\ host \in HostState
  /\ live \subseteq 1..calls /\ active \subseteq 1..calls
  /\ registered \in [Connections -> 0..calls]
  /\ requests \subseteq Request
  /\ serving \in ServingState
  /\ bindings \in [Connections -> Binding]
  /\ sessions \subseteq 1..calls
  /\ bound \in [Call -> 0..calls]
  /\ sending \in [Publications -> {Idle} \cup [phase : {"sent"}, handle : Call, cb : Call]]
  /\ handling \in [Publications -> {Idle} \cup [phase : {"slot", "authorised"}, cb : Call]]
  /\ configured \in [Connections -> 0..calls]
  /\ accepted \in [Connections -> 0..calls]

\* A Configure brings the callback it created or none; a close brings none and
\* is sent only when the session ends.
RequestOK(r) ==
  /\ r.kind = "configure" => r.call \in 1..calls /\ r.cb \in {0, r.call}
  /\ r.kind = "close" => ending /\ r.cb = 0

\* Configure call n waits at the child, or is with the author's handler.
Left(n) ==
  \/ \E r \in requests : r.kind = "configure" /\ r.call = n
  \/ serving.phase = "handler" /\ serving.req.call = n

\* Every waiting call is one the host made, and a Configure waits only once.
Queued ==
  /\ \A r \in requests : RequestOK(r)
  /\ \A r, s \in requests :
       r.kind = "configure" /\ s.kind = "configure" /\ r.call = s.call => r = s
  /\ serving # Idle =>
       /\ RequestOK(serving.req)
       /\ serving.req.kind = "configure" =>
            \A r \in requests : r.kind = "configure" => r.call # serving.req.call

\* The call the host waits for is the newest one, its callback is served, and
\* what the child has of that call is what the host sent.
Asked ==
  host.phase = "waiting" =>
    /\ RequestOK(host.req)
    /\ host.req.kind = "configure" =>
         /\ host.req.call = calls
         /\ host.req.cb # 0 => host.req.cb \in live \cap active
         /\ \A c \in Connections : /\ registered[c] # 0 => registered[c] < calls
                                  /\ configured[c] < calls
         /\ \A r \in requests : r.kind = "configure" /\ r.call = calls => r = host.req
         /\ (serving # Idle /\ serving.req.kind = "configure" /\ serving.req.call = calls)
                => serving.req = host.req
         /\ host.answer = "ok" => ~Left(calls)

\* Callbacks and publishers the child holds on to.
InUse(n) ==
  \/ \E c \in Connections : n \in {bindings[c].session, bindings[c].handle}
  \/ serving.phase = "handler" /\ n = serving.req.cb
  \/ serving.phase = "revoking" /\ n \in {serving.session, serving.handle}

\* The callback a waiting call brings is in no use yet; what is being revoked
\* is in no binding.
Fresh ==
  /\ \A r \in requests : r.cb # 0 => ~InUse(r.cb)
  /\ \A n \in 1..MaxCalls : InUse(n) => n <= calls
  /\ serving.phase = "handler" /\ serving.req.cb # 0 =>
       \A c \in Connections : /\ bindings[c].session # serving.req.cb
                              /\ bindings[c].handle # serving.req.cb
  /\ serving.phase = "revoking" =>
       /\ serving.handle # 0 => \A c \in Connections : bindings[c].handle # serving.handle
       /\ serving.session # 0 => \A c \in Connections : bindings[c].session # serving.session

\* The publishers and sessions of the bindings, and the publishers not revoked.
Handles == {bindings[c].handle : c \in Connections} \ {0}
Opened == {bindings[c].session : c \in Connections} \ {0}
Bound == {h \in Call : bound[h] # 0}

\* A binding has a publisher and the session it is bound to, its own.
Bindings ==
  /\ \A c \in Connections : /\ (bindings[c].session = 0) <=> (bindings[c].handle = 0)
                            /\ bindings[c].handle # 0 =>
                                 bound[bindings[c].handle] = bindings[c].session
  /\ \A c, d \in Connections :
       /\ bindings[c].handle = bindings[d].handle /\ bindings[c].handle # 0 => c = d
       /\ bindings[c].session = bindings[d].session /\ bindings[c].session # 0 => c = d

\* The child has open what its bindings and the call being served account for.
Held ==
  /\ serving = Idle => Bound = Handles /\ sessions = Opened
  /\ serving.phase = "handler" =>
       /\ serving.req.kind = "configure"
       /\ serving.same <=> SameConfiguration(bindings[serving.req.conn], serving.req)
       /\ sessions = Opened \cup ({serving.req.cb} \ {0})
       /\ Bound = Handles \cup (IF serving.same THEN {} ELSE {serving.req.cb} \ {0})
       /\ ~serving.same /\ serving.req.cb # 0 => bound[serving.req.cb] = serving.req.cb
  /\ serving.phase = "revoking" =>
       /\ sessions = Opened \cup ({serving.session} \ {0})
       /\ Bound = Handles \cup ({serving.handle} \ {0})
       /\ serving.req.kind = "configure" /\ serving.answer = "ok" =>
            accepted[serving.req.conn] = serving.req.call

\* Callbacks are served for a registration or for the call under way, and end
\* with the session; publishers are revoked before the child is closed.
HostInv ==
  /\ live \subseteq {registered[c] : c \in Connections}
                    \cup (IF host.phase = "waiting" THEN {host.req.cb} ELSE {})
  /\ \A c, d \in Connections : registered[c] = registered[d] /\ registered[c] # 0 => c = d
  /\ host.phase \in {"revoking", "closing", "ended"} => ending
  /\ \/ host.phase \in {"closing", "ended"}
     \/ host.phase = "waiting" /\ host.req.kind = "close"
     => ending /\ active = {}
  /\ host.phase = "ended" => live = {}

\* The call that has the binding of c is the last one the host saw succeed.
InForce(c) == configured[c] # 0 /\ accepted[c] = configured[c]

\* A call that succeeded is not served again.  A call that was accepted last
\* has the binding; while it is also the last that succeeded, its callback is
\* the registered one, served and in force.
Agreed ==
  /\ \A c \in Connections : configured[c] # 0 => ~Left(configured[c])
  /\ ~ending /\ ~exited =>
       /\ host.phase = "waiting" /\ host.req.kind = "configure" =>
            /\ host.answer = "ok" => ~InForce(host.req.conn)
            /\ accepted[host.req.conn] = host.req.call =>
                 bindings[host.req.conn].session = host.req.cb
       /\ \A c \in Connections : InForce(c) =>
            /\ bindings[c].session = registered[c]
            /\ registered[c] # 0 => registered[c] \in live \cap active
            /\ host.phase = "failed" /\ registered[c] # 0 => registered[c] # host.cb

ChildInv == Queued /\ Fresh /\ Bindings /\ Held

NInv == Typed /\ ChildInv /\ Asked /\ HostInv /\ Agreed /\ CommitsUnderAuthority
-----------------------------------------------------------------------------
\* The phase tells which record host is.
LEMMA HostForms ==
  ASSUME Typed
  PROVE  /\ host.phase = "idle" <=> host = Idle
         /\ host.phase = "failed" => host.cb \in 0..MaxCalls
         /\ host.phase = "waiting" =>
              host.req \in Request /\ host.answer \in {"none", "ok", "err"}
<1>1. host.phase = "idle" <=> host = Idle
  BY DEF Typed, HostState, WaitsConfigure, WaitsClose, Idle
<1>2. host.phase = "failed" => host.cb \in 0..MaxCalls
  BY DEF Typed, HostState, WaitsConfigure, WaitsClose, Idle
<1>3. host.phase = "waiting" =>
        host.req \in Request /\ host.answer \in {"none", "ok", "err"}
  BY DEF Typed, HostState, WaitsConfigure, WaitsClose, Idle
<1> QED
  BY <1>1, <1>2, <1>3

\* The phase tells which record serving is.
LEMMA ServingForms ==
  ASSUME Typed
  PROVE  /\ serving.phase = "idle" <=> serving = Idle
         /\ serving.phase \in {"idle", "handler", "revoking"}
         /\ serving # Idle => serving.req \in Request
         /\ serving.phase = "revoking" =>
              /\ serving.answer \in {"ok", "err"}
              /\ serving.handle \in 0..MaxCalls /\ serving.session \in 0..MaxCalls
<1>1. serving.phase = "idle" <=> serving = Idle
  BY DEF Typed, ServingState, Idle
<1>2. serving.phase \in {"idle", "handler", "revoking"}
  BY DEF Typed, ServingState, Idle
<1>3. serving # Idle => serving.req \in Request
  BY DEF Typed, ServingState
<1>4. serving.phase = "revoking" =>
        /\ serving.answer \in {"ok", "err"}
        /\ serving.handle \in 0..MaxCalls /\ serving.session \in 0..MaxCalls
  BY DEF Typed, ServingState, Idle
<1> QED
  BY <1>1, <1>2, <1>3, <1>4

\* An answer changes nothing of the host but the answer of the call it is for.
LEMMA AnsweredHost ==
  ASSUME Typed, NEW req, NEW answer \in {"ok", "err"}, host' = Answered(req, answer)
  PROVE  /\ host' \in HostState /\ host'.phase = host.phase
         /\ host.phase # "waiting" => host' = host
         /\ host.phase = "waiting" =>
              /\ host'.req = host.req
              /\ \/ host'.answer = host.answer
                 \/ /\ host'.answer = answer /\ host.req.kind = req.kind
                    /\ host.req.call = req.call /\ host.req.conn = req.conn
<1>1. CASE host' = host
  BY <1>1 DEF Typed
<1>2. CASE host' # host
  <2>1. /\ host.phase = "waiting" /\ host.req.kind = req.kind
        /\ host.req.call = req.call /\ host.req.conn = req.conn
        /\ host' = [host EXCEPT !.answer = answer]
    BY <1>2 DEF Answered
  <2>2. CASE host \in WaitsConfigure
    <3>1. /\ host' \in WaitsConfigure
          /\ host'.phase = "waiting" /\ host'.req = host.req /\ host'.answer = answer
      BY <2>1, <2>2 DEF WaitsConfigure
    <3> QED
      BY <2>1, <3>1 DEF HostState
  <2>3. CASE host \in WaitsClose
    <3>1. /\ host' \in WaitsClose
          /\ host'.phase = "waiting" /\ host'.req = host.req /\ host'.answer = answer
      BY <2>1, <2>3 DEF WaitsClose
    <3> QED
      BY <2>1, <3>1 DEF HostState
  <2> QED
    BY <2>1, <2>2, <2>3 DEF Typed, HostState, Idle
<1> QED
  BY <1>1, <1>2

\* What the child owns is kept by every step of the others.
LEMMA ChildFrame ==
  ASSUME NInv, UNCHANGED <<calls, childVars>>, ending => ending'
  PROVE  ChildInv'
<1>1. /\ calls' = calls /\ requests' = requests /\ serving' = serving
      /\ bindings' = bindings /\ sessions' = sessions /\ bound' = bound
      /\ accepted' = accepted
  BY DEF childVars
<1>2. \A r : RequestOK(r) => RequestOK(r)'
  BY <1>1 DEF RequestOK
<1>3. Queued'
  BY <1>1, <1>2 DEF NInv, ChildInv, Queued
<1>4. Fresh'
  BY <1>1 DEF NInv, ChildInv, Fresh, InUse
<1>5. Bindings' /\ Held'
  BY <1>1 DEF NInv, ChildInv, Bindings, Held, Handles, Opened, Bound, SameConfiguration
<1> QED
  BY <1>3, <1>4, <1>5 DEF ChildInv

-----------------------------------------------------------------------------
(* Publications. *)

\* A step of a publication changes neither side's bookkeeping.
LEMMA PublicationKeeps ==
  ASSUME NInv, UNCHANGED <<hostVars, childVars, ending, exited>>,
         sending' \in [Publications ->
                         {Idle} \cup [phase : {"sent"}, handle : Call, cb : Call]],
         handling' \in [Publications ->
                         {Idle} \cup [phase : {"slot", "authorised"}, cb : Call]],
         CommitsUnderAuthority'
  PROVE  NInv'
<1>1. /\ calls' = calls /\ host' = host /\ live' = live /\ registered' = registered
      /\ active' = active /\ configured' = configured /\ requests' = requests
      /\ serving' = serving /\ bindings' = bindings /\ sessions' = sessions
      /\ bound' = bound /\ accepted' = accepted /\ ending' = ending /\ exited' = exited
  BY DEF hostVars, childVars
<1>2. Typed'
  BY <1>1 DEF NInv, Typed
<1>3. ChildInv'
  BY <1>1, ChildFrame DEF childVars
<1>4. Asked' /\ HostInv' /\ Agreed'
  BY <1>1 DEF NInv, Asked, HostInv, Agreed, RequestOK, Left, InForce
<1> QED
  BY <1>2, <1>3, <1>4 DEF NInv

\* Publish preserves the invariant.
LEMMA PublishKeeps ==
  ASSUME NInv, NEW p \in Publications, NEW h \in Call, Publish(p, h)
  PROVE  NInv'
<1>1. bound[h] \in Call
  <2>1. bound \in [Call -> 0..calls] /\ calls \in 0..MaxCalls /\ bound[h] # 0
    BY DEF NInv, Typed, Publish
  <2> QED
    BY <2>1, PluginNotificationsAssumption DEF Call
<1>2. sending' \in [Publications ->
                      {Idle} \cup [phase : {"sent"}, handle : Call, cb : Call]]
  BY <1>1 DEF NInv, Typed, Publish
<1> QED
  BY <1>2, PublicationKeeps DEF NInv, Typed, Publish, CommitsUnderAuthority, hostVars

\* TakeSlot preserves the invariant.
LEMMA TakeSlotKeeps ==
  ASSUME NInv, NEW p \in Publications, TakeSlot(p)
  PROVE  NInv'
<1>1. sending[p].cb \in Call
  BY DEF NInv, Typed, TakeSlot, Idle
<1>2. PICK new : new = [phase |-> "slot", cb |-> sending[p].cb]
  OBVIOUS
<1>3. new \in [phase : {"slot", "authorised"}, cb : Call] /\ new.phase = "slot"
  BY <1>1, <1>2
<1>4. /\ handling' = [handling EXCEPT ![p] = new]
      /\ UNCHANGED <<hostVars, childVars, ending, exited, sending>>
  BY <1>2 DEF TakeSlot
<1>5. handling' \in [Publications ->
                       {Idle} \cup [phase : {"slot", "authorised"}, cb : Call]]
  BY <1>3, <1>4 DEF NInv, Typed
<1>6. CommitsUnderAuthority'
  BY <1>3, <1>4, <1>5 DEF NInv, Typed, CommitsUnderAuthority, hostVars
<1> QED
  BY <1>4, <1>5, <1>6, PublicationKeeps DEF NInv, Typed

\* Authorise preserves the invariant.
LEMMA AuthoriseKeeps ==
  ASSUME NInv, NEW p \in Publications, Authorise(p)
  PROVE  NInv'
<1>1. handling[p] \in [phase : {"slot", "authorised"}, cb : Call]
  BY DEF NInv, Typed, Authorise, Idle
<1>2. PICK new : new = [handling[p] EXCEPT !.phase = "authorised"]
  OBVIOUS
<1>3. /\ new \in [phase : {"slot", "authorised"}, cb : Call]
      /\ new.cb = handling[p].cb
  BY <1>1, <1>2
<1>4. /\ handling' = [handling EXCEPT ![p] = new]
      /\ UNCHANGED <<hostVars, childVars, ending, exited, sending>>
      /\ handling[p].cb \in active
  BY <1>2 DEF Authorise
<1>5. handling' \in [Publications ->
                       {Idle} \cup [phase : {"slot", "authorised"}, cb : Call]]
  BY <1>3, <1>4 DEF NInv, Typed
<1>6. CommitsUnderAuthority'
  BY <1>3, <1>4, <1>5 DEF NInv, Typed, CommitsUnderAuthority, hostVars
<1> QED
  BY <1>4, <1>5, <1>6, PublicationKeeps DEF NInv, Typed

\* Answer preserves the invariant.
LEMMA AnswerKeeps ==
  ASSUME NInv, NEW p \in Publications, Respond(p) \/ GiveUp(p)
  PROVE  NInv'
<1>1. /\ sending' = [sending EXCEPT ![p] = Idle]
      /\ handling' = handling \/ handling' = [handling EXCEPT ![p] = Idle]
      /\ UNCHANGED <<hostVars, childVars, ending, exited>>
  BY DEF Respond, GiveUp
<1>2. /\ sending' \in [Publications ->
                         {Idle} \cup [phase : {"sent"}, handle : Call, cb : Call]]
      /\ handling' \in [Publications ->
                         {Idle} \cup [phase : {"slot", "authorised"}, cb : Call]]
  BY <1>1 DEF NInv, Typed
<1>3. CommitsUnderAuthority'
  BY <1>1 DEF NInv, Typed, CommitsUnderAuthority, hostVars, Idle
<1> QED
  BY <1>1, <1>2, <1>3, PublicationKeeps

-----------------------------------------------------------------------------
(* The host. *)

\* Cancel preserves the invariant.
LEMMA CancelKeeps ==
  ASSUME NInv, Cancel
  PROVE  NInv'
<1>1. /\ calls' = calls /\ host' = host /\ live' = live /\ registered' = registered
      /\ active' = active /\ configured' = configured /\ requests' = requests
      /\ serving' = serving /\ bindings' = bindings /\ sessions' = sessions
      /\ bound' = bound /\ accepted' = accepted /\ ending' /\ exited' = exited
      /\ sending' = sending /\ handling' = handling
  BY DEF Cancel, hostVars, childVars
<1>2. Typed'
  BY <1>1 DEF NInv, Typed, Cancel
<1>3. ChildInv'
  BY <1>1, ChildFrame DEF childVars
<1>4. \A r : RequestOK(r) => RequestOK(r)'
  BY <1>1 DEF RequestOK
<1>5. Asked'
  BY <1>1, <1>4 DEF NInv, Asked, Left
<1>6. HostInv' /\ Agreed' /\ CommitsUnderAuthority'
  BY <1>1 DEF NInv, HostInv, Agreed, Left, CommitsUnderAuthority
<1> QED
  BY <1>2, <1>3, <1>5, <1>6 DEF NInv

\* A step of the host that leaves the child, the publications and the number of
\* calls alone.
HostStep ==
  UNCHANGED <<calls, childVars, ending, exited, sending, handling>>

\* What remains to be shown of such a step.
LEMMA HostStepKeeps ==
  ASSUME NInv, HostStep, host' \in HostState, live' \subseteq live, active' \subseteq active,
         registered' \in [Connections -> 0..calls],
         configured' \in [Connections -> 0..calls],
         Asked', HostInv', Agreed', CommitsUnderAuthority'
  PROVE  NInv'
<1>1. /\ calls' = calls /\ requests' = requests /\ ending' = ending /\ exited' = exited
      /\ serving' = serving /\ bindings' = bindings /\ sessions' = sessions
      /\ bound' = bound /\ accepted' = accepted
      /\ sending' = sending /\ handling' = handling
  BY DEF HostStep, childVars
<1>2. Typed'
  BY <1>1 DEF NInv, Typed
<1>3. ChildInv'
  BY <1>1, ChildFrame DEF childVars
<1> QED
  BY <1>2, <1>3 DEF NInv

\* ConfigureFails preserves the invariant.
LEMMA ConfigureFailsKeeps ==
  ASSUME NInv, ConfigureFails
  PROVE  NInv'
<1>1. /\ HostStep /\ live' = live \ {host.req.cb} /\ active' = active
      /\ registered' = registered /\ configured' = configured
      /\ host.phase = "waiting" /\ host.req.kind = "configure"
      /\ host' = [phase |-> "failed", cb |-> host.req.cb]
  BY DEF ConfigureFails, HostStep
<1>2. host.req \in Request /\ host.req.cb \in 0..MaxCalls
  BY <1>1, HostForms DEF NInv, Request
<1>3. host' \in HostState /\ host'.phase = "failed"
  BY <1>1, <1>2 DEF HostState
<1>4. Asked'
  BY <1>3 DEF Asked
<1>5. HostInv'
  BY <1>1, <1>3 DEF NInv, HostInv, HostStep
<1>6. \A c \in Connections : registered[c] # 0 => registered[c] # host.req.cb
  BY <1>1, PluginNotificationsAssumption DEF NInv, Asked, RequestOK, Typed
<1>7. Agreed'
  <2>1. /\ \A n : Left(n)' <=> Left(n)
        /\ \A c : InForce(c)' <=> InForce(c)
    BY <1>1 DEF HostStep, childVars, Left, InForce
  <2>2. host'.cb = host.req.cb
    BY <1>1
  <2>3. \A c \in Connections : ~ending /\ ~exited /\ InForce(c) /\ registered[c] # 0 =>
          registered[c] \in live' \cap active'
    BY <1>1, <1>6 DEF NInv, Agreed
  <2> QED
    BY <1>1, <1>3, <1>6, <2>1, <2>2, <2>3 DEF NInv, Agreed, HostStep, childVars
<1>8. CommitsUnderAuthority'
  BY <1>1 DEF NInv, CommitsUnderAuthority, HostStep
<1> QED
  BY <1>1, <1>3, <1>4, <1>5, <1>7, <1>8, HostStepKeeps DEF NInv, Typed

\* ConfigureSucceeds preserves the invariant.
LEMMA ConfigureSucceedsKeeps ==
  ASSUME NInv, ConfigureSucceeds
  PROVE  NInv'
<1>0. PICK c, cb : c = host.req.conn /\ cb = host.req.cb
  OBVIOUS
<1>1. /\ HostStep /\ live' = live \ {registered[c]} /\ active' = active
      /\ registered' = [registered EXCEPT ![c] = cb]
      /\ host.phase = "waiting" /\ host.req.kind = "configure" /\ host.answer = "ok"
      /\ \/ host' = Idle /\ configured' = [configured EXCEPT ![c] = host.req.call]
         \/ host' = [phase |-> "failed", cb |-> cb] /\ configured' = configured
  BY <1>0 DEF ConfigureSucceeds, Replace, HostStep
<1>2. host.req \in Request /\ cb \in 0..MaxCalls /\ c \in Connections
  BY <1>0, <1>1, HostForms DEF NInv, Request
<1>3. host' \in HostState /\ host'.phase \in {"idle", "failed"}
  BY <1>1, <1>2 DEF HostState, Idle
<1>4. /\ calls \in Nat /\ cb \in {0, calls} /\ (cb # 0 => cb \in live \cap active)
      /\ host.req.call = calls /\ calls # 0
  BY <1>0, <1>1, PluginNotificationsAssumption DEF NInv, Asked, RequestOK, Typed
<1>5. \A d \in Connections : registered[d] \in Nat /\ (registered[d] # 0 => registered[d] < calls)
  BY <1>1, <1>4 DEF NInv, Asked, Typed
<1>6. /\ registered' \in [Connections -> 0..calls] /\ registered'[c] = cb
      /\ \A d \in Connections \ {c} : registered'[d] = registered[d]
  BY <1>1, <1>2, <1>4 DEF NInv, Typed
<1>7. Asked'
  BY <1>3 DEF Asked
<1>8. HostInv'
  <2>1. live' \subseteq {registered'[d] : d \in Connections}
    BY <1>0, <1>1, <1>2, <1>6 DEF NInv, HostInv
  <2>2. \A d, e \in Connections :
          registered'[d] = registered'[e] /\ registered'[d] # 0 => d = e
    BY <1>2, <1>4, <1>5, <1>6 DEF NInv, HostInv
  <2> QED
    BY <1>3, <2>1, <2>2 DEF HostInv
<1>9. /\ configured' \in [Connections -> 0..calls]
      /\ \A d \in Connections \ {c} : configured'[d] = configured[d]
      /\ \/ host'.phase = "idle" /\ configured'[c] = calls
         \/ host'.phase = "failed" /\ host'.cb = cb /\ configured' = configured
  BY <1>1, <1>2, <1>4 DEF NInv, Typed, Idle
<1>10. accepted' = accepted /\ bindings' = bindings /\ \A n : Left(n)' <=> Left(n)
  BY <1>1 DEF HostStep, childVars, Left
<1>11. Agreed'
  <2>1. ASSUME NEW d \in Connections, configured'[d] # 0 PROVE ~Left(configured'[d])
    <3>1. ~Left(calls)
      BY <1>1 DEF NInv, Asked
    <3>2. configured'[d] = calls \/ configured'[d] = configured[d]
      BY <1>9
    <3> QED
      BY <2>1, <3>1, <3>2 DEF NInv, Agreed
  <2>2. ASSUME ~ending, ~exited, NEW d \in Connections, InForce(d)'
        PROVE  /\ bindings[d].session = registered'[d]
               /\ registered'[d] # 0 => registered'[d] \in live' \cap active'
               /\ host'.phase = "failed" /\ registered'[d] # 0 => registered'[d] # host'.cb
    <3>1. CASE d = c /\ configured'[c] = calls /\ host'.phase = "idle"
      <4>1. accepted[c] = host.req.call
        BY <1>4, <1>10, <2>2, <3>1 DEF InForce
      <4>2. bindings[c].session = cb
        BY <1>0, <1>1, <2>2, <4>1 DEF NInv, Agreed
      <4>3. cb # 0 => cb \in live' \cap active'
        BY <1>1, <1>2, <1>4, <1>5
      <4> QED
        BY <1>6, <3>1, <4>2, <4>3
    <3>2. CASE d = c /\ configured' = configured
      <4>1. ~InForce(c)
        BY <1>0, <1>1, <2>2 DEF NInv, Agreed
      <4> QED
        BY <1>10, <2>2, <3>2, <4>1 DEF InForce
    <3>3. CASE d # c
      <4>1. InForce(d) /\ registered'[d] = registered[d]
        BY <1>6, <1>9, <1>10, <2>2, <3>3 DEF InForce
      <4>2. registered[d] # 0 => registered[d] # registered[c] /\ registered[d] # cb
        BY <1>2, <1>4, <1>5, <3>3 DEF NInv, HostInv
      <4>3. /\ bindings[d].session = registered[d]
            /\ registered[d] # 0 => registered[d] \in live \cap active
        BY <2>2, <4>1 DEF NInv, Agreed
      <4> QED
        BY <1>1, <1>9, <4>1, <4>2, <4>3
    <3> QED
      BY <1>9, <3>1, <3>2, <3>3
  <2> QED
    BY <1>1, <1>3, <1>10, <2>1, <2>2 DEF Agreed, HostStep
<1>12. CommitsUnderAuthority'
  BY <1>1 DEF NInv, CommitsUnderAuthority, HostStep
<1> QED
  BY <1>1, <1>3, <1>6, <1>7, <1>8, <1>9, <1>11, <1>12, HostStepKeeps

\* Revoke preserves the invariant.
LEMMA RevokeKeeps ==
  ASSUME NInv, RevokeFailed \/ BeginRevoking \/ \E cb \in Call : Revoke(cb)
  PROVE  NInv'
<1>1. /\ HostStep /\ live' = live /\ registered' = registered /\ configured' = configured
      /\ active' \subseteq active
      /\ host' = Idle \/ host' = [phase |-> "revoking"]
      /\ host'.phase = "revoking" => ending
      /\ \A p \in Publications :
           handling[p].phase = "authorised" /\ handling[p].cb \in active
             => handling[p].cb \in active'
      /\ \/ ending \/ active' = active
         \/ host.phase = "failed" /\ active' = active \ {host.cb}
  <2>1. CASE RevokeFailed
    BY <2>1 DEF RevokeFailed, HostStep, CanRevoke, Idle
  <2>2. CASE BeginRevoking
    BY <2>2 DEF BeginRevoking, HostStep
  <2>3. ASSUME NEW cb \in Call, Revoke(cb)
        PROVE  /\ HostStep /\ live' = live /\ registered' = registered
               /\ configured' = configured /\ active' = active \ {cb} /\ host' = host
               /\ CanRevoke(cb) /\ host.phase = "revoking"
    BY <2>3 DEF Revoke, HostStep
  <2>4. host.phase = "revoking" => host = [phase |-> "revoking"] /\ ending
    BY DEF NInv, Typed, HostState, WaitsConfigure, WaitsClose, Idle, HostInv
  <2> QED
    BY <2>1, <2>2, <2>3, <2>4 DEF CanRevoke
<1>2. host' \in HostState /\ host'.phase \in {"idle", "revoking"}
  BY <1>1 DEF HostState, Idle
<1>3. host.phase # "waiting"
  BY DEF RevokeFailed, BeginRevoking, Revoke, Idle
<1>4. Asked'
  BY <1>2 DEF Asked
<1>5. HostInv'
  BY <1>1, <1>2, <1>3 DEF NInv, HostInv, HostStep
<1>6. Agreed'
  <2>1. /\ \A n : Left(n)' <=> Left(n)
        /\ \A c : InForce(c)' <=> InForce(c)
    BY <1>1 DEF HostStep, childVars, Left, InForce
  <2>2. \A c \in Connections : ~ending /\ ~exited /\ InForce(c) /\ registered[c] # 0 =>
          registered[c] \in active'
    BY <1>1 DEF NInv, Agreed
  <2> QED
    BY <1>1, <1>2, <2>1, <2>2 DEF NInv, Agreed, HostStep, childVars
<1>7. CommitsUnderAuthority'
  BY <1>1 DEF NInv, CommitsUnderAuthority, HostStep
<1> QED
  BY <1>1, <1>2, <1>4, <1>5, <1>6, <1>7, HostStepKeeps DEF NInv, Typed

\* CloseReturns preserves the invariant.
LEMMA CloseReturnsKeeps ==
  ASSUME NInv, CloseReturns
  PROVE  NInv'
<1>0. PICK c : c = host.req.conn
  OBVIOUS
<1>1. /\ HostStep /\ live' = live \ {registered[c]} /\ active' = active
      /\ registered' = [registered EXCEPT ![c] = 0] /\ configured' = configured
      /\ host.phase = "waiting" /\ host.req.kind = "close"
      /\ host' = [phase |-> "closing", closed |-> host.closed]
  BY <1>0 DEF CloseReturns, Replace, HostStep
<1>2. host.req \in Request /\ c \in Connections /\ host.req.cb = 0
      /\ ending /\ active = {}
  BY <1>0, <1>1, HostForms DEF NInv, Request, HostInv, Asked, RequestOK
<1>3. calls \in Nat
  BY PluginNotificationsAssumption DEF NInv, Typed
<1>4. /\ registered' \in [Connections -> 0..calls] /\ registered'[c] = 0
      /\ \A d \in Connections \ {c} : registered'[d] = registered[d]
  BY <1>1, <1>2, <1>3 DEF NInv, Typed
<1>5. host' \in HostState /\ host'.phase = "closing"
  <2>1. host.closed \in SUBSET Connections
    BY <1>1, <1>2 DEF NInv, Typed, HostState, WaitsConfigure, WaitsClose, Idle
  <2> QED
    BY <1>1, <2>1 DEF HostState
<1>6. Asked'
  BY <1>5 DEF Asked
<1>7. HostInv'
  <2>1. live' \subseteq {registered'[d] : d \in Connections}
    <3> SUFFICES ASSUME NEW n \in live, n # registered[c]
                 PROVE  \E d \in Connections : n = registered'[d]
      BY <1>1
    <3>1. n # 0
      BY <1>3 DEF NInv, Typed
    <3> QED
      BY <1>1, <1>2, <1>4, <3>1 DEF NInv, HostInv
  <2> QED
    BY <1>1, <1>2, <1>4, <1>5, <2>1 DEF NInv, HostInv, HostStep
<1>8. Agreed'
  BY <1>1, <1>2 DEF NInv, Agreed, HostStep, childVars, Left
<1>9. CommitsUnderAuthority'
  BY <1>1 DEF NInv, CommitsUnderAuthority, HostStep
<1> QED
  BY <1>1, <1>4, <1>5, <1>6, <1>7, <1>8, <1>9, HostStepKeeps DEF NInv, Typed

\* Callbacks stop with the child: NoticeExit, and CloseClient too.
LEMMA NoticeExitKeeps ==
  ASSUME NInv, NoticeExit
  PROVE  NInv'
<1>1. /\ HostStep /\ live' = live \ {registered[c] : c \in Connections} /\ active' = active
      /\ registered' = [c \in Connections |-> 0] /\ configured' = configured
      /\ host' = host /\ exited
  BY DEF NoticeExit, HostStep
<1>2. calls \in Nat
  BY PluginNotificationsAssumption DEF NInv, Typed
<1>3. registered' \in [Connections -> 0..calls]
  BY <1>1, <1>2
<1>4. Asked'
  <2> SUFFICES ASSUME host.phase = "waiting" PROVE Asked'
    BY <1>1 DEF Asked
  <2>1. ASSUME host.req.kind = "configure", host.req.cb # 0
        PROVE  host.req.cb \in live' \cap active'
    BY <1>1, <1>2, <2>1 DEF NInv, Asked, RequestOK, Typed
  <2> QED
    BY <1>1, <1>2, <2>1 DEF NInv, Asked, HostStep, childVars, RequestOK, Left
<1>5. HostInv'
  BY <1>1 DEF NInv, HostInv, HostStep
<1>6. Agreed'
  BY <1>1 DEF NInv, Agreed, HostStep, childVars, Left
<1>7. CommitsUnderAuthority'
  BY <1>1 DEF NInv, CommitsUnderAuthority, HostStep
<1> QED
  BY <1>1, <1>3, <1>4, <1>5, <1>6, <1>7, HostStepKeeps DEF NInv, Typed

-----------------------------------------------------------------------------
(* Requests: Configure and CloseConnection. *)

\* The calls that wait after a request, or as they were when nobody reads it.
Asking(r) ==
  /\ requests' = IF exited THEN requests ELSE requests \cup {r}
  /\ UNCHANGED <<serving, bindings, sessions, bound, accepted>>

\* A request for the newest call, or one without a callback, keeps the child's
\* side.
LEMMA AskingKeeps ==
  ASSUME NInv, NEW r \in Request, Asking(r), calls' \in Nat, calls' >= calls,
         ending' = ending, RequestOK(r)',
         r.kind = "configure" => calls' > calls /\ r.call = calls'
  PROVE  ChildInv'
<1>1. calls \in Nat /\ \A r2 : RequestOK(r2) => RequestOK(r2)'
  BY PluginNotificationsAssumption DEF NInv, Typed, RequestOK
<1>2. /\ serving' = serving /\ bindings' = bindings /\ sessions' = sessions
      /\ bound' = bound /\ accepted' = accepted /\ requests' \subseteq requests \cup {r}
  BY DEF Asking
<1>3. \A q \in requests : RequestOK(q) /\ (q.kind = "configure" => q.call \in 1..calls)
  BY DEF NInv, ChildInv, Queued, RequestOK
<1>4. serving # Idle =>
        RequestOK(serving.req) /\ (serving.req.kind = "configure" => serving.req.call \in 1..calls)
  BY DEF NInv, ChildInv, Queued, RequestOK
<1>5. Queued'
  <2>1. \A q \in requests' : RequestOK(q)'
    BY <1>1, <1>2, <1>3
  <2>2. ASSUME NEW q \in requests', NEW t \in requests', q.kind = "configure",
               t.kind = "configure", q.call = t.call
        PROVE  q = t
    BY <1>1, <1>2, <1>3, <2>2 DEF NInv, ChildInv, Queued
  <2>3. ASSUME serving # Idle, serving.req.kind = "configure",
               NEW q \in requests', q.kind = "configure"
        PROVE  q.call # serving.req.call
    BY <1>1, <1>2, <1>4, <2>3 DEF NInv, ChildInv, Queued
  <2> QED
    BY <1>1, <1>2, <1>4, <2>1, <2>2, <2>3 DEF Queued
<1>6. Fresh'
  <2>1. \A n : InUse(n)' <=> InUse(n)
    BY <1>2 DEF InUse
  <2>2. ASSUME NEW q \in requests', q.cb # 0 PROVE ~InUse(q.cb)
    <3>1. CASE q \in requests
      BY <2>2, <3>1 DEF NInv, ChildInv, Fresh
    <3>2. CASE q = r
      <4>1. r.cb = calls' /\ calls' > calls /\ r.cb \in 1..MaxCalls
        BY <1>1, <2>2, <3>2, PluginNotificationsAssumption DEF RequestOK, Request
      <4>2. InUse(r.cb) => r.cb <= calls
        BY <4>1 DEF NInv, ChildInv, Fresh
      <4> QED
        BY <1>1, <3>2, <4>1, <4>2
    <3> QED
      BY <1>2, <3>1, <3>2
  <2>3. \A n \in 1..MaxCalls : InUse(n) => n <= calls'
    BY <1>1, PluginNotificationsAssumption DEF NInv, ChildInv, Fresh
  <2> QED
    BY <1>2, <2>1, <2>2, <2>3 DEF NInv, ChildInv, Fresh
<1>7. Bindings' /\ Held'
  BY <1>2 DEF NInv, ChildInv, Bindings, Held, Handles, Opened, Bound, SameConfiguration
<1> QED
  BY <1>5, <1>6, <1>7 DEF ChildInv

\* Configure preserves the invariant.
LEMMA ConfigureKeeps ==
  ASSUME NInv, NEW c \in Connections, NEW rev \in Revisions, NEW grant \in BOOLEAN,
         Configure(c, rev, grant)
  PROVE  NInv'
<1>1. calls \in Nat /\ calls' = calls + 1 /\ calls' \in 1..MaxCalls /\ calls' \in Nat
  BY PluginNotificationsAssumption DEF NInv, Typed, Configure
<1>2. PICK cb : cb = IF grant THEN calls' ELSE 0
  OBVIOUS
<1>3. PICK r : r = [kind |-> "configure", call |-> calls', conn |-> c, rev |-> rev,
                    cb |-> cb]
  OBVIOUS
<1>4. cb \in 0..MaxCalls /\ cb \in {0, calls'}
  <2>1. CASE grant
    BY <1>1, <1>2, <2>1, PluginNotificationsAssumption
  <2>2. CASE ~grant
    BY <1>1, <1>2, <2>2, PluginNotificationsAssumption
  <2> QED
    BY <2>1, <2>2
<1>5. /\ r \in Request /\ r.kind = "configure" /\ r.call = calls' /\ r.conn = c /\ r.cb = cb
  BY <1>1, <1>3, <1>4 DEF Request
<1>6. /\ live' = live \cup ({cb} \ {0}) /\ active' = active \cup ({cb} \ {0})
      /\ host' = [phase |-> "waiting", req |-> r, answer |-> "none"]
      /\ Asking(r) /\ configured' = configured /\ host = Idle /\ ~ending
      /\ ending' = ending /\ exited' = exited /\ registered' = registered
      /\ sending' = sending /\ handling' = handling
      /\ cb # 0 => ~exited
  BY <1>2, <1>3 DEF Configure, Asking
<1>7. /\ host' \in HostState /\ host'.phase = "waiting" /\ host'.req = r
      /\ host'.answer = "none" /\ host.phase = "idle"
  BY <1>5, <1>6 DEF HostState, WaitsConfigure, Idle
<1>8. RequestOK(r)'
  BY <1>1, <1>4, <1>5 DEF RequestOK
<1>9. requests' \subseteq Request /\ requests' \subseteq requests \cup {r}
  BY <1>5, <1>6 DEF NInv, Typed, Asking
<1>10. ChildInv'
  BY <1>1, <1>5, <1>6, <1>8, AskingKeeps
<1>11. /\ serving' = serving /\ bindings' = bindings /\ sessions' = sessions
       /\ bound' = bound /\ accepted' = accepted
  BY <1>6 DEF Asking
<1>12. Typed'
  <2>1. live' \subseteq 1..calls' /\ active' \subseteq 1..calls'
    BY <1>1, <1>4, <1>6 DEF NInv, Typed
  <2>2. registered' \in [Connections -> 0..calls'] /\ bound' \in [Call -> 0..calls']
    BY <1>1, <1>6, <1>11 DEF NInv, Typed
  <2>5. /\ configured' \in [Connections -> 0..calls']
        /\ accepted' \in [Connections -> 0..calls']
    BY <1>1, <1>6, <1>11 DEF NInv, Typed
  <2>3. sessions' \subseteq 1..calls'
    BY <1>1, <1>11 DEF NInv, Typed
  <2>4. calls' \in 0..MaxCalls
    BY <1>1, PluginNotificationsAssumption
  <2> QED
    BY <1>6, <1>7, <1>9, <1>11, <2>1, <2>2, <2>3, <2>4, <2>5 DEF NInv, Typed
<1>13. Asked'
  <2>1. \A d \in Connections : /\ registered'[d] # 0 => registered'[d] < calls'
                               /\ configured'[d] < calls'
    BY <1>1, <1>6 DEF NInv, Typed
  <2>2. ASSUME NEW q \in requests', q.kind = "configure", q.call = calls'
        PROVE  q = r
    BY <1>1, <1>9, <2>2 DEF NInv, ChildInv, Queued, RequestOK
  <2>3. serving # Idle /\ serving.req.kind = "configure" => serving.req.call # calls'
    BY <1>1 DEF NInv, ChildInv, Queued, RequestOK
  <2>4. cb # 0 => cb \in live' \cap active'
    BY <1>6
  <2> QED
    BY <1>5, <1>7, <1>8, <1>11, <2>1, <2>2, <2>3, <2>4 DEF Asked
<1>14. HostInv'
  BY <1>5, <1>6, <1>7 DEF NInv, HostInv
<1>15. Agreed'
  <2>1. ASSUME NEW d \in Connections, configured[d] # 0 PROVE ~(Left(configured[d])')
    <3>0. PICK n : n = configured[d]
      OBVIOUS
    <3>1. ~Left(n) /\ n # calls' /\ configured'[d] = n
      BY <1>1, <1>6, <2>1, <3>0 DEF NInv, Agreed, Typed
    <3>2. ~(Left(n)')
      BY <1>5, <1>9, <1>11, <3>1 DEF Left
    <3> QED
      BY <3>1, <3>2 DEF Left
  <2>2. \A d : InForce(d)' <=> InForce(d)
    BY <1>6, <1>11 DEF InForce
  <2>3. accepted[c] # calls'
    BY <1>1 DEF NInv, Typed
  <2>4. ASSUME ~ending, ~exited, NEW d \in Connections, InForce(d)
        PROVE  /\ bindings[d].session = registered[d]
               /\ registered[d] # 0 => registered[d] \in live' \cap active'
    BY <1>6, <2>4 DEF NInv, Agreed
  <2> QED
    BY <1>5, <1>6, <1>7, <1>11, <2>1, <2>2, <2>3, <2>4 DEF Agreed
<1>16. CommitsUnderAuthority'
  BY <1>6 DEF NInv, CommitsUnderAuthority
<1> QED
  BY <1>10, <1>12, <1>13, <1>14, <1>15, <1>16 DEF NInv

\* CloseConnection preserves the invariant.
LEMMA CloseConnectionKeeps ==
  ASSUME NInv, NEW c \in Connections, CloseConnection(c)
  PROVE  NInv'
<1>1. PICK r : r = [kind |-> "close", call |-> 0, conn |-> c, rev |-> None, cb |-> 0]
  OBVIOUS
<1>2. r \in Request /\ r.kind = "close" /\ r.cb = 0
  BY <1>1, PluginNotificationsAssumption DEF Request
<1>3. PICK closed : closed = IF host.phase = "closing" THEN host.closed ELSE {}
  OBVIOUS
<1>4. /\ host' = [phase |-> "waiting", req |-> r, answer |-> "none",
                  closed |-> closed \cup {c}]
      /\ Asking(r)
      /\ host.phase \in {"revoking", "closing"} /\ (host.phase = "revoking" => active = {})
      /\ calls' = calls /\ live' = live /\ registered' = registered /\ active' = active
      /\ configured' = configured /\ ending' = ending /\ exited' = exited
      /\ sending' = sending /\ handling' = handling
  BY <1>1, <1>3 DEF CloseConnection, Asking
<1>5. ending /\ active = {}
  BY <1>4 DEF NInv, HostInv
<1>6. closed \in SUBSET Connections
  BY <1>3 DEF NInv, Typed, HostState, WaitsConfigure, WaitsClose, Idle
<1>7. host' \in HostState /\ host'.phase = "waiting" /\ host'.req = r
  <2>1. closed \cup {c} \in SUBSET Connections
    BY <1>6
  <2> QED
    BY <1>2, <1>4, <2>1 DEF HostState, WaitsClose
<1>8. calls \in Nat /\ RequestOK(r)'
  BY <1>2, <1>4, <1>5, PluginNotificationsAssumption DEF RequestOK, NInv, Typed
<1>9. ChildInv'
  BY <1>2, <1>4, <1>8, AskingKeeps
<1>10. requests' \subseteq Request
  BY <1>2, <1>4 DEF NInv, Typed, Asking
<1>11. Typed'
  BY <1>4, <1>7, <1>10 DEF NInv, Typed, Asking
<1>12. Asked'
  BY <1>2, <1>7, <1>8 DEF Asked
<1>13. HostInv'
  BY <1>2, <1>4, <1>5, <1>7 DEF NInv, HostInv
<1>14. \A n : Left(n)' <=> Left(n)
  BY <1>2, <1>4 DEF Left, Asking
<1>15. Agreed' /\ CommitsUnderAuthority'
  BY <1>4, <1>5, <1>14 DEF Agreed, NInv, CommitsUnderAuthority
<1> QED
  BY <1>9, <1>11, <1>12, <1>13, <1>15 DEF NInv

-----------------------------------------------------------------------------
(* The child's exit. *)

\* With the child everything on its side is gone.
LEMMA DeadChild ==
  ASSUME NInv, Dead, calls' = calls, ending' = ending
  PROVE  /\ ChildInv' /\ exited' /\ requests' = {} /\ serving' = Idle
         /\ \A n : ~(Left(n)')
         /\ requests' \subseteq Request /\ serving' \in ServingState
         /\ accepted' \in [Connections -> 0..calls']
         /\ bindings' \in [Connections -> Binding]
         /\ sessions' \subseteq 1..calls' /\ bound' \in [Call -> 0..calls']
         /\ sending' \in [Publications ->
                            {Idle} \cup [phase : {"sent"}, handle : Call, cb : Call]]
<1>1. /\ exited' = TRUE /\ requests' = {} /\ serving' = Idle /\ sessions' = {}
      /\ accepted' = [c \in Connections |-> 0]
      /\ bindings' = [c \in Connections |-> NoBinding]
      /\ bound' = [h \in Call |-> 0]
      /\ sending' = [p \in Publications |-> Idle]
  BY DEF Dead
<1>2. calls \in Nat /\ MaxCalls \in Nat
  BY PluginNotificationsAssumption DEF NInv, Typed
<1>3. /\ \A c \in Connections : bindings'[c].session = 0 /\ bindings'[c].handle = 0
      /\ NoBinding \in Binding
  BY <1>1, <1>2 DEF NoBinding, Binding
<1>4. serving'.phase = "idle"
  BY <1>1 DEF Idle
<1>5. Queued'
  BY <1>1 DEF Queued
<1>6. Fresh'
  BY <1>1, <1>3, <1>4 DEF Fresh, InUse
<1>7. Bindings'
  BY <1>3 DEF Bindings
<1>8. Held'
  BY <1>1, <1>3, <1>4 DEF Held, Bound, Handles, Opened
<1>9. \A n : ~(Left(n)')
  BY <1>1, <1>4 DEF Left
<1>10. accepted' \in [Connections -> 0..calls']
  BY <1>1, <1>2
<1> QED
  BY <1>1, <1>2, <1>3, <1>5, <1>6, <1>7, <1>8, <1>9, <1>10 DEF ChildInv, ServingState

\* Exit preserves the invariant.
LEMMA ExitKeeps ==
  ASSUME NInv, ChildExits
  PROVE  NInv'
<1>1. /\ calls' = calls /\ host' = host /\ live' = live /\ registered' = registered
      /\ active' = active /\ configured' = configured /\ ending' = ending
      /\ handling' = handling /\ Dead
  BY DEF ChildExits, hostVars
<1>2. Typed'
  BY <1>1, DeadChild DEF NInv, Typed, Dead
<1>3. Asked'
  <2>1. /\ requests' = {} /\ serving' = Idle /\ \A n : ~(Left(n)')
    BY <1>1, DeadChild
  <2> QED
    BY <1>1, <2>1 DEF NInv, Asked, RequestOK
<1>4. HostInv' /\ CommitsUnderAuthority'
  BY <1>1 DEF NInv, HostInv, CommitsUnderAuthority
<1>5. Agreed'
  BY <1>1, DeadChild DEF Agreed
<1> QED
  BY <1>1, <1>2, <1>3, <1>4, <1>5, DeadChild DEF NInv

\* CloseClient preserves the invariant.
LEMMA CloseClientKeeps ==
  ASSUME NInv, CloseClient
  PROVE  NInv'
<1>1. /\ host' = [phase |-> "ended"] /\ host.phase = "closing"
      /\ live' = live \ {registered[c] : c \in Connections}
      /\ registered' = [c \in Connections |-> 0]
      /\ calls' = calls /\ active' = active /\ configured' = configured
      /\ ending' = ending /\ handling' = handling /\ Dead
  BY DEF CloseClient
<1>2. host' \in HostState /\ host'.phase = "ended"
  BY <1>1 DEF HostState
<1>3. calls \in Nat
  BY PluginNotificationsAssumption DEF NInv, Typed
<1>4. live' = {} /\ registered' \in [Connections -> 0..calls]
  BY <1>1, <1>3 DEF NInv, HostInv
<1>5. Typed'
  BY <1>1, <1>2, <1>4, DeadChild DEF NInv, Typed, Dead
<1>6. Asked'
  BY <1>2 DEF Asked
<1>7. HostInv' /\ CommitsUnderAuthority'
  BY <1>1, <1>2, <1>4 DEF NInv, HostInv, CommitsUnderAuthority
<1>8. Agreed'
  BY <1>1, DeadChild DEF Agreed
<1> QED
  BY <1>1, <1>5, <1>6, <1>7, <1>8, DeadChild DEF NInv

-----------------------------------------------------------------------------
(* The child's calls. *)

\* A step of the child serves what was asked before.  It leaves a connection
\* and the call accepted for it alone, or accepts the call it serves, or closes
\* the connection.
ChildStep ==
  /\ UNCHANGED <<calls, live, registered, active, configured, ending, exited,
                 sending, handling>>
  /\ requests' \subseteq requests
  /\ serving' # Idle =>
       \/ serving # Idle /\ serving'.req = serving.req
       \/ serving'.req \in requests
  /\ serving'.phase = "handler" => serving'.req \in requests
  /\ \A c \in Connections :
       \/ accepted'[c] = accepted[c] /\ bindings'[c].session = bindings[c].session
       \/ /\ serving.phase = "handler" /\ serving.req.conn = c
          /\ accepted'[c] = serving.req.call /\ bindings'[c].session = serving.req.cb
       \/ ending

\* The part of Typed that is about the child.
ChildTyped ==
  /\ requests \subseteq Request /\ serving \in ServingState
  /\ bindings \in [Connections -> Binding]
  /\ sessions \subseteq 1..calls /\ bound \in [Call -> 0..calls]
  /\ accepted \in [Connections -> 0..calls]

\* What the host knows after a step of the child: nothing new, or the answer to
\* its last call, which the child then has no more and has accepted.
HostTold ==
  /\ host' \in HostState /\ host'.phase = host.phase
  /\ host.phase # "waiting" => host' = host
  /\ host.phase = "waiting" =>
       /\ host'.req = host.req
       /\ host.req.kind = "configure" /\ host'.answer = "ok" =>
            \/ host.answer = "ok"
            \/ /\ \A n : n = calls => ~(Left(n)')
               /\ accepted'[host.req.conn] = calls

\* What remains to be shown of a step of the child.
LEMMA ChildStepKeeps ==
  ASSUME NInv, ChildStep, ChildTyped', ChildInv', HostTold
  PROVE  NInv'
<1>1. /\ calls' = calls /\ live' = live /\ registered' = registered /\ active' = active
      /\ configured' = configured /\ ending' = ending /\ exited' = exited
      /\ sending' = sending /\ handling' = handling
  BY DEF ChildStep
<1>2. Typed'
  BY <1>1 DEF NInv, Typed, ChildTyped, HostTold
<1>3. \A n : Left(n)' => Left(n)
  <2>1. ASSUME NEW n, serving'.phase = "handler", serving'.req.call = n
        PROVE  \E r \in requests : r.kind = "configure" /\ r.call = n
    <3>1. serving'.req \in requests /\ serving'.req.kind = "configure"
      BY <2>1 DEF ChildStep, ChildInv, Held
    <3> QED
      BY <2>1, <3>1
  <2> QED
    BY <2>1 DEF Left, ChildStep
<1>4. Asked'
  <2> SUFFICES ASSUME host.phase = "waiting" PROVE Asked'
    BY DEF Asked, HostTold
  <2>1. host'.phase = "waiting" /\ host'.req = host.req
    BY DEF HostTold
  <2>2. RequestOK(host.req)'
    BY <1>1, <2>1 DEF NInv, Asked, RequestOK
  <2>3. ASSUME host.req.kind = "configure",
               NEW q \in requests', q.kind = "configure", q.call = calls
        PROVE  q = host.req
    BY <2>3 DEF NInv, Asked, ChildStep
  <2>4. ASSUME host.req.kind = "configure", serving' # Idle,
               serving'.req.kind = "configure", serving'.req.call = calls
        PROVE  serving'.req = host.req
    BY <2>4 DEF NInv, Asked, ChildStep
  <2>5. ASSUME host.req.kind = "configure", host'.answer = "ok" PROVE ~(Left(calls)')
    BY <1>1, <1>3, <2>5 DEF NInv, Asked, HostTold, Left
  <2> QED
    BY <1>1, <2>1, <2>2, <2>3, <2>4, <2>5 DEF NInv, Asked, RequestOK
<1>5. HostInv' /\ CommitsUnderAuthority'
  BY <1>1 DEF NInv, HostInv, CommitsUnderAuthority, HostTold
<1>6. Agreed'
  <2>1. \A c \in Connections : configured[c] # 0 => ~(Left(configured[c])')
    <3> SUFFICES ASSUME NEW c \in Connections, configured[c] # 0
                 PROVE  ~(Left(configured[c])')
      OBVIOUS
    <3>1. PICK n : n = configured[c]
      OBVIOUS
    <3>2. ~(Left(n)') /\ configured'[c] = n
      BY <1>1, <1>3, <3>1 DEF NInv, Agreed
    <3> QED
      BY <3>2 DEF Left
  <2>2. ASSUME ~ending, NEW c \in Connections, InForce(c)'
        PROVE  InForce(c) /\ bindings'[c].session = bindings[c].session
    <3>1. ASSUME serving.phase = "handler", serving.req.conn = c,
                 accepted'[c] = serving.req.call
          PROVE  FALSE
      BY <1>1, <2>2, <3>1 DEF InForce, NInv, Agreed, Left
    <3> QED
      BY <1>1, <2>2, <3>1 DEF ChildStep, InForce
  <2>3. ASSUME ~ending, ~exited, host.phase = "waiting", host.req.kind = "configure"
        PROVE  /\ host'.answer = "ok" => ~(InForce(host.req.conn)')
               /\ accepted'[host.req.conn] = host.req.call =>
                    bindings'[host.req.conn].session = host.req.cb
    <3>1. host.req.conn \in Connections /\ host.req.call = calls
      BY <2>3, HostForms DEF NInv, Asked, Request
    <3>2. ASSUME host'.answer = "ok" PROVE ~(InForce(host.req.conn)')
      <4>0. PICK c \in Connections : c = host.req.conn
        BY <3>1
      <4>1. CASE host.answer = "ok"
        <5>1. ~InForce(c)
          BY <2>3, <4>0, <4>1 DEF NInv, Agreed
        <5>2. ~(InForce(c)')
          BY <2>2, <2>3, <5>1
        <5> QED
          BY <2>3, <4>0, <5>2 DEF HostTold, InForce
      <4>2. CASE accepted'[c] = calls
        <5>1. configured[c] < calls /\ configured[c] \in Nat /\ calls \in Nat
          BY <2>3, PluginNotificationsAssumption DEF NInv, Asked, Typed
        <5>2. accepted'[c] # configured'[c]
          BY <1>1, <4>2, <5>1
        <5> QED
          BY <2>3, <4>0, <5>2 DEF HostTold, InForce
      <4> QED
        BY <2>3, <3>2, <4>0, <4>1, <4>2 DEF HostTold
    <3>3. ASSUME accepted'[host.req.conn] = calls
          PROVE  bindings'[host.req.conn].session = host.req.cb
      <4>1. CASE /\ accepted'[host.req.conn] = accepted[host.req.conn]
                 /\ bindings'[host.req.conn].session = bindings[host.req.conn].session
        BY <2>3, <3>1, <3>3, <4>1 DEF NInv, Agreed
      <4>2. CASE /\ serving.phase = "handler" /\ serving.req.call = calls
                 /\ bindings'[host.req.conn].session = serving.req.cb
        <5>1. serving # Idle /\ serving.req.kind = "configure"
          BY <4>2 DEF Idle, NInv, ChildInv, Held
        <5> QED
          BY <2>3, <4>2, <5>1 DEF NInv, Asked
      <4> QED
        BY <2>3, <3>1, <3>3, <4>1, <4>2 DEF ChildStep
    <3> QED
      BY <3>1, <3>2, <3>3
  <2> QED
    BY <1>1, <2>1, <2>2, <2>3 DEF NInv, Agreed, HostTold
<1> QED
  BY <1>2, <1>4, <1>5, <1>6 DEF NInv

\* A step that gives no answer.
LEMMA NothingTold ==
  ASSUME NInv, host' = host
  PROVE  HostTold
  BY DEF NInv, Typed, HostTold

\* The answer to the call the host waits for is the answer to its newest one,
\* which is served and so waits no more.
LEMMA LastServed ==
  ASSUME NInv, serving # Idle, serving.req.kind = "configure",
         NEW answer \in {"ok", "err"}, host' = Answered(serving.req, answer),
         requests' = requests, serving' = Idle,
         answer = "ok" => accepted'[serving.req.conn] = serving.req.call
  PROVE  HostTold
<1>1. /\ host' \in HostState /\ host'.phase = host.phase
      /\ host.phase # "waiting" => host' = host
      /\ host.phase = "waiting" =>
           /\ host'.req = host.req
           /\ \/ host'.answer = host.answer
              \/ /\ host'.answer = answer /\ host.req.kind = serving.req.kind
                 /\ host.req.call = serving.req.call /\ host.req.conn = serving.req.conn
  BY AnsweredHost DEF NInv
<1>2. ASSUME host.phase = "waiting", host.req.kind = "configure",
             host'.answer = "ok", host.answer # "ok"
      PROVE  /\ \A n : n = calls => ~(Left(n)')
             /\ accepted'[host.req.conn] = calls
  <2>1. answer = "ok" /\ host.req.call = serving.req.call /\ host.req.conn = serving.req.conn
    BY <1>1, <1>2
  <2>2. serving.req.call = calls
    BY <1>2, <2>1 DEF NInv, Asked
  <2>3. \A r \in requests : r.kind = "configure" => r.call # calls
    BY <2>2 DEF NInv, ChildInv, Queued
  <2>4. serving'.phase # "handler"
    BY DEF Idle
  <2>5. PICK n : n = calls
    OBVIOUS
  <2>6. ~(Left(n)')
    BY <2>3, <2>4, <2>5 DEF Left
  <2> QED
    BY <2>1, <2>2, <2>5, <2>6
<1> QED
  BY <1>1, <1>2 DEF HostTold

\* What is left of the waiting calls when one of them is taken to be served or
\* refused.
LEMMA TakenQueued ==
  ASSUME NInv, NEW req \in requests, requests' = requests \ {req}, calls' = calls,
         ending' = ending, serving' = Idle \/ serving'.req = req
  PROVE  Queued'
<1>1. \A r : RequestOK(r)' <=> RequestOK(r)
  BY DEF RequestOK
<1>2. \A r \in requests' : r \in requests /\ r # req /\ RequestOK(r)
  BY DEF NInv, ChildInv, Queued
<1>3. RequestOK(req) /\ \A r \in requests' :
        req.kind = "configure" /\ r.kind = "configure" => r.call # req.call
  BY <1>2 DEF NInv, ChildInv, Queued
<1>4. \A r, t \in requests' :
        r.kind = "configure" /\ t.kind = "configure" /\ r.call = t.call => r = t
  BY <1>2 DEF NInv, ChildInv, Queued
<1> QED
  BY <1>1, <1>2, <1>3, <1>4 DEF Queued

\* Refused preserves the invariant.
LEMMA RefusedKeeps ==
  ASSUME NInv, ConfigureRefused
  PROVE  NInv'
<1>0. PICK req \in requests : /\ req.kind = "configure" /\ requests' = requests \ {req}
                              /\ host' = Answered(req, "err")
  BY DEF ConfigureRefused
<1>1. /\ serving = Idle /\ serving' = serving /\ bindings' = bindings
      /\ sessions' = sessions /\ bound' = bound /\ accepted' = accepted
      /\ UNCHANGED <<calls, live, registered, active, configured, ending, exited,
                     sending, handling>>
  BY DEF ConfigureRefused
<1>2. Queued'
  BY <1>0, <1>1, TakenQueued
<1>3. Fresh'
  <2>1. \A n : InUse(n)' <=> InUse(n)
    BY <1>1 DEF InUse
  <2> QED
    BY <1>0, <1>1, <2>1 DEF NInv, ChildInv, Fresh
<1>4. Bindings' /\ Held'
  BY <1>1 DEF NInv, ChildInv, Bindings, Held, Handles, Opened, Bound, SameConfiguration
<1>5. HostTold
  BY <1>0, AnsweredHost DEF NInv, HostTold
<1>6. ChildStep
  BY <1>0, <1>1 DEF ChildStep, Idle
<1>7. ChildTyped'
  BY <1>0, <1>1 DEF NInv, Typed, ChildTyped
<1> QED
  BY <1>2, <1>3, <1>4, <1>5, <1>6, <1>7, ChildStepKeeps DEF ChildInv

\* Begins preserves the invariant.
LEMMA BeginsKeeps ==
  ASSUME NInv, ConfigureBegins
  PROVE  NInv'
<1>0. PICK req \in requests :
        /\ req.kind = "configure" /\ requests' = requests \ {req}
        /\ sessions' = sessions \cup ({req.cb} \ {0})
        /\ serving' = [phase |-> "handler", req |-> req,
                       same |-> SameConfiguration(bindings[req.conn], req)]
        /\ bound' = IF SameConfiguration(bindings[req.conn], req) \/ req.cb = 0
                      THEN bound ELSE [bound EXCEPT ![req.cb] = req.cb]
  BY DEF ConfigureBegins
<1>2. /\ serving = Idle /\ bindings' = bindings /\ host' = host /\ accepted' = accepted
      /\ UNCHANGED <<calls, live, registered, active, configured, ending, exited,
                     sending, handling>>
  BY DEF ConfigureBegins, hostVars
<1>3. PICK same \in BOOLEAN :
        /\ same <=> SameConfiguration(bindings[req.conn], req)
        /\ serving' = [phase |-> "handler", req |-> req, same |-> same]
        /\ bound' = IF same \/ req.cb = 0 THEN bound ELSE [bound EXCEPT ![req.cb] = req.cb]
  BY <1>0 DEF SameConfiguration
<1>4. req \in Request /\ requests' \subseteq Request
  BY <1>0 DEF NInv, Typed
<1>5. /\ serving'.phase = "handler" /\ serving'.req = req /\ serving' \in ServingState
      /\ serving' # Idle
  BY <1>3, <1>4 DEF ServingState, Idle
<1>6. serving'.same <=> same
  BY <1>3
<1>7. serving.phase = "idle"
  BY <1>2 DEF Idle
<1>8. /\ calls \in 0..MaxCalls /\ calls \in Nat /\ MaxCalls \in Nat
      /\ req.cb \in 0..calls /\ req.conn \in Connections
      /\ req.cb # 0 => req.cb \in Call /\ req.cb = req.call
  BY <1>0, <1>4, PluginNotificationsAssumption
     DEF NInv, Typed, ChildInv, Queued, RequestOK, Request, Call
<1>9. \A c \in Connections : bindings[c].session \in 0..MaxCalls
                             /\ bindings[c].handle \in 0..MaxCalls
  BY DEF NInv, Typed, Binding
<1>10. req.cb # 0 => \A c \in Connections : /\ bindings[c].session # req.cb
                                            /\ bindings[c].handle # req.cb
  BY <1>0 DEF NInv, ChildInv, Fresh, InUse
<1>11. Queued'
  BY <1>0, <1>2, <1>5, TakenQueued
<1>12. Fresh'
  <2>1. \A n : InUse(n)' => InUse(n) \/ n = req.cb
    BY <1>2, <1>5 DEF InUse
  <2>2. ASSUME NEW r \in requests', r.cb # 0 PROVE ~(InUse(r.cb)')
    <3>1. r \in requests /\ r # req /\ ~InUse(r.cb)
      BY <1>0, <2>2 DEF NInv, ChildInv, Fresh
    <3>2. r.kind = "configure" /\ r.cb = r.call
      <4>1. r \in Request /\ RequestOK(r)
        BY <3>1 DEF NInv, Typed, ChildInv, Queued
      <4> QED
        BY <2>2, <4>1 DEF RequestOK, Request
    <3>3. r.call # req.call
      BY <1>0, <3>1, <3>2 DEF NInv, ChildInv, Queued
    <3> QED
      BY <1>8, <2>1, <2>2, <3>1, <3>2, <3>3
  <2>3. \A n \in 1..MaxCalls : InUse(n)' => n <= calls
    BY <1>8, <2>1 DEF NInv, ChildInv, Fresh
  <2> QED
    BY <1>2, <1>5, <1>10, <2>2, <2>3 DEF Fresh
<1>13. bound \in [Call -> 0..calls]
  BY DEF NInv, Typed
<1>14. /\ bound' \in [Call -> 0..calls]
       /\ \A h \in Call : h # req.cb => bound'[h] = bound[h]
       /\ same \/ req.cb = 0 => bound' = bound
       /\ ~same /\ req.cb # 0 => bound'[req.cb] = req.cb
  <2>1. CASE same \/ req.cb = 0
    BY <1>3, <1>13, <2>1
  <2>2. CASE ~same /\ req.cb # 0
    BY <1>3, <1>8, <1>13, <2>2
  <2> QED
    BY <2>1, <2>2
<1>15. \A c \in Connections : bindings[c].handle # 0 =>
         bindings[c].handle \in Call /\ bindings[c].handle # req.cb
  BY <1>8, <1>9, <1>10 DEF Call
<1>16. Bindings'
  BY <1>2, <1>14, <1>15 DEF NInv, ChildInv, Bindings
<1>17. Held'
  <2>1. /\ Bound = Handles /\ sessions = Opened
    BY <1>2 DEF NInv, ChildInv, Held
  <2>2. Bound' = Handles \cup (IF same THEN {} ELSE {req.cb} \ {0})
    <3>1. CASE same \/ req.cb = 0
      BY <1>14, <2>1, <3>1 DEF Bound
    <3>2. CASE ~same /\ req.cb # 0
      BY <1>8, <1>14, <2>1, <3>2 DEF Bound
    <3> QED
      BY <3>1, <3>2
  <2>3. Handles' = Handles /\ Opened' = Opened
    BY <1>2 DEF Handles, Opened
  <2>4. /\ Bound' = Handles' \cup (IF serving'.same THEN {} ELSE {serving'.req.cb} \ {0})
    BY <1>5, <1>6, <2>2, <2>3
  <2>5. /\ serving'.same <=> SameConfiguration(bindings'[serving'.req.conn], serving'.req)
        /\ ~serving'.same /\ serving'.req.cb # 0 =>
             bound'[serving'.req.cb] = serving'.req.cb
    BY <1>2, <1>3, <1>5, <1>6, <1>14 DEF SameConfiguration
  <2>6. sessions' = Opened' \cup ({serving'.req.cb} \ {0})
    BY <1>0, <1>2, <1>5, <2>1, <2>3
  <2>7. serving'.phase = "handler" /\ serving' # Idle /\ serving'.req.kind = "configure"
    BY <1>0, <1>5
  <2> QED
    BY <2>4, <2>5, <2>6, <2>7 DEF Held, SameConfiguration
<1>18. ChildStep
  BY <1>0, <1>2, <1>4, <1>5 DEF ChildStep
<1>19. ChildTyped'
  <2>1. sessions' \subseteq 1..calls
    <3>1. sessions \subseteq 1..calls
      BY DEF NInv, Typed
    <3>2. req.cb # 0 => req.cb \in 1..calls
      BY <1>8
    <3> QED
      BY <1>0, <3>1, <3>2
  <2> QED
    BY <1>2, <1>4, <1>5, <1>14, <2>1 DEF NInv, Typed, ChildTyped
<1> QED
  BY <1>2, <1>11, <1>12, <1>16, <1>17, <1>18, <1>19, NothingTold, ChildStepKeeps
     DEF ChildInv

\* The handler's call, as the next steps find it.
LEMMA AtHandler ==
  ASSUME NInv, serving.phase = "handler", NEW req, req = serving.req
  PROVE  /\ serving # Idle /\ req \in Request /\ req.kind = "configure"
         /\ req.conn \in Connections /\ calls \in Nat /\ MaxCalls \in Nat
         /\ req.cb \in 0..calls /\ (req.cb # 0 => req.cb \in Call)
         /\ req.call \in 1..calls
         /\ req.cb # 0 => \A c \in Connections : /\ bindings[c].session # req.cb
                                                 /\ bindings[c].handle # req.cb
         /\ \A c \in Connections : /\ bindings[c] \in Binding
                                   /\ bindings[c].session \in 0..calls
                                   /\ bindings[c].handle \in 0..calls
                                   /\ bindings[c].handle # 0 => bindings[c].handle \in Call
<1>1. serving # Idle
  BY DEF Idle
<1>2. req \in Request /\ RequestOK(req) /\ req.kind = "configure"
  BY <1>1, ServingForms DEF NInv, ChildInv, Queued, Held
<1>3. calls \in Nat /\ MaxCalls \in Nat /\ calls \in 0..MaxCalls
  BY PluginNotificationsAssumption DEF NInv, Typed
<1>4. req.cb \in 0..calls /\ req.conn \in Connections /\ req.call \in 1..calls
  BY <1>2, <1>3 DEF RequestOK, Request
<1>5. ASSUME NEW c \in Connections
      PROVE  /\ bindings[c] \in Binding
             /\ bindings[c].session \in 0..calls /\ bindings[c].handle \in 0..calls
  <2>1. bindings[c] \in Binding
    BY DEF NInv, Typed
  <2>2. bindings[c].session \in 0..MaxCalls /\ bindings[c].handle \in 0..MaxCalls
    BY <2>1 DEF Binding
  <2>3. \A n \in 1..MaxCalls : n \in {bindings[c].session, bindings[c].handle} => n <= calls
    BY DEF NInv, ChildInv, Fresh, InUse
  <2> QED
    BY <1>3, <2>1, <2>2, <2>3
<1>6. req.cb # 0 => \A c \in Connections : /\ bindings[c].session # req.cb
                                           /\ bindings[c].handle # req.cb
  BY DEF NInv, ChildInv, Fresh
<1> QED
  BY <1>1, <1>2, <1>3, <1>4, <1>5, <1>6 DEF Call

\* AcceptsSame preserves the invariant.
LEMMA AcceptsSameKeeps ==
  ASSUME NInv, HandlerAcceptsSame
  PROVE  NInv'
<1>0. PICK req, c, b : req = serving.req /\ c = req.conn /\ b = bindings[c]
  OBVIOUS
<1>1. /\ serving.phase = "handler" /\ serving.same /\ serving' = Idle
      /\ host' = Answered(req, "ok") /\ requests' = requests
      /\ accepted' = [accepted EXCEPT ![c] = req.call]
      /\ UNCHANGED <<calls, live, registered, active, configured, ending, exited,
                     sending, handling>>
  BY <1>0 DEF HandlerAcceptsSame
<1>2. /\ serving # Idle /\ req \in Request /\ req.kind = "configure"
      /\ c \in Connections /\ calls \in Nat /\ MaxCalls \in Nat
      /\ req.cb \in 0..calls /\ (req.cb # 0 => req.cb \in Call)
      /\ req.call \in 1..calls
      /\ req.cb # 0 => \A d \in Connections : /\ bindings[d].session # req.cb
                                              /\ bindings[d].handle # req.cb
      /\ \A d \in Connections : /\ bindings[d] \in Binding
                                /\ bindings[d].session \in 0..calls
                                /\ bindings[d].handle \in 0..calls
                                /\ bindings[d].handle # 0 => bindings[d].handle \in Call
  BY <1>0, <1>1, AtHandler
<1>3. (b.session # 0) <=> (req.cb # 0)
  BY <1>0, <1>1 DEF NInv, ChildInv, Held, SameConfiguration
<1>4. sessions = Opened \cup ({req.cb} \ {0}) /\ Bound = Handles
  BY <1>0, <1>1 DEF NInv, ChildInv, Held
<1>5. bindings \in [Connections -> Binding] /\ bound \in [Call -> 0..calls]
      /\ sessions \subseteq 1..calls
  BY DEF NInv, Typed
<1>6. /\ bindings' \in [Connections -> Binding]
      /\ \A d \in Connections : bindings'[d].handle = bindings[d].handle
      /\ \A d \in Connections \ {c} : bindings'[d].session = bindings[d].session
      /\ bindings'[c].session = req.cb
  <2>1. CASE req.cb = 0
    BY <1>0, <1>1, <1>2, <1>3, <1>5, <2>1 DEF HandlerAcceptsSame
  <2>2. CASE req.cb # 0
    <3>1. PICK new : new = [b EXCEPT !.session = req.cb]
      OBVIOUS
    <3>2. new \in Binding /\ new.session = req.cb /\ new.handle = b.handle
      <4>1. req.cb \in 0..MaxCalls
        BY <1>2 DEF Request
      <4> QED
        BY <1>0, <1>2, <3>1, <4>1 DEF Binding
    <3>3. bindings' = [bindings EXCEPT ![c] = new]
      BY <1>0, <2>2, <3>1 DEF HandlerAcceptsSame, Rebind
    <3> QED
      BY <1>0, <1>2, <1>5, <3>2, <3>3
  <2> QED
    BY <2>1, <2>2
<1>7. /\ bound' \in [Call -> 0..calls]
      /\ \A h \in Call : (h = b.handle /\ req.cb # 0) \/ bound'[h] = bound[h]
      /\ req.cb # 0 => bound'[b.handle] = req.cb /\ b.handle \in Call
      /\ sessions' = IF req.cb = 0 THEN sessions ELSE sessions \ {b.session}
  <2>1. CASE req.cb = 0
    BY <1>0, <1>5, <2>1 DEF HandlerAcceptsSame
  <2>2. CASE req.cb # 0
    <3>1. b.handle \in Call
      BY <1>0, <1>2, <1>3, <2>2 DEF NInv, ChildInv, Bindings
    <3>2. bound' = [bound EXCEPT ![b.handle] = req.cb] /\ sessions' = sessions \ {b.session}
      BY <1>0, <2>2 DEF HandlerAcceptsSame, Rebind
    <3> QED
      BY <1>2, <1>5, <2>2, <3>1, <3>2
  <2> QED
    BY <2>1, <2>2
<1>8. Queued'
  BY <1>1 DEF NInv, ChildInv, Queued, RequestOK
<1>9. serving'.phase = "idle"
  BY <1>1 DEF Idle
<1>10. Fresh'
  <2>1. \A n : InUse(n)' => InUse(n)
    BY <1>0, <1>1, <1>2, <1>6, <1>9 DEF InUse
  <2> QED
    BY <1>1, <1>9, <2>1 DEF NInv, ChildInv, Fresh
<1>11. Bindings'
  <2>1. ASSUME NEW d \in Connections
        PROVE  /\ (bindings'[d].session = 0) <=> (bindings'[d].handle = 0)
               /\ bindings'[d].handle # 0 => bound'[bindings'[d].handle] = bindings'[d].session
    <3>1. CASE d = c
      BY <1>0, <1>2, <1>3, <1>6, <1>7, <3>1 DEF NInv, ChildInv, Bindings
    <3>2. CASE d # c
      <4>1. bindings[d].handle # 0 => bindings[d].handle # b.handle
        BY <1>0, <1>2, <3>2 DEF NInv, ChildInv, Bindings
      <4> QED
        BY <1>2, <1>6, <1>7, <3>2, <4>1 DEF NInv, ChildInv, Bindings
    <3> QED
      BY <3>1, <3>2
  <2>2. ASSUME NEW d \in Connections, NEW e \in Connections,
               bindings'[d].session = bindings'[e].session, bindings'[d].session # 0
        PROVE  d = e
    BY <1>2, <1>6, <2>2 DEF NInv, ChildInv, Bindings
  <2>3. ASSUME NEW d \in Connections, NEW e \in Connections,
               bindings'[d].handle = bindings'[e].handle, bindings'[d].handle # 0
        PROVE  d = e
    BY <1>6, <2>3 DEF NInv, ChildInv, Bindings
  <2> QED
    BY <2>1, <2>2, <2>3 DEF Bindings
<1>12. Held'
  <2>1. Handles' = Handles
    BY <1>6 DEF Handles
  <2>2. Bound' = Bound
    <3>1. req.cb # 0 => b.handle \in Bound
      BY <1>0, <1>2, <1>4, <1>7, PluginNotificationsAssumption DEF Handles, Call
    <3>2. \A h \in Call : bound'[h] # 0 <=> bound[h] # 0
      BY <1>7, <3>1 DEF Bound
    <3> QED
      BY <3>2 DEF Bound
  <2>3. sessions' = Opened'
    <3>1. CASE req.cb = 0
      BY <1>0, <1>2, <1>3, <1>4, <1>6, <1>7, <3>1 DEF Opened
    <3>2. CASE req.cb # 0
      <4>1. b.session # 0 /\ b.session # req.cb
        BY <1>0, <1>2, <1>3, <3>2
      <4>2. \A d \in Connections \ {c} : bindings[d].session # b.session
        BY <1>0, <1>2, <4>1 DEF NInv, ChildInv, Bindings
      <4>3. Opened' = (Opened \ {b.session}) \cup {req.cb}
        BY <1>0, <1>2, <1>6, <3>2, <4>2 DEF Opened
      <4> QED
        BY <1>4, <1>7, <3>2, <4>1, <4>3
    <3> QED
      BY <3>1, <3>2
  <2> QED
    BY <1>1, <1>4, <1>9, <2>1, <2>2, <2>3 DEF Held
<1>16. /\ accepted' \in [Connections -> 0..calls] /\ accepted'[c] = req.call
       /\ \A d \in Connections \ {c} : accepted'[d] = accepted[d]
  BY <1>1, <1>2 DEF NInv, Typed
<1>13. HostTold
  BY <1>0, <1>1, <1>2, <1>16, LastServed
<1>14. ChildStep
  BY <1>0, <1>1, <1>2, <1>6, <1>16 DEF ChildStep, Idle
<1>15. ChildTyped'
  <2>1. requests' \subseteq Request /\ serving' \in ServingState /\ calls' = calls
    BY <1>1 DEF NInv, Typed, ServingState
  <2>2. sessions' \subseteq 1..calls
    BY <1>5, <1>7
  <2> QED
    BY <1>6, <1>7, <1>16, <2>1, <2>2 DEF ChildTyped
<1> QED
  BY <1>8, <1>10, <1>11, <1>12, <1>13, <1>14, <1>15, ChildStepKeeps DEF ChildInv

\* A binding is replaced and its publisher and session are left to be revoked:
\* a new configuration, or a close.
Replacing(c, n, rev, req) ==
  /\ bindings' = [bindings EXCEPT ![c] = [rev |-> rev, session |-> n, handle |-> n]]
  /\ serving' = [phase |-> "revoking", req |-> req, answer |-> "ok",
                 handle |-> bindings[c].handle, session |-> bindings[c].session]
  /\ UNCHANGED <<calls, sessions, bound>>
  /\ n # 0 => bound[n] = n
  /\ n # 0 => \A d \in Connections : bindings[d].session # n /\ bindings[d].handle # n
  /\ sessions = Opened \cup ({n} \ {0}) /\ Bound = Handles \cup ({n} \ {0})
  /\ req.kind = "configure" => accepted'[req.conn] = req.call
  /\ accepted' \in [Connections -> 0..calls]

\* What the replacement leaves true.
WellReplaced(c, n, req) ==
  /\ Bindings' /\ Held' /\ (requests' \subseteq Request => ChildTyped')
  /\ serving' # Idle /\ serving'.phase = "revoking" /\ serving'.req = req
  /\ \A d \in Connections : d = c \/ bindings'[d] = bindings[d]
  /\ bindings'[c].session = n
  /\ \A m \in 1..MaxCalls : InUse(m)' =>
       \/ m = n
       \/ \E d \in Connections : m \in {bindings[d].session, bindings[d].handle}
  /\ serving'.handle # 0 => \A d \in Connections : bindings'[d].handle # serving'.handle
  /\ serving'.session # 0 =>
       \A d \in Connections : bindings'[d].session # serving'.session

\* Replacing a binding keeps what the child holds accounted for.
LEMMA Replaced ==
  ASSUME NInv, NEW c \in Connections, NEW n \in 0..MaxCalls,
         NEW rev \in Revisions \cup {None}, NEW req \in Request, Replacing(c, n, rev, req)
  PROVE  WellReplaced(c, n, req)
<1> USE DEF Replacing
<1>1. PICK new : new = [rev |-> rev, session |-> n, handle |-> n]
  OBVIOUS
<1>2. new \in Binding /\ new.session = n /\ new.handle = n
  BY <1>1 DEF Binding
<1>3. bindings \in [Connections -> Binding] /\ \A d \in Connections :
        bindings[d].session \in 0..MaxCalls /\ bindings[d].handle \in 0..MaxCalls
  BY DEF NInv, Typed, Binding
<1>4. /\ bindings' \in [Connections -> Binding] /\ bindings'[c] = new
      /\ \A d \in Connections : d = c \/ bindings'[d] = bindings[d]
  BY <1>1, <1>2, <1>3
<1>5. PICK h, s : h = bindings[c].handle /\ s = bindings[c].session
  OBVIOUS
<1>6. /\ serving' \in ServingState /\ serving' # Idle /\ serving'.phase = "revoking"
      /\ serving'.req = req /\ serving'.handle = h /\ serving'.session = s
      /\ serving'.answer = "ok"
  BY <1>3, <1>5 DEF ServingState, Idle
<1>7. /\ h # 0 => \A d \in Connections \ {c} : bindings[d].handle # h
      /\ s # 0 => \A d \in Connections \ {c} : bindings[d].session # s
      /\ n # 0 => n # h /\ n # s
  BY <1>5 DEF NInv, ChildInv, Bindings
<1>8. /\ h # 0 => \A d \in Connections : bindings'[d].handle # h
      /\ s # 0 => \A d \in Connections : bindings'[d].session # s
  BY <1>2, <1>4, <1>7
<1>9. Bindings'
  <2>1. ASSUME NEW d \in Connections
        PROVE  /\ (bindings'[d].session = 0) <=> (bindings'[d].handle = 0)
               /\ bindings'[d].handle # 0 => bound'[bindings'[d].handle] = bindings'[d].session
    BY <1>2, <1>4 DEF NInv, ChildInv, Bindings
  <2>2. ASSUME NEW d \in Connections, NEW e \in Connections
        PROVE  /\ bindings'[d].handle = bindings'[e].handle /\ bindings'[d].handle # 0 => d = e
               /\ bindings'[d].session = bindings'[e].session /\ bindings'[d].session # 0
                    => d = e
    BY <1>2, <1>4 DEF NInv, ChildInv, Bindings
  <2> QED
    BY <2>1, <2>2 DEF Bindings
<1>10. Held'
  <2>1. Handles' \cup ({h} \ {0}) = Handles \cup ({n} \ {0})
    BY <1>2, <1>4, <1>5, <1>7 DEF Handles
  <2>2. Opened' \cup ({s} \ {0}) = Opened \cup ({n} \ {0})
    BY <1>2, <1>4, <1>5, <1>7 DEF Opened
  <2>3. Bound' = Bound
    BY DEF Bound
  <2>4. req.kind = "configure" => accepted'[req.conn] = req.call
    OBVIOUS
  <2> QED
    BY <1>6, <2>1, <2>2, <2>3, <2>4 DEF Held
<1>11. \A m \in 1..MaxCalls : InUse(m)' =>
         \/ m = n
         \/ \E d \in Connections : m \in {bindings[d].session, bindings[d].handle}
  BY <1>2, <1>4, <1>5, <1>6 DEF InUse
<1>12. requests' \subseteq Request => ChildTyped'
  BY <1>4, <1>6 DEF NInv, Typed, ChildTyped
<1> QED
  BY <1>2, <1>4, <1>5, <1>6, <1>8, <1>9, <1>10, <1>11, <1>12 DEF WellReplaced

\* AcceptsNew preserves the invariant.
LEMMA AcceptsNewKeeps ==
  ASSUME NInv, HandlerAcceptsNew
  PROVE  NInv'
<1>0. PICK req, c, n : req = serving.req /\ c = req.conn /\ n = req.cb
  OBVIOUS
<1>1. /\ serving.phase = "handler" /\ ~serving.same /\ requests' = requests
      /\ bindings' = [bindings EXCEPT ![c] = [rev |-> req.rev, session |-> n, handle |-> n]]
      /\ serving' = [phase |-> "revoking", req |-> req, answer |-> "ok",
                     handle |-> bindings[c].handle, session |-> bindings[c].session]
      /\ accepted' = [accepted EXCEPT ![c] = req.call]
      /\ sessions' = sessions /\ bound' = bound /\ calls' = calls /\ host' = host
      /\ UNCHANGED <<calls, live, registered, active, configured, ending, exited,
                     sending, handling>>
  BY <1>0 DEF HandlerAcceptsNew, hostVars
<1>2. /\ serving # Idle /\ req \in Request /\ req.kind = "configure"
      /\ c \in Connections /\ calls \in Nat /\ MaxCalls \in Nat
      /\ n \in 0..calls /\ req.call \in 1..calls
      /\ n # 0 => \A d \in Connections : /\ bindings[d].session # n
                                         /\ bindings[d].handle # n
      /\ \A d \in Connections : /\ bindings[d].session \in 0..calls
                                /\ bindings[d].handle \in 0..calls
  BY <1>0, <1>1, AtHandler
<1>3. n \in 0..MaxCalls /\ req.rev \in Revisions \cup {None}
  BY <1>0, <1>2 DEF Request
<1>4. /\ n # 0 => bound[n] = n
      /\ sessions = Opened \cup ({n} \ {0}) /\ Bound = Handles \cup ({n} \ {0})
  BY <1>0, <1>1 DEF NInv, ChildInv, Held
<1>10. /\ accepted' \in [Connections -> 0..calls] /\ accepted'[c] = req.call
       /\ \A d \in Connections \ {c} : accepted'[d] = accepted[d]
  BY <1>1, <1>2 DEF NInv, Typed
<1>5. WellReplaced(c, n, req)
  <2>1. n # 0 => \A d \in Connections : bindings[d].session # n /\ bindings[d].handle # n
    BY <1>2
  <2>2. Replacing(c, n, req.rev, req)
    BY <1>0, <1>1, <1>4, <1>10, <2>1 DEF Replacing
  <2> QED
    BY <1>2, <1>3, <2>2, Replaced
<1> USE DEF WellReplaced
<1>6. Queued'
  BY <1>0, <1>1, <1>2, <1>5 DEF NInv, ChildInv, Queued, RequestOK
<1>7. Fresh'
  <2>1. \A m \in 1..MaxCalls : InUse(m)' => InUse(m)
    BY <1>0, <1>1, <1>5 DEF InUse
  <2>2. \A r \in requests : r.cb # 0 => r.cb \in 1..MaxCalls /\ ~InUse(r.cb)
    BY <1>2 DEF NInv, Typed, Request, ChildInv, Fresh
  <2>3. \A r \in requests : r.cb # 0 => ~(InUse(r.cb)')
    BY <2>1, <2>2
  <2> QED
    BY <1>1, <1>5, <2>1, <2>3 DEF NInv, ChildInv, Fresh
<1>8. ChildStep
  BY <1>0, <1>1, <1>2, <1>5, <1>10 DEF ChildStep
<1>9. requests' \subseteq Request
  BY <1>1 DEF NInv, Typed
<1> QED
  BY <1>1, <1>5, <1>6, <1>7, <1>8, <1>9, NothingTold, ChildStepKeeps DEF ChildInv

\* CloseBegins preserves the invariant.
LEMMA CloseBeginsKeeps ==
  ASSUME NInv, CloseBegins
  PROVE  NInv'
<1>0. PICK req \in requests :
        /\ req.kind = "close" /\ requests' = requests \ {req}
        /\ bindings' = [bindings EXCEPT ![req.conn] =
                          [rev |-> None, session |-> 0, handle |-> 0]]
        /\ serving' = [phase |-> "revoking", req |-> req, answer |-> "ok",
                       handle |-> bindings[req.conn].handle,
                       session |-> bindings[req.conn].session]
  BY DEF CloseBegins, NoBinding
<1>1. /\ serving = Idle /\ accepted' = accepted
      /\ sessions' = sessions /\ bound' = bound /\ calls' = calls /\ host' = host
      /\ UNCHANGED <<calls, live, registered, active, configured, ending, exited,
                     sending, handling>>
  BY DEF CloseBegins, hostVars
<1>2. req \in Request /\ requests' \subseteq Request /\ ending
  BY <1>0 DEF NInv, Typed, ChildInv, Queued, RequestOK
<1>3. PICK c \in Connections : c = req.conn
  BY <1>2 DEF Request
<1>4. MaxCalls \in Nat /\ 0 \in 0..MaxCalls
  BY PluginNotificationsAssumption
<1>5. sessions = Opened \cup ({0} \ {0}) /\ Bound = Handles \cup ({0} \ {0})
  BY <1>1 DEF NInv, ChildInv, Held
<1>6. WellReplaced(c, 0, req)
  <2>1. Replacing(c, 0, None, req)
    BY <1>0, <1>1, <1>3, <1>5 DEF Replacing, NInv, Typed
  <2> QED
    BY <1>2, <1>4, <2>1, Replaced
<1> USE DEF WellReplaced
<1>7. Queued'
  BY <1>0, <1>1, <1>6, TakenQueued
<1>8. Fresh'
  <2>1. \A m \in 1..MaxCalls : InUse(m)' => InUse(m)
    BY <1>4, <1>6 DEF InUse
  <2>2. ASSUME NEW r \in requests', r.cb # 0 PROVE ~(InUse(r.cb)')
    <3>1. r \in requests /\ ~InUse(r.cb) /\ r.cb \in 1..MaxCalls
      BY <1>0, <1>4, <2>2 DEF NInv, Typed, Request, ChildInv, Fresh
    <3> QED
      BY <2>1, <3>1
  <2> QED
    BY <1>1, <1>6, <2>1, <2>2 DEF NInv, ChildInv, Fresh
<1>9. ChildStep
  BY <1>0, <1>1, <1>2, <1>6 DEF ChildStep
<1> QED
  BY <1>1, <1>2, <1>6, <1>7, <1>8, <1>9, NothingTold, ChildStepKeeps DEF ChildInv

\* Rejects preserves the invariant.
LEMMA RejectsKeeps ==
  ASSUME NInv, HandlerRejects
  PROVE  NInv'
<1>0. PICK req, h : req = serving.req /\ h = IF serving.same THEN 0 ELSE req.cb
  OBVIOUS
<1>1. /\ serving.phase = "handler" /\ requests' = requests /\ bindings' = bindings
      /\ serving' = [phase |-> "revoking", req |-> req, answer |-> "err",
                     handle |-> h, session |-> req.cb]
      /\ sessions' = sessions /\ bound' = bound /\ accepted' = accepted /\ host' = host
      /\ UNCHANGED <<calls, live, registered, active, configured, ending, exited,
                     sending, handling>>
  BY <1>0 DEF HandlerRejects, hostVars
<1>2. /\ serving # Idle /\ req \in Request /\ req.kind = "configure"
      /\ calls \in Nat /\ MaxCalls \in Nat /\ req.cb \in 0..calls
      /\ req.cb # 0 => \A d \in Connections : /\ bindings[d].session # req.cb
                                              /\ bindings[d].handle # req.cb
      /\ \A d \in Connections : /\ bindings[d].session \in 0..calls
                                /\ bindings[d].handle \in 0..calls
  BY <1>0, <1>1, AtHandler
<1>3. req.cb \in 0..MaxCalls /\ h \in {0, req.cb} /\ h \in 0..MaxCalls
  <2>1. h \in {0, req.cb}
    BY <1>0
  <2> QED
    BY <1>2, <2>1 DEF Request
<1>4. /\ serving' \in ServingState /\ serving' # Idle /\ serving'.phase = "revoking"
      /\ serving'.req = req /\ serving'.answer = "err" /\ serving'.handle = h
      /\ serving'.session = req.cb
  BY <1>1, <1>2, <1>3 DEF ServingState, Idle
<1>5. Queued'
  BY <1>0, <1>1, <1>2, <1>4 DEF NInv, ChildInv, Queued, RequestOK
<1>6. Fresh'
  <2>1. \A m \in 1..MaxCalls : InUse(m)' => InUse(m)
    BY <1>0, <1>1, <1>2, <1>3, <1>4 DEF InUse
  <2>2. /\ h # 0 => \A c \in Connections : bindings[c].handle # h
        /\ req.cb # 0 => \A c \in Connections : bindings[c].session # req.cb
    BY <1>2, <1>3
  <2>3. \A r \in requests : r.cb # 0 => r.cb \in 1..MaxCalls /\ ~InUse(r.cb)
    BY <1>2 DEF NInv, Typed, Request, ChildInv, Fresh
  <2>4. \A r \in requests : r.cb # 0 => ~(InUse(r.cb)')
    BY <2>1, <2>3
  <2> QED
    BY <1>1, <1>4, <2>1, <2>2, <2>4 DEF NInv, ChildInv, Fresh
<1>7. Bindings'
  BY <1>1 DEF NInv, ChildInv, Bindings
<1>8. Held'
  <2>1. sessions = Opened \cup ({req.cb} \ {0}) /\ Bound = Handles \cup ({h} \ {0})
    BY <1>0, <1>1 DEF NInv, ChildInv, Held
  <2>2. Opened' = Opened /\ Handles' = Handles /\ Bound' = Bound
    BY <1>1 DEF Opened, Handles, Bound
  <2> QED
    BY <1>1, <1>4, <2>1, <2>2 DEF Held
<1>9. ChildStep
  BY <1>0, <1>1, <1>2, <1>4 DEF ChildStep
<1>10. ChildTyped'
  BY <1>1, <1>4 DEF NInv, Typed, ChildTyped
<1> QED
  BY <1>1, <1>5, <1>6, <1>7, <1>8, <1>9, <1>10, NothingTold, ChildStepKeeps DEF ChildInv

\* RevokeOld preserves the invariant.
LEMMA RevokeOldKeeps ==
  ASSUME NInv, RevokeOld
  PROVE  NInv'
<1>0. PICK h, s, answer : h = serving.handle /\ s = serving.session /\ answer = serving.answer
  OBVIOUS
<1>1. /\ serving.phase = "revoking" /\ serving' = Idle /\ requests' = requests
      /\ bindings' = bindings /\ accepted' = accepted
      /\ host' = Answered(serving.req, answer)
      /\ sessions' = sessions \ {s}
      /\ bound' = IF h = 0 THEN bound ELSE [bound EXCEPT ![h] = 0]
      /\ UNCHANGED <<calls, live, registered, active, configured, ending, exited,
                     sending, handling>>
  BY <1>0 DEF RevokeOld, RevokeAndClose
<1>2. /\ serving # Idle /\ serving'.phase = "idle" /\ answer \in {"ok", "err"}
      /\ h \in 0..MaxCalls /\ s \in 0..MaxCalls /\ MaxCalls \in Nat /\ calls \in Nat
  BY <1>0, <1>1, ServingForms, PluginNotificationsAssumption DEF NInv, Typed, Idle
<1>3. bound \in [Call -> 0..calls]
  BY DEF NInv, Typed
<1>4. /\ bound' \in [Call -> 0..calls] /\ \A g \in Call : g # h => bound'[g] = bound[g]
      /\ h # 0 => bound'[h] = 0 /\ h \in Call
  <2>1. CASE h = 0
    BY <1>1, <1>3, <2>1
  <2>2. CASE h # 0
    BY <1>1, <1>2, <1>3, <2>2 DEF Call
  <2> QED
    BY <2>1, <2>2
<1>5. /\ h # 0 => \A c \in Connections : bindings[c].handle # h
      /\ s # 0 => \A c \in Connections : bindings[c].session # s
  BY <1>0, <1>1 DEF NInv, ChildInv, Fresh
<1>6. Queued'
  BY <1>1 DEF NInv, ChildInv, Queued, RequestOK
<1>7. Fresh'
  <2>1. \A n : InUse(n)' => InUse(n)
    BY <1>1, <1>2 DEF InUse
  <2> QED
    BY <1>1, <1>2, <2>1 DEF NInv, ChildInv, Fresh
<1>8. \A c \in Connections : bindings[c].handle # 0 => bindings[c].handle \in Call
  BY <1>2 DEF NInv, Typed, Binding, Call
<1>9. Bindings'
  BY <1>1, <1>4, <1>5, <1>8 DEF NInv, ChildInv, Bindings
<1>10. Held'
  <2>1. sessions = Opened \cup ({s} \ {0}) /\ Bound = Handles \cup ({h} \ {0})
    BY <1>0, <1>1 DEF NInv, ChildInv, Held
  <2>2. Opened' = Opened /\ Handles' = Handles
    BY <1>1 DEF Opened, Handles
  <2>3. h \notin Handles /\ s \notin Opened
    BY <1>5 DEF Handles, Opened
  <2>4. Bound' = Bound \ {h}
    BY <1>2, <1>4 DEF Bound, Call
  <2> QED
    BY <1>1, <1>2, <2>1, <2>2, <2>3, <2>4 DEF Held
<1>11. HostTold
  <2>1. CASE serving.req.kind = "configure"
    <3>1. answer = "ok" => accepted'[serving.req.conn] = serving.req.call
      BY <1>0, <1>1, <2>1 DEF NInv, ChildInv, Held
    <3> QED
      BY <1>1, <1>2, <2>1, <3>1, LastServed
  <2>2. CASE serving.req.kind # "configure"
    BY <1>1, <1>2, <2>2, AnsweredHost DEF NInv, HostTold
  <2> QED
    BY <2>1, <2>2
<1>12. ChildStep
  BY <1>1 DEF ChildStep, Idle
<1>13. ChildTyped'
  <2>1. sessions' \subseteq 1..calls
    BY <1>1 DEF NInv, Typed
  <2> QED
    BY <1>1, <1>4, <2>1 DEF NInv, Typed, ChildTyped, ServingState
<1> QED
  BY <1>6, <1>7, <1>9, <1>10, <1>11, <1>12, <1>13, ChildStepKeeps DEF ChildInv

-----------------------------------------------------------------------------
(* The theorems. *)

\* Nothing is configured, queued or served at first.
LEMMA InitNInv == Init => NInv
<1> SUFFICES ASSUME Init PROVE NInv
  OBVIOUS
<1>1. MaxCalls \in Nat /\ calls = 0
  BY PluginNotificationsAssumption DEF Init
<1>2. NoBinding \in Binding /\ NoBinding.session = 0 /\ NoBinding.handle = 0
  BY <1>1 DEF NoBinding, Binding
<1>3. \A c \in Connections : bindings[c] = NoBinding
  BY DEF Init
<1>4. /\ host = Idle /\ serving = Idle /\ requests = {}
      /\ host.phase = "idle" /\ serving.phase = "idle"
  BY DEF Init, Idle
<1>5. Typed
  <2>1. ending \in BOOLEAN /\ exited \in BOOLEAN
    BY DEF Init
  <2>0. /\ calls \in 0..MaxCalls /\ live \subseteq 1..calls
        /\ active \subseteq 1..calls /\ sessions \subseteq 1..calls
        /\ configured \in [Connections -> 0..calls] /\ accepted \in [Connections -> 0..calls]
    BY <1>1 DEF Init
  <2>2. registered \in [Connections -> 0..calls] /\ bound \in [Call -> 0..calls]
    BY <1>1 DEF Init
  <2>3. host \in HostState /\ serving \in ServingState /\ requests \subseteq Request
    BY <1>4 DEF HostState, ServingState
  <2>4. bindings \in [Connections -> Binding]
    BY <1>2 DEF Init
  <2>5. /\ sending \in [Publications ->
                          {Idle} \cup [phase : {"sent"}, handle : Call, cb : Call]]
        /\ handling \in [Publications ->
                          {Idle} \cup [phase : {"slot", "authorised"}, cb : Call]]
    BY DEF Init
  <2> QED
    BY <2>0, <2>1, <2>2, <2>3, <2>4, <2>5 DEF Typed
<1>6. Queued
  BY <1>4 DEF Queued
<1>7. Fresh
  BY <1>2, <1>3, <1>4 DEF Fresh, InUse
<1>8. Bindings
  BY <1>2, <1>3 DEF Bindings
<1>9. Held
  BY <1>2, <1>3, <1>4 DEF Init, Held, Bound, Handles, Opened
<1>10. Asked /\ HostInv /\ Agreed
  BY <1>4 DEF Init, Asked, HostInv, Agreed, InForce, Left
<1>11. CommitsUnderAuthority
  BY DEF Init, CommitsUnderAuthority, Idle
<1> QED
  BY <1>5, <1>6, <1>7, <1>8, <1>9, <1>10, <1>11 DEF NInv, ChildInv

\* Every step of host, child and publications preserves the invariant.
LEMMA StepNInv == NInv /\ [Next]_vars => NInv'
<1> SUFFICES ASSUME NInv, [Next]_vars PROVE NInv'
  OBVIOUS
<1>1. CASE UNCHANGED vars
  BY <1>1, PublicationKeeps DEF vars, NInv, Typed, CommitsUnderAuthority, hostVars
<1>2. CASE Host
  BY <1>2, ConfigureFailsKeeps, ConfigureSucceedsKeeps, RevokeKeeps,
     CloseConnectionKeeps, CloseReturnsKeeps, CloseClientKeeps DEF Host
<1>3. CASE Child
  BY <1>3, RefusedKeeps, BeginsKeeps, AcceptsSameKeeps, AcceptsNewKeeps,
     RejectsKeeps, CloseBeginsKeeps, RevokeOldKeeps DEF Child
<1> QED
  BY <1>1, <1>2, <1>3, ConfigureKeeps, CancelKeeps, ExitKeeps, NoticeExitKeeps,
     PublishKeeps, TakeSlotKeeps, AuthoriseKeeps, AnswerKeeps DEF Next

\* The inductive invariant of a plugin session, whose calls the child may serve
\* in any order: each is served once, the callback of a waiting call is in no
\* use, the child's publishers and sessions are exactly those of its bindings
\* and of the call it serves, and host and child agree on a connection as long
\* as the call accepted last is the one that succeeded last (BackendClient,
\* rpcServer).
THEOREM NotificationsInvariance == Spec => []NInv
  BY InitNInv, StepNInv, PTL DEF Spec

\* Every value of the session and of the child is one of its type
\* (BackendClient, rpcServer).
THEOREM NotificationsTyped == Spec => []TypeOK
<1>1. NInv => TypeOK
  <2> SUFFICES ASSUME NInv PROVE TypeOK
    OBVIOUS
  <2>1. /\ calls \in 0..MaxCalls /\ ending \in BOOLEAN /\ exited \in BOOLEAN
        /\ live \subseteq 1..calls /\ active \subseteq 1..calls
        /\ registered \in [Connections -> 0..calls] /\ requests \subseteq Request
        /\ sessions \subseteq 1..calls /\ bound \in [Call -> 0..calls]
        /\ configured \in [Connections -> 0..calls]
        /\ accepted \in [Connections -> 0..calls]
    BY DEF NInv, Typed
  <2>2. host.phase \in {"idle", "waiting", "failed", "revoking", "closing", "ended"}
    BY DEF NInv, Typed, HostState, WaitsConfigure, WaitsClose, Idle
  <2>3. serving.phase \in {"idle", "handler", "revoking"}
    BY ServingForms DEF NInv
  <2>4. ASSUME NEW c \in Connections
        PROVE  /\ bindings[c].rev \in Revisions \cup {None}
               /\ bindings[c].session \in sessions \cup {0}
               /\ (bindings[c].session = 0) = (bindings[c].handle = 0)
    <3>1. bindings[c].rev \in Revisions \cup {None}
      BY DEF NInv, Typed, Binding
    <3>2. Opened \subseteq sessions
      BY ServingForms DEF NInv, ChildInv, Held
    <3> QED
      BY <3>1, <3>2 DEF Opened, NInv, ChildInv, Bindings
  <2>5. /\ \A p \in Publications : sending[p].phase \in {"idle", "sent"}
        /\ \A p \in Publications : handling[p].phase \in {"idle", "slot", "authorised"}
    BY DEF NInv, Typed, Idle
  <2> QED
    BY <2>1, <2>2, <2>3, <2>4, <2>5 DEF TypeOK
<1> QED
  BY <1>1, NotificationsInvariance, PTL

\* A publication that may still commit holds an authority that no revocation
\* has ended (connectionPublisher.Publish, revoke).
THEOREM CommitsAuthorised == Spec => []CommitsUnderAuthority
<1>1. NInv => CommitsUnderAuthority
  BY DEF NInv
<1> QED
  BY <1>1, NotificationsInvariance, PTL

\* While the call the child accepted last for a connection is the last one the
\* host saw succeed, the publisher the author holds leads to the callback the
\* host serves, and its authority is in force, whatever other calls are lost,
\* given up, rejected or still to be served, in any order
\* (BackendClient.Configure, rpcServer.Configure).
THEOREM PublisherStaysConnected == Spec => []PublisherConnected
<1>1. NInv => PublisherConnected
  <2> SUFFICES ASSUME NInv, NEW c \in Connections, configured[c] # 0,
                      accepted[c] = configured[c], registered[c] # 0, ~ending, ~exited
               PROVE  /\ registered[c] \in live \cap active
                      /\ bindings[c].session = registered[c]
                      /\ bound[bindings[c].handle] = registered[c]
    BY DEF PublisherConnected
  <2>1. registered[c] \in live \cap active /\ bindings[c].session = registered[c]
    BY DEF NInv, Agreed, InForce
  <2> QED
    BY <2>1 DEF NInv, ChildInv, Bindings
<1> QED
  BY <1>1, NotificationsInvariance, PTL

\* No callback server outlives the call or the registration it belongs to, and
\* none is left when the session has ended (BackendClient, Close).
THEOREM CallbacksStopped == Spec => []NoCallbackLeaked
<1>1. NInv => NoCallbackLeaked
  BY DEF NInv, HostInv, NoCallbackLeaked
<1> QED
  BY <1>1, NotificationsInvariance, PTL

\* Between two calls the child's publishers and callback connections are those
\* of its bindings: what a call replaced, rejected or closed is revoked
\* (rpcServer.Configure, CloseConnection, revokeAndClose).
THEOREM PublishersRevoked == Spec => []OldPublishersRevoked
<1>1. NInv => OldPublishersRevoked
  BY DEF NInv, ChildInv, Held, Bound, Handles, Opened, OldPublishersRevoked
<1> QED
  BY <1>1, NotificationsInvariance, PTL
-----------------------------------------------------------------------------
(***************************************************************************)
(* The supervisor, for every budget, window and health policy.               *)
(*                                                                         *)
(* The budget is counted in attempts, which forgets restarts: by pruning the *)
(* old ones and, after a long run, by dropping them all.  The invariant says *)
(* that only restarts older than the window are ever forgotten; for the      *)
(* long run this needs that no restart is later than readyAt.                *)
(***************************************************************************)
\* A child is out: started, and not yet closed.
Serving == pc \in {"running", "checking", "withdrawing", "closing"}

\* attempts holds every restart of the last window.
Remembered ==
  /\ IsFiniteSet(history) /\ attempts \subseteq history
  /\ \A h \in history : h <= clock
  /\ \A h \in history : h \in attempts \/ clock - h >= Window
  /\ Serving => readyAt <= clock /\ \A h \in history : h <= readyAt

\* Where the goroutine is determines which children are open and offered.
Owned ==
  /\ open = IF Serving THEN {child} ELSE {}
  /\ offered = IF Serving /\ pc # "closing" THEN {child} ELSE {}

\* failures stays below the limit while the child is watched.
Counting == pc \in {"running", "checking"} => failures < FailureLimit

\* The inductive invariant.
IInv == SupTypeOK /\ Counting /\ Remembered /\ RestartBudget /\ Owned
-----------------------------------------------------------------------------
\* Restart times up to t within the window before t.
WindowOf(S, t) == {h \in S : h <= t /\ t - h < Window}

\* A restart that Decide lets happen keeps every window within the budget.
LEMMA OneMoreRestart ==
  ASSUME SupTypeOK, Remembered, RestartBudget, Cardinality(Recent) < Budget,
         history' = history \cup {clock}
  PROVE  RestartBudget'
<1>1. SUFFICES ASSUME NEW t \in history'
               PROVE  Cardinality(WindowOf(history', t)) <= Budget
  BY DEF RestartBudget, WindowOf
<1>2. clock \in Nat /\ history \in SUBSET Nat /\ t \in Nat /\ attempts \in SUBSET Nat
  BY DEF SupTypeOK
<1>3. CASE t # clock
  <2>1. t \in history /\ t < clock
    BY <1>2, <1>3 DEF Remembered
  <2>2. WindowOf(history', t) = WindowOf(history, t)
    BY <1>2, <2>1 DEF WindowOf
  <2>3. QED
    BY <2>1, <2>2 DEF RestartBudget, WindowOf
<1>4. CASE t = clock
  <2>1. ASSUME NEW h \in WindowOf(history', t) PROVE h \in Recent \cup {clock}
    <3>1. h \in history \/ h = clock
      BY DEF WindowOf
    <3>2. CASE h \in history
      <4>1. h \in Nat /\ Window \in Nat /\ clock - h < Window
        BY <1>2, <1>4, <3>2, SupervisorAssumption DEF WindowOf
      <4>2. ~(clock - h >= Window)
        BY <1>2, <4>1
      <4>3. h \in attempts
        BY <3>2, <4>2 DEF Remembered
      <4>4. QED
        BY <4>1, <4>3 DEF Recent
    <3>3. QED
      BY <3>1, <3>2
  <2>2. IsFiniteSet(Recent)
    BY FS_Subset DEF Recent, Remembered
  <2>3. Cardinality(Recent) \in Nat
    BY <2>2, FS_CardinalityType
  <2>4. IsFiniteSet(Recent \cup {clock})
        /\ Cardinality(Recent \cup {clock}) <= Cardinality(Recent) + 1
    <3>1. /\ IsFiniteSet(Recent \cup {clock})
          /\ Cardinality(Recent \cup {clock}) =
               IF clock \in Recent THEN Cardinality(Recent) ELSE Cardinality(Recent) + 1
      BY <2>2, FS_AddElement
    <3>2. QED
      BY <2>3, <3>1
  <2>5. IsFiniteSet(WindowOf(history', t))
        /\ Cardinality(WindowOf(history', t)) <= Cardinality(Recent \cup {clock})
    BY <2>1, <2>4, FS_Subset
  <2>6. Cardinality(WindowOf(history', t)) \in Nat
        /\ Cardinality(Recent \cup {clock}) \in Nat
    BY <2>4, <2>5, FS_CardinalityType
  <2>7. QED
    BY <2>3, <2>4, <2>5, <2>6, SupervisorAssumption
<1>5. QED
  BY <1>3, <1>4

\* The supervisor starts with no child and no restart.
LEMMA InitInv == SupInit => IInv
<1> SUFFICES ASSUME SupInit PROVE IInv
  OBVIOUS
<1>0. 0 \in 0..FailureLimit
  BY SupervisorAssumption
<1>1. SupTypeOK /\ Counting
  BY <1>0 DEF SupInit, SupTypeOK, Counting
<1>2. Remembered
  BY FS_EmptySet DEF SupInit, Remembered, Serving
<1>3. RestartBudget /\ Owned
  BY DEF SupInit, RestartBudget, Owned, Serving
<1>4. QED
  BY <1>1, <1>2, <1>3 DEF IInv

\* What lies a window back stays a window back.
LEMMA LongAgo ==
  ASSUME NEW a \in Nat, NEW b \in Nat, b >= a, NEW h \in Nat, NEW w \in Nat,
         a - h >= w
  PROVE  b - h >= w
OBVIOUS

\* A step that makes no restart and forgets none keeps the budget, provided a
\* child that is started was started now.
LEMMA KeepsBudget ==
  ASSUME IInv, history' = history, attempts' = attempts,
         clock' \in Nat, clock' >= clock,
         \/ Serving /\ readyAt' = readyAt
         \/ readyAt' = clock /\ clock' = clock
         \/ ~Serving'
  PROVE  Remembered' /\ RestartBudget'
<1>1. RestartBudget'
  BY DEF IInv, RestartBudget
<1>2. clock \in Nat /\ readyAt \in Nat /\ history \in SUBSET Nat
  BY DEF IInv, SupTypeOK
<1>3. \A h \in history : h <= clock'
  BY <1>2 DEF IInv, Remembered
<1>4. ASSUME NEW h \in history, h \notin attempts PROVE clock' - h >= Window
  <2>1. h \in Nat /\ Window \in Nat /\ clock - h >= Window
    BY <1>2, <1>4, SupervisorAssumption DEF IInv, Remembered
  <2>2. QED
    BY <1>2, <2>1, LongAgo
<1>5. Serving' => readyAt' <= clock' /\ \A h \in history : h <= readyAt'
  BY <1>2 DEF IInv, Remembered
<1>6. QED
  BY <1>1, <1>3, <1>4, <1>5 DEF IInv, Remembered

\* Every step preserves the inductive invariant.
LEMMA StepInv == IInv /\ [SupNext]_supVars => IInv'
<1> SUFFICES ASSUME IInv, [SupNext]_supVars PROVE IInv'
  OBVIOUS
<1> SupTypeOK
  BY DEF IInv
<1>t. clock \in Nat /\ wake \in Nat /\ failures \in 0..FailureLimit /\ child \in Nat
      /\ FailureLimit \in Nat \ {0} /\ HealthTimeout \in Nat
  BY SupervisorAssumption DEF SupTypeOK
<1>1. CASE Loop
  <2>1. SupTypeOK' /\ Counting' /\ Owned'
    BY <1>1 DEF Loop, env, IInv, SupTypeOK, Counting, Owned, Serving
  <2>2. Remembered' /\ RestartBudget'
    BY <1>1, <1>t, KeepsBudget DEF Loop, env, Serving
  <2>3. QED
    BY <2>1, <2>2 DEF IInv
<1>2. CASE StartFails
  <2>1. SupTypeOK' /\ Counting' /\ Owned'
    BY <1>2 DEF StartFails, env, IInv, SupTypeOK, Counting, Owned, Serving
  <2>2. Remembered' /\ RestartBudget'
    BY <1>2, <1>t, KeepsBudget DEF StartFails, env, Serving
  <2>3. QED
    BY <2>1, <2>2 DEF IInv
<1>3. CASE Started
  <2>0. clock \in Nat /\ child + 1 \in Nat /\ 0 \in 0..FailureLimit
    BY <1>t
  <2>a. open' \in SUBSET Nat /\ offered' \in SUBSET Nat
    BY <1>3, <2>0 DEF Started, SupTypeOK
  <2>1. SupTypeOK'
    BY <1>3, <2>0, <2>a DEF Started, env, SupTypeOK
  <2>2. Counting' /\ Owned'
    BY <1>3, <1>t DEF Started, env, IInv, Counting, Owned, Serving
  <2>3. Remembered' /\ RestartBudget'
    BY <1>3, <1>t, KeepsBudget DEF Started, env
  <2>4. QED
    BY <2>1, <2>2, <2>3 DEF IInv
<1>4. CASE SeeCancel
  <2>1. SupTypeOK' /\ Counting' /\ Owned'
    BY <1>4 DEF SeeCancel, env, IInv, SupTypeOK, Counting, Owned, Serving
  <2>2. Remembered' /\ RestartBudget'
    BY <1>4, <1>t, KeepsBudget DEF SeeCancel, env, Serving
  <2>3. QED
    BY <2>1, <2>2 DEF IInv
<1>5. CASE ExitTick
  <2>1. SupTypeOK' /\ Counting' /\ Owned'
    BY <1>5 DEF ExitTick, env, IInv, SupTypeOK, Counting, Owned, Serving
  <2>2. Remembered' /\ RestartBudget'
    BY <1>5, <1>t, KeepsBudget DEF ExitTick, env, Serving
  <2>3. QED
    BY <2>1, <2>2 DEF IInv
<1>6. CASE HealthTick
  <2>0. clock + HealthTimeout \in Nat
    BY <1>t
  <2>1. SupTypeOK' /\ Counting' /\ Owned'
    BY <1>6, <2>0 DEF HealthTick, env, IInv, SupTypeOK, Counting, Owned, Serving
  <2>2. Remembered' /\ RestartBudget'
    BY <1>6, <1>t, KeepsBudget DEF HealthTick, env, Serving
  <2>3. QED
    BY <2>1, <2>2 DEF IInv
<1>7. ASSUME NEW ok \in BOOLEAN, Checked(ok) PROVE IInv'
  <2>1. failures < FailureLimit
    BY <1>7 DEF Checked, IInv, Counting
  <2>2. failures' \in 0..FailureLimit /\ checks' \in Nat
    BY <1>7, <1>t, <2>1 DEF Checked, Counted, SupTypeOK
  <2>3. SupTypeOK'
    BY <1>7, <2>2 DEF Checked, env, SupTypeOK
  <2>4. Counting'
    BY <1>7, <1>t, <2>2 DEF Checked, Counting
  <2>5. Owned'
    BY <1>7 DEF Checked, env, IInv, Owned, Serving
  <2>6. Remembered' /\ RestartBudget'
    BY <1>7, <1>t, KeepsBudget DEF Checked, env, Serving
  <2>7. QED
    BY <2>3, <2>4, <2>5, <2>6 DEF IInv
<1>8. CASE Withdraw
  <2>1. SupTypeOK'
    BY <1>8 DEF Withdraw, env, SupTypeOK
  <2>2. Counting' /\ Owned'
    BY <1>8 DEF Withdraw, env, IInv, Counting, Owned, Serving
  <2>3. Remembered' /\ RestartBudget'
    BY <1>8, <1>t, KeepsBudget DEF Withdraw, env, Serving
  <2>4. QED
    BY <2>1, <2>2, <2>3 DEF IInv
<1>9. CASE Close
  <2>1. SupTypeOK'
    BY <1>9 DEF Close, env, SupTypeOK
  <2>2. Counting' /\ Owned'
    BY <1>9 DEF Close, env, IInv, Counting, Owned, Serving
  <2>3. CASE attempts' = attempts
    <3>1. Remembered' /\ RestartBudget'
      BY <1>9, <1>t, <2>3, KeepsBudget DEF Close, env, Serving
    <3>2. QED
      BY <2>1, <2>2, <3>1 DEF IInv
  <2>4. CASE attempts' = {} /\ clock - readyAt >= Window
    <3>1. RestartBudget'
      BY <1>9 DEF Close, IInv, RestartBudget
    <3>2. \A h \in history : clock - h >= Window
      <4>1. readyAt \in Nat /\ history \in SUBSET Nat /\ \A h \in history : h <= readyAt
        BY <1>9 DEF Close, IInv, Remembered, Serving, SupTypeOK
      <4>2. QED
        BY <1>t, <2>4, <4>1, SupervisorAssumption
    <3>3. Remembered'
      BY <1>9, <2>4, <3>2 DEF Close, env, IInv, Remembered, Serving
    <3>4. QED
      BY <2>1, <2>2, <3>1, <3>3 DEF IInv
  <2>5. QED
    BY <1>9, <2>3, <2>4 DEF Close
<1>10. CASE Decide
  <2>1. Recent \in SUBSET attempts
    BY DEF Recent
  <2>2. Owned' /\ Counting'
    BY <1>10 DEF Decide, env, IInv, Owned, Counting, Serving
  <2>3. CASE history' = history /\ attempts' = attempts /\ wake' = wake
    <3>1. SupTypeOK'
      BY <1>10, <2>3 DEF Decide, env, SupTypeOK
    <3>2. Remembered' /\ RestartBudget'
      BY <1>10, <1>t, <2>3, KeepsBudget DEF Decide, env, Serving
    <3>3. QED
      BY <2>2, <3>1, <3>2 DEF IInv
  <2>4. \A h \in history : h \in Recent \/ clock - h >= Window
    <3>1. history \in SUBSET Nat
      BY DEF SupTypeOK
    <3>2. QED
      BY <1>t, <3>1, SupervisorAssumption DEF IInv, Remembered, Recent
  <2>5. CASE history' = history /\ attempts' = Recent /\ wake' = wake
    <3>1. SupTypeOK'
      BY <1>10, <2>1, <2>5 DEF Decide, env, SupTypeOK
    <3>2. RestartBudget'
      BY <2>5 DEF IInv, RestartBudget
    <3>3. Remembered'
      BY <1>10, <2>1, <2>4, <2>5 DEF Decide, env, IInv, Remembered, Serving
    <3>4. QED
      BY <2>2, <3>1, <3>2, <3>3 DEF IInv
  <2>6. CASE /\ Cardinality(Recent) < Budget /\ pc' = "backoff"
             /\ attempts' = Recent \cup {clock}
             /\ wake' = clock + 2^Cardinality(Recent)
             /\ history' = history \cup {clock}
    <3>1. wake' \in Nat
      <4>1. IsFiniteSet(Recent)
        BY <2>1, FS_Subset DEF IInv, Remembered
      <4>2. Cardinality(Recent) \in Nat
        BY <4>1, FS_CardinalityType
      <4>a. Cardinality(Recent) \in 0..Budget
        BY <4>2, <2>6, SupervisorAssumption
      <4>3. 2^Cardinality(Recent) \in Nat
        BY <4>a, SupervisorAssumption
      <4>4. QED
        BY <1>t, <2>6, <4>3
    <3>2. SupTypeOK'
      BY <1>10, <1>t, <2>1, <2>6, <3>1 DEF Decide, env, SupTypeOK
    <3>3. RestartBudget'
      BY <2>6, OneMoreRestart DEF IInv
    <3>4. IsFiniteSet(history')
      BY <2>6, FS_AddElement DEF IInv, Remembered
    <3>5. clock' = clock /\ ~Serving'
      BY <1>10, <2>6 DEF Decide, env, Serving
    <3>6. \A h \in history' : h <= clock
      BY <1>t, <2>6 DEF IInv, Remembered
    <3>7. Remembered'
      BY <2>1, <2>4, <2>6, <3>4, <3>5, <3>6 DEF IInv, Remembered
    <3>8. QED
      BY <2>2, <3>2, <3>3, <3>7 DEF IInv
  <2>7. QED
    BY <1>10, <2>3, <2>5, <2>6 DEF Decide
<1>11. CASE Backoff
  <2>1. SupTypeOK' /\ Counting' /\ Owned'
    BY <1>11 DEF Backoff, env, IInv, SupTypeOK, Counting, Owned, Serving
  <2>2. Remembered' /\ RestartBudget'
    BY <1>11, <1>t, KeepsBudget DEF Backoff, env, Serving
  <2>3. QED
    BY <2>1, <2>2 DEF IInv
<1>12. CASE CancelContext \/ ChildStops \/ UNCHANGED supVars
  <2>0. /\ cancelled' \in BOOLEAN /\ childExited' \in BOOLEAN
        /\ UNCHANGED <<clock, pc, state, attempts, readyAt, failures, wake, exitTick,
                       healthTick, child, open, offered, history, checks>>
    BY <1>12 DEF CancelContext, ChildStops, supVars, env, SupTypeOK
  <2>1. SupTypeOK' /\ Counting' /\ Owned'
    BY <2>0 DEF IInv, SupTypeOK, Counting, Owned, Serving
  <2>2. Remembered' /\ RestartBudget'
    BY <2>0, <1>t, KeepsBudget DEF Serving
  <2>3. QED
    BY <2>1, <2>2 DEF IInv
<1>13. CASE Tick
  <2>1. exitTick' \in BOOLEAN /\ healthTick' \in BOOLEAN
    BY <1>13 DEF Tick, SupTypeOK
  <2>2. clock' \in Nat /\ clock' >= clock
    BY <1>13, <1>t DEF Tick
  <2>3. SupTypeOK'
    BY <1>13, <2>1, <2>2 DEF Tick, SupTypeOK
  <2>4. Counting' /\ Owned'
    BY <1>13 DEF Tick, IInv, Counting, Owned, Serving
  <2>5. Remembered' /\ RestartBudget'
    BY <1>13, <2>2, KeepsBudget DEF Tick, Serving
  <2>6. QED
    BY <2>3, <2>4, <2>5 DEF IInv
<1>14. QED
  BY <1>1, <1>2, <1>3, <1>4, <1>5, <1>6, <1>7, <1>8, <1>9, <1>10, <1>11, <1>12,
     <1>13 DEF SupNext, Goroutine
-----------------------------------------------------------------------------
\* The inductive invariant holds in every reachable state.
THEOREM SupervisorInvariance == SupSpec => []IInv
BY InitInv, StepInv, PTL DEF SupSpec

\* The variables of Supervise keep their types, failures its bound.
THEOREM SupervisorTyped == SupSpec => []SupTypeOK
<1>1. IInv => SupTypeOK
  BY DEF IInv
<1>2. QED
  BY <1>1, SupervisorInvariance, PTL

\* Whatever the children do, no window holds more than Budget restarts.
THEOREM BudgetKept == SupSpec => []RestartBudget
<1>1. IInv => RestartBudget
  BY DEF IInv
<1>2. QED
  BY <1>1, SupervisorInvariance, PTL

\* Supervise never has two children open and leaves none behind.
THEOREM ChildOwned == SupSpec => []OneChild
<1>1. IInv => OneChild
  BY DEF IInv, Owned, OneChild, Serving
<1>2. QED
  BY <1>1, SupervisorInvariance, PTL

\* The counter the code keeps is the number of failed checks in a row: it is
\* reset by a success and by every new child.
LEMMA CountedRight == SupSpec => [](failures = checks)
<1>1. SupInit => failures = checks
  BY DEF SupInit
<1>2. ASSUME failures = checks, [SupNext]_supVars PROVE (failures = checks)'
  <2>1. CASE \E ok \in BOOLEAN : Checked(ok)
    BY <1>2, <2>1 DEF Checked, Counted
  <2>2. CASE Loop \/ StartFails \/ Started \/ SeeCancel \/ ExitTick \/ HealthTick
    BY <1>2, <2>2 DEF Loop, StartFails, Started, SeeCancel, ExitTick, HealthTick
  <2>3. CASE Withdraw \/ Close \/ Decide \/ Backoff \/ CancelContext \/ ChildStops \/ Tick
    BY <1>2, <2>3 DEF Withdraw, Close, Decide, Backoff, CancelContext, ChildStops, Tick
  <2>4. CASE UNCHANGED supVars
    BY <1>2, <2>4 DEF supVars
  <2>5. QED
    BY <1>2, <2>1, <2>2, <2>3, <2>4 DEF SupNext, Goroutine
<1>3. QED
  BY <1>1, <1>2, PTL DEF SupSpec

\* Supervise gives a child up only when it has exited, has failed FailureLimit
\* health checks in a row, or is no longer wanted.
THEOREM GivenUpFailed == SupSpec => OnlyFailedStopped
<1>1. ASSUME SupTypeOK, failures = checks, [SupNext]_supVars,
             pc \in {"running", "checking"}, pc' = "withdrawing"
      PROVE  childExited \/ checks' >= FailureLimit \/ cancelled
  <2>1. PICK ok \in BOOLEAN : \/ SeeCancel \/ ExitTick \/ Checked(ok)
    BY <1>1 DEF SupNext, Goroutine, Loop, StartFails, Started, HealthTick, Withdraw,
                Close, Decide, Backoff, CancelContext, ChildStops, Tick, supVars
  <2>2. CASE SeeCancel \/ ExitTick
    BY <1>1, <2>2 DEF SeeCancel, ExitTick
  <2>3. CASE Checked(ok)
    <3>1. failures' = checks'
      BY <1>1, <2>3 DEF Checked, Counted
    <3>2. failures' >= FailureLimit
      BY <1>1, <2>3 DEF Checked
    <3>3. QED
      BY <3>1, <3>2
  <2>4. QED
    BY <2>1, <2>2, <2>3
<1>2. QED
  BY <1>1, SupervisorTyped, CountedRight, PTL DEF SupSpec, OnlyFailedStopped

\* Supervise starts no child once its context is cancelled, but for the one it
\* is starting.
THEOREM NoLateStart == SupSpec => NoStartAfterCancel
<1>1. ASSUME [SupNext]_supVars, cancelled, pc' = "starting" PROVE pc = "starting"
  BY <1>1 DEF SupNext, Goroutine, Loop, StartFails, Started, SeeCancel, ExitTick,
              HealthTick, Checked, Withdraw, Close, Decide, Backoff, CancelContext,
              ChildStops, Tick, supVars
<1>2. QED
  BY <1>1, PTL DEF SupSpec, NoStartAfterCancel
=============================================================================
