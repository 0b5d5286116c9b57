------------------------- MODULE PluginNotifications -------------------------
(***************************************************************************)
(* How a plugin backend is given, and loses, the authority to publish        *)
(* notifications: the host's session (internal/adapters/plugins), its        *)
(* BackendClient and the child's rpcServer (plugin-sdk/runtime), for one      *)
(* child process.                                                            *)
(*                                                                         *)
(* Each Configure that grants publication starts a callback server on the    *)
(* host, guarded by a connectionPublisher, and the child binds the publisher *)
(* object its author code holds to it.  Call number n names the callback,    *)
(* the connectionPublisher and the publisher object that call n created; 0   *)
(* is none.  The host may configure a connection again, give up on a call    *)
(* the child still works on, and end the session at any time; the child may  *)
(* exit at any time; publications run concurrently with all of it.           *)
(*                                                                         *)
(* A read lock is held by the publications that name it; a writer's step is  *)
(* guarded by there being none, and a waiting writer keeps new readers out.  *)
(***************************************************************************)
EXTENDS Integers, FiniteSets

CONSTANTS Connections, Revisions,
          None,           \* no revision
          Publications,   \* publications that may be under way at once
          MaxConcurrent,  \* notifications.MaxConcurrent, slots of a callback
          MaxCalls        \* bound on Configure calls

ASSUME PluginNotificationsAssumption ==
  /\ None \notin Revisions
  /\ MaxConcurrent \in Nat \ {0} /\ MaxCalls \in Nat

VARIABLES calls,       \* Configure calls so far
          ending,      \* the session's context is cancelled
          exited,      \* the child process is gone
          host,        \* what the session goroutine is doing
          live,        \* callbacks being served
          registered,  \* notificationCallbacks, by connection
          active,      \* connectionPublishers not revoked
          requests,    \* calls that wait for notificationConfigureMu
          serving,     \* the call that holds it
          bindings,    \* notificationBindings, by connection
          sessions,    \* callbacks the child has a connection to
          bound,       \* the publisher in each rebindable publisher; 0: revoked
          sending,     \* publications, in the child: handle and callback
          handling,    \* publications, in the host: callback and phase
          configured,  \* history: the last Configure of each connection the
                       \* host saw succeed; 0: none
          accepted     \* history: the last one the child accepted

hostVars == <<calls, host, live, registered, active, configured>>
childVars == <<requests, serving, bindings, sessions, bound, accepted>>
vars == <<hostVars, childVars, ending, exited, sending, handling>>

Call == 1..MaxCalls
Request == [kind : {"configure", "close"}, call : 0..MaxCalls,
            conn : Connections, rev : Revisions \cup {None}, cb : 0..MaxCalls]
Idle == [phase |-> "idle"]
NoBinding == [rev |-> None, session |-> 0, handle |-> 0]

TypeOK ==
  /\ calls \in 0..MaxCalls /\ ending \in BOOLEAN /\ exited \in BOOLEAN
  /\ host.phase \in {"idle", "waiting", "failed", "revoking", "closing", "ended"}
  /\ live \subseteq 1..calls /\ active \subseteq 1..calls
  /\ registered \in [Connections -> 0..calls]
  /\ requests \subseteq Request
  /\ serving.phase \in {"idle", "handler", "revoking"}
  /\ \A c \in Connections :
       /\ bindings[c].rev \in Revisions \cup {None}
       /\ bindings[c].session \in sessions \cup {0}
       /\ (bindings[c].session = 0) = (bindings[c].handle = 0)
  /\ sessions \subseteq 1..calls
  /\ bound \in [Call -> 0..calls]
  /\ \A p \in Publications : sending[p].phase \in {"idle", "sent"}
  /\ \A p \in Publications : handling[p].phase \in {"idle", "slot", "authorised"}
  /\ configured \in [Connections -> 0..calls]
  /\ accepted \in [Connections -> 0..calls]

Init ==
  /\ calls = 0 /\ ending = FALSE /\ exited = FALSE
  /\ host = Idle
  /\ live = {} /\ active = {} /\ sessions = {}
  /\ registered = [c \in Connections |-> 0]
  /\ configured = [c \in Connections |-> 0]
  /\ accepted = [c \in Connections |-> 0]
  /\ requests = {}
  /\ serving = Idle
  /\ bindings = [c \in Connections |-> NoBinding]
  /\ bound = [h \in Call |-> 0]
  /\ sending = [p \in Publications |-> Idle]
  /\ handling = [p \in Publications |-> Idle]
-----------------------------------------------------------------------------
(***************************************************************************)
(* The host: Runtime.session and BackendClient.                             *)
(***************************************************************************)

\* Configure starts the callback before it calls the child.  A child that is
\* known to be gone is refused one.
Configure(c, rev, grant) ==
  /\ host = Idle /\ ~ending /\ calls < MaxCalls
  /\ ~(grant /\ exited)
  /\ calls' = calls + 1
  /\ LET cb == IF grant THEN calls' ELSE 0
         r == [kind |-> "configure", call |-> calls', conn |-> c, rev |-> rev, cb |-> cb]
     IN /\ live' = live \cup ({cb} \ {0})
        /\ active' = active \cup ({cb} \ {0})
        /\ host' = [phase |-> "waiting", req |-> r, answer |-> "none"]
        /\ requests' = IF exited THEN requests ELSE requests \cup {r}
  /\ UNCHANGED <<ending, exited, registered, configured, serving, bindings,
                 sessions, bound, accepted, sending, handling>>

\* The call fails, times out, is cancelled or returns an invalid status: the
\* new callback is stopped, whatever the child has made of the call.
ConfigureFails ==
  /\ host.phase = "waiting" /\ host.req.kind = "configure"
  /\ live' = live \ {host.req.cb}
  /\ host' = [phase |-> "failed", cb |-> host.req.cb]
  /\ UNCHANGED <<calls, registered, active, configured, childVars, ending,
                 exited, sending, handling>>

ReplaceKeepingOld(c, cb) ==  \* Fault: the replaced callback is not stopped.
  /\ registered' = [registered EXCEPT ![c] = cb]
  /\ UNCHANGED live

\* The new callback replaces the registered one, which is stopped.
Replace(c, cb) ==
  /\ registered' = [registered EXCEPT ![c] = cb]
  /\ live' = live \ {registered[c]}

ConfigureSucceeds ==
  /\ host.phase = "waiting" /\ host.req.kind = "configure" /\ host.answer = "ok"
  /\ Replace(host.req.conn, host.req.cb)
  /\ \/ /\ host' = Idle
        /\ configured' = [configured EXCEPT ![host.req.conn] = host.req.call]
     \/ \* the status names another connection or revision
        /\ host' = [phase |-> "failed", cb |-> host.req.cb]
        /\ UNCHANGED configured
  /\ UNCHANGED <<calls, active, childVars, ending, exited, sending, handling>>

CanRevokeAtOnce(cb) == TRUE  \* Fault: it does not wait.

\* connectionPublisher.revoke waits for the publications that hold the lock.
CanRevoke(cb) ==
  \A p \in Publications :
    handling[p].phase = "authorised" => handling[p].cb # cb

\* The session revokes the authority of a failed Configure.
RevokeFailed ==
  /\ host.phase = "failed" /\ CanRevoke(host.cb)
  /\ active' = active \ {host.cb}
  /\ host' = Idle
  /\ UNCHANGED <<calls, live, registered, configured, childVars, ending, exited,
                 sending, handling>>

\* The supervisor withdraws the child, or the API shuts down.
Cancel ==
  /\ ~ending /\ ending' = TRUE
  /\ UNCHANGED <<hostVars, childVars, exited, sending, handling>>

\* The session's deferred calls: revoke every publisher, close every
\* connection at the child, and then Close.
BeginRevoking ==
  /\ host = Idle /\ ending
  /\ host' = [phase |-> "revoking"]
  /\ UNCHANGED <<calls, live, registered, active, configured, childVars, ending,
                 exited, sending, handling>>

Revoke(cb) ==
  /\ host.phase = "revoking" /\ cb \in active /\ CanRevoke(cb)
  /\ active' = active \ {cb}
  /\ UNCHANGED <<calls, host, live, registered, configured, childVars, ending,
                 exited, sending, handling>>

CloseConnection(c) ==
  /\ \/ host.phase = "revoking" /\ active = {}
     \/ host.phase = "closing" /\ c \notin host.closed
  /\ LET r == [kind |-> "close", call |-> 0, conn |-> c, rev |-> None, cb |-> 0]
         closed == IF host.phase = "closing" THEN host.closed ELSE {}
     IN /\ host' = [phase |-> "waiting", req |-> r, answer |-> "none",
                    closed |-> closed \cup {c}]
        /\ requests' = IF exited THEN requests ELSE requests \cup {r}
  /\ UNCHANGED <<calls, live, registered, active, configured, serving, bindings,
                 sessions, bound, accepted, ending, exited, sending, handling>>

CloseReturnsAnswered ==  \* Fault: no deadline on the call.
  /\ host.phase = "waiting" /\ host.req.kind = "close" /\ host.answer # "none"
  /\ Replace(host.req.conn, 0)
  /\ host' = [phase |-> "closing", closed |-> host.closed]
  /\ UNCHANGED <<calls, active, configured, childVars, ending, exited, sending,
                 handling>>

\* The child has answered, or the second has passed: either way the callback
\* is stopped.
CloseReturns ==
  /\ host.phase = "waiting" /\ host.req.kind = "close"
  /\ Replace(host.req.conn, 0)
  /\ host' = [phase |-> "closing", closed |-> host.closed]
  /\ UNCHANGED <<calls, active, configured, childVars, ending, exited, sending,
                 handling>>

\* What is left of the child once its process is gone.
Dead ==
  /\ exited' = TRUE
  /\ requests' = {} /\ serving' = Idle /\ sessions' = {}
  /\ bindings' = [c \in Connections |-> NoBinding]
  /\ bound' = [h \in Call |-> 0]
  /\ accepted' = [c \in Connections |-> 0]
  /\ sending' = [p \in Publications |-> Idle]

\* BackendClient.Close: callbacks stopped, the child shut down and killed.
CloseClient ==
  /\ host.phase = "closing" /\ host.closed = Connections
  /\ host' = [phase |-> "ended"]
  /\ live' = live \ {registered[c] : c \in Connections}
  /\ registered' = [c \in Connections |-> 0]
  /\ Dead
  /\ UNCHANGED <<calls, active, configured, ending, handling>>

ChildExits ==
  /\ ~exited
  /\ Dead
  /\ UNCHANGED <<hostVars, ending, handling>>

\* monitorBackendExit, and everyone who asks Exited(), stop the callbacks.
NoticeExit ==
  /\ exited /\ \E c \in Connections : registered[c] # 0
  /\ live' = live \ {registered[c] : c \in Connections}
  /\ registered' = [c \in Connections |-> 0]
  /\ UNCHANGED <<calls, host, active, configured, childVars, ending, exited,
                 sending, handling>>
-----------------------------------------------------------------------------
(***************************************************************************)
(* The child: rpcServer, one call at a time under notificationConfigureMu.   *)
(* Each call has a goroutine of its own, and one the host has given up on    *)
(* waits on: whichever call waits may be the next to lock the mutex.         *)
(***************************************************************************)
Answered(req, answer) ==
  IF host.phase = "waiting" /\ host.req.kind = req.kind /\ host.req.call = req.call
     /\ host.req.conn = req.conn
    THEN [host EXCEPT !.answer = answer] ELSE host

\* rebindableNotificationPublisher's write lock.
Unlocked(h) ==
  \A p \in Publications : sending[p].phase = "sent" => sending[p].handle # h

SameConfiguration(b, req) == b.rev = req.rev /\ (b.session # 0) = (req.cb # 0)

\* Invalid requests, undeclared capabilities and sessions that cannot be opened
\* are refused.
ConfigureRefused ==
  /\ serving = Idle
  /\ \E req \in requests : /\ req.kind = "configure"
                           /\ requests' = requests \ {req}
                           /\ host' = Answered(req, "err")
  /\ UNCHANGED <<calls, live, registered, active, configured, serving, bindings,
                 sessions, bound, accepted, ending, exited, sending, handling>>

\* The session is opened and the author's handler is called, with the publisher
\* it already has or with a new one.  A session to a callback that was stopped
\* may open too: it connects when it is used.
ConfigureBegins ==
  /\ serving = Idle
  /\ \E req \in requests :
       LET same == SameConfiguration(bindings[req.conn], req)
       IN /\ req.kind = "configure"
          /\ requests' = requests \ {req}
          /\ sessions' = sessions \cup ({req.cb} \ {0})
          /\ serving' = [phase |-> "handler", req |-> req, same |-> same]
          /\ bound' = IF same \/ req.cb = 0 THEN bound
                                            ELSE [bound EXCEPT ![req.cb] = req.cb]
  /\ UNCHANGED <<hostVars, bindings, accepted, ending, exited, sending, handling>>

RebindNot(c, b, cb) ==  \* Fault: the new session is not used.
  /\ bindings' = [bindings EXCEPT ![c].session = cb]
  /\ sessions' = (sessions \ {b.session}) \cup {cb}
  /\ UNCHANGED bound

\* A repeated configuration: the author's publisher is rebound, and the session
\* it used is closed.
Rebind(c, b, cb) ==
  /\ Unlocked(b.handle)
  /\ bound' = [bound EXCEPT ![b.handle] = cb]
  /\ bindings' = [bindings EXCEPT ![c].session = cb]
  /\ sessions' = sessions \ {b.session}

HandlerAcceptsSame ==
  /\ serving.phase = "handler" /\ serving.same
  /\ LET req == serving.req IN
       /\ IF req.cb # 0 THEN Rebind(req.conn, bindings[req.conn], req.cb)
                        ELSE UNCHANGED <<bindings, sessions, bound>>
       /\ accepted' = [accepted EXCEPT ![req.conn] = req.call]
       /\ host' = Answered(req, "ok")
  /\ serving' = Idle
  /\ UNCHANGED <<calls, live, registered, active, configured, requests, ending,
                 exited, sending, handling>>

\* A new configuration replaces the binding; the old one is then revoked.
HandlerAcceptsNew ==
  /\ serving.phase = "handler" /\ ~serving.same
  /\ LET req == serving.req
         old == bindings[req.conn] IN
       /\ bindings' = [bindings EXCEPT ![req.conn] =
                         [rev |-> req.rev, session |-> req.cb, handle |-> req.cb]]
       /\ accepted' = [accepted EXCEPT ![req.conn] = req.call]
       /\ serving' = [phase |-> "revoking", req |-> req, answer |-> "ok",
                      handle |-> old.handle, session |-> old.session]
  /\ UNCHANGED <<hostVars, requests, sessions, bound, ending, exited, sending,
                 handling>>

\* A rejected one closes the session it opened, and revokes a new publisher.
HandlerRejects ==
  /\ serving.phase = "handler"
  /\ LET req == serving.req IN
       serving' = [phase |-> "revoking", req |-> req, answer |-> "err",
                   handle |-> IF serving.same THEN 0 ELSE req.cb,
                   session |-> req.cb]
  /\ UNCHANGED <<hostVars, requests, bindings, sessions, bound, accepted, ending,
                 exited, sending, handling>>

CloseBegins ==
  /\ serving = Idle
  /\ \E req \in requests :
       LET old == bindings[req.conn]
       IN /\ req.kind = "close"
          /\ requests' = requests \ {req}
          /\ bindings' = [bindings EXCEPT ![req.conn] = NoBinding]
          /\ serving' = [phase |-> "revoking", req |-> req, answer |-> "ok",
                         handle |-> old.handle, session |-> old.session]
  /\ UNCHANGED <<hostVars, sessions, bound, accepted, ending, exited, sending,
                 handling>>

ForgetSession(handle, session) ==  \* Fault: the publisher is not revoked.
  /\ sessions' = sessions \ {session}
  /\ UNCHANGED bound

\* The publisher's write lock is taken before its session is closed.
RevokeAndClose(handle, session) ==
  /\ handle = 0 \/ Unlocked(handle)
  /\ bound' = IF handle = 0 THEN bound ELSE [bound EXCEPT ![handle] = 0]
  /\ sessions' = sessions \ {session}

\* The call ends with revokeAndClose and is answered.
RevokeOld ==
  /\ serving.phase = "revoking"
  /\ RevokeAndClose(serving.handle, serving.session)
  /\ host' = Answered(serving.req, serving.answer)
  /\ serving' = Idle
  /\ UNCHANGED <<calls, live, registered, active, configured, requests, bindings,
                 accepted, ending, exited, sending, handling>>
-----------------------------------------------------------------------------
(***************************************************************************)
(* A publication: the author's publisher, the callback, the authority.      *)
(***************************************************************************)

\* A writer waits for the lock of publisher h.
WriterWaits(h) ==
  \/ serving.phase = "revoking" /\ serving.handle = h
  \/ serving.phase = "handler" /\ serving.same /\ bindings[serving.req.conn].handle = h

\* A revoked publisher is refused at once.
Publish(p, h) ==
  /\ sending[p] = Idle /\ handling[p] = Idle
  /\ bound[h] # 0 /\ ~WriterWaits(h)
  /\ sending' = [sending EXCEPT ![p] = [phase |-> "sent", handle |-> h, cb |-> bound[h]]]
  /\ UNCHANGED <<hostVars, childVars, ending, exited, handling>>

InSlot(cb) == {p \in Publications : handling[p].phase # "idle" /\ handling[p].cb = cb}

\* backendHostServer.Publish takes a slot; without one it is refused.
TakeSlot(p) ==
  /\ sending[p].phase = "sent" /\ handling[p] = Idle
  /\ sending[p].cb \in live
  /\ Cardinality(InSlot(sending[p].cb)) < MaxConcurrent
  /\ handling' = [handling EXCEPT ![p] = [phase |-> "slot", cb |-> sending[p].cb]]
  /\ UNCHANGED <<hostVars, childVars, ending, exited, sending>>

\* connectionPublisher.Publish checks the authority under its read lock.
Authorise(p) ==
  /\ handling[p].phase = "slot"
  /\ handling[p].cb \in active /\ ~ending
  /\ ~(host.phase = "failed" /\ host.cb = handling[p].cb)
  /\ handling' = [handling EXCEPT ![p].phase = "authorised"]
  /\ UNCHANGED <<hostVars, childVars, ending, exited, sending>>

\* The inbox commits and the lock is released, or the call is refused or fails.
\* The child may or may not still be waiting for the answer.
Respond(p) ==
  /\ handling[p] # Idle
  /\ handling' = [handling EXCEPT ![p] = Idle]
  /\ sending' = [sending EXCEPT ![p] = Idle]
  /\ UNCHANGED <<hostVars, childVars, ending, exited>>

\* The child gives up waiting, or its callback is gone; the host may go on.
GiveUp(p) ==
  /\ sending[p].phase = "sent"
  /\ sending' = [sending EXCEPT ![p] = Idle]
  /\ UNCHANGED <<hostVars, childVars, ending, exited, handling>>
-----------------------------------------------------------------------------
Host ==
  \/ ConfigureFails \/ ConfigureSucceeds \/ RevokeFailed
  \/ BeginRevoking \/ (\E cb \in Call : Revoke(cb))
  \/ (\E c \in Connections : CloseConnection(c)) \/ CloseReturns \/ CloseClient

Child ==
  \/ ConfigureRefused \/ ConfigureBegins \/ HandlerAcceptsSame
  \/ HandlerAcceptsNew \/ HandlerRejects \/ CloseBegins \/ RevokeOld

Next ==
  \/ \E c \in Connections, rev \in Revisions, grant \in BOOLEAN : Configure(c, rev, grant)
  \/ Host \/ Child \/ Cancel \/ ChildExits \/ NoticeExit
  \/ \E p \in Publications : \/ \E h \in Call : Publish(p, h)
                             \/ TakeSlot(p) \/ Authorise(p) \/ Respond(p) \/ GiveUp(p)

Spec == Init /\ [][Next]_vars

\* Every call has a deadline, so the host's calls and the publications end.
FairSpec ==
  /\ Spec /\ WF_hostVars(Host)
  /\ \A p \in Publications : WF_handling(Respond(p))
-----------------------------------------------------------------------------
(***************************************************************************)
(* Properties.                                                              *)
(***************************************************************************)

\* "Revocation waits for earlier publications, then prevents every later
\* call": a publication that can still commit holds an authority in force.
CommitsUnderAuthority ==
  \A p \in Publications :
    handling[p].phase = "authorised" => handling[p].cb \in active

\* "a handler that retained the original interface survives a lost Configure
\* response": while the last call the child accepted for a connection is the
\* last one the host saw succeed, the publisher the author holds leads to the
\* callback the host serves, with its authority in force - whatever calls were
\* lost or given up before or since, and in whatever order the child rejects or
\* still has to serve them.  It claims nothing once a call given up on is
\* accepted after that success: the code lets such a call take the binding over.
PublisherConnected ==
  \A c \in Connections :
    (/\ configured[c] # 0 /\ accepted[c] = configured[c] /\ registered[c] # 0
     /\ ~ending /\ ~exited)
    => /\ registered[c] \in live \cap active
       /\ bindings[c].session = registered[c]
       /\ bound[bindings[c].handle] = registered[c]

\* "The callback ... is revoked on replacement, CloseConnection, child exit or
\* Close": every callback served is registered or belongs to the call under
\* way, and none is left when the session has ended.
NoCallbackLeaked ==
  /\ live \subseteq {registered[c] : c \in Connections}
                    \cup (IF host.phase = "waiting" THEN {host.req.cb} ELSE {})
  /\ host.phase = "ended" => live = {} /\ active = {}

\* Only the publisher of the configuration in force works: one that was
\* replaced, rejected or closed stays revoked, and its connection closed.
OldPublishersRevoked ==
  serving = Idle =>
    /\ {h \in Call : bound[h] # 0} = {bindings[c].handle : c \in Connections} \ {0}
    /\ sessions = {bindings[c].session : c \in Connections} \ {0}

\* A cancelled session ends, though publications and the child may be slow.
SessionEnds == ending ~> (host.phase = "ended")
=============================================================================
