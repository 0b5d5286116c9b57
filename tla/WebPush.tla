------------------------------- MODULE WebPush -------------------------------
(***************************************************************************)
(* The durable Web Push queue: internal/application/webpush (Service) over   *)
(* internal/adapters/sqlite (WebPushStore), the insert trigger and foreign   *)
(* keys of migration 17, and the workers of the API replicas that share the   *)
(* database.                                                                 *)
(*                                                                         *)
(* A transaction is one step.  A worker claims a job, sends it outside any    *)
(* transaction and reports the result in another one, so a report may come    *)
(* after the lease has run out, after another replica has claimed the job,    *)
(* and after the browser has registered anew.  Clock readings taken before    *)
(* a transaction may be MaxLag old.  Statuses are grouped by what Complete    *)
(* does with them: "ok" (2xx), "gone" (404, 410), "reject" (the other 4xx     *)
(* but 408 and 429), "retry" (everything else, transport errors included).    *)
(***************************************************************************)
EXTENDS Integers, FiniteSets, Functions

CONSTANTS Browsers,          \* subscription IDs (hashes of browser tokens)
          Endpoints,         \* push endpoints
          Secrets,           \* p256dh and auth of a registration
          Messages,          \* notifications
          Replicas,          \* API processes, each with one worker
          VapidKeys,         \* public keys a replica may be configured with
          MaxSubscriptions,  \* 128
          MaxAttempts,       \* 8
          Lease,             \* one minute
          SendTimeout,       \* ten seconds
          BackoffUnit,       \* one minute
          JobLifetime,       \* 24 hours
          Renewal,           \* 90 days
          MaxLag,            \* bound: how stale a clock reading may be
          MaxClock,          \* bound on the clock
          MaxFaults          \* bound on lost reports and restarts

ASSUME PushAssumption ==
  /\ MaxSubscriptions \in Nat /\ MaxAttempts \in Nat \ {0}
  /\ Lease \in Nat /\ SendTimeout \in Nat /\ MaxLag \in Nat
  /\ BackoffUnit \in Nat \ {0}
  /\ JobLifetime \in Nat \ {0} /\ Renewal \in Nat \ {0}
  /\ MaxClock \in Nat /\ MaxFaults \in Nat
  /\ SendTimeout + MaxLag < Lease

VARIABLES clock,
          publicKey, enabled,  \* web_push_state
          subs,      \* web_push_subscriptions, by ID
          inbox,     \* notifications: "absent", "unread", "read" or "removed"
          jobs,      \* web_push_deliveries, by subscription and notification
          running,   \* whether a replica was configured with a key
          work,      \* what each replica's worker is doing
          dead,      \* registrations the push service has dropped
          answers,   \* history: the statuses received for a job
          faults     \* restarts and lost reports so far

db == <<publicKey, enabled, subs, inbox, jobs>>
vars == <<clock, db, running, work, dead, answers, faults>>

Registration == Endpoints \X Secrets
Job == Browsers \X Messages
Status == {"ok", "gone", "reject", "retry"}

Sub == [reg : Registration, expires : Nat]
\* "for" is history: the registration that was current on publication.
Delivery == [attempts : Nat, next : Nat, lease : Nat, expires : Nat,
             for : Registration]
Idle == [phase |-> "idle"]
Sending == [phase : {"sending"}, job : Job, reg : Registration,
            attempts : Nat, since : Nat]
Reporting == [phase : {"reporting"}, job : Job, reg : Registration,
              attempts : Nat, status : Status]

PartialFunctions(D, R) == UNION {[S -> R] : S \in SUBSET D}

TypeOK ==
  /\ clock \in Nat
  /\ publicKey \in VapidKeys /\ enabled \in BOOLEAN
  /\ DOMAIN subs \subseteq Browsers
  /\ \A b \in DOMAIN subs : subs[b] \in Sub
  /\ inbox \in [Messages -> {"absent", "unread", "read", "removed"}]
  /\ DOMAIN jobs \subseteq (DOMAIN subs) \X Messages
  /\ \A j \in DOMAIN jobs :
       jobs[j] \in Delivery /\ inbox[j[2]] \in {"unread", "read"}
  /\ running \in [Replicas -> BOOLEAN]
  /\ work \in [Replicas -> {Idle} \cup Sending \cup Reporting]
  /\ dead \subseteq Registration
  /\ answers \subseteq Job \X Status
  /\ faults \in Nat
-----------------------------------------------------------------------------
\* All replicas have started with one key and nobody has subscribed.
Init ==
  /\ clock = 0
  /\ publicKey \in VapidKeys /\ enabled = TRUE
  /\ subs = << >>
  /\ inbox = [n \in Messages |-> "absent"]
  /\ jobs = << >>
  /\ running = [w \in Replicas |-> TRUE]
  /\ work = [w \in Replicas |-> Idle]
  /\ dead = {}
  /\ answers = {}
  /\ faults = 0

Readings == {t \in 0..clock : clock - t <= MaxLag}

\* ON DELETE CASCADE: the jobs of the subscriptions and messages that remain.
JobsOf(browsers, messages) ==
  Restrict(jobs, {j \in DOMAIN jobs : j[1] \in browsers /\ j[2] \in messages})
-----------------------------------------------------------------------------
(***************************************************************************)
(* The inbox, as far as the queue sees it.                                  *)
(***************************************************************************)

\* The trigger queues one job for each current subscription.
Publish(n) ==
  /\ inbox[n] = "absent"
  /\ inbox' = [inbox EXCEPT ![n] = "unread"]
  /\ LET queued == IF enabled
                     THEN {b \in DOMAIN subs : subs[b].expires > clock} \X {n}
                     ELSE {}
     IN jobs' = [j \in DOMAIN jobs \cup queued |->
                   IF j \in DOMAIN jobs THEN jobs[j] ELSE
                     [attempts |-> 0, next |-> 0, lease |-> 0,
                      expires |-> clock + JobLifetime, for |-> subs[j[1]].reg]]
  /\ UNCHANGED <<clock, publicKey, enabled, subs, running, work, dead, answers,
                 faults>>

MarkRead(n) ==
  /\ inbox[n] = "unread"
  /\ inbox' = [inbox EXCEPT ![n] = "read"]
  /\ UNCHANGED <<clock, publicKey, enabled, subs, jobs, running, work, dead,
                 answers, faults>>

Remove(n) ==
  /\ inbox[n] \in {"unread", "read"}
  /\ inbox' = [inbox EXCEPT ![n] = "removed"]
  /\ jobs' = JobsOf(DOMAIN subs, Messages \ {n})
  /\ UNCHANGED <<clock, publicKey, enabled, subs, running, work, dead, answers,
                 faults>>
-----------------------------------------------------------------------------
(***************************************************************************)
(* Registrations (Save, Delete) and startup (Configure).                    *)
(***************************************************************************)

Owner(endpoint) == {b \in DOMAIN subs : subs[b].reg[1] = endpoint}

SaveKeepingJobs(b, reg) ==  \* Fault: a replacement inherits the queue.
  /\ \E w \in Replicas : running[w]
  /\ Owner(reg[1]) \subseteq {b}
  /\ b \in DOMAIN subs \/ Cardinality(DOMAIN subs) < MaxSubscriptions
  /\ \E now \in Readings :
       subs' = [c \in DOMAIN subs \cup {b} |->
                  IF c = b THEN [reg |-> reg, expires |-> now + Renewal]
                           ELSE subs[c]]
  /\ UNCHANGED <<clock, publicKey, enabled, inbox, jobs, running, work, dead,
                 answers, faults>>

\* A renewal keeps the queued jobs, a changed endpoint or key drops them.  An
\* endpoint another browser owns, and one registration too many, are refused.
Save(b, reg) ==
  /\ \E w \in Replicas : running[w]
  /\ Owner(reg[1]) \subseteq {b}
  /\ b \in DOMAIN subs \/ Cardinality(DOMAIN subs) < MaxSubscriptions
  /\ jobs' = IF b \in DOMAIN subs /\ subs[b].reg # reg
               THEN JobsOf(DOMAIN subs \ {b}, Messages) ELSE jobs
  /\ \E now \in Readings :
       subs' = [c \in DOMAIN subs \cup {b} |->
                  IF c = b THEN [reg |-> reg, expires |-> now + Renewal]
                           ELSE subs[c]]
  /\ UNCHANGED <<clock, publicKey, enabled, inbox, running, work, dead, answers,
                 faults>>

Delete(b) ==
  /\ b \in DOMAIN subs
  /\ subs' = Restrict(subs, DOMAIN subs \ {b})
  /\ jobs' = JobsOf(DOMAIN subs', Messages)
  /\ UNCHANGED <<clock, publicKey, enabled, inbox, running, work, dead, answers,
                 faults>>

Configure(key, on) ==
  /\ publicKey' = IF on THEN key ELSE publicKey
  /\ enabled' = on
  /\ subs' = IF on /\ key # publicKey THEN << >> ELSE subs
  /\ jobs' = IF on THEN JobsOf(DOMAIN subs', Messages) ELSE << >>
  /\ UNCHANGED inbox

\* A replica dies, or is stopped, and starts again with a key or without one.
Restart(w, key, on) ==
  /\ faults < MaxFaults
  /\ faults' = faults + 1
  /\ Configure(key, on)
  /\ running' = [running EXCEPT ![w] = on]
  /\ work' = [work EXCEPT ![w] = Idle]
  /\ UNCHANGED <<clock, dead, answers>>

\* Its browser unsubscribes a registration at the push service.
Unsubscribe(reg) ==
  /\ reg \notin dead
  /\ dead' = dead \cup {reg}
  /\ UNCHANGED <<clock, db, running, work, answers, faults>>
-----------------------------------------------------------------------------
(***************************************************************************)
(* A worker's round: Next, Send, Complete.                                  *)
(***************************************************************************)

\* Next first clears expired subscriptions, expired jobs and jobs whose
\* message has been read.
LiveSubs(now) == {b \in DOMAIN subs : subs[b].expires > now}

LiveJobsForever(now) ==  \* Fault: jobs do not expire.
  {j \in DOMAIN jobs : j[1] \in LiveSubs(now) /\ inbox[j[2]] # "read"}

LiveJobs(now) ==
  {j \in DOMAIN jobs : /\ j[1] \in LiveSubs(now)
                       /\ jobs[j].expires > now
                       /\ inbox[j[2]] # "read"}

DueIgnoringLease(now) == {j \in LiveJobs(now) : jobs[j].next <= now}  \* Fault

Due(now) == {j \in LiveJobs(now) : jobs[j].next <= now /\ jobs[j].lease <= now}

\* ORDER BY next_attempt; the order among equals is left open.
First(S) == {j \in S : \A k \in S : jobs[j].next <= jobs[k].next}

NextNone(w) ==
  /\ running[w] /\ work[w] = Idle
  /\ \E now \in Readings :
       /\ Due(now) = {}
       /\ subs' = Restrict(subs, LiveSubs(now))
       /\ jobs' = Restrict(jobs, LiveJobs(now))
  /\ UNCHANGED <<clock, publicKey, enabled, inbox, running, work, dead, answers,
                 faults>>

ClaimRemoves(w, j, now) ==  \* Fault: the job is taken off the queue.
  /\ jobs' = Restrict(jobs, LiveJobs(now) \ {j})
  /\ work' = [work EXCEPT ![w] =
       [phase |-> "sending", job |-> j, reg |-> subs[j[1]].reg,
        attempts |-> jobs[j].attempts + 1, since |-> clock]]

Claim(w, j, now) ==
  /\ jobs' = [Restrict(jobs, LiveJobs(now)) EXCEPT
                ![j].attempts = @ + 1, ![j].lease = now + Lease]
  /\ work' = [work EXCEPT ![w] =
       [phase |-> "sending", job |-> j, reg |-> subs[j[1]].reg,
        attempts |-> jobs[j].attempts + 1, since |-> clock]]

Next_(w) ==
  /\ running[w] /\ work[w] = Idle
  /\ \E now \in Readings : \E j \in First(Due(now)) :
       /\ subs' = Restrict(subs, LiveSubs(now))
       /\ Claim(w, j, now)
  /\ UNCHANGED <<clock, publicKey, enabled, inbox, running, dead, answers, faults>>

\* The push service answers, or the send fails.
Send(w, status) ==
  /\ work[w].phase = "sending"
  /\ IF work[w].reg \in dead THEN status \in {"gone", "retry"} ELSE status # "gone"
  /\ work' = [work EXCEPT ![w] =
       [phase |-> "reporting", job |-> work[w].job, reg |-> work[w].reg,
        attempts |-> work[w].attempts, status |-> status]]
  /\ answers' = answers \cup {<<work[w].job, status>>}
  /\ UNCHANGED <<clock, db, running, dead, faults>>

\* The attempt number fences a report: it only touches the claim it is for.
SameAttempt(j, attempts) == j \in DOMAIN jobs /\ jobs[j].attempts = attempts

GoneByID(d) ==  \* Fault: the registration is not compared.
  LET b == d.job[1] IN
    IF b \in DOMAIN subs
      THEN /\ subs' = Restrict(subs, DOMAIN subs \ {b})
           /\ jobs' = JobsOf(DOMAIN subs', Messages)
      ELSE UNCHANGED <<subs, jobs>>

Gone(d) ==
  LET b == d.job[1] IN
    IF b \in DOMAIN subs /\ subs[b].reg = d.reg /\ SameAttempt(d.job, d.attempts)
      THEN /\ subs' = Restrict(subs, DOMAIN subs \ {b})
           /\ jobs' = JobsOf(DOMAIN subs', Messages)
      ELSE UNCHANGED <<subs, jobs>>

Final(d) == d.status \in {"ok", "reject"} \/ d.attempts >= MaxAttempts

Finish(d) ==
  /\ jobs' = IF SameAttempt(d.job, d.attempts)
               THEN Restrict(jobs, DOMAIN jobs \ {d.job}) ELSE jobs
  /\ UNCHANGED subs

Backoff(attempts) == BackoffUnit * 2^(IF attempts < 6 THEN attempts ELSE 6)

Retry(d, now) ==
  /\ jobs' = IF SameAttempt(d.job, d.attempts)
               THEN [jobs EXCEPT ![d.job].next = now + Backoff(d.attempts),
                                 ![d.job].lease = 0]
               ELSE jobs
  /\ UNCHANGED subs

Complete(w) ==
  /\ work[w].phase = "reporting"
  /\ LET d == work[w] IN
       \/ d.status = "gone" /\ Gone(d)
       \/ d.status # "gone" /\ Final(d) /\ Finish(d)
       \/ d.status # "gone" /\ ~Final(d) /\ \E now \in Readings : Retry(d, now)
  /\ work' = [work EXCEPT ![w] = Idle]
  /\ UNCHANGED <<clock, publicKey, enabled, inbox, running, dead, answers, faults>>

\* Complete fails, or the worker's context is cancelled before it: Drain returns.
Abandon(w) ==
  /\ work[w] # Idle
  /\ faults < MaxFaults
  /\ faults' = faults + 1
  /\ work' = [work EXCEPT ![w] = Idle]
  /\ UNCHANGED <<clock, db, running, dead, answers>>

\* Send gives up after SendTimeout, so time does not pass beyond it.
Tick ==
  /\ clock < MaxClock
  /\ \A w \in Replicas :
       work[w].phase = "sending" => clock - work[w].since < SendTimeout
  /\ clock' = clock + 1
  /\ UNCHANGED <<db, running, work, dead, answers, faults>>
-----------------------------------------------------------------------------
Worker(w) == NextNone(w) \/ Next_(w) \/ (\E s \in Status : Send(w, s)) \/ Complete(w)

Next ==
  \/ \E n \in Messages : Publish(n) \/ MarkRead(n) \/ Remove(n)
  \/ \E b \in Browsers : Delete(b) \/ \E reg \in Registration : Save(b, reg)
  \/ \E w \in Replicas, key \in VapidKeys, on \in BOOLEAN : Restart(w, key, on)
  \/ \E reg \in Registration : Unsubscribe(reg)
  \/ \E w \in Replicas : Worker(w) \/ Abandon(w)
  \/ Tick

Spec == Init /\ [][Next]_vars

\* Each running worker keeps polling and time passes.
FairSpec == Spec /\ WF_vars(Tick) /\ \A w \in Replicas : WF_vars(Worker(w))
-----------------------------------------------------------------------------
(***************************************************************************)
(* Properties.                                                              *)
(***************************************************************************)

\* "Leases ... exclude simultaneous sends from other API replicas sharing the
\* database": no two workers send the same message to the same browser at once.
OneSender ==
  \A v, w \in Replicas :
    (v # w /\ work[v].phase = "sending" /\ work[w].phase = "sending")
      => work[v].job # work[w].job

\* A message queued for one registration of a browser is never sent to the
\* registration that replaced it.
QueuedForThisRegistration ==
  \A j \in DOMAIN jobs : jobs[j].for = subs[j[1]].reg

\* "A stale response cannot remove a replacement subscription": a worker's
\* report removes a subscription only if the push service has dropped it.
OnlyDeadRemoved ==
  [][\A w \in Replicas : \A b \in DOMAIN subs \ DOMAIN subs' :
       (work[w].phase = "reporting" /\ work'[w] = Idle /\ faults' = faults)
         => subs[b].reg \in dead]_vars

\* Delivery is at least once: a job leaves the queue only when the push
\* service has answered for good, its attempts are used up, it has expired, its
\* message was read or removed, its registration was dropped or replaced, or
\* push was disabled.
NeverSilentlyLost ==
  [][\A j \in DOMAIN jobs \ DOMAIN jobs' :
       \/ \E s \in {"ok", "reject", "gone"} : <<j, s>> \in answers
       \/ jobs[j].attempts >= MaxAttempts
       \/ jobs[j].expires <= clock
       \/ inbox'[j[2]] \in {"read", "removed"}
       \/ j[1] \notin DOMAIN subs'
       \/ subs'[j[1]].reg # jobs[j].for
       \/ ~enabled']_vars

\* While some replica runs, every job leaves the queue in the end (of the jobs
\* whose expiry the bounded clock reaches).
QueueDrains ==
  \A j \in Job :
    (j \in DOMAIN jobs /\ jobs[j].expires <= MaxClock)
      ~> (j \notin DOMAIN jobs \/ \A w \in Replicas : ~running[w])

=============================================================================
