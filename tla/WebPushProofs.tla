---------------------------- MODULE WebPushProofs ----------------------------
(***************************************************************************)
(* Proofs about WebPush, for any browsers, messages, replicas and bounds,   *)
(* from the one relation between the code's durations that matters:         *)
(* SendTimeout + MaxLag < Lease.                                            *)
(***************************************************************************)
EXTENDS WebPush, TLAPS

\* A row of web_push_deliveries, as far as claims look at it.
Row(job) ==
  /\ DOMAIN job = {"attempts", "next", "lease", "expires", "for"}
  /\ job.attempts \in Nat
  /\ job.lease \in Int
  /\ job.expires \in Int

Busy(w) == work[w].phase \in {"sending", "reporting"}

\* The queue refers to subscriptions and messages that are there, and each
\* job to the registration it was queued for.
QueueInv ==
  /\ DOMAIN subs \subseteq Browsers
  /\ \A b \in DOMAIN subs : subs[b].reg \in Registration
  /\ DOMAIN jobs \subseteq (DOMAIN subs) \X Messages
  /\ inbox \in [Messages -> {"absent", "unread", "read", "removed"}]
  /\ \A j \in DOMAIN jobs : inbox[j[2]] # "absent"
  /\ QueuedForThisRegistration

\* A worker's claim.  While it sends, the job is still at its attempt and its
\* lease outlives the send; when it reports, others may have claimed the job
\* since; no two claims have the same number.
ClaimInv ==
  /\ clock \in Nat
  /\ work \in [Replicas -> {Idle} \cup Sending \cup Reporting]
  /\ \A j \in DOMAIN jobs : Row(jobs[j])
  /\ \A w \in Replicas : Busy(w) =>
       /\ inbox[work[w].job[2]] # "absent"
       /\ work[w].job \in DOMAIN jobs => work[w].attempts <= jobs[work[w].job].attempts
  /\ \A w \in Replicas : work[w].phase = "sending" =>
       /\ clock - work[w].since <= SendTimeout
       /\ work[w].job \in DOMAIN jobs =>
            /\ jobs[work[w].job].attempts = work[w].attempts
            /\ jobs[work[w].job].lease >= work[w].since + Lease - MaxLag
  /\ \A v, w \in Replicas : v # w /\ Busy(v) /\ Busy(w) /\ work[v].job = work[w].job =>
       work[v].attempts # work[w].attempts
  /\ OneSender

\* A report is an answer that was received; "gone" only of what is dead.
ReportInv ==
  \A w \in Replicas : work[w].phase = "reporting" =>
    /\ <<work[w].job, work[w].status>> \in answers
    /\ work[w].status = "gone" => work[w].reg \in dead

IInv == QueueInv /\ ClaimInv /\ ReportInv

LEMMA InitIInv == Init => IInv
  <1> SUFFICES ASSUME Init PROVE IInv
    OBVIOUS
  <1>1. DOMAIN subs = {} /\ DOMAIN jobs = {}
    BY DEF Init
  <1>2. \A w \in Replicas : work[w] = Idle /\ work[w].phase = "idle"
    BY DEF Init, Idle
  <1>3. QueueInv
    BY <1>1 DEF Init, QueueInv, QueuedForThisRegistration
  <1>4. ClaimInv
    BY <1>1, <1>2 DEF Init, ClaimInv, Busy, OneSender
  <1>5. ReportInv
    BY <1>2 DEF ReportInv
  <1> QED
    BY <1>3, <1>4, <1>5 DEF IInv

-----------------------------------------------------------------------------
(* What a step does to the workers and to the queue. *)

\* A worker stays as it is, or becomes idle.
Rests == \A w \in Replicas : work'[w] = work[w] \/ work'[w] = Idle

\* Jobs leave the queue; those that stay are as they were.
Shrinks ==
  /\ DOMAIN jobs' \subseteq DOMAIN jobs
  /\ \A j \in DOMAIN jobs' : jobs'[j] = jobs[j]

\* No message becomes absent.
Onward == \A n \in Messages : inbox[n] # "absent" => inbox'[n] # "absent"

LEMMA RestClaims ==
  ASSUME IInv, work' \in [Replicas -> {Idle} \cup Sending \cup Reporting],
         Rests, Shrinks, Onward, UNCHANGED clock
  PROVE  ClaimInv'
  <1>1. \A w \in Replicas : work'[w] = Idle => work'[w].phase = "idle"
    BY DEF Idle
  <1>2. \A w \in Replicas : Busy(w)' => work'[w] = work[w] /\ Busy(w)
    BY <1>1 DEF Rests, Busy
  <1>3. \A w \in Replicas : work'[w].phase = "sending" => work'[w] = work[w]
    BY <1>1 DEF Rests
  <1>4. \A w \in Replicas : Busy(w) => work[w].job \in Job
    BY DEF IInv, ClaimInv, Busy, Idle, Sending, Reporting
  <1>5. \A w \in Replicas : Busy(w)' =>
          /\ inbox'[work'[w].job[2]] # "absent"
          /\ work'[w].job \in DOMAIN jobs' => work'[w].attempts <= jobs'[work'[w].job].attempts
    BY <1>2, <1>4 DEF IInv, ClaimInv, Shrinks, Onward, Job
  <1>6. \A w \in Replicas : work'[w].phase = "sending" =>
          /\ clock' - work'[w].since <= SendTimeout
          /\ work'[w].job \in DOMAIN jobs' =>
               /\ jobs'[work'[w].job].attempts = work'[w].attempts
               /\ jobs'[work'[w].job].lease >= work'[w].since + Lease - MaxLag
    BY <1>3 DEF IInv, ClaimInv, Shrinks
  <1>7. \A v, w \in Replicas : v # w /\ Busy(v)' /\ Busy(w)' /\ work'[v].job = work'[w].job =>
          work'[v].attempts # work'[w].attempts
    BY <1>2 DEF IInv, ClaimInv
  <1>8. OneSender'
    BY <1>3 DEF IInv, ClaimInv, OneSender
  <1>9. \A j \in DOMAIN jobs' : Row(jobs'[j])
    BY DEF IInv, ClaimInv, Shrinks
  <1>10. clock' \in Nat
    BY DEF IInv, ClaimInv
  <1> QED
    BY <1>5, <1>6, <1>7, <1>8, <1>9, <1>10 DEF ClaimInv

LEMMA RestReports ==
  ASSUME IInv, Rests, answers \subseteq answers', dead \subseteq dead'
  PROVE  ReportInv'
  <1>1. \A w \in Replicas : work'[w].phase = "reporting" => work'[w] = work[w]
    BY DEF Rests, Idle
  <1> QED
    BY <1>1 DEF IInv, ReportInv

LEMMA KeptQueue ==
  ASSUME IInv, Shrinks, Onward,
         inbox' \in [Messages -> {"absent", "unread", "read", "removed"}],
         DOMAIN subs' \subseteq Browsers,
         \A b \in DOMAIN subs' : subs'[b].reg \in Registration,
         \A j \in DOMAIN jobs' : /\ j[1] \in DOMAIN subs'
                                 /\ subs'[j[1]].reg = subs[j[1]].reg
  PROVE  QueueInv'
  <1>1. \A j \in DOMAIN jobs' : j \in (DOMAIN subs) \X Messages /\ j[2] \in Messages
    BY DEF IInv, QueueInv, Shrinks
  <1>2. DOMAIN jobs' \subseteq (DOMAIN subs') \X Messages
    BY <1>1
  <1>3. \A j \in DOMAIN jobs' : inbox'[j[2]] # "absent"
    BY <1>1 DEF IInv, QueueInv, Shrinks, Onward
  <1>4. QueuedForThisRegistration'
    BY DEF IInv, QueueInv, Shrinks, QueuedForThisRegistration
  <1> QED
    BY <1>2, <1>3, <1>4 DEF QueueInv

LEMMA JobsOfShrinks ==
  ASSUME NEW B, NEW M, jobs' = JobsOf(B, M)
  PROVE  Shrinks /\ \A j \in DOMAIN jobs' : j[1] \in B
  <1>1. /\ DOMAIN jobs' = {j \in DOMAIN jobs : j[1] \in B /\ j[2] \in M}
        /\ \A j \in DOMAIN jobs' : jobs'[j] = jobs[j]
    BY DEF JobsOf, Restrict
  <1> QED
    BY <1>1 DEF Shrinks

LEMMA RestrictDef ==
  ASSUME NEW f, NEW S
  PROVE  /\ DOMAIN Restrict(f, S) = S
         /\ \A x \in S : Restrict(f, S)[x] = f[x]
  BY DEF Restrict

LEMMA BusyJobs ==
  ASSUME IInv, NEW w \in Replicas, Busy(w)
  PROVE  work[w] \in Sending \cup Reporting /\ work[w].job \in Job /\ work[w].attempts \in Nat
  BY DEF IInv, ClaimInv, Busy, Idle, Sending, Reporting

\* A step that only lets workers rest and jobs go, in terms of both.
LEMMA Quiet ==
  ASSUME IInv, work' \in [Replicas -> {Idle} \cup Sending \cup Reporting],
         Rests, Shrinks, Onward, UNCHANGED clock,
         answers \subseteq answers', dead \subseteq dead',
         inbox' \in [Messages -> {"absent", "unread", "read", "removed"}],
         DOMAIN subs' \subseteq Browsers,
         \A b \in DOMAIN subs' : subs'[b].reg \in Registration,
         \A j \in DOMAIN jobs' : /\ j[1] \in DOMAIN subs'
                                 /\ subs'[j[1]].reg = subs[j[1]].reg
  PROVE  IInv'
  BY RestClaims, RestReports, KeptQueue DEF IInv

-----------------------------------------------------------------------------
(* The inbox. *)

LEMMA PublishIInv ==
  ASSUME IInv, NEW n \in Messages, Publish(n)
  PROVE  IInv'
  <1> DEFINE queued == IF enabled
                         THEN {b \in DOMAIN subs : subs[b].expires > clock} \X {n}
                         ELSE {}
  <1>1. /\ inbox[n] = "absent" /\ inbox' = [inbox EXCEPT ![n] = "unread"]
        /\ DOMAIN jobs' = DOMAIN jobs \cup queued
        /\ \A j \in DOMAIN jobs : jobs'[j] = jobs[j]
        /\ \A j \in queued \ DOMAIN jobs :
             jobs'[j] = [attempts |-> 0, next |-> 0, lease |-> 0,
                         expires |-> clock + JobLifetime, for |-> subs[j[1]].reg]
        /\ UNCHANGED <<clock, subs, work, dead, answers>>
    BY DEF Publish
  <1>a. \A j \in queued \ DOMAIN jobs : Row(jobs'[j]) /\ jobs'[j].for = subs[j[1]].reg
    <2> SUFFICES ASSUME NEW j \in queued \ DOMAIN jobs
                 PROVE  Row(jobs'[j]) /\ jobs'[j].for = subs[j[1]].reg
      OBVIOUS
    <2>1. jobs'[j] = [attempts |-> 0, next |-> 0, lease |-> 0,
                      expires |-> clock + JobLifetime, for |-> subs[j[1]].reg]
      BY <1>1
    <2>2. /\ DOMAIN jobs'[j] = {"attempts", "next", "lease", "expires", "for"}
          /\ jobs'[j].attempts = 0 /\ jobs'[j].lease = 0 /\ jobs'[j].for = subs[j[1]].reg
          /\ jobs'[j].expires = clock + JobLifetime
      BY <2>1
    <2>3. clock + JobLifetime \in Int
      BY PushAssumption DEF IInv, ClaimInv
    <2> QED
      BY <2>2, <2>3 DEF Row
  <1>2. \A j \in queued : j \in (DOMAIN subs) \X Messages /\ j[2] = n /\ j[1] \in DOMAIN subs
    OBVIOUS
  <1> HIDE DEF queued
  <1>3. Onward /\ inbox' \in [Messages -> {"absent", "unread", "read", "removed"}]
        /\ inbox'[n] # "absent"
    BY <1>1 DEF Onward, IInv, QueueInv
  <1>4. QueueInv'
    <2>1. DOMAIN jobs' \subseteq (DOMAIN subs') \X Messages
      BY <1>1, <1>2 DEF IInv, QueueInv
    <2>2. \A j \in DOMAIN jobs' : inbox'[j[2]] # "absent"
      <3>1. ASSUME NEW j \in DOMAIN jobs PROVE inbox'[j[2]] # "absent"
        BY <1>3 DEF IInv, QueueInv, Onward
      <3> QED
        BY <1>1, <1>2, <1>3, <3>1
    <2>3. QueuedForThisRegistration'
      BY <1>1, <1>a DEF IInv, QueueInv, QueuedForThisRegistration
    <2> QED
      BY <1>1, <1>3, <2>1, <2>2, <2>3 DEF IInv, QueueInv
  <1>5. \A w \in Replicas : Busy(w) => work[w].job \notin queued
    BY <1>1, <1>2 DEF IInv, ClaimInv
  <1>6. \A w \in Replicas : Busy(w) => work[w].job[2] \in Messages
    BY BusyJobs DEF Job
  <1>7. ClaimInv'
    <2>1. \A j \in DOMAIN jobs' : Row(jobs'[j])
      BY <1>1, <1>a DEF IInv, ClaimInv
    <2>2. \A w \in Replicas : Busy(w) =>
            /\ inbox'[work[w].job[2]] # "absent"
            /\ work[w].job \in DOMAIN jobs' => work[w].job \in DOMAIN jobs
      BY <1>1, <1>3, <1>5, <1>6 DEF IInv, ClaimInv, Onward
    <2>3. \A w \in Replicas : work[w].phase = "sending" => Busy(w)
      BY DEF Busy
    <2> QED
      BY <1>1, <2>1, <2>2, <2>3 DEF IInv, ClaimInv, Busy, OneSender
  <1>8. ReportInv'
    BY <1>1 DEF IInv, ReportInv
  <1> QED
    BY <1>4, <1>7, <1>8 DEF IInv

LEMMA MarkReadIInv ==
  ASSUME IInv, NEW n \in Messages, MarkRead(n)
  PROVE  IInv'
  <1>1. UNCHANGED <<clock, subs, jobs, work, dead, answers>>
    BY DEF MarkRead
  <1>2. Onward /\ inbox' \in [Messages -> {"absent", "unread", "read", "removed"}]
    BY DEF MarkRead, Onward, IInv, QueueInv
  <1>3. Rests /\ Shrinks
    BY <1>1 DEF Rests, Shrinks
  <1> QED
    BY <1>1, <1>2, <1>3, Quiet DEF IInv, QueueInv, ClaimInv

LEMMA RemoveIInv ==
  ASSUME IInv, NEW n \in Messages, Remove(n)
  PROVE  IInv'
  <1>1. UNCHANGED <<clock, subs, work, dead, answers>>
    BY DEF Remove
  <1>2. Onward /\ inbox' \in [Messages -> {"absent", "unread", "read", "removed"}]
    BY DEF Remove, Onward, IInv, QueueInv
  <1>3. Rests /\ Shrinks
    <2>1. jobs' = JobsOf(DOMAIN subs, Messages \ {n})
      BY DEF Remove
    <2> QED
      BY <1>1, <2>1, JobsOfShrinks DEF Rests
  <1> QED
    BY <1>1, <1>2, <1>3, Quiet DEF IInv, QueueInv, ClaimInv, Shrinks

-----------------------------------------------------------------------------
(* Registrations and restarts. *)

LEMMA SaveIInv ==
  ASSUME IInv, NEW b \in Browsers, NEW reg \in Registration, Save(b, reg)
  PROVE  IInv'
  <1>1. UNCHANGED <<clock, inbox, work, dead, answers>>
    BY DEF Save
  <1>2. PICK now \in Readings :
          subs' = [c \in DOMAIN subs \cup {b} |->
                     IF c = b THEN [reg |-> reg, expires |-> now + Renewal] ELSE subs[c]]
    BY DEF Save
  <1>3. /\ DOMAIN subs' = DOMAIN subs \cup {b} /\ subs'[b].reg = reg
        /\ \A c \in DOMAIN subs : c # b => subs'[c] = subs[c]
    BY <1>2
  <1>4. Shrinks /\ (b \in DOMAIN subs /\ subs[b].reg # reg =>
                     \A j \in DOMAIN jobs' : j[1] # b)
    <2>1. CASE b \in DOMAIN subs /\ subs[b].reg # reg
      <3>1. jobs' = JobsOf(DOMAIN subs \ {b}, Messages)
        BY <2>1 DEF Save
      <3>2. Shrinks /\ \A j \in DOMAIN jobs' : j[1] \in DOMAIN subs \ {b}
        BY <3>1, JobsOfShrinks
      <3> QED
        BY <3>2
    <2>2. CASE ~(b \in DOMAIN subs /\ subs[b].reg # reg)
      BY <2>2 DEF Save, Shrinks
    <2> QED
      BY <2>1, <2>2
  <1>5. \A j \in DOMAIN jobs' : j[1] \in DOMAIN subs
    BY <1>4 DEF IInv, QueueInv, Shrinks
  <1>6. \A j \in DOMAIN jobs' : j[1] \in DOMAIN subs' /\ subs'[j[1]].reg = subs[j[1]].reg
    BY <1>3, <1>4, <1>5
  <1>7. Rests /\ Onward
    BY <1>1 DEF Rests, Onward
  <1>8. DOMAIN subs' \subseteq Browsers /\ \A c \in DOMAIN subs' : subs'[c].reg \in Registration
    BY <1>3 DEF IInv, QueueInv
  <1> QED
    BY <1>1, <1>4, <1>6, <1>7, <1>8, Quiet DEF IInv, QueueInv, ClaimInv

\* Subscriptions and jobs go together.
Drops(gone) ==
  /\ DOMAIN subs' = DOMAIN subs \ gone
  /\ \A b \in DOMAIN subs' : subs'[b] = subs[b]
  /\ \A j \in DOMAIN jobs' : j[1] \in DOMAIN subs'

LEMMA DropIInv ==
  ASSUME IInv, NEW gone, Drops(gone), Shrinks,
         work' \in [Replicas -> {Idle} \cup Sending \cup Reporting], Rests,
         UNCHANGED <<clock, inbox>>, answers \subseteq answers', dead \subseteq dead'
  PROVE  IInv'
  <1>1. /\ Onward /\ DOMAIN subs' \subseteq Browsers
        /\ \A b \in DOMAIN subs' : subs'[b].reg \in Registration
    BY DEF Onward, Drops, IInv, QueueInv
  <1>2. \A j \in DOMAIN jobs' : j[1] \in DOMAIN subs' /\ subs'[j[1]].reg = subs[j[1]].reg
    BY DEF Drops
  <1> QED
    BY <1>1, <1>2, Quiet DEF IInv, QueueInv

LEMMA DeleteIInv ==
  ASSUME IInv, NEW b \in Browsers, Delete(b)
  PROVE  IInv'
  <1>1. UNCHANGED <<clock, inbox, work, dead, answers>>
    BY DEF Delete
  <1>2. Drops({b}) /\ Shrinks
    <2>1. DOMAIN subs' = DOMAIN subs \ {b} /\ \A c \in DOMAIN subs' : subs'[c] = subs[c]
      BY RestrictDef DEF Delete
    <2>2. jobs' = JobsOf(DOMAIN subs', Messages)
      BY DEF Delete
    <2>3. Shrinks /\ \A j \in DOMAIN jobs' : j[1] \in DOMAIN subs'
      BY <2>2, JobsOfShrinks
    <2> QED
      BY <2>1, <2>3 DEF Drops
  <1>3. Rests
    BY <1>1 DEF Rests
  <1> QED
    BY <1>1, <1>2, <1>3, DropIInv DEF IInv, ClaimInv

LEMMA RestartIInv ==
  ASSUME IInv, NEW w \in Replicas, NEW key \in VapidKeys, NEW on \in BOOLEAN,
         Restart(w, key, on)
  PROVE  IInv'
  <1>1. UNCHANGED <<clock, inbox, dead, answers>> /\ work' = [work EXCEPT ![w] = Idle]
    BY DEF Restart, Configure
  <1>2. work \in [Replicas -> {Idle} \cup Sending \cup Reporting]
    BY DEF IInv, ClaimInv
  <1>3. Rests /\ work' \in [Replicas -> {Idle} \cup Sending \cup Reporting]
    BY <1>1, <1>2 DEF Rests
  <1>4. \A j \in DOMAIN jobs : j[1] \in DOMAIN subs
    BY DEF IInv, QueueInv
  <1>5. Shrinks /\ \E gone : Drops(gone)
    <2>1. CASE on /\ key # publicKey
      <3>1. DOMAIN subs' = {} /\ jobs' = JobsOf(DOMAIN subs', Messages)
        BY <2>1 DEF Restart, Configure
      <3>0. Shrinks /\ \A j \in DOMAIN jobs' : j[1] \in DOMAIN subs'
        BY <3>1, JobsOfShrinks
      <3>2. Shrinks /\ Drops(DOMAIN subs)
        BY <3>0, <3>1 DEF Drops
      <3> QED
        BY <3>2
    <2>2. CASE on /\ key = publicKey
      <3>1. subs' = subs /\ jobs' = JobsOf(DOMAIN subs', Messages)
        BY <2>2 DEF Restart, Configure
      <3>2. Shrinks /\ Drops({})
        <4>1. Shrinks /\ \A j \in DOMAIN jobs' : j[1] \in DOMAIN subs'
          BY <3>1, JobsOfShrinks
        <4> QED
          BY <3>1, <4>1 DEF Drops
      <3> QED
        BY <3>2
    <2>3. CASE ~on
      <3>1. subs' = subs /\ DOMAIN jobs' = {}
        BY <2>3 DEF Restart, Configure
      <3>2. Shrinks /\ Drops({})
        BY <3>1 DEF Shrinks, Drops
      <3> QED
        BY <3>2
    <2> QED
      BY <2>1, <2>2, <2>3
  <1> QED
    BY <1>1, <1>3, <1>5, DropIInv

LEMMA UnsubscribeIInv ==
  ASSUME IInv, NEW reg \in Registration, Unsubscribe(reg)
  PROVE  IInv'
  <1>1. UNCHANGED <<clock, db, work, answers>> /\ dead \subseteq dead'
    BY DEF Unsubscribe
  <1>2. Rests /\ Shrinks /\ Drops({})
    BY <1>1 DEF db, Rests, Shrinks, Drops, IInv, QueueInv
  <1> QED
    BY <1>1, <1>2, DropIInv DEF db, IInv, ClaimInv

-----------------------------------------------------------------------------
(* The workers. *)

LEMMA LiveDrops ==
  ASSUME IInv, NEW now, subs' = Restrict(subs, LiveSubs(now)),
         DOMAIN jobs' = LiveJobs(now)
  PROVE  Drops(DOMAIN subs \ LiveSubs(now)) /\ DOMAIN jobs' \subseteq DOMAIN jobs
  <1>1. DOMAIN subs' = LiveSubs(now) /\ \A b \in DOMAIN subs' : subs'[b] = subs[b]
    BY RestrictDef
  <1>2. LiveSubs(now) \subseteq DOMAIN subs
    BY DEF LiveSubs
  <1>3. \A j \in DOMAIN jobs' : j \in DOMAIN jobs /\ j[1] \in LiveSubs(now)
    BY DEF LiveJobs
  <1> QED
    BY <1>1, <1>2, <1>3 DEF Drops

LEMMA NextNoneIInv ==
  ASSUME IInv, NEW w \in Replicas, NextNone(w)
  PROVE  IInv'
  <1>1. UNCHANGED <<clock, inbox, work, dead, answers>>
    BY DEF NextNone
  <1>2. PICK now \in Readings : /\ subs' = Restrict(subs, LiveSubs(now))
                                /\ jobs' = Restrict(jobs, LiveJobs(now))
    BY DEF NextNone
  <1>3. DOMAIN jobs' = LiveJobs(now) /\ \A j \in DOMAIN jobs' : jobs'[j] = jobs[j]
    BY <1>2, RestrictDef
  <1>4. Drops(DOMAIN subs \ LiveSubs(now)) /\ DOMAIN jobs' \subseteq DOMAIN jobs
    BY <1>2, <1>3, LiveDrops
  <1>5. Rests /\ Shrinks
    BY <1>1, <1>3, <1>4 DEF Rests, Shrinks
  <1> QED
    BY <1>1, <1>4, <1>5, DropIInv DEF IInv, ClaimInv

\* The heart of OneSender: a job that is being sent is not due, whatever
\* reading of the clock another replica uses.
LEMMA SendingNotDue ==
  ASSUME IInv, NEW v \in Replicas, work[v].phase = "sending", NEW now \in Readings
  PROVE  work[v].job \notin Due(now)
  <1> SUFFICES ASSUME work[v].job \in Due(now) PROVE FALSE
    OBVIOUS
  <1>1. work[v].job \in DOMAIN jobs /\ jobs[work[v].job].lease <= now
    BY DEF Due, LiveJobs
  <1>2. /\ jobs[work[v].job].lease >= work[v].since + Lease - MaxLag
        /\ jobs[work[v].job].lease \in Int
        /\ clock - work[v].since <= SendTimeout /\ clock \in Nat
    BY <1>1 DEF IInv, ClaimInv, Row
  <1>3. work[v].since \in Nat
    BY DEF IInv, ClaimInv, Idle, Sending, Reporting
  <1>4. now \in Int /\ now <= clock
    BY <1>2 DEF Readings
  <1> QED
    BY <1>1, <1>2, <1>3, <1>4, PushAssumption

LEMMA ClaimIInv ==
  ASSUME IInv, NEW w \in Replicas, Next_(w)
  PROVE  IInv'
  <1>1. UNCHANGED <<clock, inbox, dead, answers>> /\ work[w] = Idle
    BY DEF Next_
  <1>2. PICK now \in Readings : \E j \in First(Due(now)) :
          subs' = Restrict(subs, LiveSubs(now)) /\ Claim(w, j, now)
    BY DEF Next_
  <1>3. PICK j \in First(Due(now)) :
          subs' = Restrict(subs, LiveSubs(now)) /\ Claim(w, j, now)
    BY <1>2
  <1>4. j \in Due(now) /\ j \in LiveJobs(now) /\ j \in DOMAIN jobs
    BY DEF First, Due, LiveJobs
  <1> DEFINE kept == Restrict(jobs, LiveJobs(now))
             d == [phase |-> "sending", job |-> j, reg |-> subs[j[1]].reg,
                   attempts |-> jobs[j].attempts + 1, since |-> clock]
  <1>5. DOMAIN kept = LiveJobs(now) /\ \A k \in LiveJobs(now) : kept[k] = jobs[k]
    BY RestrictDef
  <1>6. /\ jobs' = [kept EXCEPT ![j].attempts = @ + 1, ![j].lease = now + Lease]
        /\ work' = [work EXCEPT ![w] = d]
    BY <1>3 DEF Claim
  <1>7. Row(jobs[j]) /\ now \in Int /\ clock \in Nat /\ now >= clock - MaxLag
    BY <1>4, PushAssumption DEF IInv, ClaimInv, Readings
  <1>8. /\ DOMAIN jobs' = LiveJobs(now)
        /\ \A k \in LiveJobs(now) : k # j => jobs'[k] = jobs[k]
        /\ jobs'[j] = [jobs[j] EXCEPT !.attempts = @ + 1, !.lease = now + Lease]
    BY <1>4, <1>5, <1>6
  <1>9. /\ Row(jobs'[j]) /\ jobs'[j].attempts = jobs[j].attempts + 1
        /\ jobs'[j].lease = now + Lease /\ jobs'[j].for = jobs[j].for
    BY <1>7, <1>8, PushAssumption DEF Row
  <1>10. Drops(DOMAIN subs \ LiveSubs(now)) /\ DOMAIN jobs' \subseteq DOMAIN jobs
    BY <1>3, <1>8, LiveDrops
  <1>11. QueueInv'
    <2>1. \A k \in DOMAIN jobs' : k \in (DOMAIN subs') \X Messages /\ inbox'[k[2]] # "absent"
      BY <1>1, <1>10 DEF IInv, QueueInv, Drops
    <2>2. \A k \in DOMAIN jobs' : jobs'[k].for = jobs[k].for
      BY <1>8, <1>9
    <2>3. QueuedForThisRegistration'
      BY <1>10, <2>2 DEF IInv, QueueInv, Drops, QueuedForThisRegistration
    <2> QED
      BY <1>1, <1>10, <2>1, <2>3 DEF IInv, QueueInv, Drops
  <1>12. j \in Job /\ subs[j[1]].reg \in Registration
    BY <1>4 DEF IInv, QueueInv, Job
  <1>13. d \in Sending /\ d.phase = "sending" /\ d.job = j /\ d.since = clock
         /\ d.attempts = jobs[j].attempts + 1
    BY <1>7, <1>12 DEF Sending, Row
  <1> HIDE DEF d, kept
  <1>14. /\ work \in [Replicas -> {Idle} \cup Sending \cup Reporting]
         /\ work' \in [Replicas -> {Idle} \cup Sending \cup Reporting]
         /\ work'[w] = d /\ \A v \in Replicas \ {w} : work'[v] = work[v]
    BY <1>6, <1>13 DEF IInv, ClaimInv
  <1>15. \A v \in Replicas \ {w} : work[v].phase = "sending" => work[v].job # j
    BY <1>4, SendingNotDue
  <1>16. \A v \in Replicas : Busy(v) /\ work[v].job = j =>
            work[v].attempts \in Nat /\ work[v].attempts < jobs[j].attempts + 1
    <2> SUFFICES ASSUME NEW v \in Replicas, Busy(v), work[v].job = j
                 PROVE  work[v].attempts \in Nat /\ work[v].attempts < jobs[j].attempts + 1
      OBVIOUS
    <2>1. work[v].attempts \in Nat
      BY BusyJobs
    <2>2. work[v].attempts <= jobs[j].attempts
      BY <1>4 DEF IInv, ClaimInv
    <2> QED
      BY <1>7, <2>1, <2>2 DEF Row
  <1>17. ClaimInv'
    <2>1. \A k \in DOMAIN jobs' : Row(jobs'[k])
      BY <1>8, <1>9, <1>10 DEF IInv, ClaimInv
    <2>2. ASSUME NEW v \in Replicas, Busy(v)'
          PROVE  /\ inbox'[work'[v].job[2]] # "absent"
                 /\ work'[v].job \in DOMAIN jobs' =>
                      work'[v].attempts <= jobs'[work'[v].job].attempts
      <3>1. CASE v = w
        BY <1>1, <1>4, <1>7, <1>9, <1>13, <1>14, <3>1 DEF IInv, QueueInv, Row
      <3>2. CASE v # w
        <4>1. Busy(v) /\ work'[v] = work[v]
          BY <1>14, <2>2, <3>2 DEF Busy
        <4>2. /\ inbox[work[v].job[2]] # "absent"
              /\ work[v].job \in DOMAIN jobs => work[v].attempts <= jobs[work[v].job].attempts
          BY <4>1 DEF IInv, ClaimInv
        <4>3. CASE work[v].job = j
          <5>1. work[v].attempts \in Nat /\ work[v].attempts < jobs[j].attempts + 1
            BY <1>16, <4>1, <4>3
          <5> QED
            BY <1>1, <1>7, <1>9, <4>1, <4>2, <4>3, <5>1 DEF Row
        <4>4. CASE work[v].job # j
          BY <1>1, <1>8, <1>10, <4>1, <4>2, <4>4
        <4> QED
          BY <4>3, <4>4
      <3> QED
        BY <3>1, <3>2
    <2>3. ASSUME NEW v \in Replicas, work'[v].phase = "sending"
          PROVE  /\ clock' - work'[v].since <= SendTimeout
                 /\ work'[v].job \in DOMAIN jobs' =>
                      /\ jobs'[work'[v].job].attempts = work'[v].attempts
                      /\ jobs'[work'[v].job].lease >= work'[v].since + Lease - MaxLag
      <3>1. CASE v = w
        <4>1. clock' - work'[v].since <= SendTimeout
          BY <1>1, <1>7, <1>13, <1>14, <3>1, PushAssumption
        <4>2. jobs'[j].attempts = work'[v].attempts /\ work'[v].job = j
          BY <1>9, <1>13, <1>14, <3>1
        <4>3. jobs'[j].lease >= work'[v].since + Lease - MaxLag
          BY <1>7, <1>9, <1>13, <1>14, <3>1, PushAssumption
        <4> QED
          BY <4>1, <4>2, <4>3
      <3>2. CASE v # w
        <4>1. work'[v] = work[v] /\ work[v].phase = "sending" /\ work[v].job # j
          BY <1>14, <1>15, <2>3, <3>2
        <4> QED
          BY <1>1, <1>8, <1>10, <4>1 DEF IInv, ClaimInv
      <3> QED
        BY <3>1, <3>2
    <2>4. ASSUME NEW u \in Replicas, NEW v \in Replicas, u # v, Busy(u)', Busy(v)',
                 work'[u].job = work'[v].job
          PROVE  work'[u].attempts # work'[v].attempts
      <3>1. CASE u = w
        <4>1. work'[v] = work[v] /\ Busy(v) /\ work[v].job = j
          BY <1>13, <1>14, <2>4, <3>1 DEF Busy
        <4>2. work[v].attempts \in Nat /\ work[v].attempts < jobs[j].attempts + 1
          BY <1>16, <4>1
        <4> QED
          BY <1>7, <1>13, <1>14, <3>1, <4>1, <4>2 DEF Row
      <3>2. CASE v = w
        <4>1. work'[u] = work[u] /\ Busy(u) /\ work[u].job = j
          BY <1>13, <1>14, <2>4, <3>2 DEF Busy
        <4>2. work[u].attempts \in Nat /\ work[u].attempts < jobs[j].attempts + 1
          BY <1>16, <4>1
        <4> QED
          BY <1>7, <1>13, <1>14, <3>2, <4>1, <4>2 DEF Row
      <3>3. CASE u # w /\ v # w
        BY <1>14, <2>4, <3>3 DEF IInv, ClaimInv, Busy
      <3> QED
        BY <3>1, <3>2, <3>3
    <2>5. OneSender'
      BY <1>13, <1>14, <1>15 DEF IInv, ClaimInv, OneSender
    <2>6. clock' \in Nat
      BY <1>1, <1>7
    <2> QED
      BY <1>14, <2>1, <2>2, <2>3, <2>4, <2>5, <2>6 DEF ClaimInv
  <1>18. ReportInv'
    BY <1>1, <1>13, <1>14 DEF IInv, ReportInv
  <1> QED
    BY <1>11, <1>17, <1>18 DEF IInv

LEMMA SendIInv ==
  ASSUME IInv, NEW w \in Replicas, NEW s \in Status, Send(w, s)
  PROVE  IInv'
  <1> DEFINE d == [phase |-> "reporting", job |-> work[w].job, reg |-> work[w].reg,
                   attempts |-> work[w].attempts, status |-> s]
  <1>1. /\ UNCHANGED <<clock, db, dead>> /\ work[w].phase = "sending"
        /\ work' = [work EXCEPT ![w] = d]
        /\ answers' = answers \cup {<<work[w].job, s>>}
        /\ s = "gone" => work[w].reg \in dead
    BY DEF Send
  <1>2. work \in [Replicas -> {Idle} \cup Sending \cup Reporting] /\ work[w] \in Sending
    BY <1>1 DEF IInv, ClaimInv, Idle, Reporting
  <1>3. /\ d \in Reporting /\ d.phase = "reporting" /\ d.job = work[w].job
        /\ d.attempts = work[w].attempts /\ d.status = s /\ d.reg = work[w].reg
    BY <1>2 DEF Sending, Reporting
  <1> HIDE DEF d
  <1>4. /\ work' \in [Replicas -> {Idle} \cup Sending \cup Reporting]
        /\ work'[w] = d /\ \A v \in Replicas \ {w} : work'[v] = work[v]
    BY <1>1, <1>2, <1>3
  <1>5. \A v \in Replicas : Busy(v)' => /\ Busy(v) /\ work'[v].job = work[v].job
                                       /\ work'[v].attempts = work[v].attempts
    BY <1>1, <1>3, <1>4 DEF Busy
  <1>6. \A v \in Replicas : work'[v].phase = "sending" => work'[v] = work[v]
    BY <1>3, <1>4
  <1>7. QueueInv'
    BY <1>1 DEF db, IInv, QueueInv, QueuedForThisRegistration
  <1>8. ClaimInv'
    <2>1. \A v \in Replicas : Busy(v)' =>
            /\ inbox'[work'[v].job[2]] # "absent"
            /\ work'[v].job \in DOMAIN jobs' => work'[v].attempts <= jobs'[work'[v].job].attempts
      BY <1>1, <1>5 DEF db, IInv, ClaimInv
    <2>2. \A v \in Replicas : work'[v].phase = "sending" =>
            /\ clock' - work'[v].since <= SendTimeout
            /\ work'[v].job \in DOMAIN jobs' =>
                 /\ jobs'[work'[v].job].attempts = work'[v].attempts
                 /\ jobs'[work'[v].job].lease >= work'[v].since + Lease - MaxLag
      BY <1>1, <1>6 DEF db, IInv, ClaimInv
    <2>3. \A u, v \in Replicas : u # v /\ Busy(u)' /\ Busy(v)' /\ work'[u].job = work'[v].job =>
            work'[u].attempts # work'[v].attempts
      BY <1>5 DEF IInv, ClaimInv
    <2>4. OneSender'
      BY <1>6 DEF IInv, ClaimInv, OneSender
    <2> QED
      BY <1>1, <1>4, <2>1, <2>2, <2>3, <2>4 DEF db, IInv, ClaimInv
  <1>9. ReportInv'
    BY <1>1, <1>3, <1>4 DEF IInv, ReportInv
  <1> QED
    BY <1>7, <1>8, <1>9 DEF IInv

\* A report that is stale finds another attempt; one that is not has the job
\* to itself.
LEMMA ReportedNotSent ==
  ASSUME IInv, NEW w \in Replicas, work[w].phase = "reporting",
         SameAttempt(work[w].job, work[w].attempts),
         NEW v \in Replicas, work[v].phase = "sending"
  PROVE  work[v].job # work[w].job
  <1> SUFFICES ASSUME work[v].job = work[w].job PROVE FALSE
    OBVIOUS
  <1>1. v # w /\ Busy(v) /\ Busy(w)
    BY DEF Busy
  <1>2. jobs[work[v].job].attempts = work[v].attempts
    BY DEF IInv, ClaimInv, SameAttempt
  <1>3. work[v].attempts # work[w].attempts
    BY <1>1 DEF IInv, ClaimInv
  <1> QED
    BY <1>2, <1>3 DEF SameAttempt

LEMMA RetryIInv ==
  ASSUME IInv, NEW w \in Replicas, work[w].phase = "reporting", NEW now,
         Retry(work[w], now), SameAttempt(work[w].job, work[w].attempts),
         work' = [work EXCEPT ![w] = Idle],
         UNCHANGED <<clock, inbox, dead, answers>>
  PROVE  IInv'
  <1> DEFINE j == work[w].job
  <1>1. /\ UNCHANGED subs /\ j \in DOMAIN jobs
        /\ jobs' = [jobs EXCEPT ![j].next = now + Backoff(work[w].attempts), ![j].lease = 0]
    BY DEF Retry, SameAttempt
  <1>2. /\ DOMAIN jobs' = DOMAIN jobs
        /\ \A k \in DOMAIN jobs : k # j => jobs'[k] = jobs[k]
        /\ jobs'[j] = [jobs[j] EXCEPT !.next = now + Backoff(work[w].attempts), !.lease = 0]
    BY <1>1
  <1>3. Row(jobs[j])
    BY <1>1 DEF IInv, ClaimInv
  <1>4. Row(jobs'[j]) /\ jobs'[j].attempts = jobs[j].attempts /\ jobs'[j].for = jobs[j].for
    BY <1>2, <1>3 DEF Row
  <1>5. /\ work \in [Replicas -> {Idle} \cup Sending \cup Reporting]
        /\ work' \in [Replicas -> {Idle} \cup Sending \cup Reporting]
        /\ Rests
    BY DEF IInv, ClaimInv, Rests
  <1>6. \A v \in Replicas : work'[v] = Idle => work'[v].phase = "idle"
    BY DEF Idle
  <1>7. /\ \A v \in Replicas : Busy(v)' => work'[v] = work[v] /\ Busy(v)
        /\ \A v \in Replicas : work'[v].phase = "sending" => work'[v] = work[v] /\ work[v].job # j
    BY <1>5, <1>6, ReportedNotSent DEF Rests, Busy
  <1> HIDE DEF j
  <1>8. \A k \in DOMAIN jobs : jobs'[k].attempts = jobs[k].attempts /\ jobs'[k].for = jobs[k].for
    BY <1>2, <1>4
  <1>9. QueueInv'
    BY <1>1, <1>2, <1>8 DEF IInv, QueueInv, QueuedForThisRegistration
  <1>10. ClaimInv'
    <2>1. \A k \in DOMAIN jobs' : Row(jobs'[k])
      BY <1>2, <1>4 DEF IInv, ClaimInv
    <2>2. \A v \in Replicas : Busy(v)' =>
            /\ inbox'[work'[v].job[2]] # "absent"
            /\ work'[v].job \in DOMAIN jobs' => work'[v].attempts <= jobs'[work'[v].job].attempts
      BY <1>2, <1>7, <1>8 DEF IInv, ClaimInv
    <2>3. \A v \in Replicas : work'[v].phase = "sending" =>
            /\ clock' - work'[v].since <= SendTimeout
            /\ work'[v].job \in DOMAIN jobs' =>
                 /\ jobs'[work'[v].job].attempts = work'[v].attempts
                 /\ jobs'[work'[v].job].lease >= work'[v].since + Lease - MaxLag
      BY <1>2, <1>7 DEF IInv, ClaimInv
    <2>4. \A u, v \in Replicas : u # v /\ Busy(u)' /\ Busy(v)' /\ work'[u].job = work'[v].job =>
            work'[u].attempts # work'[v].attempts
      BY <1>7 DEF IInv, ClaimInv
    <2>5. OneSender'
      BY <1>7 DEF IInv, ClaimInv, OneSender
    <2> QED
      BY <1>5, <2>1, <2>2, <2>3, <2>4, <2>5 DEF IInv, ClaimInv
  <1>11. ReportInv'
    BY <1>5, RestReports
  <1> QED
    BY <1>9, <1>10, <1>11 DEF IInv

LEMMA CompleteIInv ==
  ASSUME IInv, NEW w \in Replicas, Complete(w)
  PROVE  IInv'
  <1> DEFINE d == work[w]
  <1>1. /\ d.phase = "reporting" /\ work' = [work EXCEPT ![w] = Idle]
        /\ UNCHANGED <<clock, inbox, dead, answers>>
    BY DEF Complete
  <1>2. Rests /\ work' \in [Replicas -> {Idle} \cup Sending \cup Reporting]
    BY <1>1 DEF Rests, IInv, ClaimInv
  <1>3. \A j \in DOMAIN jobs : j[1] \in DOMAIN subs
    BY DEF IInv, QueueInv
  <1>0. ASSUME UNCHANGED subs, Shrinks PROVE IInv'
    <2>1. Drops({})
      BY <1>0, <1>3 DEF Drops, Shrinks
    <2> QED
      BY <1>0, <1>1, <1>2, <2>1, DropIInv
  <1>4. CASE Gone(d)
    <2> DEFINE b == d.job[1]
    <2>1. CASE UNCHANGED <<subs, jobs>>
      BY <1>0, <2>1 DEF Shrinks
    <2>2. CASE ~UNCHANGED <<subs, jobs>>
      <3>1. subs' = Restrict(subs, DOMAIN subs \ {b}) /\ jobs' = JobsOf(DOMAIN subs', Messages)
        BY <1>4, <2>2 DEF Gone
      <3>2. DOMAIN subs' = DOMAIN subs \ {b} /\ \A c \in DOMAIN subs' : subs'[c] = subs[c]
        BY <3>1, RestrictDef
      <3>3. Shrinks /\ \A j \in DOMAIN jobs' : j[1] \in DOMAIN subs'
        BY <3>1, JobsOfShrinks
      <3>4. Drops({b})
        BY <3>2, <3>3 DEF Drops
      <3> QED
        BY <1>1, <1>2, <3>3, <3>4, DropIInv
    <2> QED
      BY <2>1, <2>2
  <1>5. CASE Finish(d)
    <2>1. Shrinks
      BY <1>5, RestrictDef DEF Finish, Shrinks
    <2> QED
      BY <1>0, <1>5, <2>1 DEF Finish
  <1>6. ASSUME NEW now \in Readings, Retry(d, now) PROVE IInv'
    <2>1. CASE SameAttempt(d.job, d.attempts)
      BY <1>1, <1>6, <2>1, RetryIInv
    <2>2. CASE ~SameAttempt(d.job, d.attempts)
      BY <1>0, <1>6, <2>2 DEF Retry, Shrinks
    <2> QED
      BY <2>1, <2>2
  <1> QED
    BY <1>4, <1>5, <1>6 DEF Complete

LEMMA AbandonIInv ==
  ASSUME IInv, NEW w \in Replicas, Abandon(w)
  PROVE  IInv'
  <1>1. UNCHANGED <<clock, db, dead, answers>> /\ work' = [work EXCEPT ![w] = Idle]
    BY DEF Abandon
  <1>2. Rests /\ work' \in [Replicas -> {Idle} \cup Sending \cup Reporting]
    BY <1>1 DEF Rests, IInv, ClaimInv
  <1>3. Shrinks /\ Drops({})
    BY <1>1 DEF db, Shrinks, Drops, IInv, QueueInv
  <1> QED
    BY <1>1, <1>2, <1>3, DropIInv DEF db

LEMMA TickIInv ==
  ASSUME IInv, Tick
  PROVE  IInv'
  <1>1. /\ UNCHANGED <<db, work, dead, answers>> /\ clock' = clock + 1
        /\ \A w \in Replicas : work[w].phase = "sending" => clock - work[w].since < SendTimeout
    BY DEF Tick
  <1>2. \A w \in Replicas : work[w].phase = "sending" => work[w].since \in Nat
    BY DEF IInv, ClaimInv, Idle, Sending, Reporting
  <1>3. \A w \in Replicas : work[w].phase = "sending" => clock' - work[w].since <= SendTimeout
    BY <1>1, <1>2, PushAssumption DEF IInv, ClaimInv
  <1>4. QueueInv'
    BY <1>1 DEF db, IInv, QueueInv, QueuedForThisRegistration
  <1>5. ClaimInv'
    BY <1>1, <1>3 DEF db, IInv, ClaimInv, Busy, OneSender
  <1>6. ReportInv'
    BY <1>1 DEF IInv, ReportInv
  <1> QED
    BY <1>4, <1>5, <1>6 DEF IInv

LEMMA StepIInv == IInv /\ [Next]_vars => IInv'
  <1> SUFFICES ASSUME IInv, [Next]_vars PROVE IInv'
    OBVIOUS
  <1>1. CASE UNCHANGED vars
    <2>1. QueueInv'
      BY <1>1 DEF vars, db, IInv, QueueInv, QueuedForThisRegistration
    <2>2. ClaimInv'
      BY <1>1 DEF vars, db, IInv, ClaimInv, Busy, OneSender
    <2>3. ReportInv'
      BY <1>1 DEF vars, IInv, ReportInv
    <2> QED
      BY <2>1, <2>2, <2>3 DEF IInv
  <1>2. ASSUME NEW w \in Replicas, Worker(w) PROVE IInv'
    BY <1>2, NextNoneIInv, ClaimIInv, SendIInv, CompleteIInv DEF Worker
  <1> QED
    BY <1>1, <1>2, PublishIInv, MarkReadIInv, RemoveIInv, SaveIInv, DeleteIInv,
       RestartIInv, UnsubscribeIInv, AbandonIInv, TickIInv DEF Next

-----------------------------------------------------------------------------
(* Results. *)

(* The inductive invariant: a worker that sends holds the job's newest     *)
(* claim under a lease that outlives the send, and every queued job is for *)
(* the registration its subscription still has.                            *)
THEOREM Invariance == Spec => []IInv
  BY InitIInv, StepIInv, PTL DEF Spec

(* No two replicas send the same message to the same browser at once, for  *)
(* any number of replicas, given that a send ends before its lease can be  *)
(* seen to have run out (WebPushStore.Next, Complete, Service.Drain).      *)
THEOREM NoSimultaneousSends == Spec => []OneSender
  BY Invariance, PTL DEF IInv, ClaimInv

(* A message queued for one registration of a browser is never sent to the *)
(* registration that replaced it (WebPushStore.Save, the insert trigger).  *)
THEOREM NoInheritedQueue == Spec => []QueuedForThisRegistration
  BY Invariance, PTL DEF IInv, QueueInv

-----------------------------------------------------------------------------
(* What a step may take out of the tables. *)

Counted == faults \in Nat

LEMMA FaultsCounted == Spec => []Counted
  <1>1. Init => Counted
    BY DEF Init, Counted
  <1>2. Counted /\ [Next]_vars => Counted'
    <2> SUFFICES ASSUME Counted, [Next]_vars PROVE faults' \in {faults, faults + 1}
      BY DEF Counted
    <2> QED
      BY DEF Next, vars, Publish, MarkRead, Remove, Save, Delete, Restart, Unsubscribe,
             Worker, NextNone, Next_, Send, Complete, Abandon, Tick
  <1> QED
    BY <1>1, <1>2, PTL DEF Spec

\* Only Complete takes a worker from reporting to idle without a fault.
LEMMA ReportIsComplete ==
  ASSUME IInv, faults \in Nat, Next, NEW w \in Replicas,
         work[w].phase = "reporting", work'[w] = Idle, faults' = faults
  PROVE  Complete(w)
  <1>1. work[w] # Idle /\ work \in [Replicas -> {Idle} \cup Sending \cup Reporting]
    BY DEF Idle, IInv, ClaimInv
  <1>2. work' # work
    BY <1>1
  <1>3. \A v \in Replicas : NextNone(v) => UNCHANGED work
    BY DEF NextNone
  <1>4. ASSUME NEW v \in Replicas, Next_(v) PROVE FALSE
    <2>1. work[v] = Idle /\ v # w
      BY <1>1, <1>4 DEF Next_
    <2>2. work'[w] = work[w]
      BY <1>1, <1>4, <2>1 DEF Next_, Claim
    <2> QED
      BY <1>1, <2>2
  <1>5. ASSUME NEW v \in Replicas, NEW s \in Status, Send(v, s) PROVE FALSE
    <2>1. work[v].phase = "sending" /\ v # w
      BY <1>5 DEF Send
    <2>2. work'[w] = work[w]
      BY <1>1, <1>5, <2>1 DEF Send
    <2> QED
      BY <1>1, <2>2
  <1>6. ASSUME NEW v \in Replicas, Complete(v) PROVE Complete(w)
    <2>1. CASE v = w
      BY <1>6, <2>1
    <2>2. CASE v # w
      <3>1. work'[w] = work[w]
        BY <1>1, <1>6, <2>2 DEF Complete
      <3> QED
        BY <1>1, <3>1
    <2> QED
      BY <2>1, <2>2
  <1>7. /\ \A n \in Messages : Publish(n) \/ MarkRead(n) \/ Remove(n) => UNCHANGED work
        /\ \A b \in Browsers : Delete(b) => UNCHANGED work
        /\ \A b \in Browsers, reg \in Registration : Save(b, reg) => UNCHANGED work
        /\ \A reg \in Registration : Unsubscribe(reg) => UNCHANGED work
        /\ Tick => UNCHANGED work
    BY DEF Publish, MarkRead, Remove, Delete, Save, Unsubscribe, Tick
  <1>8. /\ \A v \in Replicas, key \in VapidKeys, on \in BOOLEAN : ~Restart(v, key, on)
        /\ \A v \in Replicas : ~Abandon(v)
    BY DEF Restart, Abandon
  <1> QED
    BY <1>2, <1>3, <1>4, <1>5, <1>6, <1>7, <1>8 DEF Next, Worker

(* A worker's report removes a subscription only if the push service has   *)
(* dropped that very registration: a stale answer harms no replacement     *)
(* (WebPushStore.Complete).                                                *)
THEOREM StaleAnswersHarmless == Spec => OnlyDeadRemoved
  <1>1. ASSUME IInv, faults \in Nat, Next, NEW w \in Replicas,
               work[w].phase = "reporting", work'[w] = Idle, faults' = faults,
               NEW b \in DOMAIN subs \ DOMAIN subs'
        PROVE  subs[b].reg \in dead
    <2>1. Complete(w)
      BY <1>1, ReportIsComplete
    <2>2. work[w].status = "gone" /\ Gone(work[w])
      BY <1>1, <2>1 DEF Complete, Finish, Retry
    <2>3. subs[b].reg = work[w].reg
      BY <1>1, <2>2, RestrictDef DEF Gone
    <2> QED
      BY <1>1, <2>2, <2>3 DEF IInv, ReportInv
  <1>2. IInv /\ Counted /\ [Next]_vars =>
          [\A w \in Replicas : \A b \in DOMAIN subs \ DOMAIN subs' :
             (work[w].phase = "reporting" /\ work'[w] = Idle /\ faults' = faults)
               => subs[b].reg \in dead]_vars
    BY <1>1 DEF Counted
  <1> QED
    BY <1>2, Invariance, FaultsCounted, PTL DEF Spec, OnlyDeadRemoved

\* Why a job may leave the queue.
Accounted(j) ==
  \/ \E s \in {"ok", "reject", "gone"} : <<j, s>> \in answers
  \/ jobs[j].attempts >= MaxAttempts
  \/ jobs[j].expires <= clock
  \/ inbox'[j[2]] \in {"read", "removed"}
  \/ j[1] \notin DOMAIN subs'
  \/ subs'[j[1]].reg # jobs[j].for
  \/ ~enabled'

LEMMA LostAccounted ==
  ASSUME IInv, Next, NEW j \in DOMAIN jobs \ DOMAIN jobs'
  PROVE  Accounted(j)
  <1>t. /\ Row(jobs[j]) /\ j[1] \in DOMAIN subs /\ j[2] \in Messages
        /\ jobs[j].for = subs[j[1]].reg /\ clock \in Nat
    BY DEF IInv, QueueInv, ClaimInv, QueuedForThisRegistration
  <1>o. ASSUME NEW B, NEW M, jobs' = JobsOf(B, M)
        PROVE  j[1] \notin B \/ j[2] \notin M
    BY <1>o DEF JobsOf, Restrict
  <1>1. ASSUME NEW n \in Messages, Publish(n) PROVE Accounted(j)
    BY <1>1 DEF Publish
  <1>2. ASSUME NEW n \in Messages, Remove(n) PROVE Accounted(j)
    <2>1. jobs' = JobsOf(DOMAIN subs, Messages \ {n})
      BY <1>2 DEF Remove
    <2>2. j[2] = n
      BY <1>o, <1>t, <2>1
    <2>3. inbox'[n] = "removed"
      BY <1>2 DEF Remove, IInv, QueueInv
    <2> QED
      BY <2>2, <2>3 DEF Accounted
  <1>3. ASSUME NEW b \in Browsers, NEW reg \in Registration, Save(b, reg) PROVE Accounted(j)
    <2>1. b \in DOMAIN subs /\ subs[b].reg # reg /\ jobs' = JobsOf(DOMAIN subs \ {b}, Messages)
      BY <1>3 DEF Save
    <2>2. j[1] = b
      BY <1>o, <1>t, <2>1
    <2>3. subs'[b].reg = reg
      BY <1>3 DEF Save
    <2> QED
      BY <1>t, <2>1, <2>2, <2>3 DEF Accounted
  <1>4. ASSUME NEW b \in Browsers, Delete(b) PROVE Accounted(j)
    <2>1. jobs' = JobsOf(DOMAIN subs', Messages)
      BY <1>4 DEF Delete
    <2> QED
      BY <1>o, <1>t, <2>1 DEF Accounted
  <1>5. ASSUME NEW w \in Replicas, NEW key \in VapidKeys, NEW on \in BOOLEAN,
               Restart(w, key, on)
        PROVE  Accounted(j)
    <2>1. CASE on
      <3>1. jobs' = JobsOf(DOMAIN subs', Messages)
        BY <1>5, <2>1 DEF Restart, Configure
      <3> QED
        BY <1>o, <1>t, <3>1 DEF Accounted
    <2>2. CASE ~on
      BY <1>5, <2>2 DEF Restart, Configure, Accounted
    <2> QED
      BY <2>1, <2>2
  <1>6. ASSUME NEW now \in Readings, subs' = Restrict(subs, LiveSubs(now)), UNCHANGED inbox,
               DOMAIN jobs' = LiveJobs(now)
        PROVE  Accounted(j)
    <2>1. DOMAIN subs' = LiveSubs(now)
      BY <1>6, RestrictDef
    <2>2. \/ j[1] \notin LiveSubs(now)
          \/ ~(jobs[j].expires > now)
          \/ inbox[j[2]] = "read"
      BY <1>6 DEF LiveJobs
    <2>3. now \in Int /\ now <= clock /\ jobs[j].expires \in Int
      BY <1>t DEF Readings, Row
    <2>4. ~(jobs[j].expires > now) => jobs[j].expires <= clock
      BY <1>t, <2>3
    <2> QED
      BY <1>6, <2>1, <2>2, <2>4 DEF Accounted
  <1>7. ASSUME NEW w \in Replicas, NextNone(w) PROVE Accounted(j)
    <2>1. PICK now \in Readings : /\ subs' = Restrict(subs, LiveSubs(now))
                                  /\ jobs' = Restrict(jobs, LiveJobs(now))
      BY <1>7 DEF NextNone
    <2>2. DOMAIN jobs' = LiveJobs(now)
      BY <2>1, RestrictDef
    <2> QED
      BY <1>6, <1>7, <2>1, <2>2 DEF NextNone
  <1>8. ASSUME NEW w \in Replicas, Next_(w) PROVE Accounted(j)
    <2>1. PICK now \in Readings : \E k \in First(Due(now)) :
            subs' = Restrict(subs, LiveSubs(now)) /\ Claim(w, k, now)
      BY <1>8 DEF Next_
    <2>2. DOMAIN jobs' = LiveJobs(now)
      BY <2>1 DEF Claim, Restrict
    <2> QED
      BY <1>6, <1>8, <2>1, <2>2 DEF Next_
  <1>9. ASSUME NEW w \in Replicas, Complete(w) PROVE Accounted(j)
    <2> DEFINE d == work[w]
    <2>0. d.phase = "reporting"
      BY <1>9 DEF Complete
    <2>1. CASE Gone(d)
      <3>1. jobs' = JobsOf(DOMAIN subs', Messages)
        BY <2>1 DEF Gone
      <3> QED
        BY <1>o, <1>t, <3>1 DEF Accounted
    <2>2. CASE Final(d) /\ Finish(d)
      <3>1. SameAttempt(d.job, d.attempts) /\ jobs' = Restrict(jobs, DOMAIN jobs \ {d.job})
        BY <2>2 DEF Finish
      <3>2. j = d.job /\ jobs[j].attempts = d.attempts
        BY <3>1, RestrictDef DEF SameAttempt
      <3>3. <<j, d.status>> \in answers
        BY <2>0, <3>2 DEF IInv, ReportInv
      <3> QED
        BY <2>2, <3>2, <3>3 DEF Final, Accounted
    <2>3. ASSUME NEW now, Retry(d, now) PROVE DOMAIN jobs' = DOMAIN jobs
      BY <2>3 DEF Retry
    <2> QED
      BY <1>9, <2>1, <2>2, <2>3 DEF Complete
  <1>10. /\ \A n \in Messages : ~MarkRead(n)
         /\ \A reg \in Registration : ~Unsubscribe(reg)
         /\ \A w \in Replicas : ~Abandon(w) /\ \A s \in Status : ~Send(w, s)
         /\ ~Tick
    BY DEF MarkRead, Unsubscribe, Abandon, Send, Tick, db
  <1> QED
    BY <1>1, <1>2, <1>3, <1>4, <1>5, <1>7, <1>8, <1>9, <1>10 DEF Next, Worker

(* Delivery is at least once: a job leaves the queue only with an answer   *)
(* that is final, or because it is used up, expired, read, removed,        *)
(* dropped, replaced or push is off (Next, Complete, Save, Delete,         *)
(* Configure and the foreign keys).                                        *)
THEOREM LossAccounted == Spec => NeverSilentlyLost
  <1>1. IInv /\ [Next]_vars =>
          [\A j \in DOMAIN jobs \ DOMAIN jobs' :
             \/ \E s \in {"ok", "reject", "gone"} : <<j, s>> \in answers
             \/ jobs[j].attempts >= MaxAttempts
             \/ jobs[j].expires <= clock
             \/ inbox'[j[2]] \in {"read", "removed"}
             \/ j[1] \notin DOMAIN subs'
             \/ subs'[j[1]].reg # jobs[j].for
             \/ ~enabled']_vars
    BY LostAccounted DEF Accounted
  <1> QED
    BY <1>1, Invariance, PTL DEF Spec, NeverSilentlyLost

==============================================================================
