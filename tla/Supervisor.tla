----------------------------- MODULE Supervisor -----------------------------
(***************************************************************************)
(* Supervise (plugin-sdk/runtime/supervisor.go): one goroutine owns one      *)
(* plugin capability, starts its child process, hands it out, watches it and *)
(* restarts it within a budget.  One tick of the clock is a second.          *)
(*                                                                         *)
(* start, withdraw, CheckHealth and Close take time, and the child may exit  *)
(* and the context may be cancelled at any moment.  The tickers hold one     *)
(* pending tick each; which pending case select takes is left open.          *)
(*                                                                         *)
(* Restart times are kept as a set: a backoff lasts a second at least, so    *)
(* no two restarts share one.                                                *)
(***************************************************************************)
EXTENDS Integers, FiniteSets

CONSTANTS Window,        \* five minutes
          Budget,        \* 5 restarts
          FailureLimit,  \* 3 failed health checks
          HealthEvery,   \* 10 seconds
          HealthTimeout, \* 2 seconds
          MaxClock       \* bound on the clock

ASSUME SupervisorAssumption ==
  /\ Window \in Nat \ {0} /\ Budget \in Nat /\ FailureLimit \in Nat \ {0}
  /\ HealthEvery \in Nat \ {0} /\ HealthTimeout \in Nat /\ MaxClock \in Nat
  /\ \A n \in 0..Budget : 2^n \in Nat

VARIABLES clock,
          cancelled,  \* ctx.Err() # nil
          pc,         \* where the goroutine is
          state,      \* State of the last Event
          attempts,   \* attempts
          readyAt,    \* ready
          failures,   \* failures
          wake,       \* when the backoff timer or the health check expires
          exitTick, healthTick,  \* a tick waits in exit.C, in health.C
          child,      \* incarnations started so far
          childExited,  \* whether the current child has exited by itself
          open,       \* children started and not yet closed
          offered,    \* children published and not yet withdrawn
          history,    \* history: the times of all restarts
          checks      \* history: failed checks since the last good one

supVars == <<clock, cancelled, pc, state, attempts, readyAt, failures, wake,
            exitTick, healthTick, child, childExited, open, offered, history,
            checks>>

\* What a step of the goroutine leaves to the clock and the context.
env == <<clock, cancelled>>

SupTypeOK ==
  /\ clock \in Nat /\ cancelled \in BOOLEAN
  /\ pc \in {"loop", "starting", "running", "checking", "withdrawing",
             "closing", "deciding", "backoff", "done"}
  /\ state \in {"none", "starting", "ready", "stopping", "disabled", "failed",
                "backoff"}
  /\ attempts \in SUBSET Nat /\ history \in SUBSET Nat
  /\ readyAt \in Nat /\ failures \in 0..FailureLimit /\ wake \in Nat /\ checks \in Nat
  /\ exitTick \in BOOLEAN /\ healthTick \in BOOLEAN
  /\ child \in Nat /\ childExited \in BOOLEAN
  /\ open \in SUBSET Nat /\ offered \in SUBSET Nat

SupInit ==
  /\ clock = 0 /\ cancelled = FALSE
  /\ pc = "loop" /\ state = "none"
  /\ attempts = {} /\ history = {}
  /\ readyAt = 0 /\ failures = 0 /\ wake = 0 /\ checks = 0
  /\ exitTick = FALSE /\ healthTick = FALSE
  /\ child = 0 /\ childExited = FALSE
  /\ open = {} /\ offered = {}
-----------------------------------------------------------------------------
\* The head of the loop: return if cancelled, else call start.
Loop ==
  /\ pc = "loop"
  /\ IF cancelled THEN pc' = "done" /\ UNCHANGED state
                  ELSE pc' = "starting" /\ state' = "starting"
  /\ UNCHANGED <<env, attempts, readyAt, failures, wake, exitTick, healthTick,
                 child, childExited, open, offered, history, checks>>

StartFails ==
  /\ pc = "starting"
  /\ pc' = "deciding"
  /\ UNCHANGED <<env, state, attempts, readyAt, failures, wake, exitTick,
                 healthTick, child, childExited, open, offered, history, checks>>

\* start returns a child, which is published.
Started ==
  /\ pc = "starting"
  /\ child' = child + 1 /\ childExited' = FALSE
  /\ open' = open \cup {child'}
  /\ offered' = offered \cup {child'}
  /\ pc' = "running" /\ state' = "ready"
  /\ readyAt' = clock
  /\ failures' = 0 /\ checks' = 0
  /\ exitTick' = FALSE /\ healthTick' = FALSE
  /\ UNCHANGED <<env, attempts, wake, history>>

\* case <-ctx.Done()
SeeCancel ==
  /\ pc = "running" /\ cancelled
  /\ pc' = "withdrawing"
  /\ UNCHANGED <<env, state, attempts, readyAt, failures, wake, exitTick,
                 healthTick, child, childExited, open, offered, history, checks>>

ExitTickDeaf ==  \* Fault: the exit is not looked at.
  /\ pc = "running" /\ exitTick
  /\ exitTick' = FALSE
  /\ UNCHANGED <<env, pc, state, attempts, readyAt, failures, wake, healthTick,
                 child, childExited, open, offered, history, checks>>

\* case <-exit.C
ExitTick ==
  /\ pc = "running" /\ exitTick
  /\ exitTick' = FALSE
  /\ pc' = IF childExited THEN "withdrawing" ELSE "running"
  /\ UNCHANGED <<env, state, attempts, readyAt, failures, wake, healthTick,
                 child, childExited, open, offered, history, checks>>

\* case <-health.C: CheckHealth is called with its own deadline.
HealthTick ==
  /\ pc = "running" /\ healthTick
  /\ healthTick' = FALSE
  /\ pc' = "checking"
  /\ wake' = clock + HealthTimeout
  /\ UNCHANGED <<env, state, attempts, readyAt, failures, exitTick, child,
                 childExited, open, offered, history, checks>>

Counted(ok) == IF ok THEN 0 ELSE failures + 1

\* CheckHealth returns; an exited child and a cancelled call fail.
Checked(ok) ==
  /\ pc = "checking"
  /\ ok => ~childExited
  /\ failures' = Counted(ok)
  /\ checks' = IF ok THEN 0 ELSE checks + 1
  /\ pc' = IF failures' >= FailureLimit THEN "withdrawing" ELSE "running"
  /\ UNCHANGED <<env, state, attempts, readyAt, wake, exitTick, healthTick,
                 child, childExited, open, offered, history>>

\* withdraw returns once nobody uses the child any more.
Withdraw ==
  /\ pc = "withdrawing"
  /\ offered' = offered \ {child}
  /\ pc' = "closing" /\ state' = "stopping"
  /\ UNCHANGED <<env, attempts, readyAt, failures, wake, exitTick, healthTick,
                 child, childExited, open, history, checks>>

CloseLater ==  \* Fault: the child of a cancelled capability is not closed.
  /\ pc = "closing"
  /\ open' = IF cancelled THEN open ELSE open \ {child}
  /\ pc' = IF cancelled THEN "done" ELSE "deciding"
  /\ state' = IF cancelled THEN "disabled" ELSE state
  /\ attempts' = IF ~cancelled /\ clock - readyAt >= Window THEN {} ELSE attempts
  /\ UNCHANGED <<env, readyAt, failures, wake, exitTick, healthTick, child,
                 childExited, offered, history, checks>>

\* Close; a child that served for the whole window renews the budget.
Close ==
  /\ pc = "closing"
  /\ open' = open \ {child}
  /\ pc' = IF cancelled THEN "done" ELSE "deciding"
  /\ state' = IF cancelled THEN "disabled" ELSE state
  /\ attempts' = IF ~cancelled /\ clock - readyAt >= Window THEN {} ELSE attempts
  /\ UNCHANGED <<env, readyAt, failures, wake, exitTick, healthTick, child,
                 childExited, offered, history, checks>>

RecentLastOnly == {t \in attempts : clock - t < 2}  \* Fault: a short memory.

Recent == {t \in attempts : clock - t < Window}

\* Disabled, failed for good, or on to the next backoff.
Decide ==
  /\ pc = "deciding"
  /\ \/ /\ cancelled
        /\ pc' = "done" /\ state' = "disabled"
        /\ UNCHANGED <<attempts, wake, history>>
     \/ /\ ~cancelled /\ Cardinality(Recent) >= Budget
        /\ pc' = "done" /\ state' = "failed"
        /\ attempts' = Recent
        /\ UNCHANGED <<wake, history>>
     \/ /\ ~cancelled /\ Cardinality(Recent) < Budget
        /\ pc' = "backoff" /\ state' = "backoff"
        /\ attempts' = Recent \cup {clock}
        /\ wake' = clock + 2^Cardinality(Recent)
        /\ history' = history \cup {clock}
  /\ UNCHANGED <<env, readyAt, failures, exitTick, healthTick, child, childExited,
                 open, offered, checks>>

BackoffDeaf ==  \* Fault: a cancelled capability goes on to start a child.
  /\ pc = "backoff"
  /\ clock >= wake
  /\ pc' = "starting" /\ state' = "starting"
  /\ UNCHANGED <<env, attempts, readyAt, failures, wake, exitTick, healthTick,
                 child, childExited, open, offered, history, checks>>

Backoff ==
  /\ pc = "backoff"
  /\ \/ cancelled /\ pc' = "done" /\ state' = "disabled"
     \/ clock >= wake /\ pc' = "loop" /\ UNCHANGED state
  /\ UNCHANGED <<env, attempts, readyAt, failures, wake, exitTick, healthTick,
                 child, childExited, open, offered, history, checks>>
-----------------------------------------------------------------------------
Goroutine ==
  \/ Loop \/ StartFails \/ Started \/ SeeCancel \/ ExitTick \/ HealthTick
  \/ (\E ok \in BOOLEAN : Checked(ok))
  \/ Withdraw \/ Close \/ Decide \/ Backoff

CancelContext ==
  /\ ~cancelled /\ cancelled' = TRUE
  /\ UNCHANGED <<clock, pc, state, attempts, readyAt, failures, wake, exitTick,
                 healthTick, child, childExited, open, offered, history, checks>>

ChildStops ==
  /\ child \in open /\ ~childExited /\ childExited' = TRUE
  /\ UNCHANGED <<env, pc, state, attempts, readyAt, failures, wake, exitTick,
                 healthTick, child, open, offered, history, checks>>

\* The tickers run while the child does; a health check ends by its deadline.
Tick ==
  /\ clock < MaxClock
  /\ pc = "checking" => clock < wake
  /\ clock' = clock + 1
  /\ LET watching == pc \in {"running", "checking"} IN
       /\ exitTick' = (exitTick \/ watching)
       /\ healthTick' = (\/ healthTick
                         \/ watching /\ (clock' - readyAt) % HealthEvery = 0)
  /\ UNCHANGED <<cancelled, pc, state, attempts, readyAt, failures, wake, child,
                 childExited, open, offered, history, checks>>

SupNext == Goroutine \/ CancelContext \/ ChildStops \/ Tick

SupSpec == SupInit /\ [][SupNext]_supVars

\* start, withdraw, CheckHealth and Close all return: they have deadlines.
SupFairSpec == SupSpec /\ WF_supVars(Goroutine) /\ WF_supVars(Tick)
-----------------------------------------------------------------------------
(***************************************************************************)
(* Properties.                                                              *)
(***************************************************************************)

\* "five restarts per five-minute window": no window of time holds more than
\* Budget restarts, though attempts is pruned and, after a long run, emptied.
RestartBudget ==
  \A t \in history :
    Cardinality({h \in history : h <= t /\ t - h < Window}) <= Budget

\* At most one child is open; it is on offer only while it is open; and none
\* is left behind when the supervisor is done.
OneChild ==
  /\ open \subseteq {child} /\ offered \subseteq open
  /\ pc \in {"loop", "starting", "deciding", "backoff", "done"} => open = {}

\* A child is given up only when it has exited, has failed FailureLimit health
\* checks in a row, or is no longer wanted.
OnlyFailedStopped ==
  [][(pc \in {"running", "checking"} /\ pc' = "withdrawing")
       => (childExited \/ checks' >= FailureLimit \/ cancelled)]_supVars

\* After cancellation no new child is started, but for the one being started.
NoStartAfterCancel ==
  [][(cancelled /\ pc' = "starting") => pc = "starting"]_supVars

\* A cancelled supervisor ends, with its child closed.
CancelEnds == cancelled ~> (pc = "done" /\ open = {})

\* A child that has exited is withdrawn and closed (as long as the bounded
\* clock still ticks).
ExitNoticed == (childExited /\ pc = "running" /\ clock < MaxClock) ~> (open = {})
=============================================================================
