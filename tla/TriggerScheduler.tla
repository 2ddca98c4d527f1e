-------------------------- MODULE TriggerScheduler --------------------------
(***************************************************************************)
(* SoftwareTriggerScheduler: a thread that calls back once per period, on  *)
(* an absolute schedule.  The schedule is kept as the next time to wake    *)
(* up; a cycle that ends after that time counts as an overrun and moves    *)
(* the schedule.  Time is an integer (nanoseconds of steady_clock); any    *)
(* number of ticks may pass between two steps of the thread, so that it    *)
(* may be late for every reason a thread can be late.                      *)
(*                                                                         *)
(* The callback and the passing of time belong to the program around it:   *)
(* SchedulerNext leaves both open.                                         *)
(***************************************************************************)
EXTENDS Integers, Sequences

CONSTANT Period     \* period_

ASSUME PeriodAssumption == Period \in Nat \ {0}

VARIABLES
    now,            \* steady_clock
    spc,            \* where the worker thread is: "none" before start and after the join
    stopRequested,  \* the stop token of worker_
    nextWakeup,     \* next_wakeup
    generated,      \* current_cycle_
    successful,     \* successful_cycles_
    failed,         \* failed_cycles_
    overruns,       \* scheduler_overruns_
    origin,         \* history: the first value of next_wakeup
    starts          \* history: when each cycle began

counters == <<generated, successful, failed>>
schedulerVars == <<now, spc, stopRequested, nextWakeup, counters, overruns, origin, starts>>

SchedulerTypeOK ==
    /\ now \in Nat /\ nextWakeup \in Nat /\ origin \in Nat
    /\ spc \in {"none", "begin", "top", "callback", "plan", "sleep", "ended"}
    /\ stopRequested \in BOOLEAN
    /\ generated \in Nat /\ successful \in Nat /\ failed \in Nat /\ overruns \in Nat
    /\ starts \in Seq(Nat)

SchedulerInit ==
    /\ now = 0 /\ nextWakeup = 0 /\ origin = 0
    /\ spc = "none"
    /\ stopRequested = FALSE
    /\ generated = 0 /\ successful = 0 /\ failed = 0 /\ overruns = 0
    /\ starts = <<>>

(* start: the counters begin again and the thread is created. *)
StartScheduler ==
    /\ spc = "none"
    /\ spc' = "begin"
    /\ stopRequested' = FALSE
    /\ generated' = 0 /\ successful' = 0 /\ failed' = 0 /\ overruns' = 0
    /\ starts' = <<>>
    /\ UNCHANGED <<now, nextWakeup, origin>>

ThreadBegins ==
    /\ spc = "begin"
    /\ spc' = "top"
    /\ nextWakeup' = now
    /\ origin' = now
    /\ UNCHANGED <<now, stopRequested, counters, overruns, starts>>

(* The loop is left, or the next cycle gets its number and the callback    *)
(* begins.                                                                 *)
NextCycle ==
    /\ spc = "top" /\ ~stopRequested
    /\ spc' = "callback"
    /\ generated' = generated + 1
    /\ starts' = Append(starts, now)
    /\ UNCHANGED <<now, stopRequested, nextWakeup, successful, failed, overruns, origin>>

ThreadEnds ==
    /\ spc = "top" /\ stopRequested
    /\ spc' = "ended"
    /\ UNCHANGED <<now, stopRequested, nextWakeup, counters, overruns, origin, starts>>

CallbackReturns(ok) ==
    /\ spc = "callback"
    /\ spc' = "plan"
    /\ successful' = IF ok THEN successful + 1 ELSE successful
    /\ failed' = IF ok THEN failed ELSE failed + 1
    /\ UNCHANGED <<now, stopRequested, nextWakeup, generated, overruns, origin, starts>>

PlanNext_FromNow ==
    /\ spc = "plan"
    /\ spc' = "sleep"
    /\ nextWakeup' = now + Period
    /\ overruns' = IF now >= nextWakeup + Period THEN overruns + 1 ELSE overruns
    /\ UNCHANGED <<now, stopRequested, counters, origin, starts>>

PlanNext_CatchesUp ==
    /\ spc = "plan"
    /\ spc' = "sleep"
    /\ nextWakeup' = nextWakeup + Period
    /\ overruns' = IF now >= nextWakeup + Period THEN overruns + 1 ELSE overruns
    /\ UNCHANGED <<now, stopRequested, counters, origin, starts>>

(* The time of the next cycle: one period after that of this one, or, when *)
(* that has passed already, one period from now.                           *)
PlanNext ==
    /\ spc = "plan"
    /\ spc' = "sleep"
    /\ \/ /\ now < nextWakeup + Period
          /\ nextWakeup' = nextWakeup + Period
          /\ UNCHANGED overruns
       \/ /\ now >= nextWakeup + Period
          /\ nextWakeup' = now + Period
          /\ overruns' = overruns + 1
    /\ UNCHANGED <<now, stopRequested, counters, origin, starts>>

(* sleep_until: a stop does not cut it short. *)
Wake ==
    /\ spc = "sleep" /\ now >= nextWakeup
    /\ spc' = "top"
    /\ UNCHANGED <<now, stopRequested, nextWakeup, counters, overruns, origin, starts>>

(* stop: request_stop, and the join that returns when the thread has ended *)
RequestSchedulerStop ==
    /\ spc # "none"
    /\ stopRequested' = TRUE
    /\ UNCHANGED <<now, spc, nextWakeup, counters, overruns, origin, starts>>

JoinScheduler ==
    /\ spc = "ended"
    /\ spc' = "none"
    /\ UNCHANGED <<now, stopRequested, nextWakeup, counters, overruns, origin, starts>>

Tick ==
    /\ now' = now + 1
    /\ UNCHANGED <<spc, stopRequested, nextWakeup, counters, overruns, origin, starts>>

SchedulerNext ==
    \/ StartScheduler \/ ThreadBegins \/ NextCycle \/ ThreadEnds
    \/ \E ok \in BOOLEAN : CallbackReturns(ok)
    \/ PlanNext \/ Wake \/ RequestSchedulerStop \/ JoinScheduler \/ Tick

SchedulerSpec == SchedulerInit /\ [][SchedulerNext]_schedulerVars

-----------------------------------------------------------------------------
(* The number of cycles whose successor has been scheduled.                *)
Planned == IF spc \in {"callback", "plan"} THEN generated - 1 ELSE generated

(* No bursts: however late the thread has been, n+1 cycles never begin     *)
(* within n-1 periods: lost time is not made up for by cycles that follow  *)
(* each other faster than the cameras can expose.                          *)
NoBursts ==
    \A i, j \in 1..Len(starts) :
        i < j => starts[j] > starts[i] + (j - i - 1) * Period

(* No drift: as long as no overrun has been counted, the schedule is the   *)
(* grid of multiples of the period from where it began, and no cycle has   *)
(* begun before its time on that grid.                                     *)
NoDrift ==
    overruns = 0 /\ spc \notin {"none", "begin"} =>
        /\ nextWakeup = origin + Planned * Period
        /\ \A k \in 1..Len(starts) : starts[k] >= origin + (k - 1) * Period

-----------------------------------------------------------------------------
(* The inductive invariant: the next time to wake up is ahead of every     *)
(* cycle by one period per cycle in between, and a cycle that runs has     *)
(* begun when it was due.                                                  *)
Ahead == \A i \in 1..Planned : nextWakeup > starts[i] + (Planned - i) * Period

Due ==
    /\ spc = "top" => now >= nextWakeup
    /\ spc \in {"callback", "plan"} =>
          generated > 0 /\ starts[generated] >= nextWakeup /\ now >= starts[generated]

IInv ==
    /\ SchedulerTypeOK
    /\ Len(starts) = generated
    /\ spc = "begin" => generated = 0
    /\ spc \notin {"none", "begin"} => Ahead
    /\ Due
    /\ NoBursts
    /\ NoDrift

=============================================================================
