----------------------------- MODULE LatestQueue -----------------------------
(***************************************************************************)
(* The queue between two stages (BoundedLatestQueue) with the stage that   *)
(* owns it: submit on the side of the producer, the worker thread, and     *)
(* stop.  The ISP, the encoders, the outputs and the metadata sender all   *)
(* use it in this way; the owner's code is that of IspPipeline.            *)
(*                                                                         *)
(* A critical section of mutex_ is one action.  The condition variable is  *)
(* the set of waiting threads; a wait with a stop token cannot miss the    *)
(* stop request, and may end for no reason.                                *)
(*                                                                         *)
(* An operator named X_Y is a faulty version of the operator X; it is not  *)
(* part of the specification.                                              *)
(***************************************************************************)
EXTENDS Integers, Sequences, FiniteSets

CONSTANTS Capacity,     \* capacity_
          MaxSubmits    \* bound: calls of submit

ASSUME CapacityAssumption == Capacity \in Nat \ {0}
ASSUME MaxSubmitsAssumption == MaxSubmits \in Nat

VARIABLES queue, closed,    \* queue_, closed_
          running,          \* running_ of the owner
          stopRequested,    \* the stop token of the worker
          ppc,              \* where the producer is
          submits,          \* submitted_groups_
          drops,            \* queue_drops_
          wpc,              \* where the worker is
          spc,              \* where the thread that calls stop is
          accepted,         \* history: values accepted, numbered from 1
          taken,            \* history: values the worker got
          displaced         \* history: values displaced by newer ones

vars == <<queue, closed, running, stopRequested, ppc, submits, drops, wpc, spc,
          accepted, taken, displaced>>

Init ==
    /\ queue = <<>> /\ closed = FALSE
    /\ running = TRUE /\ stopRequested = FALSE
    /\ ppc = "idle" /\ submits = 0 /\ drops = 0
    /\ wpc = "call" /\ spc = "idle"
    /\ accepted = 0 /\ taken = <<>> /\ displaced = {}

Notified_Lost(pc) == pc
\* notify_one and notify_all alike: only the worker ever waits.
Notified(pc) == IF pc = "waiting" THEN "woken" ELSE pc
-----------------------------------------------------------------------------
(* Producer: submit.                                                        *)

\* A call that finds the owner stopped changes nothing.
SubmitCheck ==
    /\ ppc = "idle" /\ running /\ submits < MaxSubmits
    /\ submits' = submits + 1
    /\ ppc' = "push"
    /\ UNCHANGED <<queue, closed, running, stopRequested, drops, wpc, spc,
                   accepted, taken, displaced>>

\* push on a closed queue.
PushRejected ==
    /\ ppc = "push" /\ closed
    /\ ppc' = "idle"
    /\ UNCHANGED <<queue, closed, running, stopRequested, submits, drops, wpc, spc,
                   accepted, taken, displaced>>

Push ==
    /\ ppc = "push" /\ ~closed /\ Len(queue) < Capacity
    /\ queue' = Append(queue, accepted + 1)
    /\ accepted' = accepted + 1
    /\ wpc' = Notified(wpc)
    /\ ppc' = "idle"
    /\ UNCHANGED <<closed, running, stopRequested, submits, drops, spc, taken, displaced>>

\* A full queue makes room by dropping its oldest value.
PushDisplacing ==
    /\ ppc = "push" /\ ~closed /\ Len(queue) = Capacity
    /\ displaced' = displaced \cup {Head(queue)}
    /\ queue' = Append(Tail(queue), accepted + 1)
    /\ accepted' = accepted + 1
    /\ wpc' = Notified(wpc)
    /\ ppc' = "count"
    /\ UNCHANGED <<closed, running, stopRequested, submits, drops, spc, taken>>

CountDrop ==
    /\ ppc = "count"
    /\ drops' = drops + 1
    /\ ppc' = "idle"
    /\ UNCHANGED <<queue, closed, running, stopRequested, submits, wpc, spc,
                   accepted, taken, displaced>>
-----------------------------------------------------------------------------
(* Worker: waitPop, then its work, until waitPop returns false.             *)

\* waitPop has nothing to return: closed, or stopped while empty.
NothingLeft == queue = <<>> /\ (closed \/ stopRequested)

WaitPop_Copies ==
    /\ wpc \in {"call", "woken"} /\ queue # <<>>
    /\ taken' = Append(taken, Head(queue))
    /\ wpc' = "work"
    /\ UNCHANGED <<queue, closed, running, stopRequested, ppc, submits, drops, spc,
                   accepted, displaced>>

WaitPop ==
    /\ wpc \in {"call", "woken"} /\ queue # <<>>
    /\ taken' = Append(taken, Head(queue))
    /\ queue' = Tail(queue)
    /\ wpc' = "work"
    /\ UNCHANGED <<closed, running, stopRequested, ppc, submits, drops, spc,
                   accepted, displaced>>

WaitPopEnds ==
    /\ wpc \in {"call", "woken"} /\ NothingLeft
    /\ wpc' = "ended"
    /\ UNCHANGED <<queue, closed, running, stopRequested, ppc, submits, drops, spc,
                   accepted, taken, displaced>>

WaitPopSleeps_Unchecked ==
    /\ wpc \in {"call", "woken"} /\ ~closed /\ ~stopRequested
    /\ wpc' = "waiting"
    /\ UNCHANGED <<queue, closed, running, stopRequested, ppc, submits, drops, spc,
                   accepted, taken, displaced>>

WaitPopSleeps ==
    /\ wpc \in {"call", "woken"} /\ queue = <<>> /\ ~closed /\ ~stopRequested
    /\ wpc' = "waiting"
    /\ UNCHANGED <<queue, closed, running, stopRequested, ppc, submits, drops, spc,
                   accepted, taken, displaced>>

SpuriousWakeup ==
    /\ wpc = "waiting"
    /\ wpc' = "woken"
    /\ UNCHANGED <<queue, closed, running, stopRequested, ppc, submits, drops, spc,
                   accepted, taken, displaced>>

WorkDone ==
    /\ wpc = "work"
    /\ wpc' = "call"
    /\ UNCHANGED <<queue, closed, running, stopRequested, ppc, submits, drops, spc,
                   accepted, taken, displaced>>
-----------------------------------------------------------------------------
(* stop, which the destructor calls again.                                  *)

StopBegins ==
    /\ spc = "idle" /\ running
    /\ running' = FALSE
    /\ spc' = "close"
    /\ UNCHANGED <<queue, closed, stopRequested, ppc, submits, drops, wpc,
                   accepted, taken, displaced>>

Close_Silent ==
    /\ spc = "close"
    /\ closed' = TRUE
    /\ spc' = "join"
    /\ UNCHANGED <<queue, running, stopRequested, ppc, submits, drops, wpc,
                   accepted, taken, displaced>>

Close ==
    /\ spc = "close"
    /\ closed' = TRUE
    /\ wpc' = Notified(wpc)
    /\ spc' = "request"
    /\ UNCHANGED <<queue, running, stopRequested, ppc, submits, drops,
                   accepted, taken, displaced>>

RequestStop ==
    /\ spc = "request"
    /\ stopRequested' = TRUE
    /\ wpc' = Notified(wpc)
    /\ spc' = "join"
    /\ UNCHANGED <<queue, closed, running, ppc, submits, drops,
                   accepted, taken, displaced>>

Join ==
    /\ spc = "join" /\ wpc = "ended"
    /\ spc' = "stopped"
    /\ UNCHANGED <<queue, closed, running, stopRequested, ppc, submits, drops, wpc,
                   accepted, taken, displaced>>
-----------------------------------------------------------------------------
Submit == SubmitCheck \/ PushRejected \/ Push \/ PushDisplacing \/ CountDrop
Worker == WaitPop \/ WaitPopEnds \/ WaitPopSleeps \/ WorkDone
Stop == Close \/ RequestStop \/ Join

Next == Submit \/ Worker \/ SpuriousWakeup \/ StopBegins \/ Stop

Spec == Init /\ [][Next]_vars

\* No thread stops inside a call; nobody has to submit or to stop.
FairSpec ==
    /\ Spec
    /\ WF_vars(PushRejected \/ Push \/ PushDisplacing \/ CountDrop)
    /\ WF_vars(Worker) /\ WF_vars(Stop)
-----------------------------------------------------------------------------
FlagsOK == closed \in BOOLEAN /\ running \in BOOLEAN /\ stopRequested \in BOOLEAN

QueueOK == queue \in Seq(Nat) /\ Len(queue) <= Capacity /\ accepted \in Nat

\* Every variable has its type, and the queue stays within its capacity.
TypeOK ==
    /\ FlagsOK /\ QueueOK
    /\ ppc \in {"idle", "push", "count"}
    /\ wpc \in {"call", "woken", "waiting", "work", "ended"}
    /\ spc \in {"idle", "close", "request", "join", "stopped"}
    /\ submits \in Nat /\ drops \in Nat
    /\ taken \in Seq(Nat) /\ displaced \subseteq Nat

\* The worker sleeps only while there is nothing for it to do: no wake-up is
\* lost between push, close, request_stop and the wait.
NoLostWakeup == wpc = "waiting" => queue = <<>> /\ ~closed /\ ~stopRequested

\* The queue holds the latest values, in order: what is displaced or taken is
\* older than everything left, and the newest value is never the one dropped.
HoldsLatest ==
    \A i \in 1..Len(queue) : queue[i] = accepted - Len(queue) + i

\* Every value accepted was taken once, was displaced and counted, or waits.
EachOnce ==
    /\ \A i, j \in 1..Len(taken) : i < j => taken[i] < taken[j]
    /\ {taken[i] : i \in 1..Len(taken)} \cup displaced = 1..(accepted - Len(queue))
    /\ \A i \in 1..Len(taken) : taken[i] \notin displaced
    /\ Cardinality(displaced) = IF ppc = "count" THEN drops + 1 ELSE drops

\* After stop nothing that was accepted is left behind: the worker drains the
\* queue before it ends, although submit may race with stop.
DrainedAtStop == spc = "stopped" => queue = <<>>

\* stop returns: join does not wait for ever.
StopReturns == spc = "close" ~> spc = "stopped"

\* A value accepted is taken or displaced, whether or not stop intervenes.
ValuesLeave == \A n \in 1..MaxSubmits :
    accepted >= n ~> (n \in displaced \/ \E i \in 1..Len(taken) : taken[i] = n)
-----------------------------------------------------------------------------
(* The inductive invariant behind the properties above.                     *)

\* How far stop has come shows in the flags it sets.
StopOrder ==
    /\ running <=> spc = "idle"
    /\ closed <=> spc \in {"request", "join", "stopped"}
    /\ stopRequested <=> spc \in {"join", "stopped"}

\* The worker ends with the queue closed and drained, and join waits for that.
EndedEmpty ==
    /\ wpc = "ended" => queue = <<>> /\ closed
    /\ spc = "stopped" => wpc = "ended"

IInv == /\ TypeOK /\ NoLostWakeup /\ HoldsLatest /\ Len(queue) <= accepted
        /\ StopOrder /\ EndedEmpty
=============================================================================
