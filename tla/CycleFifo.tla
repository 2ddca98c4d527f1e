----------------------------- MODULE CycleFifo -----------------------------
(***************************************************************************)
(* What the trigger-label queue of one camera promises: a bounded FIFO of  *)
(* trigger cycles with one writer and one reader.  The writer appends the  *)
(* next cycle or takes its last one back; the reader takes the oldest one. *)
(* Every operation is a single step.                                       *)
(***************************************************************************)
EXTENDS Naturals, Sequences

CONSTANTS Capacity,     \* number of labels the queue holds
          Cycles        \* the trigger cycles that may be pushed

VARIABLES queue,        \* labels of triggers whose frame is still to come
          popped        \* labels handed to the capture loop, oldest first

vars == <<queue, popped>>

Init == queue = <<>> /\ popped = <<>>

\* A new cycle is newer than everything still queued or already handed out.
Push(c) ==
    /\ Len(queue) < Capacity
    /\ \A i \in 1..Len(queue) : queue[i] < c
    /\ \A i \in 1..Len(popped) : popped[i] < c
    /\ queue' = Append(queue, c)
    /\ UNCHANGED popped

CancelLast ==
    /\ queue # <<>>
    /\ queue' = SubSeq(queue, 1, Len(queue) - 1)
    /\ UNCHANGED popped

Pop ==
    /\ queue # <<>>
    /\ popped' = Append(popped, Head(queue))
    /\ queue' = Tail(queue)

Next == (\E c \in Cycles : Push(c)) \/ CancelLast \/ Pop

Spec == Init /\ [][Next]_vars
=============================================================================
