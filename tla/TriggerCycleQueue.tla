-------------------------- MODULE TriggerCycleQueue --------------------------
(***************************************************************************)
(* The lock-free label queue of one camera slot                            *)
(* (MultiCameraManager::TriggerCycleQueue) with the two threads that use   *)
(* it.  The scheduler thread pushes the number of a trigger cycle, sends   *)
(* the trigger command to the camera and takes the number back when the    *)
(* command fails (softwareTriggerAll).  The capture thread pops one number *)
(* for every exposure it learns of (captureLoop).                          *)
(*                                                                         *)
(* One action is one access to a shared atomic or to a slot of values_;    *)
(* purely local steps are merged into the access before them.  The atomics *)
(* are acquire/release pairs, so interleaving semantics is exact as long   *)
(* as NoSlotRace holds.                                                    *)
(*                                                                         *)
(* An operator named X_Y is a faulty version of the operator X; it is not  *)
(* part of the specification.                                              *)
(***************************************************************************)
EXTENDS Integers, Sequences

CONSTANTS Capacity,       \* kTriggerQueueCapacity
          MaxCycle,       \* bound: cycles the scheduler generates
          MaxLostAcks     \* bound: commands reported as failed that did fire

ASSUME CapacityAssumption == Capacity \in Nat \ {0}
ASSUME BoundsAssumption == MaxCycle \in Nat /\ MaxLostAcks \in Nat

VARIABLES values, head, tail,   \* values_, head_, tail_
          ppc,                  \* where the scheduler thread is
          pcycle,               \* trigger_cycle of its current call
          ptail,                \* its local copy of tail_
          cpc,                  \* where the capture thread is
          chead,                \* its local copy of head_
          cvalue,               \* the cycle it read from the slot
          fired,                \* history: cycles whose command exposed a frame
          popped,               \* history: labels popped, one per exposure
          unmatched,            \* unmatched_trigger_frames
          lostAcks              \* history: commands that failed and yet fired

shared == <<values, head, tail>>
scheduler == <<ppc, pcycle, ptail>>
capture == <<cpc, chead, cvalue>>
history == <<fired, popped, unmatched, lostAcks>>
vars == <<values, head, tail, ppc, pcycle, ptail, cpc, chead, cvalue,
          fired, popped, unmatched, lostAcks>>

Slot(index) == index % Capacity

Full_OffByOne(t, h) == t < h \/ t - h > Capacity
\* tail - head on std::uint64_t: a tail behind the head wraps to a huge number.
Full(t, h) == t < h \/ t - h >= Capacity

Init ==
    /\ values = [s \in 0..(Capacity - 1) |-> 0]
    /\ head = 0 /\ tail = 0
    /\ ppc = "idle" /\ pcycle = 0 /\ ptail = 0
    /\ cpc = "idle" /\ chead = 0 /\ cvalue = 0
    /\ fired = <<>> /\ popped = <<>> /\ unmatched = 0 /\ lostAcks = 0
-----------------------------------------------------------------------------
(* Scheduler thread: push, command, cancelLastPush.                         *)

PushLoadTail ==
    /\ ppc = "idle" /\ pcycle < MaxCycle
    /\ pcycle' = pcycle + 1
    /\ ptail' = tail
    /\ ppc' = "push_head"
    /\ UNCHANGED <<values, head, tail, capture, history>>

\* A full queue fails the trigger of this camera; no command is sent.
PushLoadHead ==
    /\ ppc = "push_head"
    /\ ppc' = IF Full(ptail, head) THEN "idle" ELSE "push_write"
    /\ UNCHANGED <<shared, pcycle, ptail, capture, history>>

PushWrite ==
    /\ ppc = "push_write"
    /\ values' = [values EXCEPT ![Slot(ptail)] = pcycle]
    /\ ppc' = "push_store"
    /\ UNCHANGED <<head, tail, pcycle, ptail, capture, history>>

PushStoreTail ==
    /\ ppc = "push_store"
    /\ tail' = ptail + 1
    /\ ppc' = "command"
    /\ UNCHANGED <<values, head, pcycle, ptail, capture, history>>

\* The command reaches the camera: the frame exists from here on, even if the
\* call has not returned yet.
CommandFires ==
    /\ ppc = "command"
    /\ fired' = Append(fired, pcycle)
    /\ ppc' = "idle"
    /\ UNCHANGED <<shared, pcycle, ptail, capture, popped, unmatched, lostAcks>>

CommandFails_NotCancelled ==
    /\ ppc = "command"
    /\ ppc' = "idle"
    /\ UNCHANGED <<shared, pcycle, ptail, capture, history>>

CommandFails ==
    /\ ppc = "command"
    /\ ppc' = "cancel_tail"
    /\ UNCHANGED <<shared, pcycle, ptail, capture, history>>

\* The camera executed the command, its acknowledgement was lost, and the SDK
\* reports a failure.
CommandAckLost ==
    /\ ppc = "command" /\ lostAcks < MaxLostAcks
    /\ fired' = Append(fired, pcycle)
    /\ lostAcks' = lostAcks + 1
    /\ ppc' = "cancel_tail"
    /\ UNCHANGED <<shared, pcycle, ptail, capture, popped, unmatched>>

CancelLoadTail ==
    /\ ppc = "cancel_tail"
    /\ ptail' = tail
    /\ ppc' = "cancel_head"
    /\ UNCHANGED <<shared, pcycle, capture, history>>

CancelLoadHead ==
    /\ ppc = "cancel_head"
    /\ ppc' = IF ptail = head THEN "idle" ELSE "cancel_store"
    /\ UNCHANGED <<shared, pcycle, ptail, capture, history>>

CancelStoreTail_ToHead ==
    /\ ppc = "cancel_store"
    /\ tail' = head
    /\ ppc' = "idle"
    /\ UNCHANGED <<values, head, pcycle, ptail, capture, history>>

CancelStoreTail ==
    /\ ppc = "cancel_store"
    /\ tail' = ptail - 1
    /\ ppc' = "idle"
    /\ UNCHANGED <<values, head, pcycle, ptail, capture, history>>
-----------------------------------------------------------------------------
(* Capture thread: pop, called once for each exposure it learns of, from    *)
(* the frame itself or from a gap in the frame numbers.                     *)

Learned == Len(popped) + unmatched

PopLoadHead ==
    /\ cpc = "idle" /\ Learned < Len(fired)
    /\ chead' = head
    /\ cpc' = "pop_tail"
    /\ UNCHANGED <<shared, scheduler, cvalue, history>>

PopLoadTail ==
    /\ cpc = "pop_tail" /\ chead # tail
    /\ cpc' = "pop_read"
    /\ UNCHANGED <<shared, scheduler, chead, cvalue, history>>

\* Empty queue: the frame keeps trigger_cycle 0.
PopEmpty ==
    /\ cpc = "pop_tail" /\ chead = tail
    /\ unmatched' = unmatched + 1
    /\ cpc' = "idle"
    /\ UNCHANGED <<shared, scheduler, chead, cvalue, fired, popped, lostAcks>>

PopRead ==
    /\ cpc = "pop_read"
    /\ cvalue' = values[Slot(chead)]
    /\ cpc' = "pop_store"
    /\ UNCHANGED <<shared, scheduler, chead, history>>

PopStoreHead_NotAdvanced ==
    /\ cpc = "pop_store"
    /\ head' = chead
    /\ popped' = Append(popped, cvalue)
    /\ cpc' = "idle"
    /\ UNCHANGED <<values, tail, scheduler, chead, cvalue,
                   fired, unmatched, lostAcks>>

PopStoreHead ==
    /\ cpc = "pop_store"
    /\ head' = chead + 1
    /\ popped' = Append(popped, cvalue)
    /\ cpc' = "idle"
    /\ UNCHANGED <<values, tail, scheduler, chead, cvalue,
                   fired, unmatched, lostAcks>>
-----------------------------------------------------------------------------
SchedulerStep ==
    \/ PushLoadTail \/ PushLoadHead \/ PushWrite \/ PushStoreTail
    \/ CommandFires \/ CommandFails \/ CommandAckLost
    \/ CancelLoadTail \/ CancelLoadHead \/ CancelStoreTail

CaptureStep ==
    PopLoadHead \/ PopLoadTail \/ PopEmpty \/ PopRead \/ PopStoreHead

Next == SchedulerStep \/ CaptureStep

Spec == Init /\ [][Next]_vars

\* Neither thread stops in the middle of a call, and grabbed frames are
\* processed.
FairSpec == Spec /\ WF_vars(SchedulerStep) /\ WF_vars(CaptureStep)
-----------------------------------------------------------------------------
PushPc == {"push_head", "push_write", "push_store"}
CancelPc == {"cancel_tail", "cancel_head", "cancel_store"}

\* Every variable has its type.
TypeOK ==
    /\ values \in [0..(Capacity - 1) -> Nat]
    /\ head \in Nat /\ tail \in Nat
    /\ ppc \in {"idle", "command"} \cup PushPc \cup CancelPc
    /\ pcycle \in Nat /\ ptail \in Nat
    /\ cpc \in {"idle", "pop_tail", "pop_read", "pop_store"}
    /\ chead \in Nat /\ cvalue \in Nat
    /\ fired \in Seq(Nat) /\ popped \in Seq(Nat)
    /\ unmatched \in Nat /\ lostAcks \in Nat

\* The camera has acknowledged every command truthfully so far.
Truthful == lostAcks = 0

\* The two threads never touch one slot of values_ at the same time, one of
\* them writing: values_ is not atomic, so an overlap would be a data race.
NoSlotRace ==
    Truthful => ~(ppc = "push_write" /\ cpc = "pop_read" /\ Slot(ptail) = Slot(chead))

\* Every frame gets the number of the trigger that exposed it: the k-th label
\* popped is the k-th cycle whose command fired, cancelled or refused cycles
\* leave no label behind, and no frame finds the queue empty
\* (softwareTriggerAll against captureLoop).
LabelsMatchExposures ==
    Truthful =>
        /\ \A i \in 1..Len(popped) : i <= Len(fired) /\ popped[i] = fired[i]
        /\ unmatched = 0

\* Labels are handed out in increasing order, so no two frames of a camera
\* carry the same trigger cycle (frame_grouper.hpp relies on it), even after an
\* acknowledgement was lost and a cancel took away a label in use.  A second
\* loss can leave tail_ behind head_ with exposures to come; pop then hands out
\* whatever the slots hold.
LabelsIncrease ==
    lostAcks <= 1 => \A i, j \in 1..Len(popped) : i < j => popped[i] < popped[j]

\* The queue implements the bounded FIFO of CycleFifo: every atomic step is one
\* of its operations or changes nothing it knows of, until an acknowledgement is
\* lost.
Contents == [i \in 1..(tail - head) |-> values[Slot(head + i - 1)]]
Fifo == INSTANCE CycleFifo WITH
            queue <- Contents, Cycles <- 1..MaxCycle
ImplementsFifo ==
    Fifo!Init /\ [][Truthful' => Fifo!Next \/ UNCHANGED <<Contents, popped>>]_vars

\* Every exposure is given its label.
EveryExposureLabelled ==
    \A n \in 1..MaxCycle : Len(fired) >= n ~> Len(popped) >= n \/ ~Truthful
-----------------------------------------------------------------------------
(* The inductive invariant behind the properties above, for a camera that   *)
(* acknowledges truthfully.                                                 *)

\* The last label stored is not, or not yet, that of an exposed frame.
LabelPending == ppc = "command" \/ ppc \in CancelPc

\* Stored labels and exposed frames are the same, up to the pending one.
ExposuresStored ==
    /\ Len(fired) = IF LabelPending THEN tail - 1 ELSE tail
    /\ LabelPending => tail > 0
    /\ head <= Len(fired)
    /\ tail - head <= Capacity

SchedulerCopies ==
    /\ ppc \in PushPc \cup {"cancel_head", "cancel_store"} => ptail = tail
    /\ ppc \in {"push_write", "push_store"} => tail - head < Capacity
    /\ ppc = "push_store" => values[Slot(tail)] = pcycle
    /\ ppc = "command" => values[Slot(tail - 1)] = pcycle

CaptureCopies ==
    /\ cpc # "idle" => chead = head /\ head < Len(fired)
    /\ cpc = "pop_store" => cvalue = fired[head + 1]

\* The labels still to be popped are in their slots.
LabelsStored ==
    \A i \in 1..Len(fired) : i > head => values[Slot(i - 1)] = fired[i]

LabelsPopped ==
    /\ Len(popped) = head
    /\ \A i \in 1..head : popped[i] = fired[i]
    /\ unmatched = 0

FiredIncrease ==
    /\ \A i, j \in 1..Len(fired) : i < j => fired[i] < fired[j]
    /\ \A i \in 1..Len(fired) :
          fired[i] <= pcycle /\ (ppc # "idle" => fired[i] < pcycle)

IInv == /\ TypeOK /\ ExposuresStored /\ SchedulerCopies /\ CaptureCopies
        /\ LabelsStored /\ LabelsPopped /\ FiredIncrease
-----------------------------------------------------------------------------
(* The inductive invariant behind LabelsIncrease, as long as at most one    *)
(* acknowledgement was lost.                                                *)

\* Every label popped so far is below v, and v is not from the future.
Above(v) == v <= pcycle /\ \A i \in 1..Len(popped) : popped[i] < v

\* A label is older than the cycle a push is about to write.
Older(v) == v <= pcycle /\ (ppc \in {"push_head", "push_write"} => v < pcycle)

\* There is at most one exposure more than labels, so that the capture thread
\* never begins a pop with the tail behind the head.
ExposuresCounted ==
    LET labels == IF LabelPending THEN tail - 1 ELSE tail
    IN  /\ LabelPending => tail > 0
        /\ labels <= Len(fired) /\ Len(fired) <= labels + lostAcks
        /\ Learned <= Len(fired) /\ Len(popped) = head
        /\ cpc # "idle" => Learned < Len(fired) /\ chead = head

\* The labels between head and tail are ahead of those popped and in order.
WindowInv ==
    /\ tail - head <= Capacity
    /\ \A i \in head..(tail - 1) :
          /\ Above(values[Slot(i)])
          /\ ppc \in PushPc => values[Slot(i)] < pcycle
          /\ \A j \in (i + 1)..(tail - 1) : values[Slot(i)] < values[Slot(j)]

PushInv ==
    /\ ppc \in PushPc \cup {"cancel_head", "cancel_store"} => ptail = tail
    /\ ppc \in {"push_write", "push_store"} => tail - head < Capacity
    /\ ppc = "push_store" =>
          values[Slot(tail)] = pcycle /\ (head <= tail => Above(pcycle))

\* The label being popped, which a cancel may have taken away and a push may
\* be writing over.
PopInv ==
    /\ cpc = "pop_read" => Above(values[Slot(head)]) /\ Older(values[Slot(head)])
    /\ cpc = "pop_store" =>
          /\ Above(cvalue) /\ Older(cvalue)
          /\ ppc = "push_store" /\ head < tail => cvalue < pcycle
          /\ \A i \in (head + 1)..(tail - 1) : cvalue < values[Slot(i)]

PoppedInv ==
    /\ \A i, j \in 1..Len(popped) : i < j => popped[i] < popped[j]
    /\ \A i \in 1..Len(popped) : Older(popped[i])

LabelsInv == /\ TypeOK /\ ExposuresCounted /\ WindowInv
             /\ PushInv /\ PopInv /\ PoppedInv
=============================================================================
