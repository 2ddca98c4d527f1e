----------------------- MODULE TriggerCycleQueueProofs -----------------------
(***************************************************************************)
(* Proofs about TriggerCycleQueue, for every capacity and any number of    *)
(* trigger cycles and lost acknowledgements.  The types hold always, the   *)
(* inductive invariant IInv in every state before an acknowledgement is    *)
(* lost (Truthful), LabelsInv before a second one is.                      *)
(***************************************************************************)
EXTENDS TriggerCycleQueue, SequenceTheorems, TLAPS

-----------------------------------------------------------------------------
(* The slots, addressed by an ever-growing index modulo the capacity.       *)

\* A remainder is below the divisor.
LEMMA RemainderInRange ==
    ASSUME NEW C \in Nat \ {0}, NEW i \in Nat
    PROVE  i % C \in 0..(C - 1)
  OBVIOUS

\* Numbers less than the divisor apart have different remainders.
LEMMA RemainderDistinct ==
    ASSUME NEW C \in Nat \ {0}, NEW a \in Nat, NEW b \in Nat, a < b, b - a < C
    PROVE  a % C # b % C
<1>1. \A qa, qb \in Int, r \in Nat :
          a = C * qa + r /\ b = C * qb + r => b - a >= C
  <2>1. SUFFICES ASSUME NEW qa \in Int, NEW qb \in Int, NEW r \in Nat,
                        a = C * qa + r, b = C * qb + r
                 PROVE  b - a >= C
    OBVIOUS
  <2>2. b - a = C * (qb - qa)
    BY <2>1
  <2>3. qb - qa >= 1
    BY <2>2
  <2>4. C * (qb - qa) >= C
    BY <2>3
  <2>5. QED
    BY <2>2, <2>4
<1>2. \A i \in Nat : \E q \in Int : i = C * q + (i % C)
  <2>1. \A i \in Nat : i = C * (i \div C) + (i % C)
    OBVIOUS
  <2>2. \A i \in Nat : i \div C \in Int
    OBVIOUS
  <2>3. QED
    BY <2>1, <2>2
<1>3. SUFFICES ASSUME a % C = b % C
               PROVE  FALSE
  OBVIOUS
<1>4. PICK qa \in Int : a = C * qa + (a % C)
  BY <1>2
<1>5. PICK qb \in Int : b = C * qb + (a % C)
  BY <1>2, <1>3
<1>6. QED
  BY <1>1, <1>4, <1>5

\* An index names a slot of values_.
LEMMA LabelSlotInRange == \A i \in Nat : Slot(i) \in 0..(Capacity - 1)
  BY RemainderInRange, CapacityAssumption DEF Slot

\* Indices less than a lap apart name different slots.
LEMMA LabelSlotDistinct ==
    \A a, b \in Nat : a < b /\ b - a < Capacity => Slot(a) # Slot(b)
  BY RemainderDistinct, CapacityAssumption DEF Slot

-----------------------------------------------------------------------------
\* What keeps the counters natural numbers: a label that was pushed can be
\* taken back, because only the scheduler thread moves the tail.
TailHeld ==
    /\ LabelPending => tail > 0
    /\ ppc \in {"cancel_head", "cancel_store"} => ptail = tail

TypeInv == TypeOK /\ TailHeld

\* The types hold initially.
LEMMA TypeInvInit == Init => TypeInv
  BY CapacityAssumption
     DEF Init, TypeInv, TypeOK, TailHeld, LabelPending, PushPc, CancelPc

\* Every step keeps the types, lost acknowledgements or not.
LEMMA TypeInvStep == TypeInv /\ [Next]_vars => TypeInv'
<1> SUFFICES ASSUME TypeInv, [Next]_vars PROVE TypeInv'
  OBVIOUS
<1> USE DEF TypeInv, TypeOK, TailHeld, LabelPending, PushPc, CancelPc,
            shared, scheduler, capture, history
<1>1. CASE PushLoadTail
  BY <1>1 DEF PushLoadTail
<1>2. CASE PushLoadHead
  BY <1>2 DEF PushLoadHead
<1>3. CASE PushWrite
  <2>1. values' \in [0..(Capacity - 1) -> Nat]
    BY <1>3, LabelSlotInRange DEF PushWrite
  <2>2. QED
    BY <1>3, <2>1 DEF PushWrite
<1>4. CASE PushStoreTail
  BY <1>4 DEF PushStoreTail
<1>5. CASE CommandFires
  BY <1>5 DEF CommandFires
<1>6. CASE CommandFails
  BY <1>6 DEF CommandFails
<1>7. CASE CommandAckLost
  BY <1>7 DEF CommandAckLost
<1>8. CASE CancelLoadTail
  BY <1>8 DEF CancelLoadTail
<1>9. CASE CancelLoadHead
  BY <1>9 DEF CancelLoadHead
<1>10. CASE CancelStoreTail
  BY <1>10 DEF CancelStoreTail
<1>11. CASE PopLoadHead
  BY <1>11 DEF PopLoadHead
<1>12. CASE PopLoadTail
  BY <1>12 DEF PopLoadTail
<1>13. CASE PopEmpty
  BY <1>13 DEF PopEmpty
<1>14. CASE PopRead
  BY <1>14, LabelSlotInRange DEF PopRead
<1>15. CASE PopStoreHead
  BY <1>15 DEF PopStoreHead
<1>16. CASE UNCHANGED vars
  BY <1>16 DEF vars
<1>17. QED
  BY <1>1, <1>2, <1>3, <1>4, <1>5, <1>6, <1>7, <1>8, <1>9, <1>10, <1>11,
     <1>12, <1>13, <1>14, <1>15, <1>16 DEF Next, SchedulerStep, CaptureStep

\* The state has its type in every reachable state, whatever the camera
\* acknowledges; in particular a cancel never takes the tail below zero.
THEOREM TypeCorrect == Spec => []TypeOK
<1>1. TypeInv => TypeOK
  BY DEF TypeInv
<1>2. QED
  BY <1>1, TypeInvInit, TypeInvStep, PTL DEF Spec
-----------------------------------------------------------------------------
(* The inductive invariant IInv, while the camera acknowledges truthfully.  *)

\* The invariant holds initially.
LEMMA IInvInit == Init => IInv
  BY CapacityAssumption
     DEF Init, IInv, TypeOK, ExposuresStored, SchedulerCopies, CaptureCopies,
         LabelsStored, LabelsPopped, FiredIncrease, LabelPending, PushPc, CancelPc

\* The scheduler thread keeps IInv.
LEMMA IInvScheduler ==
    ASSUME IInv, SchedulerStep, Truthful'
    PROVE  IInv'
<1> USE DEF LabelPending, PushPc, CancelPc, shared, scheduler, capture, history
<1>1. TypeOK'
  BY TypeInvStep DEF IInv, TypeInv, TailHeld, ExposuresStored, SchedulerCopies, Next
<1>2. CASE PushLoadTail
  BY <1>1, <1>2
     DEF PushLoadTail, IInv, TypeOK, ExposuresStored, SchedulerCopies,
         CaptureCopies, LabelsStored, LabelsPopped, FiredIncrease
<1>3. CASE PushLoadHead
  <2>1. ppc' = "push_write" => tail - head < Capacity
    BY <1>3, CapacityAssumption
       DEF PushLoadHead, Full, IInv, TypeOK, SchedulerCopies
  <2>2. SchedulerCopies' /\ ExposuresStored'
    BY <1>3, <2>1 DEF PushLoadHead, IInv, SchedulerCopies, ExposuresStored
  <2>3. QED
    BY <1>1, <1>3, <2>2
       DEF PushLoadHead, IInv, CaptureCopies, LabelsStored, LabelsPopped,
           FiredIncrease
<1>4. CASE PushWrite
  <2>1. values'[Slot(tail)] = pcycle
    BY <1>4, LabelSlotInRange DEF PushWrite, IInv, TypeOK, SchedulerCopies
  <2>2. ASSUME NEW i \in 1..Len(fired), i > head
        PROVE  values'[Slot(i - 1)] = values[Slot(i - 1)]
    <3>1. i - 1 < tail /\ tail - (i - 1) < Capacity
      <4>1. Len(fired) = tail /\ tail - head < Capacity
        BY <1>4 DEF PushWrite, IInv, ExposuresStored, SchedulerCopies
      <4>2. QED
        BY <2>2, <4>1, CapacityAssumption DEF IInv, TypeOK
    <3>2. Slot(i - 1) # Slot(tail)
      BY <3>1, LabelSlotDistinct DEF IInv, TypeOK
    <3>3. QED
      BY <1>4, <3>2, LabelSlotInRange DEF PushWrite, IInv, TypeOK, SchedulerCopies
  <2>3. LabelsStored'
    BY <1>4, <2>2 DEF PushWrite, IInv, TypeOK, LabelsStored
  <2>4. QED
    BY <1>1, <1>4, <2>1, <2>3
       DEF PushWrite, IInv, TypeOK, ExposuresStored, SchedulerCopies,
           CaptureCopies, LabelsPopped, FiredIncrease
<1>5. CASE PushStoreTail
  <2>1. tail' = tail + 1 /\ tail' - 1 = tail
    BY <1>5 DEF PushStoreTail, IInv, TypeOK, SchedulerCopies
  <2>2. ExposuresStored'
    BY <1>5, <2>1, CapacityAssumption
       DEF PushStoreTail, IInv, TypeOK, ExposuresStored, SchedulerCopies
  <2>3. SchedulerCopies'
    BY <1>5, <2>1 DEF PushStoreTail, SchedulerCopies, IInv
  <2>4. QED
    BY <1>1, <1>5, <2>2, <2>3
       DEF PushStoreTail, IInv, CaptureCopies, LabelsStored, LabelsPopped,
           FiredIncrease
<1>6. CASE CommandFires
  <2>1. /\ Len(fired') = Len(fired) + 1
        /\ \A i \in 1..Len(fired) : fired'[i] = fired[i]
        /\ fired'[Len(fired) + 1] = pcycle
    BY <1>6 DEF CommandFires, IInv, TypeOK
  <2>2. ExposuresStored' /\ SchedulerCopies' /\ CaptureCopies'
    BY <1>1, <1>6, <2>1
       DEF CommandFires, IInv, TypeOK, ExposuresStored, SchedulerCopies, CaptureCopies
  <2>3. LabelsStored'
    BY <1>6, <2>1
       DEF CommandFires, IInv, TypeOK, ExposuresStored, SchedulerCopies, LabelsStored
  <2>4. LabelsPopped'
    BY <1>6, <2>1 DEF CommandFires, IInv, TypeOK, ExposuresStored, LabelsPopped
  <2>5. FiredIncrease'
    BY <1>6, <2>1 DEF CommandFires, IInv, TypeOK, FiredIncrease
  <2>6. QED
    BY <1>1, <2>2, <2>3, <2>4, <2>5 DEF IInv
<1>7. CASE CommandFails
  BY <1>1, <1>7
     DEF CommandFails, IInv, TypeOK, ExposuresStored, SchedulerCopies,
         CaptureCopies, LabelsStored, LabelsPopped, FiredIncrease
<1>8. CASE CommandAckLost
  BY <1>8 DEF CommandAckLost, Truthful, IInv, TypeOK
<1>9. CASE CancelLoadTail
  BY <1>1, <1>9
     DEF CancelLoadTail, IInv, TypeOK, ExposuresStored, SchedulerCopies,
         CaptureCopies, LabelsStored, LabelsPopped, FiredIncrease
<1>10. CASE CancelLoadHead
  BY <1>1, <1>10
     DEF CancelLoadHead, IInv, TypeOK, ExposuresStored, SchedulerCopies,
         CaptureCopies, LabelsStored, LabelsPopped, FiredIncrease
<1>11. CASE CancelStoreTail
  <2>1. tail' = tail - 1 /\ tail > 0
    BY <1>11 DEF CancelStoreTail, IInv, TypeOK, SchedulerCopies, ExposuresStored
  <2>2. ExposuresStored'
    BY <1>11, <2>1, CapacityAssumption
       DEF CancelStoreTail, IInv, TypeOK, ExposuresStored
  <2>3. QED
    BY <1>1, <1>11, <2>2
       DEF CancelStoreTail, IInv, SchedulerCopies, CaptureCopies, LabelsStored,
           LabelsPopped, FiredIncrease
<1>12. QED
  BY <1>2, <1>3, <1>4, <1>5, <1>6, <1>7, <1>8, <1>9, <1>10, <1>11 DEF SchedulerStep

\* The capture thread keeps IInv.
LEMMA IInvCapture ==
    ASSUME IInv, CaptureStep
    PROVE  IInv'
<1> USE DEF LabelPending, PushPc, CancelPc, shared, scheduler, capture, history
<1>1. TypeOK'
  BY TypeInvStep DEF IInv, TypeInv, TailHeld, ExposuresStored, SchedulerCopies, Next
<1>2. CASE PopLoadHead
  BY <1>1, <1>2
     DEF PopLoadHead, Learned, IInv, TypeOK, ExposuresStored, SchedulerCopies,
         CaptureCopies, LabelsStored, LabelsPopped, FiredIncrease
<1>3. CASE PopLoadTail
  BY <1>1, <1>3
     DEF PopLoadTail, IInv, ExposuresStored, SchedulerCopies,
         CaptureCopies, LabelsStored, LabelsPopped, FiredIncrease
<1>4. CASE PopEmpty
  BY <1>4 DEF PopEmpty, IInv, TypeOK, ExposuresStored, CaptureCopies
<1>5. CASE PopRead
  <2>1. cvalue' = fired[head + 1]
    BY <1>5
       DEF PopRead, IInv, TypeOK, ExposuresStored, CaptureCopies, LabelsStored
  <2>2. QED
    BY <1>1, <1>5, <2>1
       DEF PopRead, IInv, ExposuresStored, SchedulerCopies,
           CaptureCopies, LabelsStored, LabelsPopped, FiredIncrease
<1>6. CASE PopStoreHead
  <2>1. /\ head' = head + 1
        /\ Len(popped') = Len(popped) + 1
        /\ \A i \in 1..Len(popped) : popped'[i] = popped[i]
        /\ popped'[head + 1] = fired[head + 1]
    BY <1>6 DEF PopStoreHead, IInv, TypeOK, CaptureCopies, LabelsPopped
  <2>2. ExposuresStored' /\ SchedulerCopies' /\ CaptureCopies'
    BY <1>6, <2>1, CapacityAssumption
       DEF PopStoreHead, IInv, TypeOK, ExposuresStored, SchedulerCopies, CaptureCopies
  <2>3. LabelsStored' /\ FiredIncrease'
    BY <1>6, <2>1 DEF PopStoreHead, IInv, TypeOK, LabelsStored, FiredIncrease
  <2>4. LabelsPopped'
    BY <1>6, <2>1 DEF PopStoreHead, IInv, TypeOK, LabelsPopped
  <2>5. QED
    BY <1>1, <2>2, <2>3, <2>4 DEF IInv
<1>7. QED
  BY <1>2, <1>3, <1>4, <1>5, <1>6 DEF CaptureStep

\* The invariant implies the properties the runs check.
LEMMA IInvSafe == IInv => NoSlotRace /\ LabelsMatchExposures
<1> SUFFICES ASSUME IInv PROVE NoSlotRace /\ LabelsMatchExposures
  OBVIOUS
<1>1. NoSlotRace
  <2>1. SUFFICES ASSUME ppc = "push_write", cpc = "pop_read"
                 PROVE  Slot(tail) # Slot(head)
    BY DEF NoSlotRace, IInv, SchedulerCopies, CaptureCopies, PushPc
  <2>2. head < tail /\ tail - head < Capacity
    <3>1. tail - head < Capacity
      BY <2>1 DEF IInv, SchedulerCopies
    <3>2. head < Len(fired) /\ Len(fired) = tail
      BY <2>1 DEF IInv, ExposuresStored, CaptureCopies, LabelPending, CancelPc
    <3>3. QED
      BY <3>1, <3>2
  <2>3. QED
    BY <2>2, LabelSlotDistinct DEF IInv, TypeOK
<1>2. LabelsMatchExposures
  BY DEF IInv, TypeOK, ExposuresStored, LabelsPopped, LabelsMatchExposures
<1>3. QED
  BY <1>1, <1>2

\* An acknowledgement once lost stays lost.
LEMMA TruthfulBefore == TypeOK /\ [Next]_vars /\ Truthful' => Truthful
  BY DEF TypeOK, Truthful, Next, SchedulerStep, CaptureStep, vars, shared, scheduler,
         capture, history, PushLoadTail, PushLoadHead, PushWrite, PushStoreTail,
         CommandFires, CommandFails, CommandAckLost, CancelLoadTail, CancelLoadHead,
         CancelStoreTail, PopLoadHead, PopLoadTail, PopEmpty, PopRead, PopStoreHead

\* IInv holds until an acknowledgement is lost.
LEMMA IInvAlways == Spec => [](Truthful => IInv)
<1>1. IInv /\ UNCHANGED vars => IInv'
  BY DEF vars, IInv, TypeOK, ExposuresStored, SchedulerCopies, CaptureCopies,
         LabelsStored, LabelsPopped, FiredIncrease, LabelPending
<1>2. IInv /\ [Next]_vars /\ Truthful' => IInv'
  BY <1>1, IInvScheduler, IInvCapture DEF Next
<1>3. TypeOK /\ (Truthful => IInv) /\ [Next]_vars => (Truthful => IInv)'
  BY <1>2, TruthfulBefore
<1>4. QED
  BY <1>3, IInvInit, TypeCorrect, PTL DEF Spec

\* Until the camera loses an acknowledgement, every frame is labelled with the
\* trigger cycle that exposed it, in order, and no frame goes without a label.
THEOREM LabelsCorrect == Spec => []LabelsMatchExposures
<1>1. (Truthful => IInv) => LabelsMatchExposures
  BY IInvSafe DEF LabelsMatchExposures
<1>2. QED
  BY <1>1, IInvAlways, PTL

\* Under the same condition the two threads never meet in a slot of values_.
THEOREM SlotsSafe == Spec => []NoSlotRace
<1>1. (Truthful => IInv) => NoSlotRace
  BY IInvSafe DEF NoSlotRace
<1>2. QED
  BY <1>1, IInvAlways, PTL
-----------------------------------------------------------------------------
(* The order of the labels, with at most one lost acknowledgement.          *)

\* The invariant holds initially.
LEMMA LabelsInvInit == Init => LabelsInv
  BY CapacityAssumption
     DEF Init, LabelsInv, TypeOK, ExposuresCounted, WindowInv, PushInv, PopInv,
         PoppedInv, Learned, LabelPending, PushPc, CancelPc

\* What a pop that is under way has in front of it: the tail is not behind.
LEMMA TailNotBehind ==
    ASSUME LabelsInv, lostAcks <= 1
    PROVE  /\ cpc # "idle" => head <= tail
           /\ ppc \notin PushPc \cup {"idle"} => head <= tail
<1>1. /\ head \in Nat /\ tail \in Nat /\ unmatched \in Nat /\ lostAcks \in Nat
      /\ Len(fired) \in Nat /\ Len(popped) \in Nat
  BY DEF LabelsInv, TypeOK
<1>2. head <= Learned /\ Learned \in Nat
  BY <1>1 DEF LabelsInv, ExposuresCounted, Learned
<1>3. LabelPending => head <= tail
  BY <1>1, <1>2 DEF LabelsInv, ExposuresCounted
<1>4. cpc # "idle" => head <= tail
  BY <1>1, <1>2 DEF LabelsInv, ExposuresCounted
<1>5. ppc \notin PushPc \cup {"idle"} => LabelPending
  BY DEF LabelsInv, TypeOK, LabelPending
<1>6. QED
  BY <1>3, <1>4, <1>5

\* The counters after a step of the scheduler thread.
LEMMA CountedByScheduler ==
    ASSUME LabelsInv, SchedulerStep, lostAcks' <= 1
    PROVE  ExposuresCounted'
<1> USE DEF LabelPending, PushPc, CancelPc, shared, scheduler, capture, history,
            LabelsInv, TypeOK, ExposuresCounted, Learned
<1>1. CASE PushLoadTail \/ PushLoadHead \/ PushWrite
  BY <1>1 DEF PushLoadTail, PushLoadHead, PushWrite
<1>2. CASE PushStoreTail
  <2>1. tail' = tail + 1
    BY <1>2 DEF PushStoreTail, PushInv
  <2>2. QED
    BY <1>2, <2>1 DEF PushStoreTail
<1>3. CASE CommandFires
  <2>1. Len(fired') = Len(fired) + 1
    BY <1>3 DEF CommandFires
  <2>2. QED
    BY <1>3, <2>1 DEF CommandFires
<1>4. CASE CommandFails
  BY <1>4 DEF CommandFails
<1>5. CASE CommandAckLost
  <2>1. Len(fired') = Len(fired) + 1
    BY <1>5 DEF CommandAckLost
  <2>2. QED
    BY <1>5, <2>1 DEF CommandAckLost
<1>6. CASE CancelLoadTail
  BY <1>6 DEF CancelLoadTail
<1>7. CASE CancelLoadHead
  <2>1. CASE ptail = head
    <3>1. head = tail /\ ppc = "cancel_head"
      BY <1>7, <2>1 DEF CancelLoadHead, PushInv
    <3>2. tail <= Len(fired) /\ Len(fired) <= tail + lostAcks
      BY <3>1
    <3>3. QED
      BY <1>7, <2>1, <3>1, <3>2 DEF CancelLoadHead
  <2>2. CASE ptail # head
    BY <1>7, <2>2 DEF CancelLoadHead
  <2>3. QED
    BY <2>1, <2>2
<1>8. CASE CancelStoreTail
  <2>1. tail' = tail - 1
    BY <1>8 DEF CancelStoreTail, PushInv
  <2>2. QED
    BY <1>8, <2>1 DEF CancelStoreTail
<1>9. QED
  BY <1>1, <1>2, <1>3, <1>4, <1>5, <1>6, <1>7, <1>8 DEF SchedulerStep

\* A push and a cancel keep the labels in order.
LEMMA OrderByScheduler ==
    ASSUME LabelsInv, SchedulerStep, lostAcks' <= 1, TypeOK', lostAcks <= 1
    PROVE  LabelsInv'
<1> USE DEF PushPc, CancelPc, shared, scheduler, capture, history
<1>1. ExposuresCounted'
  BY CountedByScheduler
<1>2. CASE PushLoadTail
  <2>1. \A v \in Nat : Above(v) => Above(v)'
    BY <1>2 DEF PushLoadTail, LabelsInv, TypeOK, Above
  <2>2. \A i \in Nat : values[Slot(i)] \in Nat
    BY LabelSlotInRange DEF LabelsInv, TypeOK
  <2>3. WindowInv'
    BY <1>2, <2>2, SMTT(30) DEF PushLoadTail, LabelsInv, TypeOK, WindowInv, Above
  <2>4. PushInv' /\ PopInv' /\ PoppedInv'
    BY <1>2, <2>2 DEF PushLoadTail, LabelsInv, TypeOK, PushInv, PopInv, PoppedInv,
                      Above, Older
  <2>5. QED
    BY <1>1, <2>3, <2>4 DEF LabelsInv
<1>3. CASE PushLoadHead
  <2>1. ppc' = "push_write" => tail - head < Capacity
    BY <1>3, CapacityAssumption
       DEF PushLoadHead, Full, LabelsInv, TypeOK, PushInv
  <2>2. PushInv'
    BY <1>3, <2>1 DEF PushLoadHead, LabelsInv, PushInv
  <2>3. WindowInv'
    BY <1>3 DEF PushLoadHead, LabelsInv, WindowInv, Above
  <2>4. PopInv' /\ PoppedInv'
    BY <1>3 DEF PushLoadHead, LabelsInv, PopInv, PoppedInv, Above, Older
  <2>5. QED
    BY <1>1, <2>2, <2>3, <2>4 DEF LabelsInv
<1>4. CASE PushWrite
  <2>0. ptail = tail /\ tail - head < Capacity
    BY <1>4 DEF PushWrite, LabelsInv, PushInv
  <2>1. values'[Slot(tail)] = pcycle
    BY <1>4, <2>0, LabelSlotInRange DEF PushWrite, LabelsInv, TypeOK
  <2>2. \A i \in head..(tail - 1) : values'[Slot(i)] = values[Slot(i)]
    <3>1. SUFFICES ASSUME NEW i \in head..(tail - 1)
                   PROVE  values'[Slot(i)] = values[Slot(i)]
      OBVIOUS
    <3>2. i \in Nat /\ i < tail /\ tail - i < Capacity
      BY <2>0, CapacityAssumption DEF LabelsInv, TypeOK
    <3>3. Slot(i) # Slot(tail) /\ Slot(i) \in 0..(Capacity - 1)
      BY <3>2, LabelSlotDistinct, LabelSlotInRange DEF LabelsInv, TypeOK
    <3>4. QED
      BY <1>4, <2>0, <3>3 DEF PushWrite, LabelsInv, TypeOK
  <2>3. WindowInv'
    <3>1. SUFFICES ASSUME NEW i \in head..(tail - 1)
                   PROVE  /\ Above(values'[Slot(i)]) /\ values'[Slot(i)] < pcycle
                          /\ \A j \in (i + 1)..(tail - 1) :
                                values'[Slot(i)] < values'[Slot(j)]
      BY <1>4 DEF PushWrite, LabelsInv, WindowInv, Above
    <3>2. Above(values[Slot(i)]) /\ values[Slot(i)] < pcycle
      BY <1>4 DEF PushWrite, LabelsInv, WindowInv
    <3>3. ASSUME NEW j \in (i + 1)..(tail - 1)
          PROVE  values'[Slot(i)] < values'[Slot(j)]
      <4>1. j \in head..(tail - 1)
        BY DEF LabelsInv, TypeOK
      <4>2. values[Slot(i)] < values[Slot(j)]
        BY DEF LabelsInv, WindowInv
      <4>3. QED
        BY <2>2, <4>1, <4>2
    <3>4. QED
      BY <2>2, <3>2, <3>3
  <2>4. PoppedInv' /\ Above(pcycle)
    BY <1>4 DEF PushWrite, LabelsInv, TypeOK, PoppedInv, Above, Older
  <2>5. PushInv'
    BY <1>4, <2>0, <2>1, <2>4 DEF PushWrite, LabelsInv, PushInv, Above
  <2>6. ASSUME cpc = "pop_read"
        PROVE  Above(values'[Slot(head)]) /\ values'[Slot(head)] <= pcycle
    <3>1. CASE head = tail
      <4>1. values'[Slot(head)] = pcycle /\ pcycle <= pcycle
        BY <2>1, <3>1 DEF LabelsInv, TypeOK
      <4>2. QED
        BY <2>4, <4>1 DEF Above
    <3>2. CASE head < tail
      <4>1. head \in head..(tail - 1)
        BY <3>2 DEF LabelsInv, TypeOK
      <4>2. QED
        BY <2>2, <2>6, <4>1 DEF LabelsInv, PopInv, Older
    <3>3. QED
      BY <2>6, <3>1, <3>2, TailNotBehind DEF LabelsInv, TypeOK
  <2>7. ASSUME cpc = "pop_store"
        PROVE  /\ Above(cvalue) /\ Older(cvalue) /\ cvalue < pcycle
               /\ \A i \in (head + 1)..(tail - 1) : cvalue < values'[Slot(i)]
    <3>1. /\ Above(cvalue) /\ Older(cvalue) /\ cvalue < pcycle
          /\ \A i \in (head + 1)..(tail - 1) : cvalue < values[Slot(i)]
      BY <1>4, <2>7 DEF PushWrite, LabelsInv, PopInv, Older
    <3>2. \A i \in (head + 1)..(tail - 1) : i \in head..(tail - 1)
      BY DEF LabelsInv, TypeOK
    <3>3. QED
      BY <2>2, <3>1, <3>2
  <2>8. PopInv'
    BY <1>4, <2>6, <2>7 DEF PushWrite, PopInv, Above, Older
  <2>9. QED
    BY <1>1, <2>3, <2>4, <2>5, <2>8 DEF LabelsInv
<1>5. CASE PushStoreTail
  <2>1. tail' = tail + 1 /\ tail' - 1 = tail /\ tail - head < Capacity
    BY <1>5 DEF PushStoreTail, LabelsInv, TypeOK, PushInv
  <2>2. UNCHANGED <<values, head, pcycle, popped, cpc, cvalue>> /\ ppc' = "command"
    BY <1>5 DEF PushStoreTail
  <2>3. values[Slot(tail)] = pcycle /\ (head <= tail => Above(pcycle))
    BY <1>5 DEF PushStoreTail, LabelsInv, PushInv
  <2>4. \A i \in head..(tail - 1) : /\ Above(values[Slot(i)]) /\ values[Slot(i)] < pcycle
                                    /\ \A j \in (i + 1)..(tail - 1) :
                                          values[Slot(i)] < values[Slot(j)]
    BY <1>5 DEF PushStoreTail, LabelsInv, WindowInv
  <2>5. WindowInv'
    <3>1. SUFFICES ASSUME NEW i \in head..tail
                   PROVE  /\ Above(values[Slot(i)])
                          /\ \A j \in (i + 1)..tail : values[Slot(i)] < values[Slot(j)]
      BY <2>1, <2>2, CapacityAssumption DEF LabelsInv, TypeOK, WindowInv, Above
    <3>2. CASE i = tail
      <4>1. head <= tail /\ \A j \in (i + 1)..tail : FALSE
        BY <3>2 DEF LabelsInv, TypeOK
      <4>2. QED
        BY <2>3, <3>2, <4>1
    <3>3. CASE i # tail
      <4>1. i \in head..(tail - 1)
        BY <3>3 DEF LabelsInv, TypeOK
      <4>2. ASSUME NEW j \in (i + 1)..tail PROVE values[Slot(i)] < values[Slot(j)]
        <5>1. j = tail \/ j \in (i + 1)..(tail - 1)
          BY DEF LabelsInv, TypeOK
        <5>2. QED
          BY <2>3, <2>4, <4>1, <5>1
      <4>3. QED
        BY <2>4, <4>1, <4>2
    <3>4. QED
      BY <3>2, <3>3
  <2>6. PushInv' /\ PoppedInv'
    BY <2>2 DEF LabelsInv, PushInv, PoppedInv, Older
  <2>7. ASSUME cpc = "pop_store", NEW i \in (head + 1)..tail
        PROVE  cvalue < values[Slot(i)]
    <3>1. CASE i = tail
      BY <1>5, <2>3, <2>7, <3>1 DEF PushStoreTail, LabelsInv, TypeOK, PopInv
    <3>2. CASE i # tail
      BY <2>7, <3>2, SMTT(30) DEF LabelsInv, TypeOK, PopInv
    <3>3. QED
      BY <3>1, <3>2
  <2>8. PopInv'
    BY <2>1, <2>2, <2>7 DEF LabelsInv, PopInv, Above, Older
  <2>9. QED
    BY <1>1, <2>5, <2>6, <2>8 DEF LabelsInv
<1>6. CASE CommandFires \/ CommandFails \/ CommandAckLost \/ CancelLoadTail \/ CancelLoadHead
  <2>1. /\ UNCHANGED <<values, head, tail, pcycle, popped, cpc, cvalue>>
        /\ ppc \notin PushPc /\ ppc' \notin PushPc
        /\ ppc' \in {"cancel_head", "cancel_store"} => ptail' = tail
    BY <1>6 DEF CommandFires, CommandFails, CommandAckLost, CancelLoadTail,
                CancelLoadHead, LabelsInv, TypeOK, PushInv
  <2>2. PushInv' /\ PoppedInv'
    BY <2>1 DEF LabelsInv, PushInv, PoppedInv, Older
  <2>3. WindowInv'
    BY <2>1 DEF LabelsInv, WindowInv, Above
  <2>4. PopInv'
    BY <2>1 DEF LabelsInv, PopInv, Above, Older
  <2>5. QED
    BY <1>1, <2>2, <2>3, <2>4 DEF LabelsInv
<1>7. CASE CancelStoreTail
  <2>1. /\ UNCHANGED <<values, head, pcycle, popped, cpc, cvalue>>
        /\ ppc' = "idle" /\ tail' = tail - 1 /\ ppc = "cancel_store"
    BY <1>7 DEF CancelStoreTail, LabelsInv, PushInv
  <2>2. PushInv' /\ PoppedInv'
    BY <2>1 DEF LabelsInv, PushInv, PoppedInv, Older
  <2>3. WindowInv'
    <3>1. tail' - head <= Capacity
      BY <2>1, CapacityAssumption DEF LabelsInv, TypeOK, WindowInv
    <3>2. SUFFICES ASSUME NEW i \in head..(tail - 2)
                   PROVE  /\ Above(values[Slot(i)])
                          /\ \A j \in (i + 1)..(tail - 2) : values[Slot(i)] < values[Slot(j)]
      BY <2>1, <3>1 DEF LabelsInv, TypeOK, WindowInv, Above
    <3>3. i \in head..(tail - 1) /\ \A j \in (i + 1)..(tail - 2) : j \in (i + 1)..(tail - 1)
      BY DEF LabelsInv, TypeOK
    <3>4. QED
      BY <3>3 DEF LabelsInv, WindowInv
  <2>4. PopInv'
    BY <2>1 DEF LabelsInv, TypeOK, PopInv, Above, Older
  <2>5. QED
    BY <1>1, <2>2, <2>3, <2>4 DEF LabelsInv
<1>8. QED
  BY <1>2, <1>3, <1>4, <1>5, <1>6, <1>7 DEF SchedulerStep

\* A pop takes the oldest label, or one that was cancelled under its hands and
\* is still older than those to come.
LEMMA OrderByCapture ==
    ASSUME LabelsInv, CaptureStep, TypeOK', lostAcks <= 1
    PROVE  LabelsInv'
<1> USE DEF PushPc, CancelPc, shared, scheduler, capture, history
<1>1. /\ head \in Nat /\ tail \in Nat /\ pcycle \in Nat /\ unmatched \in Nat
      /\ popped \in Seq(Nat) /\ Len(popped) \in Nat /\ Len(fired) \in Nat /\ cvalue \in Nat
  BY SMTT(30) DEF LabelsInv, TypeOK
<1>2. CASE PopLoadHead
  <2>1. /\ UNCHANGED <<values, head, tail, ppc, pcycle, ptail, popped, unmatched, fired,
                       lostAcks>>
        /\ cpc' = "pop_tail" /\ chead' = head /\ Learned < Len(fired)
    BY <1>2 DEF PopLoadHead
  <2>2. ExposuresCounted'
    BY <2>1 DEF LabelsInv, ExposuresCounted, Learned, LabelPending
  <2>3. WindowInv' /\ PushInv' /\ PoppedInv'
    BY <2>1 DEF LabelsInv, WindowInv, PushInv, PoppedInv, Above, Older
  <2>4. PopInv'
    BY <2>1 DEF PopInv
  <2>5. QED
    BY <2>2, <2>3, <2>4 DEF LabelsInv
<1>3. CASE PopLoadTail
  <2>1. /\ UNCHANGED <<values, head, tail, ppc, pcycle, ptail, popped, unmatched, fired,
                       lostAcks, chead>>
        /\ cpc' = "pop_read" /\ cpc # "idle" /\ chead # tail
    BY <1>3 DEF PopLoadTail
  <2>2. ExposuresCounted'
    BY <2>1 DEF LabelsInv, ExposuresCounted, Learned, LabelPending
  <2>3. WindowInv' /\ PushInv' /\ PoppedInv'
    BY <2>1 DEF LabelsInv, WindowInv, PushInv, PoppedInv, Above, Older
  <2>4. head \in head..(tail - 1)
    BY <1>1, <2>1, TailNotBehind DEF LabelsInv, ExposuresCounted
  <2>5. Above(values[Slot(head)]) /\ Older(values[Slot(head)])
    BY <2>4 DEF LabelsInv, WindowInv, Above, Older
  <2>6. PopInv'
    BY <2>1, <2>5 DEF PopInv, Above, Older
  <2>7. QED
    BY <2>2, <2>3, <2>6 DEF LabelsInv
<1>4. CASE PopEmpty
  <2>1. /\ UNCHANGED <<values, head, tail, ppc, pcycle, ptail, popped, fired, lostAcks>>
        /\ cpc' = "idle" /\ cpc # "idle" /\ unmatched' = unmatched + 1
    BY <1>4 DEF PopEmpty
  <2>2. ExposuresCounted'
    BY <1>1, <2>1 DEF LabelsInv, ExposuresCounted, Learned, LabelPending
  <2>3. WindowInv' /\ PushInv' /\ PoppedInv'
    BY <2>1 DEF LabelsInv, WindowInv, PushInv, PoppedInv, Above, Older
  <2>4. PopInv'
    BY <2>1 DEF PopInv
  <2>5. QED
    BY <2>2, <2>3, <2>4 DEF LabelsInv
<1>5. CASE PopRead
  <2>1. /\ UNCHANGED <<values, head, tail, ppc, pcycle, ptail, popped, unmatched, fired,
                       lostAcks, chead>>
        /\ cpc' = "pop_store" /\ cpc = "pop_read"
        /\ cvalue' = values[Slot(head)]
    BY <1>5 DEF PopRead, LabelsInv, ExposuresCounted
  <2>2. ExposuresCounted'
    BY <2>1 DEF LabelsInv, ExposuresCounted, Learned, LabelPending
  <2>3. WindowInv' /\ PushInv' /\ PoppedInv'
    BY <2>1 DEF LabelsInv, WindowInv, PushInv, PoppedInv, Above, Older
  <2>4. Above(values[Slot(head)]) /\ Older(values[Slot(head)])
    BY <2>1 DEF LabelsInv, PopInv
  <2>5. ASSUME head < tail
        PROVE  /\ ppc = "push_store" => values[Slot(head)] < pcycle
               /\ \A i \in (head + 1)..(tail - 1) : values[Slot(head)] < values[Slot(i)]
    <3>1. head \in head..(tail - 1)
      BY <1>1, <2>5
    <3>2. QED
      BY <3>1 DEF LabelsInv, WindowInv
  <2>6. \A i \in (head + 1)..(tail - 1) : head < tail
    BY <1>1
  <2>7. PopInv'
    BY <2>1, <2>4, <2>5, <2>6 DEF PopInv, Above, Older
  <2>8. QED
    BY <2>2, <2>3, <2>7 DEF LabelsInv
<1>6. CASE PopStoreHead
  <2>1. /\ UNCHANGED <<values, tail, ppc, pcycle, ptail, unmatched, fired, lostAcks>>
        /\ cpc' = "idle" /\ cpc = "pop_store"
        /\ head' = head + 1 /\ popped' = Append(popped, cvalue)
    BY <1>6 DEF PopStoreHead, LabelsInv, ExposuresCounted
  <2>2. /\ Len(popped') = Len(popped) + 1
        /\ \A i \in 1..Len(popped) : popped'[i] = popped[i]
        /\ popped'[Len(popped) + 1] = cvalue
    BY <1>1, <2>1
  <2>3. ExposuresCounted'
    BY <1>1, <2>1, <2>2 DEF LabelsInv, ExposuresCounted, Learned, LabelPending
  <2>4. /\ Above(cvalue) /\ Older(cvalue)
        /\ ppc = "push_store" /\ head < tail => cvalue < pcycle
        /\ \A i \in (head + 1)..(tail - 1) : cvalue < values[Slot(i)]
    BY <2>1 DEF LabelsInv, PopInv
  <2>5. ASSUME NEW v \in Nat, Above(v), cvalue < v
        PROVE  v <= pcycle /\ \A i \in 1..Len(popped') : popped'[i] < v
    BY <1>1, <2>2, <2>5 DEF Above
  <2>6. PoppedInv'
    <3>1. \A i \in 1..Len(popped') : i \in 1..Len(popped) \/ i = Len(popped) + 1
      BY <1>1, <2>2
    <3>2. ASSUME NEW i \in 1..Len(popped'), NEW j \in 1..Len(popped'), i < j
          PROVE  popped'[i] < popped'[j]
      <4>1. i \in 1..Len(popped)
        BY <1>1, <2>2, <3>2
      <4>2. CASE j \in 1..Len(popped)
        BY <2>2, <3>2, <4>1, <4>2 DEF LabelsInv, PoppedInv
      <4>3. CASE j = Len(popped) + 1
        BY <2>2, <2>4, <4>1, <4>3 DEF Above
      <4>4. QED
        BY <3>1, <4>2, <4>3
    <3>3. \A i \in 1..Len(popped') : Older(popped'[i])
      BY <2>2, <2>4, <3>1 DEF LabelsInv, PoppedInv
    <3>4. QED
      BY <2>1, <3>2, <3>3 DEF PoppedInv, Older
  <2>7. \A i \in Nat : values[Slot(i)] \in Nat
    BY LabelSlotInRange DEF LabelsInv, TypeOK
  <2>8. WindowInv'
    <3>1. SUFFICES ASSUME NEW i \in (head + 1)..(tail - 1)
                   PROVE  /\ /\ values[Slot(i)] <= pcycle
                             /\ \A k \in 1..Len(popped') : popped'[k] < values[Slot(i)]
                          /\ ppc \in PushPc => values[Slot(i)] < pcycle
                          /\ \A j \in (i + 1)..(tail - 1) : values[Slot(i)] < values[Slot(j)]
      BY <1>1, <2>1, CapacityAssumption DEF LabelsInv, WindowInv, Above
    <3>2. i \in head..(tail - 1) /\ i \in Nat
      BY <1>1
    <3>3. /\ Above(values[Slot(i)])
          /\ ppc \in PushPc => values[Slot(i)] < pcycle
          /\ \A j \in (i + 1)..(tail - 1) : values[Slot(i)] < values[Slot(j)]
      BY <3>2 DEF LabelsInv, WindowInv
    <3>4. values[Slot(i)] \in Nat /\ cvalue < values[Slot(i)]
      BY <2>4, <2>7, <3>2
    <3>5. QED
      BY <2>5, <3>3, <3>4
  <2>9. PushInv'
    <3>1. ASSUME ppc = "push_store", head + 1 <= tail
          PROVE  \A k \in 1..Len(popped') : popped'[k] < pcycle
      <4>1. Above(pcycle) /\ cvalue < pcycle
        BY <1>1, <2>4, <3>1 DEF LabelsInv, PushInv
      <4>2. QED
        BY <1>1, <2>5, <4>1
    <3>2. QED
      BY <1>1, <2>1, <3>1, CapacityAssumption DEF LabelsInv, PushInv, Above
  <2>10. PopInv'
    BY <2>1 DEF PopInv
  <2>11. QED
    BY <2>3, <2>6, <2>8, <2>9, <2>10 DEF LabelsInv
<1>7. QED
  BY <1>2, <1>3, <1>4, <1>5, <1>6 DEF CaptureStep

\* No acknowledgement is found again.
LEMMA LossesCount == TypeOK /\ [Next]_vars => lostAcks <= lostAcks'
  BY DEF TypeOK, Next, SchedulerStep, CaptureStep, vars, shared, scheduler,
         capture, history, PushLoadTail, PushLoadHead, PushWrite, PushStoreTail,
         CommandFires, CommandFails, CommandAckLost, CancelLoadTail, CancelLoadHead,
         CancelStoreTail, PopLoadHead, PopLoadTail, PopEmpty, PopRead, PopStoreHead

\* Labels only grow, for any capacity and number of cycles, as long as no more
\* than one acknowledgement has been lost: then there is at most one exposure
\* too many, and a cancel that takes away a label in use leaves nothing to pop.
THEOREM LabelsGrow == Spec => []LabelsIncrease
<1>1. LabelsInv /\ UNCHANGED vars => LabelsInv'
  BY DEF vars, LabelsInv, TypeOK, ExposuresCounted, WindowInv, PushInv, PopInv,
         PoppedInv, Above, Older, Learned, LabelPending
<1>2. LabelsInv /\ [Next]_vars /\ TypeOK' /\ lostAcks <= 1 /\ lostAcks' <= 1 => LabelsInv'
  BY <1>1, OrderByScheduler, OrderByCapture DEF Next
<1>3. TypeOK /\ TypeOK' /\ (lostAcks <= 1 => LabelsInv) /\ [Next]_vars
          => (lostAcks <= 1 => LabelsInv)'
  <2>1. TypeOK /\ TypeOK' /\ [Next]_vars /\ lostAcks' <= 1 => lostAcks <= 1
    BY LossesCount DEF TypeOK
  <2>2. QED
    BY <1>2, <2>1
<1>4. (lostAcks <= 1 => LabelsInv) => LabelsIncrease
  BY DEF LabelsIncrease, LabelsInv, PoppedInv
<1>5. Init => (lostAcks <= 1 => LabelsInv)
  BY LabelsInvInit
<1>6. QED
  BY <1>3, <1>4, <1>5, TypeCorrect, PTL DEF Spec
-----------------------------------------------------------------------------
(* Refinement of CycleFifo.                                                 *)

\* The labels in the slots from index h up to t.
Labels(v, h, t) == [i \in 1..(t - h) |-> v[Slot(h + i - 1)]]

SlotValues == [0..(Capacity - 1) -> Nat]

\* They form a sequence.
LEMMA LabelsAreSeq ==
    ASSUME NEW v \in SlotValues, NEW h \in Nat, NEW t \in Nat, h <= t
    PROVE  /\ Labels(v, h, t) \in Seq(Nat)
           /\ Len(Labels(v, h, t)) = t - h
           /\ \A i \in 1..(t - h) : Labels(v, h, t)[i] = v[Slot(h + i - 1)]
<1>1. \A i \in 1..(t - h) : v[Slot(h + i - 1)] \in Nat
  <2>1. \A j \in Nat : v[Slot(j)] \in Nat
    BY LabelSlotInRange DEF SlotValues
  <2>2. \A i \in 1..(t - h) : h + i - 1 \in Nat
    OBVIOUS
  <2>3. QED
    BY <2>1, <2>2
<1>2. t - h \in Nat
  OBVIOUS
<1>3. Labels(v, h, t) \in [1..(t - h) -> Nat]
  BY <1>1 DEF Labels
<1>4. Labels(v, h, t) \in Seq(Nat)
  BY <1>2, <1>3, SeqDef
<1>5. Len(Labels(v, h, t)) = t - h
  BY <1>2, <1>3, <1>4, LenProperties
<1>6. QED
  BY <1>4, <1>5 DEF Labels

\* Two label sequences are equal if their slots hold the same labels.
LEMMA LabelsEqual ==
    ASSUME NEW v \in SlotValues, NEW w \in SlotValues,
           NEW h \in Nat, NEW t \in Nat, h <= t,
           \A j \in Nat : h <= j /\ j < t => v[Slot(j)] = w[Slot(j)]
    PROVE  Labels(v, h, t) = Labels(w, h, t)
<1>1. \A i \in 1..(t - h) : v[Slot(h + i - 1)] = w[Slot(h + i - 1)]
  <2>1. TAKE i \in 1..(t - h)
  <2>2. h + i - 1 \in Nat /\ h <= h + i - 1 /\ h + i - 1 < t
    OBVIOUS
  <2>3. QED
    BY <2>2
<1>2. QED
  BY <1>1 DEF Labels

\* One index more is one label more at the end.
LEMMA LabelsExtended ==
    ASSUME NEW v \in SlotValues, NEW h \in Nat, NEW t \in Nat, h <= t
    PROVE  Labels(v, h, t + 1) = Append(Labels(v, h, t), v[Slot(t)])
<1> DEFINE old == Labels(v, h, t)
           new == Labels(v, h, t + 1)
<1>1. /\ old \in Seq(Nat) /\ Len(old) = t - h
      /\ \A i \in 1..(t - h) : old[i] = v[Slot(h + i - 1)]
  BY LabelsAreSeq
<1>2. /\ new \in Seq(Nat) /\ Len(new) = t - h + 1
      /\ \A i \in 1..(t - h + 1) : new[i] = v[Slot(h + i - 1)]
  <2>1. t + 1 \in Nat /\ h <= t + 1 /\ t + 1 - h = t - h + 1
    OBVIOUS
  <2>2. QED
    BY <2>1, LabelsAreSeq
<1>3. v[Slot(t)] \in Nat
  BY LabelSlotInRange DEF SlotValues
<1> HIDE DEF old, new
<1>4. /\ Append(old, v[Slot(t)]) \in Seq(Nat)
      /\ Len(Append(old, v[Slot(t)])) = t - h + 1
      /\ \A i \in 1..(t - h) : Append(old, v[Slot(t)])[i] = old[i]
      /\ Append(old, v[Slot(t)])[t - h + 1] = v[Slot(t)]
  BY <1>1, <1>3
<1>5. ASSUME NEW i \in 1..(t - h + 1)
      PROVE  new[i] = Append(old, v[Slot(t)])[i]
  <2>1. CASE i = t - h + 1
    <3>1. h + i - 1 = t
      BY <2>1
    <3>2. QED
      BY <1>2, <1>4, <2>1, <3>1
  <2>2. CASE i # t - h + 1
    <3>1. i \in 1..(t - h)
      BY <2>2
    <3>2. QED
      BY <1>1, <1>2, <1>4, <3>1
  <2>3. QED
    BY <2>1, <2>2
<1>6. new = Append(old, v[Slot(t)])
  BY <1>2, <1>4, <1>5, SeqEqual
<1>7. QED
  BY <1>6 DEF old, new

\* One index less is one label less at the end.
LEMMA LabelsShortened ==
    ASSUME NEW v \in SlotValues, NEW h \in Nat, NEW t \in Nat, h < t
    PROVE  /\ Labels(v, h, t) # <<>>
           /\ Labels(v, h, t - 1) = SubSeq(Labels(v, h, t), 1, Len(Labels(v, h, t)) - 1)
<1> DEFINE old == Labels(v, h, t)
           new == Labels(v, h, t - 1)
<1>1. /\ old \in Seq(Nat) /\ Len(old) = t - h
      /\ \A i \in 1..(t - h) : old[i] = v[Slot(h + i - 1)]
  BY LabelsAreSeq
<1>2. /\ new \in Seq(Nat) /\ Len(new) = t - h - 1
      /\ \A i \in 1..(t - h - 1) : new[i] = v[Slot(h + i - 1)]
  <2>1. t - 1 \in Nat /\ h <= t - 1
    OBVIOUS
  <2>2. /\ new \in Seq(Nat) /\ Len(new) = (t - 1) - h
        /\ \A i \in 1..((t - 1) - h) : new[i] = v[Slot(h + i - 1)]
    BY <2>1, LabelsAreSeq
  <2>3. (t - 1) - h = t - h - 1
    OBVIOUS
  <2>4. QED
    BY <2>2, <2>3
<1> HIDE DEF old, new
<1>3. /\ SubSeq(old, 1, Len(old) - 1) \in Seq(Nat)
      /\ Len(SubSeq(old, 1, Len(old) - 1)) = t - h - 1
      /\ \A i \in 1..(t - h - 1) : SubSeq(old, 1, Len(old) - 1)[i] = old[i]
  BY <1>1
<1>4. new = SubSeq(old, 1, Len(old) - 1)
  <2>1. ASSUME NEW i \in 1..(t - h - 1)
        PROVE  new[i] = SubSeq(old, 1, Len(old) - 1)[i]
    <3>1. i \in 1..(t - h)
      OBVIOUS
    <3>2. QED
      BY <1>1, <1>2, <1>3, <3>1
  <2>2. QED
    BY <1>2, <1>3, <2>1, SeqEqual
<1>5. old # <<>>
  BY <1>1
<1>6. QED
  BY <1>4, <1>5 DEF old, new

\* A greater first index drops the oldest label.
LEMMA LabelsAdvanced ==
    ASSUME NEW v \in SlotValues, NEW h \in Nat, NEW t \in Nat, h < t
    PROVE  /\ Labels(v, h, t) # <<>>
           /\ Head(Labels(v, h, t)) = v[Slot(h)]
           /\ Labels(v, h + 1, t) = Tail(Labels(v, h, t))
<1> DEFINE old == Labels(v, h, t)
           new == Labels(v, h + 1, t)
<1>1. /\ old \in Seq(Nat) /\ Len(old) = t - h
      /\ \A i \in 1..(t - h) : old[i] = v[Slot(h + i - 1)]
  BY LabelsAreSeq
<1>2. /\ new \in Seq(Nat) /\ Len(new) = t - h - 1
      /\ \A i \in 1..(t - h - 1) : new[i] = v[Slot(h + 1 + i - 1)]
  <2>1. h + 1 \in Nat /\ h + 1 <= t /\ t - (h + 1) = t - h - 1
    OBVIOUS
  <2>2. QED
    BY <2>1, LabelsAreSeq
<1> HIDE DEF old, new
<1>3. old # <<>> /\ Head(old) = old[1] /\ 1 \in 1..(t - h)
  BY <1>1
<1>4. Head(old) = v[Slot(h)]
  <2>1. h + 1 - 1 = h
    OBVIOUS
  <2>2. QED
    BY <1>1, <1>3, <2>1
<1>5. /\ Tail(old) \in Seq(Nat) /\ Len(Tail(old)) = t - h - 1
      /\ \A i \in 1..(t - h - 1) : Tail(old)[i] = old[i + 1]
  BY <1>1, <1>3, HeadTailProperties
<1>6. ASSUME NEW i \in 1..(t - h - 1)
      PROVE  new[i] = Tail(old)[i]
  <2>1. i + 1 \in 1..(t - h) /\ h + (i + 1) - 1 = h + 1 + i - 1
    OBVIOUS
  <2>2. QED
    BY <1>1, <1>2, <1>5, <2>1
<1>7. new = Tail(old)
  BY <1>2, <1>5, <1>6, SeqEqual
<1>8. QED
  BY <1>3, <1>4, <1>7 DEF old, new

\* A cycle under way is one of those to be pushed.
CycleInv == pcycle <= MaxCycle /\ (ppc # "idle" => pcycle >= 1)

\* Every step keeps it.
LEMMA CycleInvStep == TypeOK /\ CycleInv /\ [Next]_vars => CycleInv'
<1> SUFFICES ASSUME TypeOK, CycleInv, [Next]_vars PROVE CycleInv'
  OBVIOUS
<1>1. CASE PushLoadTail
  BY <1>1, BoundsAssumption DEF PushLoadTail, TypeOK, CycleInv
<1>2. pcycle' = pcycle /\ (ppc = "idle" => ppc' = "idle") => CycleInv'
  BY DEF CycleInv
<1>3. QED
  BY <1>1, <1>2 DEF Next, SchedulerStep, CaptureStep, vars, shared, scheduler,
     capture, PushLoadHead, PushWrite, PushStoreTail, CommandFires,
     CommandFails, CommandAckLost, CancelLoadTail, CancelLoadHead, CancelStoreTail,
     PopLoadHead, PopLoadTail, PopEmpty, PopRead, PopStoreHead

\* What the queue holds, in terms of Labels.
LEMMA ContentsAre ==
    /\ Contents = Labels(values, head, tail)
    /\ Contents' = Labels(values', head', tail')
  BY DEF Contents, Labels

\* Writing a slot does not show before the tail is stored.
LEMMA WriteInvisible ==
    ASSUME IInv, PushWrite
    PROVE  UNCHANGED <<Contents, popped>>
<1>1. /\ values \in SlotValues /\ values' \in SlotValues
      /\ head \in Nat /\ tail \in Nat /\ head <= tail /\ tail - head < Capacity
      /\ head' = head /\ tail' = tail /\ popped' = popped
  BY LabelSlotInRange
     DEF PushWrite, history, IInv, TypeOK, ExposuresStored, SchedulerCopies,
         LabelPending, CancelPc, SlotValues
<1>2. ASSUME NEW j \in Nat, head <= j, j < tail
      PROVE  values[Slot(j)] = values'[Slot(j)]
  <2>1. Slot(j) # Slot(tail)
    BY <1>1, <1>2, CapacityAssumption, LabelSlotDistinct
  <2>2. QED
    BY <2>1, LabelSlotInRange DEF PushWrite, IInv, TypeOK, SchedulerCopies, PushPc
<1>3. Labels(values, head, tail) = Labels(values', head, tail)
  BY <1>1, <1>2, LabelsEqual
<1>4. QED
  BY <1>1, <1>3, ContentsAre

\* Storing the tail after a write is the push of the FIFO.
LEMMA StoreTailPushes ==
    ASSUME IInv, CycleInv, PushStoreTail
    PROVE  Fifo!Push(pcycle) /\ pcycle \in 1..MaxCycle
<1>1. /\ values \in SlotValues /\ head \in Nat /\ tail \in Nat /\ pcycle \in Nat
      /\ head <= tail /\ tail - head < Capacity
      /\ values' = values /\ head' = head /\ tail' = tail + 1 /\ popped' = popped
      /\ values[Slot(tail)] = pcycle
  BY DEF PushStoreTail, capture, history, IInv, TypeOK, ExposuresStored,
         SchedulerCopies, LabelPending, CancelPc, PushPc, SlotValues
<1>2. /\ Len(fired) = tail /\ Len(popped) = head
      /\ \A i \in 1..tail : fired[i] < pcycle
  BY DEF PushStoreTail, IInv, TypeOK, ExposuresStored, LabelsPopped, FiredIncrease,
         LabelPending, CancelPc
<1>3. Contents' = Append(Contents, pcycle)
  BY <1>1, LabelsExtended, ContentsAre
<1>4. /\ Len(Contents) = tail - head
      /\ \A i \in 1..(tail - head) : Contents[i] = values[Slot(head + i - 1)]
  BY <1>1, LabelsAreSeq, ContentsAre, ZenonT(60)
<1>5. ASSUME NEW i \in 1..Len(Contents)
      PROVE  Contents[i] < pcycle
  <2>1. head + i \in 1..Len(fired) /\ head + i > head /\ (head + i) - 1 = head + i - 1
    BY <1>1, <1>2, <1>4
  <2>2. Contents[i] = fired[head + i]
    BY <1>4, <2>1 DEF IInv, LabelsStored
  <2>3. QED
    BY <1>2, <2>1, <2>2
<1>6. ASSUME NEW i \in 1..Len(popped)
      PROVE  popped[i] < pcycle
  <2>1. i \in 1..head /\ i \in 1..tail
    BY <1>1, <1>2
  <2>2. QED
    BY <1>2, <2>1 DEF IInv, LabelsPopped
<1>7. pcycle \in 1..MaxCycle
  BY <1>1, BoundsAssumption DEF CycleInv, PushStoreTail
<1>8. QED
  BY <1>1, <1>3, <1>4, <1>5, <1>6, <1>7 DEF Fifo!Push

\* Taking the tail back is the cancel of the FIFO.
LEMMA StoreTailCancels == ASSUME IInv, CancelStoreTail PROVE Fifo!CancelLast
<1>1. /\ values \in SlotValues /\ head \in Nat /\ tail \in Nat /\ head < tail
      /\ values' = values /\ head' = head /\ tail' = tail - 1 /\ popped' = popped
  BY DEF CancelStoreTail, capture, history, IInv, TypeOK, ExposuresStored,
         SchedulerCopies, LabelPending, CancelPc, SlotValues
<1>2. QED
  BY <1>1, LabelsShortened, ContentsAre DEF Fifo!CancelLast

\* Storing the head is the pop of the FIFO.
LEMMA StoreHeadPops == ASSUME IInv, PopStoreHead PROVE Fifo!Pop
<1>1. /\ values \in SlotValues /\ head \in Nat /\ tail \in Nat /\ head < Len(fired)
      /\ Len(fired) <= tail
      /\ values' = values /\ head' = head + 1 /\ tail' = tail
      /\ popped' = Append(popped, cvalue) /\ cvalue = fired[head + 1]
  BY DEF PopStoreHead, scheduler, IInv, TypeOK, ExposuresStored, CaptureCopies,
         SlotValues
<1>2. values[Slot(head)] = fired[head + 1]
  <2>1. head + 1 \in 1..Len(fired) /\ head + 1 > head /\ (head + 1) - 1 = head
    BY <1>1 DEF IInv, TypeOK
  <2>2. QED
    BY <2>1 DEF IInv, LabelsStored
<1>3. head < tail
  BY <1>1 DEF IInv, TypeOK
<1>4. QED
  BY <1>1, <1>2, <1>3, LabelsAdvanced, ContentsAre DEF Fifo!Pop

\* Every other step leaves the queue as it is.
LEMMA OthersInvisible ==
    ASSUME UNCHANGED <<values, head, tail, popped>>
    PROVE  UNCHANGED <<Contents, popped>>
  BY DEF Contents

\* Until an acknowledgement is lost, the atomic operations of push,
\* cancelLastPush and pop implement the bounded FIFO.
THEOREM FifoImplemented == Spec => ImplementsFifo
<1> DEFINE Step == Truthful' => Fifo!Next \/ UNCHANGED <<Contents, popped>>
<1>1. Init => Fifo!Init
  BY CapacityAssumption DEF Init, Fifo!Init, Contents
<1>2. ASSUME TypeOK, Truthful => IInv, CycleInv, [Next]_vars
      PROVE  [Step]_vars
  <2>1. SUFFICES ASSUME Next, Truthful'
                 PROVE  Fifo!Next \/ UNCHANGED <<Contents, popped>>
    BY <1>2
  <2>2. IInv
    BY <1>2, <2>1, TruthfulBefore
  <2>3. CASE PushWrite
    BY <2>2, <2>3, WriteInvisible
  <2>4. CASE PushStoreTail
    BY <1>2, <2>2, <2>4, StoreTailPushes DEF Fifo!Next
  <2>5. CASE CancelStoreTail
    BY <2>2, <2>5, StoreTailCancels DEF Fifo!Next
  <2>6. CASE PopStoreHead
    BY <2>2, <2>6, StoreHeadPops DEF Fifo!Next
  <2>7. CASE ~(PushWrite \/ PushStoreTail \/ CancelStoreTail \/ PopStoreHead)
    <3>1. UNCHANGED <<values, head, tail, popped>>
      BY <2>1, <2>7 DEF Next, SchedulerStep, CaptureStep, shared, capture, history,
         PushLoadTail, PushLoadHead, CommandFires, CommandFails, CommandAckLost,
         CancelLoadTail, CancelLoadHead, PopLoadHead, PopLoadTail, PopEmpty, PopRead
    <3>2. QED
      BY <3>1, OthersInvisible
  <2>8. QED
    BY <2>3, <2>4, <2>5, <2>6, <2>7
<1>3. Init => CycleInv
  BY BoundsAssumption DEF Init, CycleInv
<1>4. QED
  BY <1>1, <1>2, <1>3, TypeCorrect, CycleInvStep, IInvAlways, PTL DEF Spec, ImplementsFifo
=============================================================================
