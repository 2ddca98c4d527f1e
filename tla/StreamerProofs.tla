--------------------------- MODULE StreamerProofs ---------------------------
(***************************************************************************)
(* Proofs about LatestQueue, for every capacity and any number of values,  *)
(* and about Streamer: what is shown of the queue holds in each of the     *)
(* streamers, and their statistics add up.                                 *)
(***************************************************************************)
EXTENDS Streamer, FiniteSetTheorems, TLAPS

-----------------------------------------------------------------------------
(* The queue.                                                               *)

\* The queue holds the values a - Len(q) + 1 to a.
Latest(q, a) == \A i \in 1..Len(q) : q[i] = a - Len(q) + i

\* Appending the next value keeps the queue on the latest ones.
LEMMA LatestAppend ==
    ASSUME NEW q \in Seq(Nat), NEW a \in Nat, Latest(q, a)
    PROVE  Latest(Append(q, a + 1), a + 1)
<1> DEFINE r == Append(q, a + 1)
           n == Len(q)
<1>1. n \in Nat /\ Len(r) = n + 1 /\ r[n + 1] = a + 1 /\ \A i \in 1..n : r[i] = q[i]
  OBVIOUS
<1>2. \A i \in 1..n : q[i] = a - n + i
  BY DEF Latest
<1> HIDE DEF n, r
<1>3. \A i \in 1..(n + 1) : i \in 1..n \/ i = n + 1
  BY <1>1
<1>4. ASSUME NEW i \in 1..(n + 1) PROVE r[i] = (a + 1) - (n + 1) + i
  BY <1>1, <1>2, <1>3
<1>5. Latest(r, a + 1)
  BY <1>1, <1>4 DEF Latest
<1>6. QED
  BY <1>5 DEF r

\* So does removing the oldest one.
LEMMA LatestTail ==
    ASSUME NEW q \in Seq(Nat), NEW a \in Nat, Latest(q, a), q # <<>>
    PROVE  Latest(Tail(q), a)
<1> DEFINE r == Tail(q)
           n == Len(q)
<1>1. n \in Nat \ {0} /\ Len(r) = n - 1 /\ \A i \in 1..(n - 1) : r[i] = q[i + 1]
  OBVIOUS
<1>2. \A i \in 1..n : q[i] = a - n + i
  BY DEF Latest
<1> HIDE DEF n, r
<1>3. ASSUME NEW i \in 1..(n - 1) PROVE r[i] = a - (n - 1) + i
  <2>1. i + 1 \in 1..n /\ r[i] = q[i + 1]
    BY <1>1
  <2>2. r[i] = a - n + (i + 1)
    BY <1>2, <2>1
  <2>3. QED
    BY <1>1, <2>2
<1>4. Latest(r, a)
  BY <1>1, <1>3 DEF Latest
<1>5. QED
  BY <1>4 DEF r

\* The steps that leave the queue alone keep what is known of it.
QueueUnchanged == UNCHANGED <<queue, accepted>>

LatestOK == HoldsLatest /\ Len(queue) <= accepted

\* What such a step preserves.
LEMMA QueueKept ==
    ASSUME QueueOK, LatestOK, QueueUnchanged
    PROVE  QueueOK' /\ LatestOK'
BY DEF QueueOK, LatestOK, QueueUnchanged, HoldsLatest

\* The queue is empty and open, and the worker about to look at it.
LEMMA IInvInit == Init => IInv
<1> SUFFICES ASSUME Init PROVE IInv
  OBVIOUS
<1>1. QueueOK /\ Len(queue) <= accepted
  BY CapacityAssumption DEF Init, QueueOK
<1>2. FlagsOK
  BY Zenon DEF Init, FlagsOK
<1>3. TypeOK
  BY <1>1, <1>2 DEF Init, TypeOK
<1>4. NoLostWakeup /\ HoldsLatest /\ StopOrder /\ EndedEmpty
  BY DEF Init, NoLostWakeup, HoldsLatest, StopOrder, EndedEmpty
<1> QED
  BY <1>1, <1>3, <1>4 DEF IInv

\* A value appended to the queue is the newest one and wakes the worker.
LEMMA IInvPush == IInv /\ Push => IInv'
<1> SUFFICES ASSUME IInv, Push PROVE IInv'
  OBVIOUS
<1>1. /\ queue \in Seq(Nat) /\ accepted \in Nat /\ Len(queue) < Capacity
      /\ Len(queue) <= accepted
      /\ queue' = Append(queue, accepted + 1) /\ accepted' = accepted + 1
  BY DEF IInv, TypeOK, QueueOK, Push
<1>2. QueueOK' /\ Len(queue') <= accepted'
  BY <1>1, CapacityAssumption DEF QueueOK
<1>3. HoldsLatest'
  BY <1>1, LatestAppend DEF IInv, HoldsLatest, Latest
<1>4. FlagsOK'
  BY Zenon DEF IInv, TypeOK, FlagsOK, Push
<1>5. TypeOK'
  BY <1>2, <1>4 DEF IInv, TypeOK, Push, Notified
<1>6. NoLostWakeup' /\ StopOrder' /\ EndedEmpty'
  BY DEF IInv, Push, Notified, NoLostWakeup, StopOrder, EndedEmpty
<1> QED
  BY <1>2, <1>3, <1>5, <1>6 DEF IInv

\* Displacing the oldest value makes room for the newest.
LEMMA IInvPushDisplacing == IInv /\ PushDisplacing => IInv'
<1> SUFFICES ASSUME IInv, PushDisplacing PROVE IInv'
  OBVIOUS
<1>1. /\ queue \in Seq(Nat) /\ accepted \in Nat /\ Len(queue) = Capacity
      /\ Len(queue) <= accepted /\ queue # <<>>
      /\ queue' = Append(Tail(queue), accepted + 1) /\ accepted' = accepted + 1
  BY CapacityAssumption DEF IInv, TypeOK, QueueOK, PushDisplacing
<1>2. /\ Tail(queue) \in Seq(Nat) /\ Len(Tail(queue)) = Len(queue) - 1
      /\ Head(queue) \in Nat
  BY <1>1
<1>3. QueueOK' /\ Len(queue') <= accepted'
  BY <1>1, <1>2, CapacityAssumption DEF QueueOK
<1>4. HoldsLatest'
  <2>1. Latest(Tail(queue), accepted)
    BY <1>1, LatestTail DEF IInv, HoldsLatest, Latest
  <2>2. Latest(queue', accepted')
    BY <1>1, <1>2, <2>1, LatestAppend
  <2>3. QED
    BY <2>2 DEF HoldsLatest, Latest
<1>5. FlagsOK'
  BY Zenon DEF IInv, TypeOK, FlagsOK, PushDisplacing
<1>6. TypeOK'
  BY <1>2, <1>3, <1>5 DEF IInv, TypeOK, PushDisplacing, Notified
<1>7. NoLostWakeup' /\ StopOrder' /\ EndedEmpty'
  BY DEF IInv, PushDisplacing, Notified, NoLostWakeup, StopOrder, EndedEmpty
<1> QED
  BY <1>3, <1>4, <1>6, <1>7 DEF IInv

\* Taking the oldest value leaves the latest ones.
LEMMA IInvWaitPop == IInv /\ WaitPop => IInv'
<1> SUFFICES ASSUME IInv, WaitPop PROVE IInv'
  OBVIOUS
<1>1. /\ queue \in Seq(Nat) /\ accepted \in Nat /\ Len(queue) <= Capacity
      /\ Len(queue) <= accepted /\ queue # <<>>
      /\ queue' = Tail(queue) /\ accepted' = accepted
  BY DEF IInv, TypeOK, QueueOK, WaitPop
<1>2. /\ Tail(queue) \in Seq(Nat) /\ Len(Tail(queue)) = Len(queue) - 1
      /\ Len(queue) \in Nat /\ Head(queue) \in Nat
  BY <1>1
<1>3. QueueOK' /\ Len(queue') <= accepted'
  BY <1>1, <1>2, CapacityAssumption DEF QueueOK
<1>4. HoldsLatest'
  BY <1>1, LatestTail DEF IInv, HoldsLatest, Latest
<1>5. FlagsOK'
  BY Zenon DEF IInv, TypeOK, FlagsOK, WaitPop
<1>6. taken' \in Seq(Nat)
  BY <1>2 DEF IInv, TypeOK, WaitPop
<1>7. TypeOK'
  BY <1>3, <1>5, <1>6 DEF IInv, TypeOK, WaitPop
<1>8. NoLostWakeup' /\ StopOrder' /\ EndedEmpty'
  BY DEF IInv, WaitPop, NoLostWakeup, StopOrder, EndedEmpty
<1> QED
  BY <1>3, <1>4, <1>7, <1>8 DEF IInv

\* The producer's other steps.
LEMMA IInvSubmit == IInv /\ (SubmitCheck \/ PushRejected \/ CountDrop) => IInv'
<1> SUFFICES ASSUME IInv, SubmitCheck \/ PushRejected \/ CountDrop PROVE IInv'
  OBVIOUS
<1>1. QueueOK' /\ LatestOK'
  BY QueueKept DEF IInv, TypeOK, LatestOK, QueueUnchanged,
                   SubmitCheck, PushRejected, CountDrop
<1>2. FlagsOK'
  BY Zenon DEF IInv, TypeOK, FlagsOK, SubmitCheck, PushRejected, CountDrop
<1>3. /\ ppc' \in {"idle", "push", "count"} /\ wpc' = wpc /\ spc' = spc
      /\ taken' = taken /\ displaced' = displaced
  BY Zenon DEF SubmitCheck, PushRejected, CountDrop
<1>4. submits' \in Nat /\ drops' \in Nat
  <2>1. submits \in Nat /\ drops \in Nat
    BY DEF IInv, TypeOK
  <2>2. submits' \in {submits, submits + 1} /\ drops' \in {drops, drops + 1}
    BY DEF SubmitCheck, PushRejected, CountDrop
  <2>3. QED
    BY <2>1, <2>2
<1>5. TypeOK'
  BY <1>1, <1>2, <1>3, <1>4 DEF IInv, TypeOK
<1>6. NoLostWakeup' /\ StopOrder' /\ EndedEmpty'
  BY DEF IInv, SubmitCheck, PushRejected, CountDrop, NoLostWakeup, StopOrder, EndedEmpty
<1> QED
  BY <1>1, <1>5, <1>6 DEF IInv, LatestOK

\* The worker's other steps: it sleeps and ends on an empty queue only.
LEMMA IInvWorker ==
    IInv /\ (WaitPopEnds \/ WaitPopSleeps \/ SpuriousWakeup \/ WorkDone) => IInv'
<1> SUFFICES ASSUME IInv, WaitPopEnds \/ WaitPopSleeps \/ SpuriousWakeup \/ WorkDone
             PROVE  IInv'
  OBVIOUS
<1>1. QueueOK' /\ LatestOK'
  BY QueueKept DEF IInv, TypeOK, LatestOK, QueueUnchanged,
                   WaitPopEnds, WaitPopSleeps, SpuriousWakeup, WorkDone
<1>2. FlagsOK'
  BY Zenon DEF IInv, TypeOK, FlagsOK, WaitPopEnds, WaitPopSleeps, SpuriousWakeup, WorkDone
<1>3. TypeOK'
  BY <1>1, <1>2 DEF IInv, TypeOK, WaitPopEnds, WaitPopSleeps, SpuriousWakeup, WorkDone
<1>4. NoLostWakeup' /\ StopOrder' /\ EndedEmpty'
  BY DEF IInv, WaitPopEnds, WaitPopSleeps, SpuriousWakeup, WorkDone, NothingLeft,
         NoLostWakeup, StopOrder, EndedEmpty
<1> QED
  BY <1>1, <1>3, <1>4 DEF IInv, LatestOK

\* The steps of stop: each flag it sets wakes the worker.
LEMMA IInvStop == IInv /\ (StopBegins \/ Stop) => IInv'
<1> SUFFICES ASSUME IInv, StopBegins \/ Close \/ RequestStop \/ Join PROVE IInv'
  BY DEF Stop
<1>1. QueueOK' /\ LatestOK'
  BY QueueKept DEF IInv, TypeOK, LatestOK, QueueUnchanged,
                   StopBegins, Close, RequestStop, Join
<1>2. FlagsOK'
  BY Zenon DEF IInv, TypeOK, FlagsOK, StopBegins, Close, RequestStop, Join
<1>3. TypeOK'
  BY <1>1, <1>2 DEF IInv, TypeOK, StopBegins, Close, RequestStop, Join, Notified
<1>4. NoLostWakeup' /\ StopOrder' /\ EndedEmpty'
  BY DEF IInv, StopBegins, Close, RequestStop, Join, Notified,
         NoLostWakeup, StopOrder, EndedEmpty
<1> QED
  BY <1>1, <1>3, <1>4 DEF IInv, LatestOK

\* Stuttering.
LEMMA IInvStutter == IInv /\ UNCHANGED vars => IInv'
BY DEF IInv, vars, TypeOK, FlagsOK, QueueOK, NoLostWakeup, HoldsLatest, StopOrder, EndedEmpty

\* IInv is an invariant.
LEMMA IInvAlways == Spec => []IInv
<1>1. IInv /\ [Next]_vars => IInv'
  BY IInvPush, IInvPushDisplacing, IInvWaitPop, IInvSubmit, IInvWorker, IInvStop,
     IInvStutter DEF Next, Submit, Worker
<1>2. QED
  BY IInvInit, <1>1, PTL DEF Spec

\* The variables keep their types, and the queue its capacity.
THEOREM TypeCorrect == Spec => []TypeOK
<1>1. IInv => TypeOK
  BY DEF IInv
<1>2. QED
  BY IInvAlways, <1>1, PTL

\* No wake-up is lost, and the queue always holds the latest values accepted.
THEOREM QueueCorrect == Spec => [](NoLostWakeup /\ HoldsLatest)
<1>1. IInv => NoLostWakeup /\ HoldsLatest
  BY DEF IInv
<1>2. QED
  BY IInvAlways, <1>1, PTL

\* When stop has returned, nothing that was accepted is left in the queue.
THEOREM StopCorrect == Spec => []DrainedAtStop
<1>1. IInv => DrainedAtStop
  BY DEF IInv, EndedEmpty, DrainedAtStop
<1>2. QED
  BY IInvAlways, <1>1, PTL
-----------------------------------------------------------------------------
(* Every value accepted leaves once.                                        *)

\* The number of values that have left the queue, and those the worker got.
Left == accepted - Len(queue)
Taken == {taken[i] : i \in 1..Len(taken)}

OnceInv == EachOnce /\ IsFiniteSet(displaced)

\* Initially nothing was accepted.
LEMMA OnceInit == Init => OnceInv
<1> SUFFICES ASSUME Init PROVE OnceInv
  OBVIOUS
<1>1. IsFiniteSet(displaced) /\ Cardinality(displaced) = 0
  BY FS_EmptySet DEF Init
<1>2. Len(taken) = 0 /\ Len(queue) = 0 /\ accepted = 0 /\ displaced = {} /\ drops = 0
      /\ ppc = "idle"
  BY DEF Init
<1>3. 1..Len(taken) = {} /\ 1..(accepted - Len(queue)) = {}
  BY <1>2
<1>4. QED
  BY <1>1, <1>2, <1>3 DEF OnceInv, EachOnce

\* The value at the head of the queue is the next one to leave.
LEMMA HeadIsNext ==
    ASSUME IInv, OnceInv, queue # <<>>
    PROVE  /\ Left \in Nat /\ Head(queue) = Left + 1
           /\ Taken \cup displaced = 1..Left
           /\ Head(queue) \notin displaced
           /\ \A i \in 1..Len(taken) : taken[i] < Head(queue)
<1>1. /\ queue \in Seq(Nat) /\ accepted \in Nat /\ Len(queue) \in Nat \ {0}
      /\ Len(queue) <= accepted /\ Head(queue) = queue[1]
  BY DEF IInv, TypeOK, QueueOK
<1>2. Head(queue) = accepted - Len(queue) + 1
  <2>1. 1 \in 1..Len(queue)
    BY <1>1
  <2>2. QED
    BY <1>1, <2>1 DEF IInv, HoldsLatest
<1>3. Left \in Nat /\ Head(queue) = Left + 1
  BY <1>1, <1>2 DEF Left
<1>4. Taken \cup displaced = 1..Left
  BY DEF OnceInv, EachOnce, Taken, Left
<1>5. Head(queue) \notin 1..Left
  BY <1>3
<1>6. \A i \in 1..Len(taken) : taken[i] < Head(queue)
  <2>1. TAKE i \in 1..Len(taken)
  <2>2. taken[i] \in 1..Left
    BY <1>4 DEF Taken
  <2>3. QED
    BY <1>3, <2>2
<1>7. QED
  BY <1>3, <1>4, <1>5, <1>6

\* A displaced value leaves; until it is counted the counter is one behind.
LEMMA OncePushDisplacing ==
    ASSUME IInv, OnceInv, PushDisplacing
    PROVE  OnceInv'
<1>1. /\ queue \in Seq(Nat) /\ queue # <<>> /\ accepted \in Nat /\ Len(queue) <= accepted
      /\ drops \in Nat
      /\ queue' = Append(Tail(queue), accepted + 1) /\ accepted' = accepted + 1
      /\ displaced' = displaced \cup {Head(queue)} /\ taken' = taken
      /\ ppc = "push" /\ ppc' = "count" /\ drops' = drops
  BY CapacityAssumption DEF IInv, TypeOK, QueueOK, PushDisplacing
<1>2. Len(queue') = Len(queue) /\ Left' = Left + 1
  BY <1>1 DEF Left
<1>3. /\ Left \in Nat /\ Head(queue) = Left + 1
      /\ Taken \cup displaced = 1..Left /\ Head(queue) \notin displaced
      /\ \A i \in 1..Len(taken) : taken[i] < Head(queue)
  BY <1>1, HeadIsNext
<1>4. IsFiniteSet(displaced') /\ Cardinality(displaced') = Cardinality(displaced) + 1
  BY <1>1, <1>3, FS_AddElement DEF OnceInv
<1>5. Cardinality(displaced) = drops
  BY <1>1 DEF OnceInv, EachOnce
<1>6. Taken' \cup displaced' = 1..Left'
  <2>1. Taken' = Taken
    BY <1>1 DEF Taken
  <2>2. 1..(Left + 1) = (1..Left) \cup {Left + 1}
    BY <1>3
  <2>3. QED
    BY <1>1, <1>2, <1>3, <2>1, <2>2
<1>7. \A i \in 1..Len(taken) : taken[i] \notin displaced'
  <2>1. TAKE i \in 1..Len(taken)
  <2>2. taken[i] < Head(queue) /\ Head(queue) \in Nat
    BY <1>3
  <2>3. taken[i] # Head(queue) /\ taken[i] \notin displaced
    BY <1>1, <2>2 DEF OnceInv, EachOnce, IInv, TypeOK
  <2>4. QED
    BY <1>1, <2>3
<1>8. QED
  BY <1>1, <1>4, <1>5, <1>6, <1>7 DEF OnceInv, EachOnce, Taken, Left

\* A value taken leaves, after all those taken before.
LEMMA OnceWaitPop ==
    ASSUME IInv, OnceInv, WaitPop
    PROVE  OnceInv'
<1>1. /\ queue \in Seq(Nat) /\ queue # <<>> /\ accepted \in Nat /\ Len(queue) <= accepted
      /\ taken \in Seq(Nat) /\ Head(queue) \in Nat
      /\ queue' = Tail(queue) /\ accepted' = accepted
      /\ displaced' = displaced /\ taken' = Append(taken, Head(queue))
      /\ ppc' = ppc /\ drops' = drops
  BY DEF IInv, TypeOK, QueueOK, WaitPop
<1>2. Len(queue') = Len(queue) - 1 /\ Left' = Left + 1
  BY <1>1 DEF Left
<1>3. /\ Left \in Nat /\ Head(queue) = Left + 1
      /\ Taken \cup displaced = 1..Left /\ Head(queue) \notin displaced
      /\ \A i \in 1..Len(taken) : taken[i] < Head(queue)
  BY <1>1, HeadIsNext
<1>4. /\ Len(taken') = Len(taken) + 1 /\ taken'[Len(taken) + 1] = Head(queue)
      /\ \A i \in 1..Len(taken) : taken'[i] = taken[i]
  BY <1>1
<1>5. \A i \in 1..Len(taken') : i \in 1..Len(taken) \/ i = Len(taken) + 1
  BY <1>1, <1>4
<1>6. Taken' = Taken \cup {Head(queue)}
  <2>1. Len(taken) + 1 \in 1..Len(taken') /\ 1..Len(taken) \subseteq 1..Len(taken')
    BY <1>1, <1>4
  <2>2. QED
    BY <1>4, <1>5, <2>1 DEF Taken
<1>7. Taken' \cup displaced' = 1..Left'
  <2>1. 1..(Left + 1) = (1..Left) \cup {Left + 1}
    BY <1>3
  <2>2. QED
    BY <1>1, <1>2, <1>3, <1>6, <2>1
<1>8. \A i \in 1..Len(taken') : taken'[i] \notin displaced'
  BY <1>1, <1>3, <1>4, <1>5 DEF OnceInv, EachOnce
<1>9. ASSUME NEW i \in 1..Len(taken'), NEW j \in 1..Len(taken'), i < j
      PROVE  taken'[i] < taken'[j]
  <2>1. CASE j \in 1..Len(taken)
    <3>1. i \in 1..Len(taken)
      BY <1>1, <1>9, <2>1
    <3>2. QED
      BY <1>4, <1>9, <2>1, <3>1 DEF OnceInv, EachOnce
  <2>2. CASE j = Len(taken) + 1
    <3>1. i \in 1..Len(taken)
      BY <1>1, <1>5, <1>9, <2>2
    <3>2. QED
      BY <1>3, <1>4, <2>2, <3>1
  <2>3. QED
    BY <1>5, <2>1, <2>2
<1>10. Cardinality(displaced') = IF ppc' = "count" THEN drops' + 1 ELSE drops'
  BY <1>1 DEF OnceInv, EachOnce
<1>11. QED
  BY <1>1, <1>7, <1>8, <1>9, <1>10 DEF OnceInv, EachOnce, Taken, Left

\* All other steps leave the values where they are.
LEMMA OnceKept ==
    ASSUME OnceInv, accepted' - Len(queue') = accepted - Len(queue),
           UNCHANGED <<taken, displaced>>,
           (IF ppc' = "count" THEN drops' + 1 ELSE drops')
              = (IF ppc = "count" THEN drops + 1 ELSE drops)
    PROVE  OnceInv'
  BY DEF OnceInv, EachOnce

\* Every step keeps the invariant.
LEMMA OnceStep == IInv /\ OnceInv /\ [Next]_vars => OnceInv'
<1> SUFFICES ASSUME IInv, OnceInv, [Next]_vars PROVE OnceInv'
  OBVIOUS
<1>1. CASE PushDisplacing
  BY <1>1, OncePushDisplacing
<1>2. CASE WaitPop
  BY <1>2, OnceWaitPop
<1>3. CASE Push
  <2>1. accepted' - Len(queue') = accepted - Len(queue)
    BY <1>3 DEF Push, IInv, TypeOK, QueueOK
  <2>2. QED
    BY <1>3, <2>1, OnceKept DEF Push
<1>4. CASE CountDrop
  BY <1>4, OnceKept DEF CountDrop
<1>5. CASE SubmitCheck \/ PushRejected
  BY <1>5, OnceKept DEF SubmitCheck, PushRejected
<1>6. CASE WaitPopEnds \/ WaitPopSleeps \/ WorkDone \/ SpuriousWakeup
  BY <1>6, OnceKept DEF WaitPopEnds, WaitPopSleeps, WorkDone, SpuriousWakeup
<1>7. CASE StopBegins \/ Stop
  BY <1>7, OnceKept DEF StopBegins, Stop, Close, RequestStop, Join
<1>8. CASE UNCHANGED vars
  BY <1>8, OnceKept DEF vars
<1>9. QED
  BY <1>1, <1>2, <1>3, <1>4, <1>5, <1>6, <1>7, <1>8 DEF Next, Submit, Worker

\* Every value accepted is taken once, in order, or displaced and counted, or
\* still in the queue.
THEOREM ValuesAccounted == Spec => []EachOnce
<1>1. OnceInv => EachOnce
  BY DEF OnceInv
<1>2. QED
  BY <1>1, OnceInit, OnceStep, IInvAlways, PTL DEF Spec

-----------------------------------------------------------------------------
(* The streamers.                                                           *)

\* What a step of a streamer does to its queue is a step of LatestQueue.
LEMMA QueueStep == [StreamerNext]_streamerVars => [Next]_vars
<1> SUFFICES ASSUME [StreamerNext]_streamerVars PROVE [Next]_vars
  OBVIOUS
<1>1. CASE Send
  BY <1>1 DEF Send, Next, Submit
<1>2. CASE WaitFrame
  BY <1>2 DEF WaitFrame, Next, Worker
<1>3. CASE NoData \/ WriteFile \/ NoBuffer \/ BusEmpty \/ SendTo
  BY <1>3 DEF NoData, WriteFile, NoBuffer, BusEmpty, SendTo, Next, Worker
<1>4. CASE PushBuffer \/ BusError
  BY <1>4 DEF PushBuffer, BusError
<1>5. CASE StopStreamer
  BY <1>5 DEF StopStreamer, Next
<1>6. CASE UNCHANGED streamerVars
  BY <1>6 DEF streamerVars
<1> QED
  BY <1>1, <1>2, <1>3, <1>4, <1>5, <1>6 DEF StreamerNext, Write

\* A streamer behaves as the queue that LatestQueue describes.
THEOREM StreamerIsLatestQueue == StreamerSpec => Spec
<1>1. StreamerInit => Init
  BY DEF StreamerInit
<1>2. QED
  BY <1>1, QueueStep, PTL DEF StreamerSpec, Spec

\* So the worker of a streamer misses no wake-up, and every frame it accepts
\* is taken once and in order, or displaced and counted, or still queued.
THEOREM StreamerQueueCorrect == StreamerSpec => [](NoLostWakeup /\ EachOnce /\ DrainedAtStop)
<1>1. Spec => [](NoLostWakeup /\ HoldsLatest)
  BY QueueCorrect
<1>2. Spec => []EachOnce
  BY ValuesAccounted
<1>3. Spec => []DrainedAtStop
  BY StopCorrect
<1>4. QED
  BY <1>1, <1>2, <1>3, StreamerIsLatestQueue, PTL

-----------------------------------------------------------------------------
\* The lengths the queue operations leave.
LEMMA Lengths ==
    ASSUME NEW q \in Seq(Nat), NEW v \in Nat
    PROVE  /\ Len(q) \in Nat /\ Len(Append(q, v)) = Len(q) + 1
           /\ q # <<>> => /\ Len(Tail(q)) = Len(q) - 1
                          /\ Tail(q) \in Seq(Nat)
                          /\ Len(Append(Tail(q), v)) = Len(q)
OBVIOUS

\* Nothing is submitted yet.
LEMMA CountersInit == StreamerInit => CountersInv
<1> SUFFICES ASSUME StreamerInit PROVE CountersInv
  OBVIOUS
<1>1. Len(queue) = 0
  BY DEF StreamerInit, Init
<1>2. submits = 0 /\ drops = 0 /\ ppc = "idle" /\ wpc = "call"
  BY DEF StreamerInit, Init
<1>3. QED
  BY <1>1, <1>2 DEF StreamerInit, CountersInv, StatisticsAdd

\* The producer: a submit is on its way from SubmitCheck to the end of push,
\* and a displaced frame until it is counted.
LEMMA CountersSend == TypeOK /\ CountersInv /\ Send => CountersInv'
<1> SUFFICES ASSUME TypeOK, CountersInv, Send PROVE CountersInv'
  OBVIOUS
<1>1. submits \in Nat /\ drops \in Nat /\ queue \in Seq(Nat) /\ accepted + 1 \in Nat
  BY DEF TypeOK, QueueOK
<1>2. UNCHANGED <<kind, sent, errors, phase, reported>>
  BY DEF Send, counterVars
<1>3. CASE SubmitCheck /\ UNCHANGED refused
  BY <1>1, <1>2, <1>3, Lengths DEF SubmitCheck, CountersInv, StatisticsAdd
<1>4. CASE PushRejected /\ refused' = refused + 1
  BY <1>1, <1>2, <1>4, Lengths DEF PushRejected, CountersInv, StatisticsAdd
<1>5. CASE CountDrop /\ UNCHANGED refused
  BY <1>1, <1>2, <1>5, Lengths DEF CountDrop, CountersInv, StatisticsAdd
<1>6. CASE (Push \/ PushDisplacing) /\ UNCHANGED refused
  <2>1. wpc' = "work" <=> wpc = "work"
    BY <1>6 DEF Push, PushDisplacing, Notified
  <2>2. CASE Push
    <3>1. Len(queue') = Len(queue) + 1
      BY <1>1, <2>2, Lengths DEF Push
    <3>2. /\ ppc = "push" /\ ppc' = "idle"
          /\ UNCHANGED <<submits, drops, refused>>
      BY <1>6, <2>2 DEF Push
    <3>3. QED
      BY <1>1, <1>2, <2>1, <3>1, <3>2, Lengths DEF CountersInv, StatisticsAdd
  <2>3. CASE PushDisplacing
    <3>1. Len(queue) > 0
      BY <1>1, <2>3, CapacityAssumption DEF PushDisplacing
    <3>2. queue # <<>>
      BY <3>1
    <3>3. Len(queue') = Len(queue)
      BY <1>1, <2>3, <3>2, Lengths DEF PushDisplacing
    <3>4. QED
      BY <1>1, <1>2, <1>6, <2>1, <2>3, <3>3, Lengths DEF PushDisplacing, CountersInv, StatisticsAdd
  <2>4. QED
    BY <1>6, <2>2, <2>3
<1>7. QED
  BY <1>3, <1>4, <1>5, <1>6 DEF Send

\* The worker takes a frame from the queue, or waits, or ends.
LEMMA CountersWait == TypeOK /\ CountersInv /\ WaitFrame => CountersInv'
<1> SUFFICES ASSUME TypeOK, CountersInv, WaitFrame PROVE CountersInv'
  OBVIOUS
<1>1. submits \in Nat /\ drops \in Nat /\ queue \in Seq(Nat)
  BY DEF TypeOK, QueueOK
<1>2. UNCHANGED <<kind, sent, errors, phase, reported, refused>>
  BY DEF WaitFrame, counterVars
<1>3. wpc # "work" /\ phase = "frame"
  BY DEF CountersInv, WaitFrame, WaitPop, WaitPopEnds, WaitPopSleeps, SpuriousWakeup
<1>4. CASE WaitPop
  <2>1. Len(queue') = Len(queue) - 1
    BY <1>1, <1>4, Lengths DEF WaitPop
  <2>2. QED
    BY <1>1, <1>2, <1>3, <1>4, <2>1, Lengths DEF WaitPop, CountersInv, StatisticsAdd
<1>5. CASE WaitPopEnds \/ WaitPopSleeps \/ SpuriousWakeup
  BY <1>1, <1>2, <1>3, <1>5, Lengths
  DEF WaitPopEnds, WaitPopSleeps, SpuriousWakeup, CountersInv, StatisticsAdd
<1>6. QED
  BY <1>4, <1>5 DEF WaitFrame

\* A frame in hand is counted once, as sent or as an error.
LEMMA CountersWrite == TypeOK /\ CountersInv /\ Write => CountersInv'
<1> SUFFICES ASSUME TypeOK, CountersInv, Write PROVE CountersInv'
  OBVIOUS
<1>1. submits \in Nat /\ drops \in Nat /\ queue \in Seq(Nat) /\ Len(queue) \in Nat
  BY Lengths DEF TypeOK, QueueOK
<1> DEFINE Pushing == IF ppc = "idle" THEN 0 ELSE 1
<1>2. UNCHANGED <<submits, refused, drops, queue, ppc, kind>>
  BY DEF Write, NoData, WriteFile, NoBuffer, PushBuffer, BusError, BusEmpty, SendTo, WorkDone, vars
<1>3. CASE NoData \/ WriteFile \/ NoBuffer \/ SendTo
  <2>1. wpc = "work" /\ wpc' = "call" /\ UNCHANGED <<phase, reported>>
    BY <1>3 DEF NoData, WriteFile, NoBuffer, SendTo, WorkDone
  <2>2. \/ sent' = sent + 1 /\ errors' = errors
        \/ sent' = sent /\ errors' = errors + 1
    BY <1>3 DEF NoData, WriteFile, NoBuffer, SendTo, Succeeds, Fails
  <2>3. phase = "frame"
    BY <1>3 DEF NoData, WriteFile, NoBuffer, SendTo, CountersInv
  <2>4. /\ sent \in Nat /\ errors \in Nat /\ refused \in Nat /\ reported \in Nat
        /\ submits + reported = refused + drops + sent + errors + Len(queue) + Pushing + 1
    BY <1>1, <2>1, <2>3 DEF CountersInv, StatisticsAdd
  <2>5. submits + reported = refused + drops + sent' + errors' + Len(queue) + Pushing
    BY <1>1, <2>2, <2>4
  <2>6. sent' \in Nat /\ errors' \in Nat
    BY <2>2, <2>4
  <2>7. /\ UNCHANGED <<submits, refused, drops, reported>> /\ Len(queue') = Len(queue)
        /\ (IF ppc' = "idle" THEN 0 ELSE 1) = Pushing /\ Pushing \in Nat
        /\ (IF wpc' = "work" /\ phase' = "frame" THEN 1 ELSE 0) = 0
    BY <1>2, <2>1
  <2>8. StatisticsAdd'
    BY <1>1, <2>4, <2>5, <2>6, <2>7 DEF StatisticsAdd
  <2>9. QED
    BY <1>2, <2>1, <2>3, <2>4, <2>6, <2>8 DEF CountersInv
<1>4. CASE PushBuffer
  <2>1. /\ wpc = "work" /\ wpc' = "work" /\ phase = "frame" /\ phase' = "bus"
        /\ kind = "pipeline" /\ reported' = reported
    BY <1>4 DEF PushBuffer, vars
  <2>2. \/ sent' = sent + 1 /\ errors' = errors
        \/ sent' = sent /\ errors' = errors + 1
    BY <1>4 DEF PushBuffer, Succeeds, Fails
  <2>3. /\ sent \in Nat /\ errors \in Nat /\ refused \in Nat /\ reported \in Nat
        /\ submits + reported = refused + drops + sent + errors + Len(queue) + Pushing + 1
    BY <1>1, <2>1 DEF CountersInv, StatisticsAdd
  <2>4. submits + reported = refused + drops + sent' + errors' + Len(queue) + Pushing
    BY <1>1, <2>2, <2>3
  <2>5. sent' \in Nat /\ errors' \in Nat
    BY <2>2, <2>3
  <2>6. /\ UNCHANGED <<submits, refused, drops, reported>> /\ Len(queue') = Len(queue)
        /\ (IF ppc' = "idle" THEN 0 ELSE 1) = Pushing /\ Pushing \in Nat
        /\ (IF wpc' = "work" /\ phase' = "frame" THEN 1 ELSE 0) = 0
    BY <1>2, <2>1
  <2>7. StatisticsAdd'
    BY <1>1, <2>3, <2>4, <2>5, <2>6 DEF StatisticsAdd
  <2>8. QED
    BY <1>2, <2>1, <2>3, <2>5, <2>7 DEF CountersInv
<1>5. CASE BusError
  <2>1. UNCHANGED <<wpc, phase>> /\ reported' = reported + 1
    BY <1>5 DEF BusError, vars
  <2>2. sent' = sent /\ errors' = errors + 1
    BY <1>5 DEF BusError, Fails
  <2>3. QED
    BY <1>1, <1>2, <2>1, <2>2 DEF CountersInv, StatisticsAdd
<1>6. CASE BusEmpty
  <2>1. /\ wpc = "work" /\ wpc' = "call" /\ phase = "bus" /\ phase' = "frame"
        /\ UNCHANGED <<sent, errors, reported>>
    BY <1>6 DEF BusEmpty, WorkDone
  <2>2. QED
    BY <1>1, <1>2, <2>1 DEF CountersInv, StatisticsAdd
<1>7. QED
  BY <1>3, <1>4, <1>5, <1>6 DEF Write

\* stop counts nothing, and does not touch a worker with a frame in hand.
LEMMA CountersStop == TypeOK /\ CountersInv /\ StopStreamer => CountersInv'
<1> SUFFICES ASSUME TypeOK, CountersInv, StopStreamer PROVE CountersInv'
  OBVIOUS
<1>1. UNCHANGED <<kind, sent, errors, phase, reported, refused, submits, drops, queue, ppc>>
  BY DEF StopStreamer, counterVars, StopBegins, Stop, Close, RequestStop, Join
<1>2. wpc' = "work" <=> wpc = "work"
  BY DEF StopStreamer, StopBegins, Stop, Close, RequestStop, Join, Notified
<1>3. QED
  BY <1>1, <1>2 DEF CountersInv, StatisticsAdd

\* The counters of a streamer add up to what was submitted, at every moment.
THEOREM StatisticsCorrect == StreamerSpec => []StatisticsAdd
<1>1. TypeOK /\ CountersInv /\ [StreamerNext]_streamerVars => CountersInv'
  <2>1. TypeOK /\ CountersInv /\ UNCHANGED streamerVars => CountersInv'
    BY DEF streamerVars, counterVars, vars, CountersInv, StatisticsAdd
  <2>2. QED
    BY <2>1, CountersSend, CountersWait, CountersWrite, CountersStop DEF StreamerNext
<1>2. CountersInv => StatisticsAdd
  BY DEF CountersInv
<1>3. StreamerSpec => []TypeOK
  <2>1. Spec => []TypeOK
    BY TypeCorrect
  <2>2. QED
    BY <2>1, StreamerIsLatestQueue, PTL
<1>4. QED
  BY <1>1, <1>2, <1>3, CountersInit, PTL DEF StreamerSpec

-----------------------------------------------------------------------------
(* The RTP timestamp of a group.                                           *)

\* Quotient and remainder.
LEMMA Division ==
    ASSUME NEW a \in Nat, NEW k \in Nat \ {0}
    PROVE  /\ a \div k \in Nat /\ a % k \in 0..(k - 1)
           /\ a = k * (a \div k) + (a % k)
  OBVIOUS

\* There is only one quotient.
LEMMA QuotientUnique ==
    ASSUME NEW a \in Nat, NEW k \in Nat \ {0}, NEW q \in Nat, NEW r \in 0..(k - 1),
           a = k * q + r
    PROVE  a \div k = q
<1> DEFINE p == a \div k
<1>1. p \in Nat /\ a % k \in 0..(k - 1) /\ a = k * p + (a % k)
  BY Division
<1> HIDE DEF p
<1>2. k * (p - q) < k /\ k * (q - p) < k
  <2>1. k * (p - q) = k * p - k * q /\ k * (q - p) = k * q - k * p
    BY <1>1
  <2>2. k * p - k * q = r - (a % k)
    <3>1. k * p \in Nat /\ k * q \in Nat
      BY <1>1
    <3>2. QED
      BY <1>1, <3>1
  <2>3. QED
    BY <1>1, <2>1, <2>2
<1>3. p - q < 1
  <2>1. CASE p - q >= 1
    <3>1. k * (p - q) >= k * 1
      BY <2>1, <1>1
    <3>2. QED
      BY <3>1, <1>1, <1>2, <2>1 
  <2>2. QED
    BY <2>1, <1>1
<1>4. q - p < 1
  <2>1. CASE q - p >= 1
    <3>1. k * (q - p) >= k * 1
      BY <2>1, <1>1
    <3>2. QED
      BY <3>1, <1>1, <1>2, <2>1 
  <2>2. QED
    BY <2>1, <1>1
<1>5. QED
  BY <1>1, <1>3, <1>4 DEF p

\* Converting quotient and rest apart is exact.
LEMMA UnitsExact ==
    ASSUME NEW t \in Nat, NEW clock \in Nat, NEW unit \in Nat \ {0}
    PROVE  InUnits(t, clock, unit) = (t * clock) \div unit
<1> DEFINE s == t \div unit
           m == t % unit
           q == (m * clock) \div unit
           r == (m * clock) % unit
<1>1. s \in Nat /\ m \in Nat /\ t = unit * s + m
  BY Division
<1>2. m * clock \in Nat /\ t * clock \in Nat
  BY <1>1
<1>3. q \in Nat /\ r \in 0..(unit - 1) /\ m * clock = unit * q + r
  BY <1>2, Division
<1> HIDE DEF s, m, q, r
<1>4. t * clock = unit * (s * clock + q) + r
  BY <1>1, <1>3
<1>5. s * clock + q \in Nat
  BY <1>1, <1>3
<1>6. (t * clock) \div unit = s * clock + q
  BY <1>2, <1>3, <1>4, <1>5, QuotientUnique
<1>7. QED
  BY <1>6 DEF InUnits, s, m, q

\* Cut into seconds and a rest, the RTP timestamp of a group is still the whole
\* number of clock ticks that have passed, modulo 2^32: nothing is lost by
\* rounding twice (RtpTimestampFromNanoseconds).
THEOREM RtpTimestampExact ==
    \A ns \in Nat : RtpTimestamp(ns) = ((ns * 90000) \div 1000000000) % (2 ^ 32)
<1>1. SUFFICES ASSUME NEW ns \in Nat
               PROVE  RtpTimestamp(ns) = ((ns * 90000) \div 1000000000) % (2 ^ 32)
  OBVIOUS
<1>2. InUnits(ns, 90000, 1000000000) = (ns * 90000) \div 1000000000
  <2>1. 90000 \in Nat /\ 1000000000 \in Nat \ {0}
    OBVIOUS
  <2>2. QED
    BY <2>1, UnitsExact
<1>3. CASE ns > 0
  BY <1>2, <1>3 DEF RtpTimestamp
<1>4. CASE ns = 0
  <2>1. RtpTimestamp(ns) = 0
    BY <1>4 DEF RtpTimestamp
  <2>2. (ns * 90000) \div 1000000000 = 0
    BY <1>4
  <2>3. 0 % (2 ^ 32) = 0
    OBVIOUS
  <2>4. QED
    BY <2>1, <2>2, <2>3
<1>5. QED
  BY <1>3, <1>4

=============================================================================
