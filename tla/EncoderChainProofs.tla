-------------------------- MODULE EncoderChainProofs --------------------------
(***************************************************************************)
(* Proofs about EncoderChain, for any cameras, pool, queue and pending     *)
(* list sizes and any number of groups: no buffer is overwritten while it  *)
(* is referred to, an encoded frame has the labels of its picture and,     *)
(* with a pending list as long as the pool, the statistics add up.         *)
(***************************************************************************)
EXTENDS EncoderChain, TLAPS, SequenceTheorems, FiniteSetTheorems, WellFoundedInduction

-----------------------------------------------------------------------------
(* Operators on sequences.                                                  *)

\* A set of numbers that is not empty has a least one.
LEMMA LeastNumber ==
    ASSUME NEW S, S \subseteq Nat, S # {}
    PROVE  Min(S) \in S /\ \A x \in S : Min(S) <= x
<1> DEFINE Less == OpToRel(<, Nat)
<1>1. IsWellFoundedOn(Less, Nat)
  BY NatLessThanWellFounded
<1>2. \A x, y \in Nat : y < x => <<y, x>> \in Less
  BY DEF OpToRel
<1> HIDE DEF Less
<1>a. PICK x \in S : \A y \in S : ~ (<<y, x>> \in Less)
  BY <1>1, WFMin
<1>3. \A y \in S : x <= y
  <2> SUFFICES ASSUME NEW y \in S PROVE x <= y
    OBVIOUS
  <2>1. ~(y < x)
    BY <1>2, <1>a
  <2>2. QED
    BY <2>1
<1>4. QED
  BY <1>3 DEF Min

\* Position finds the first frame of a group, if the list has one.
LEMMA PositionFound ==
    ASSUME NEW list \in Seq(Frames), NEW pts
    PROVE  /\ Position(list, pts) \in 0..Len(list)
           /\ Position(list, pts) = 0 => \A i \in 1..Len(list) : list[i].group # pts
           /\ Position(list, pts) # 0 => list[Position(list, pts)].group = pts
<1> DEFINE I == {i \in 1..Len(list) : list[i].group = pts}
<1>1. Position(list, pts) = IF I # {} THEN Min(I) ELSE 0
  BY DEF Position, SelectInSeq
<1>2. I \subseteq Nat
  OBVIOUS
<1>3. I # {} => Min(I) \in I
  BY <1>2, LeastNumber
<1>4. Len(list) \in Nat
  OBVIOUS
<1> HIDE DEF I
<1>5. CASE I = {}
  BY <1>1, <1>4, <1>5 DEF I
<1>6. CASE I # {}
  <2>1. Position(list, pts) \in I
    BY <1>1, <1>3, <1>6
  <2>2. QED
    BY <2>1, <1>4 DEF I
<1>7. QED
  BY <1>5, <1>6

\* What is left when one element is taken out.
LEMMA RemoveAtFacts ==
    ASSUME NEW S, NEW list \in Seq(S), NEW i \in 1..Len(list)
    PROVE  /\ RemoveAt(list, i) \in Seq(S)
           /\ Len(RemoveAt(list, i)) = Len(list) - 1
           /\ \A k \in 1..(Len(list) - 1) :
                 RemoveAt(list, i)[k] = list[IF k < i THEN k ELSE k + 1]
<1> DEFINE before == SubSeq(list, 1, i - 1)
           after == SubSeq(list, i + 1, Len(list))
<1>1. /\ before \in Seq(S) /\ Len(before) = i - 1
      /\ \A k \in 1..(i - 1) : before[k] = list[k]
  OBVIOUS
<1>2. /\ after \in Seq(S) /\ Len(after) = Len(list) - i
      /\ \A k \in 1..(Len(list) - i) : after[k] = list[k + i]
  OBVIOUS
<1>3. Len(list) \in Nat
  OBVIOUS
<1> HIDE DEF before, after
<1>4. /\ before \o after \in Seq(S)
      /\ Len(before \o after) = Len(list) - 1
      /\ \A k \in 1..(Len(list) - 1) : (before \o after)[k] =
            IF k <= i - 1 THEN before[k] ELSE after[k - (i - 1)]
  <2>1. /\ before \o after \in Seq(S)
        /\ Len(before \o after) = Len(before) + Len(after)
        /\ \A k \in 1..(Len(before) + Len(after)) : (before \o after)[k] =
              IF k <= Len(before) THEN before[k] ELSE after[k - Len(before)]
    BY <1>1, <1>2, ConcatProperties
  <2>2. Len(before) = i - 1 /\ Len(before) + Len(after) = Len(list) - 1
    BY <1>1, <1>2, <1>3
  <2>3. QED
    BY <2>1, <2>2
<1>5. \A k \in 1..(Len(list) - 1) : (before \o after)[k] = list[IF k < i THEN k ELSE k + 1]
  <2> SUFFICES ASSUME NEW k \in 1..(Len(list) - 1)
               PROVE  (before \o after)[k] = list[IF k < i THEN k ELSE k + 1]
    OBVIOUS
  <2>1. CASE k < i
    BY <1>1, <1>3, <1>4, <2>1
  <2>2. CASE k >= i
    <3>1. k - (i - 1) \in 1..(Len(list) - i) /\ k - (i - 1) + i = k + 1
      BY <1>3, <2>2
    <3>2. QED
      BY <1>2, <1>3, <1>4, <2>2, <3>1
  <2>3. k < i \/ k >= i
    BY <1>3
  <2>4. QED
    BY <2>1, <2>2, <2>3
<1>6. RemoveAt(list, i) = before \o after
  BY DEF RemoveAt, before, after
<1>7. QED
  BY <1>4, <1>5, <1>6

\* What is left behind a position.
LEMMA RestFacts ==
    ASSUME NEW S, NEW list \in Seq(S), NEW i \in 1..Len(list)
    PROVE  /\ SubSeq(list, i + 1, Len(list)) \in Seq(S)
           /\ Len(SubSeq(list, i + 1, Len(list))) = Len(list) - i
           /\ \A k \in 1..(Len(list) - i) : SubSeq(list, i + 1, Len(list))[k] = list[k + i]
OBVIOUS

\* The bounded queue keeps its capacity.
LEMMA PushLatestFacts ==
    ASSUME NEW q \in Seq(Frames), Len(q) <= QueueDepth, NEW f \in Frames
    PROVE  /\ PushLatest(q, f) \in Seq(Frames) /\ Len(PushLatest(q, f)) <= QueueDepth
           /\ Len(PushLatest(q, f)) = IF Len(q) = QueueDepth THEN Len(q) ELSE Len(q) + 1
           /\ PushLatest(q, f)[Len(PushLatest(q, f))] = f
           /\ \A k \in 1..(Len(PushLatest(q, f)) - 1) :
                 PushLatest(q, f)[k] = q[IF Len(q) = QueueDepth THEN k + 1 ELSE k]
<1>1. CASE Len(q) = QueueDepth
  <2>1. q # <<>>
    BY <1>1, SizesAssumption
  <2>2. Tail(q) \in Seq(Frames) /\ Len(Tail(q)) = Len(q) - 1
        /\ \A k \in 1..(Len(q) - 1) : Tail(q)[k] = q[k + 1]
    BY <2>1
  <2>a. QueueDepth \in Nat /\ Len(q) \in Nat
    BY SizesAssumption
  <2>3. PushLatest(q, f) = Append(Tail(q), f)
    BY <1>1 DEF PushLatest
  <2>4. QED
    BY <1>1, <2>2, <2>a, <2>3, AppendProperties
<1>2. CASE Len(q) # QueueDepth
  <2>1. PushLatest(q, f) = Append(q, f)
    BY <1>2 DEF PushLatest
  <2>2. QueueDepth \in Nat /\ Len(q) \in Nat /\ Len(q) + 1 <= QueueDepth
    BY <1>2, SizesAssumption
  <2>3. QED
    BY <1>2, <2>1, <2>2, AppendProperties
<1>3. QED
  BY <1>1, <1>2

-----------------------------------------------------------------------------
(* Buffers and types.                                                       *)

CoreInv == TypeOK /\ IspInv /\ LabelsInv /\ PicturesIntact

\* Every camera has one place in the group.
LEMMA StreamPlaces ==
    /\ Len(Streams) \in Nat \ {0}
    /\ \A i \in 1..Len(Streams) : Streams[i] \in Ids
    /\ \A i, j \in 1..Len(Streams) : Streams[i] = Streams[j] => i = j
    /\ \A s \in Ids : \E i \in 1..Len(Streams) : Streams[i] = s
BY StreamsAssumption DEF Ids, Range, IsInjective

\* No frame is one of those the ISP has made.
LEMMA NoFrameIsNone == NoFrame \notin Frames
BY DEF NoFrame, Frames

\* The types of the variables, one by one.
LEMMA Types ==
    ASSUME TypeOK
    PROVE  /\ group \in Nat /\ at \in Nat /\ MaxGroup \in Nat /\ errors \in Nat
           /\ \A s \in Ids :
                 /\ made[s] \in Frames \cup {NoFrame} /\ frame[s] \in Frames \cup {NoFrame}
                 /\ encoding[s] \in Frames \cup {NoFrame}
                 /\ queue[s] \in Seq(Frames) /\ pending[s] \in Seq(Frames)
                 /\ pipe[s] \in Seq(Samples) /\ Len(pipe[s]) \in Nat
                 /\ Len(queue[s]) \in Nat /\ Len(pending[s]) \in Nat
                 /\ Len(queue[s]) <= QueueDepth /\ Len(pending[s]) <= PendingCapacity
                 /\ wpc[s] \in {"pop", "copy", "pending", "push"}
                 /\ picture[s] \in 0..MaxGroup /\ content[s] \in [Buffers -> 0..MaxGroup]
           /\ submitted \in [Ids -> Nat] /\ encoded \in [Ids -> Nat]
           /\ queueDrops \in [Ids -> Nat] /\ encoderDrops \in [Ids -> Nat]
           /\ frameErrors \in [Ids -> Nat] /\ pipeErrors \in [Ids -> Nat]
<1>1. \A s \in Ids : /\ queue[s] \in Seq(Frames) /\ pending[s] \in Seq(Frames)
                    /\ pipe[s] \in Seq(Samples)
  BY DEF TypeOK
<1>2. \A s \in Ids : /\ Len(pipe[s]) \in Nat /\ Len(queue[s]) \in Nat
                    /\ Len(pending[s]) \in Nat
  BY <1>1, LenProperties
<1>3. QED
  BY <1>1, <1>2, BoundsAssumption, StreamPlaces DEF TypeOK

\* The variables have their types to begin with.
LEMMA TypeInit == Init => TypeOK
<1> SUFFICES ASSUME Init PROVE TypeOK
  OBVIOUS
<1>1. \A s \in Ids : Len(queue[s]) = 0 /\ Len(pending[s]) = 0
  BY DEF Init, Each
<1>2. 0 <= QueueDepth /\ 0 <= PendingCapacity
  BY SizesAssumption
<1>3. QED
  BY <1>1, <1>2, StreamPlaces, BoundsAssumption DEF Init, Each, TypeOK, NoFrame

\* The ISP worker keeps the types.
LEMMA TypeIsp == CoreInv /\ Isp => TypeOK'
<1> SUFFICES ASSUME CoreInv, Isp PROVE TypeOK'
  OBVIOUS
<1>0. TypeOK
  BY DEF CoreInv
<1>1. at \in 1..Len(Streams) /\ Streams[at] \in Ids
  BY <1>0, StreamPlaces DEF TypeOK
<1>2. /\ group \in 0..MaxGroup /\ MaxGroup \in Nat /\ at \in Nat /\ Len(Streams) \in Nat
      /\ 1 \in 1..Len(Streams)
  BY <1>0, StreamPlaces, BoundsAssumption DEF TypeOK
<1>3. CASE TakeGroup
  <2>1. group' \in 0..MaxGroup /\ at' \in 1..Len(Streams)
    BY <1>2, <1>3 DEF TakeGroup
  <2>2. QED
    BY <1>0, <1>3, <2>1 DEF TakeGroup, TypeOK, worker, counters
<1>4. CASE ProcessCamera
  <2>1. PICK b \in Buffers :
          /\ content' = [content EXCEPT ![Streams[at]][b] = group]
          /\ made' = [made EXCEPT ![Streams[at]] = [group |-> group, buffer |-> b]]
    BY <1>4 DEF ProcessCamera
  <2>2. group > 0 /\ [group |-> group, buffer |-> b] \in Frames
    BY <1>2, <1>4 DEF ProcessCamera, CoreInv, IspInv, Frames
  <2>3. at' \in 1..Len(Streams) /\ ipc' \in {"process", "submit"}
    BY <1>1, <1>2, <1>4 DEF ProcessCamera
  <2>4. content' \in [Ids -> [Buffers -> 0..MaxGroup]]
    BY <1>0, <1>1, <1>2, <2>1 DEF TypeOK
  <2>5. made' \in [Ids -> Frames \cup {NoFrame}]
    BY <1>0, <1>1, <2>1, <2>2 DEF TypeOK
  <2>6. QED
    BY <1>0, <1>4, <2>3, <2>4, <2>5 DEF ProcessCamera, TypeOK, worker, counters
<1>5. CASE PoolExhausted
  BY <1>0, <1>2, <1>5 DEF PoolExhausted, GiveUp, Each, TypeOK, worker, counters
<1>6. CASE ProcessingFails
  <2>1. content' \in [Ids -> [Buffers -> 0..MaxGroup]]
    <3>1. content \in [Ids -> [Buffers -> 0..MaxGroup]] /\ 0 \in 0..MaxGroup
      BY <1>0, <1>2 DEF TypeOK
    <3>2. CASE UNCHANGED content
      BY <3>1, <3>2
    <3>3. ASSUME NEW b \in Buffers, content' = [content EXCEPT ![Streams[at]][b] = 0]
          PROVE  content' \in [Ids -> [Buffers -> 0..MaxGroup]]
      BY <1>1, <3>1, <3>3
    <3>4. QED
      BY <1>6, <3>2, <3>3 DEF ProcessingFails
  <2>2. QED
    BY <1>0, <1>2, <1>6, <2>1 DEF ProcessingFails, GiveUp, Each, TypeOK, worker, counters
<1>7. CASE SubmitFrame
  <2>1. made[Streams[at]] \in Frames
    <3>1. at \in Made
      BY <1>1, <1>2, <1>7 DEF SubmitFrame, Made
    <3>2. made[Streams[at]] \in {f \in Frames : f.group = group}
      BY <1>1, <3>1 DEF CoreInv, IspInv
    <3>3. QED
      BY <3>2
  <2>2. at' \in 1..Len(Streams) /\ ipc' \in {"wait", "submit"}
    BY <1>1, <1>2, <1>7 DEF SubmitFrame
  <2>3. /\ PushLatest(queue[Streams[at]], made[Streams[at]]) \in Seq(Frames)
        /\ Len(PushLatest(queue[Streams[at]], made[Streams[at]])) <= QueueDepth
    <3>1. /\ queue[Streams[at]] \in Seq(Frames) /\ Len(queue[Streams[at]]) \in Nat
          /\ Len(queue[Streams[at]]) <= QueueDepth /\ QueueDepth \in Nat
      BY <1>0, <1>1, Types, SizesAssumption
    <3>2. QED
      BY <2>1, <3>1, PushLatestFacts
  <2>4. /\ queue' \in [Ids -> Seq(Frames)]
        /\ \A s \in Ids : Len(queue'[s]) <= QueueDepth
    BY <1>0, <1>1, <1>7, <2>3 DEF SubmitFrame, TypeOK
  <2>5. made' \in [Ids -> Frames \cup {NoFrame}]
    BY <1>0, <1>7 DEF SubmitFrame, TypeOK
  <2>6. submitted' \in [Ids -> Nat] /\ queueDrops' \in [Ids -> Nat]
    BY <1>0, <1>1, <1>7, Types, SMTT(30) DEF SubmitFrame
  <2>7. UNCHANGED <<group, errors, content, frame, wpc, picture, pending, pipe, failed,
                    encoding, encoded, encoderDrops, frameErrors, pipeErrors>>
    BY <1>7 DEF SubmitFrame, worker
  <2>8. \A count \in {submitted, encoded, queueDrops, encoderDrops, frameErrors, pipeErrors}' :
           count \in [Ids -> Nat]
    BY <1>0, <2>6, <2>7, Types
  <2>9. QED
    BY <1>0, <2>2, <2>4, <2>5, <2>7, <2>8 DEF TypeOK
<1>8. QED
  BY <1>3, <1>4, <1>5, <1>6, <1>7 DEF Isp

\* The workers of the encoders keep them.
LEMMA TypeWorker == \A s \in Ids : CoreInv /\ Worker(s) => TypeOK'
<1> SUFFICES ASSUME NEW s \in Ids, CoreInv, Worker(s) PROVE TypeOK'
  OBVIOUS
<1>0. TypeOK
  BY DEF CoreInv
<1>1. /\ queue[s] \in Seq(Frames) /\ pending[s] \in Seq(Frames) /\ pipe[s] \in Seq(Samples)
      /\ Len(queue[s]) \in Nat /\ Len(pending[s]) \in Nat /\ Len(pipe[s]) \in Nat
      /\ Len(queue[s]) <= QueueDepth /\ Len(pending[s]) <= PendingCapacity
      /\ QueueDepth \in Nat /\ PendingCapacity \in Nat \ {0}
  BY <1>0, Types, SizesAssumption
<1>2. wpc[s] # "pop" => frame[s] \in Frames
  BY DEF CoreInv, LabelsInv
<1>3. CASE PopFrame(s)
  <2>1. /\ Head(queue[s]) \in Frames /\ Tail(queue[s]) \in Seq(Frames)
        /\ Len(Tail(queue[s])) <= QueueDepth
    BY <1>1, <1>3 DEF PopFrame
  <2>2. frame' \in [Ids -> Frames \cup {NoFrame}] /\ queue' \in [Ids -> Seq(Frames)]
    BY <1>0, <1>3, <2>1 DEF PopFrame, TypeOK
  <2>3. \A t \in Ids : Len(queue'[t]) <= QueueDepth
    BY <1>0, <1>3, <2>1 DEF PopFrame, TypeOK
  <2>4. wpc' \in [Ids -> {"pop", "copy", "pending", "push"}]
    BY <1>0, <1>3 DEF PopFrame, TypeOK
  <2>5. QED
    BY <1>0, <1>3, <2>2, <2>3, <2>4 DEF PopFrame, TypeOK, isp, counters
<1>4. CASE CopyPicture(s)
  <2>1. content[s][frame[s].buffer] \in 0..MaxGroup
    BY <1>0, <1>2, <1>4 DEF CopyPicture, TypeOK, Frames
  <2>2. picture' \in [Ids -> 0..MaxGroup] /\ wpc' \in [Ids -> {"pop", "copy", "pending", "push"}]
    BY <1>0, <1>4, <2>1 DEF CopyPicture, TypeOK
  <2>3. QED
    BY <1>0, <1>4, <2>2 DEF CopyPicture, TypeOK, isp, counters
<1>5. CASE AddPending(s)
  <2> DEFINE kept == IF Len(pending[s]) = PendingCapacity THEN Tail(pending[s]) ELSE pending[s]
  <2>1. kept \in Seq(Frames) /\ Len(kept) + 1 <= PendingCapacity
    <3>1. CASE Len(pending[s]) = PendingCapacity
      <4>1. pending[s] # <<>>
        BY <1>1, <3>1
      <4>2. Tail(pending[s]) \in Seq(Frames) /\ Len(Tail(pending[s])) = Len(pending[s]) - 1
        BY <1>1, <4>1
      <4>3. QED
        BY <1>1, <3>1, <4>2
    <3>2. CASE Len(pending[s]) # PendingCapacity
      BY <1>1, <3>2
    <3>3. QED
      BY <3>1, <3>2
  <2>2. frame[s] \in Frames
    BY <1>2, <1>5 DEF AddPending
  <2>3. /\ Append(kept, frame[s]) \in Seq(Frames)
        /\ Len(Append(kept, frame[s])) <= PendingCapacity
    BY <2>1, <2>2, AppendProperties
  <2>4. pending' = [pending EXCEPT ![s] = Append(kept, frame[s])]
    BY <1>5 DEF AddPending
  <2>5. pending' \in [Ids -> Seq(Frames)] /\ \A t \in Ids : Len(pending'[t]) <= PendingCapacity
    BY <1>0, <2>3, <2>4 DEF TypeOK
  <2>6. encoderDrops' \in [Ids -> Nat] /\ wpc' \in [Ids -> {"pop", "copy", "pending", "push"}]
    <3>1. encoderDrops \in [Ids -> Nat] /\ encoderDrops[s] + 1 \in Nat
      BY <1>0, Types
    <3>2. \/ encoderDrops' = encoderDrops
          \/ encoderDrops' = [encoderDrops EXCEPT ![s] = @ + 1]
      BY <1>5, <3>1 DEF AddPending
    <3>3. wpc' = [wpc EXCEPT ![s] = "push"] /\ wpc \in [Ids -> {"pop", "copy", "pending", "push"}]
      BY <1>0, <1>5 DEF AddPending, TypeOK
    <3>4. QED
      BY <3>1, <3>2, <3>3
  <2>7. UNCHANGED <<isp, content, queue, frame, picture, pipe, failed, encoding,
                    submitted, encoded, queueDrops, frameErrors, pipeErrors>>
    BY <1>5 DEF AddPending
  <2>8. \A count \in {submitted, encoded, queueDrops, encoderDrops, frameErrors, pipeErrors}' :
           count \in [Ids -> Nat]
    BY <1>0, <2>6, <2>7, Types
  <2>9. QED
    BY <1>0, <2>5, <2>6, <2>7, <2>8 DEF TypeOK, isp
<1>6. CASE PushBuffer(s)
  <2>1. [pts |-> frame[s].group, picture |-> picture[s]] \in Samples
    BY <1>2, <1>6 DEF PushBuffer, CoreInv, LabelsInv, Frames, Samples
  <2>2. pipe' \in [Ids -> Seq(Samples)]
    <3>1. /\ Append(pipe[s], [pts |-> frame[s].group, picture |-> picture[s]]) \in Seq(Samples)
          /\ pipe \in [Ids -> Seq(Samples)]
      BY <1>0, <1>1, <2>1, AppendProperties DEF TypeOK
    <3>2. QED
      BY <1>6, <3>1 DEF PushBuffer
  <2>3. pipeErrors' \in [Ids -> Nat] /\ wpc' \in [Ids -> {"pop", "copy", "pending", "push"}]
    <3>1. pipeErrors \in [Ids -> Nat] /\ pipeErrors[s] + 1 \in Nat
      BY <1>0, Types
    <3>2. wpc' = [wpc EXCEPT ![s] = "pop"] /\ wpc \in [Ids -> {"pop", "copy", "pending", "push"}]
      BY <1>0, <1>6 DEF PushBuffer, TypeOK
    <3>3. QED
      BY <1>6, <3>1, <3>2 DEF PushBuffer
  <2>4. UNCHANGED <<isp, content, queue, frame, picture, pending, failed, encoding,
                    submitted, encoded, queueDrops, encoderDrops, frameErrors>>
    BY <1>6 DEF PushBuffer
  <2>5. \A count \in {submitted, encoded, queueDrops, encoderDrops, frameErrors, pipeErrors}' :
           count \in [Ids -> Nat]
    BY <1>0, <2>3, <2>4, Types
  <2>6. QED
    BY <1>0, <2>2, <2>3, <2>4, <2>5 DEF TypeOK, isp
<1>7. CASE FrameFails(s)
  <2>1. frameErrors' \in [Ids -> Nat] /\ wpc' \in [Ids -> {"pop", "copy", "pending", "push"}]
    <3>1. frameErrors \in [Ids -> Nat] /\ frameErrors[s] + 1 \in Nat
      BY <1>0, Types
    <3>2. wpc' = [wpc EXCEPT ![s] = "pop"] /\ wpc \in [Ids -> {"pop", "copy", "pending", "push"}]
      BY <1>0, <1>7 DEF FrameFails, TypeOK
    <3>3. QED
      BY <1>7, <3>1, <3>2 DEF FrameFails
  <2>2. UNCHANGED <<isp, content, queue, frame, picture, pending, pipe, failed, encoding,
                    submitted, encoded, queueDrops, encoderDrops, pipeErrors>>
    BY <1>7 DEF FrameFails
  <2>3. \A count \in {submitted, encoded, queueDrops, encoderDrops, frameErrors, pipeErrors}' :
           count \in [Ids -> Nat]
    BY <1>0, <2>1, <2>2, Types
  <2>4. QED
    BY <1>0, <2>1, <2>2, <2>3 DEF TypeOK, isp
<1>8. QED
  BY <1>3, <1>4, <1>5, <1>6, <1>7 DEF Worker

\* The pipelines keep them.
LEMMA TypePipeline == \A s \in Ids : TypeOK /\ (PipelineDrops(s) \/ PipelineFails(s)) => TypeOK'
<1> SUFFICES ASSUME NEW s \in Ids, TypeOK, PipelineDrops(s) \/ PipelineFails(s) PROVE TypeOK'
  OBVIOUS
<1>1. CASE PipelineDrops(s)
  <2>1. PICK i \in 1..(Len(pipe[s]) - QueueDepth) : pipe' = [pipe EXCEPT ![s] = RemoveAt(@, i)]
    BY <1>1 DEF PipelineDrops
  <2>2. pipe[s] \in Seq(Samples) /\ i \in 1..Len(pipe[s])
    BY Types, SizesAssumption, SMTT(30)
  <2>3. RemoveAt(pipe[s], i) \in Seq(Samples)
    BY <2>2, RemoveAtFacts
  <2>4. pipe' \in [Ids -> Seq(Samples)]
    BY <2>1, <2>3 DEF TypeOK
  <2>5. QED
    BY <1>1, <2>4 DEF PipelineDrops, TypeOK, isp, worker, counters
<1>2. CASE PipelineFails(s)
  <2>1. /\ failed' \subseteq MayFail /\ pipe' \in [Ids -> Seq(Samples)]
        /\ UNCHANGED <<isp, content, queue, worker, pending, encoding, counters>>
    BY <1>2, EmptySeq DEF PipelineFails, TypeOK
  <2>2. QED
    BY <2>1 DEF TypeOK, isp, worker, counters
<1>3. QED
  BY <1>1, <1>2

\* The callbacks keep them.
LEMMA TypeCallback == \A s \in Ids : TypeOK /\ Callback(s) => TypeOK'
<1> SUFFICES ASSUME NEW s \in Ids, TypeOK, Callback(s) PROVE TypeOK'
  OBVIOUS
<1>1. CASE Sample(s)
  <2> DEFINE i == Position(pending[s], Head(pipe[s]).pts)
  <2>1. /\ pending[s] \in Seq(Frames) /\ pipe[s] \in Seq(Samples) /\ Len(pending[s]) \in Nat
        /\ Len(pending[s]) <= PendingCapacity /\ PendingCapacity \in Nat
        /\ pipe[s] # <<>> /\ encoderDrops[s] \in Nat
    BY <1>1, Types, BoundsAssumption, SizesAssumption DEF Sample
  <2>2. i \in 0..Len(pending[s])
    BY <2>1, PositionFound
  <2>3. pipe' \in [Ids -> Seq(Samples)]
    BY <1>1, <2>1 DEF Sample, TypeOK
  <2>4. /\ pending' \in [Ids -> Seq(Frames)]
        /\ \A t \in Ids : Len(pending'[t]) <= PendingCapacity
        /\ encoding' \in [Ids -> Frames \cup {NoFrame}]
        /\ encoderDrops' \in [Ids -> Nat]
    <3>1. CASE i = 0
      <4>1. UNCHANGED <<pending, encoding>> /\ encoderDrops' = [encoderDrops EXCEPT ![s] = @ + 1]
        BY <1>1, <3>1 DEF Sample
      <4>2. QED
        <5>1. encoderDrops \in [Ids -> Nat] /\ encoderDrops[s] + 1 \in Nat
          BY <2>1, Types
        <5>2. encoderDrops' \in [Ids -> Nat]
          BY <4>1, <5>1
        <5>3. QED
          BY <4>1, <5>2 DEF TypeOK
    <3>2. CASE i # 0
      <4>1. /\ encoderDrops' = [encoderDrops EXCEPT ![s] = @ + i - 1]
            /\ encoding' = [encoding EXCEPT ![s] = pending[s][i]]
            /\ pending' = [pending EXCEPT ![s] = SubSeq(@, i + 1, Len(@))]
        BY <1>1, <3>2 DEF Sample
      <4> HIDE DEF i
      <4>2. i \in 1..Len(pending[s]) /\ encoderDrops[s] + i - 1 \in Nat
        BY <2>1, <2>2, <3>2
      <4>3. /\ SubSeq(pending[s], i + 1, Len(pending[s])) \in Seq(Frames)
            /\ Len(SubSeq(pending[s], i + 1, Len(pending[s]))) = Len(pending[s]) - i
            /\ pending[s][i] \in Frames
        BY <2>1, <4>2, RestFacts
      <4>4. pending' \in [Ids -> Seq(Frames)] /\ \A t \in Ids : Len(pending'[t]) <= PendingCapacity
        <5>1. Len(SubSeq(pending[s], i + 1, Len(pending[s]))) <= PendingCapacity
          BY <2>1, <4>2, <4>3
        <5>2. /\ pending \in [Ids -> Seq(Frames)]
              /\ \A t \in Ids : Len(pending[t]) <= PendingCapacity
          BY DEF TypeOK
        <5>3. QED
          BY <4>1, <4>3, <5>1, <5>2
      <4>5. QED
        BY <4>1, <4>2, <4>3, <4>4, Types DEF TypeOK
    <3>3. QED
      BY <3>1, <3>2
  <2>5. UNCHANGED <<isp, content, queue, worker, failed, submitted, encoded,
                    queueDrops, frameErrors, pipeErrors>>
    BY <1>1 DEF Sample
  <2>6. \A count \in {submitted, encoded, queueDrops, encoderDrops, frameErrors, pipeErrors}' :
           count \in [Ids -> Nat]
    BY <2>4, <2>5, Types
  <2>7. QED
    BY <2>3, <2>4, <2>5, <2>6 DEF TypeOK, isp, worker
<1>2. CASE Encoded(s)
  <2>1. encoding' \in [Ids -> Frames \cup {NoFrame}] /\ encoded' \in [Ids -> Nat]
    <3>1. encoding' = [encoding EXCEPT ![s] = NoFrame] /\ encoded' = [encoded EXCEPT ![s] = @ + 1]
      BY <1>2 DEF Encoded
    <3>2. encoding \in [Ids -> Frames \cup {NoFrame}] /\ encoded \in [Ids -> Nat]
      BY DEF TypeOK
    <3>3. encoding' \in [Ids -> Frames \cup {NoFrame}]
      BY <3>1, <3>2
    <3>4. encoded' \in [Ids -> Nat]
      BY <3>1, <3>2
    <3>5. QED
      BY <3>3, <3>4
  <2>2. UNCHANGED <<isp, content, queue, worker, pending, pipe, failed, submitted,
                    queueDrops, encoderDrops, frameErrors, pipeErrors>>
    BY <1>2 DEF Encoded
  <2>3. \A count \in {submitted, encoded, queueDrops, encoderDrops, frameErrors, pipeErrors}' :
           count \in [Ids -> Nat]
    BY <2>1, <2>2, Types
  <2>4. QED
    BY <2>1, <2>2, <2>3 DEF TypeOK, isp, worker
<1>3. CASE SampleFails(s)
  <2>1. pipe' \in [Ids -> Seq(Samples)] /\ failed' \subseteq MayFail
    BY <1>3 DEF SampleFails, TypeOK
  <2>2. pipeErrors' \in [Ids -> Nat]
    <3>1. pipeErrors' = [pipeErrors EXCEPT ![s] = @ + 1]
      BY <1>3 DEF SampleFails
    <3>2. pipeErrors \in [Ids -> Nat] /\ pipeErrors[s] + 1 \in Nat
      BY Types
    <3>3. QED
      BY <3>1, <3>2
  <2>3. UNCHANGED <<isp, content, queue, worker, pending, encoding, submitted, encoded,
                    queueDrops, encoderDrops, frameErrors>>
    BY <1>3 DEF SampleFails
  <2>4. \A count \in {submitted, encoded, queueDrops, encoderDrops, frameErrors, pipeErrors}' :
           count \in [Ids -> Nat]
    BY <2>2, <2>3, Types
  <2>5. QED
    BY <2>1, <2>3, <2>4 DEF TypeOK, isp, worker
<1>4. QED
  BY <1>1, <1>2, <1>3 DEF Callback

\* The group under way belongs to the ISP worker alone.
LEMMA IspKept == TypeOK /\ IspInv /\ Isp => IspInv'
<1> SUFFICES ASSUME TypeOK, IspInv, Isp PROVE IspInv'
  OBVIOUS
<1>1. /\ Len(Streams) \in Nat \ {0} /\ at \in 1..Len(Streams) /\ group \in Nat
      /\ made \in [Ids -> Frames \cup {NoFrame}]
      /\ \A i \in 1..Len(Streams) : Streams[i] \in Ids
      /\ \A i, j \in 1..Len(Streams) : Streams[i] = Streams[j] => i = j
  BY StreamPlaces, Types DEF TypeOK
<1>2. \A i \in 1..Len(Streams) : made[Streams[i]] \in
         IF i \in Made THEN {f \in Frames : f.group = group} ELSE {NoFrame}
  BY DEF IspInv
<1>3. CASE TakeGroup
  <2>1. \A i \in 1..Len(Streams) : i \notin Made /\ i \notin Made'
    BY <1>1, <1>3 DEF TakeGroup, Made
  <2>2. UNCHANGED made /\ group' > 0
    BY <1>1, <1>3 DEF TakeGroup
  <2>3. QED
    BY <1>2, <2>1, <2>2 DEF IspInv
<1>4. CASE ProcessCamera
  <2>1. PICK b \in Buffers : made' = [made EXCEPT ![Streams[at]] = [group |-> group, buffer |-> b]]
    BY <1>4 DEF ProcessCamera
  <2>2. UNCHANGED group /\ group > 0
    BY <1>4 DEF ProcessCamera, IspInv
  <2>3. [group |-> group, buffer |-> b] \in {f \in Frames : f.group = group}
    BY <2>2 DEF TypeOK, Frames
  <2>4. \A i \in 1..Len(Streams) : i \in Made' <=> i \in Made \/ i = at
    BY <1>1, <1>4 DEF ProcessCamera, Made
  <2>5. \A i \in 1..Len(Streams) : made'[Streams[i]] =
           IF i = at THEN [group |-> group, buffer |-> b] ELSE made[Streams[i]]
    BY <1>1, <2>1
  <2>6. QED
    BY <1>1, <1>2, <2>2, <2>3, <2>4, <2>5 DEF IspInv
<1>5. CASE PoolExhausted \/ ProcessingFails
  <2>1. made' = Each(NoFrame) /\ ipc' = "wait" /\ at' = 1
    BY <1>5 DEF PoolExhausted, ProcessingFails, GiveUp
  <2>2. \A i \in 1..Len(Streams) : i \notin Made' /\ made'[Streams[i]] = NoFrame
    BY <1>1, <2>1 DEF Made, Each
  <2>3. QED
    BY <2>1, <2>2 DEF IspInv
<1>6. CASE SubmitFrame
  <2>1. made' = [made EXCEPT ![Streams[at]] = NoFrame] /\ UNCHANGED group /\ group > 0
    BY <1>6 DEF SubmitFrame, IspInv
  <2>2. \A i \in 1..Len(Streams) : i \in Made' <=> i \in Made /\ i # at
    BY <1>1, <1>6 DEF SubmitFrame, Made
  <2>3. \A i \in 1..Len(Streams) : made'[Streams[i]] = IF i = at THEN NoFrame ELSE made[Streams[i]]
    BY <1>1, <2>1
  <2>4. QED
    BY <1>1, <1>2, <2>1, <2>2, <2>3 DEF IspInv
<1>7. QED
  BY <1>3, <1>4, <1>5, <1>6 DEF Isp

\* The worker copies the picture of its frame and pushes it with its labels.
LEMMA LabelsWorker == \A s \in Ids : CoreInv /\ Worker(s) => LabelsInv'
<1> SUFFICES ASSUME NEW s \in Ids, CoreInv, Worker(s), NEW t \in Ids
             PROVE  /\ wpc'[t] # "pop" => frame'[t] \in Frames
                    /\ wpc'[t] \in {"pending", "push"} => picture'[t] = frame'[t].group
                    /\ \A i \in 1..Len(pipe'[t]) : pipe'[t][i].pts = pipe'[t][i].picture
  BY DEF LabelsInv
<1>1. /\ wpc[t] # "pop" => frame[t] \in Frames
      /\ wpc[t] \in {"pending", "push"} => picture[t] = frame[t].group
      /\ \A i \in 1..Len(pipe[t]) : pipe[t][i].pts = pipe[t][i].picture
  BY DEF CoreInv, LabelsInv
<1>2. /\ wpc \in [Ids -> {"pop", "copy", "pending", "push"}]
      /\ frame \in [Ids -> Frames \cup {NoFrame}] /\ picture \in [Ids -> 0..MaxGroup]
      /\ pipe \in [Ids -> Seq(Samples)]
      /\ queue[s] \in Seq(Frames) /\ pipe[s] \in Seq(Samples)
  BY DEF CoreInv, TypeOK
<1>3. CASE PopFrame(s)
  <2>1. Head(queue[s]) \in Frames
    BY <1>2, <1>3 DEF PopFrame
  <2>2. QED
    BY <1>1, <1>2, <1>3, <2>1 DEF PopFrame
<1>4. CASE CopyPicture(s)
  <2>1. frame[s] \in Referenced(s)
    <3>1. frame[s] \in Frames
      BY <1>4 DEF CopyPicture, CoreInv, LabelsInv
    <3>2. QED
      BY <3>1, NoFrameIsNone DEF Referenced
  <2>2. content[s][frame[s].buffer] = frame[s].group
    BY <2>1 DEF CoreInv, PicturesIntact
  <2>3. QED
    BY <1>1, <1>2, <1>4, <2>2 DEF CopyPicture
<1>5. CASE AddPending(s)
  BY <1>1, <1>2, <1>5 DEF AddPending
<1>6. CASE PushBuffer(s)
  <2>1. wpc[s] = "push" /\ wpc' = [wpc EXCEPT ![s] = "pop"] /\ UNCHANGED <<frame, picture>>
    BY <1>6 DEF PushBuffer
  <2>2. frame[s] \in Frames /\ picture[s] = frame[s].group
    BY <2>1 DEF CoreInv, LabelsInv
  <2>3. \A i \in 1..Len(pipe'[t]) : pipe'[t][i].pts = pipe'[t][i].picture
    <3>1. CASE UNCHANGED pipe
      BY <1>1, <3>1
    <3>2. CASE pipe' = [pipe EXCEPT ![s] = Append(@, [pts |-> frame[s].group, picture |-> picture[s]])]
      <4> DEFINE sample == [pts |-> frame[s].group, picture |-> picture[s]]
      <4>1. sample \in Samples /\ sample.pts = sample.picture
        BY <2>2 DEF Samples, Frames
      <4>2. pipe'[t] = IF t = s THEN Append(pipe[t], sample) ELSE pipe[t]
        BY <1>2, <3>2
      <4> HIDE DEF sample
      <4>3. /\ Len(Append(pipe[s], sample)) = Len(pipe[s]) + 1
            /\ \A i \in 1..Len(pipe[s]) : Append(pipe[s], sample)[i] = pipe[s][i]
            /\ Append(pipe[s], sample)[Len(pipe[s]) + 1] = sample
        BY <1>2, <4>1, AppendProperties
      <4>4. Len(pipe[s]) \in Nat
        BY <1>2
      <4>5. QED
        BY <1>1, <4>1, <4>2, <4>3, <4>4
    <3>3. QED
      BY <1>6, <3>1, <3>2 DEF PushBuffer
  <2>4. QED
    BY <1>1, <1>2, <2>1, <2>3
<1>7. CASE FrameFails(s)
  BY <1>1, <1>2, <1>7 DEF FrameFails
<1>8. QED
  BY <1>3, <1>4, <1>5, <1>6, <1>7 DEF Worker

\* Neither the pipeline nor the callback gives a buffer other labels.
LEMMA LabelsPipe ==
    \A s \in Ids : TypeOK /\ LabelsInv /\ (Callback(s) \/ PipelineDrops(s) \/ PipelineFails(s))
                  => LabelsInv'
<1> SUFFICES ASSUME NEW s \in Ids, TypeOK, LabelsInv,
                    Callback(s) \/ PipelineDrops(s) \/ PipelineFails(s)
             PROVE  LabelsInv'
  OBVIOUS
<1>1. UNCHANGED <<frame, wpc, picture>>
  BY DEF Callback, Sample, SampleFails, Encoded, PipelineDrops, PipelineFails, worker
<1>2. pipe[s] \in Seq(Samples) /\ Len(pipe[s]) \in Nat /\ pipe \in [Ids -> Seq(Samples)]
  BY Types DEF TypeOK
<1>3. \A i \in 1..Len(pipe[s]) : pipe[s][i].pts = pipe[s][i].picture
  BY DEF LabelsInv
<1>4. \E after : /\ pipe' = [pipe EXCEPT ![s] = after]
                /\ \A i \in 1..Len(after) : after[i].pts = after[i].picture
  <2>1. CASE Sample(s)
    <3>1. pipe' = [pipe EXCEPT ![s] = Tail(@)] /\ pipe[s] # <<>>
      BY <1>2, <2>1, BoundsAssumption DEF Sample
    <3>2. \A i \in 1..Len(Tail(pipe[s])) : Tail(pipe[s])[i].pts = Tail(pipe[s])[i].picture
      BY <1>2, <1>3, <3>1
    <3>3. QED
      BY <3>1, <3>2
  <2>2. CASE Encoded(s)
    BY <1>2, <1>3, <2>2 DEF Encoded
  <2>3. CASE PipelineDrops(s)
    <3>1. PICK i \in 1..(Len(pipe[s]) - QueueDepth) : pipe' = [pipe EXCEPT ![s] = RemoveAt(@, i)]
      BY <2>3 DEF PipelineDrops
    <3>2. i \in 1..Len(pipe[s])
      BY <1>2, SizesAssumption
    <3>3. /\ Len(RemoveAt(pipe[s], i)) = Len(pipe[s]) - 1
          /\ \A k \in 1..(Len(pipe[s]) - 1) :
                RemoveAt(pipe[s], i)[k] = pipe[s][IF k < i THEN k ELSE k + 1]
      BY <1>2, <3>2, RemoveAtFacts
    <3>4. \A k \in 1..(Len(pipe[s]) - 1) : (IF k < i THEN k ELSE k + 1) \in 1..Len(pipe[s])
      BY <1>2
    <3>5. \A k \in 1..Len(RemoveAt(pipe[s], i)) :
             RemoveAt(pipe[s], i)[k].pts = RemoveAt(pipe[s], i)[k].picture
      BY <1>3, <3>3, <3>4
    <3>6. QED
      BY <3>1, <3>5
  <2>4. CASE PipelineFails(s) \/ SampleFails(s)
    <3>1. pipe' = [pipe EXCEPT ![s] = <<>>]
      BY <2>4 DEF PipelineFails, SampleFails
    <3>2. \A i \in 1..Len(<<>>) : <<>>[i].pts = <<>>[i].picture
      OBVIOUS
    <3>3. QED
      BY <3>1, <3>2
  <2>5. QED
    BY <2>1, <2>2, <2>3, <2>4 DEF Callback
<1>5. \A t \in Ids : \A i \in 1..Len(pipe'[t]) : pipe'[t][i].pts = pipe'[t][i].picture
  BY <1>2, <1>4 DEF LabelsInv
<1>6. QED
  BY <1>1, <1>5 DEF LabelsInv

\* A step that writes no buffer and refers to no other frame spoils nothing.
LEMMA IntactKept ==
    ASSUME PicturesIntact, UNCHANGED content,
           \A s \in Ids : Referenced(s)' \subseteq Referenced(s)
    PROVE  PicturesIntact'
BY DEF PicturesIntact

\* The elements of the lists that the actions make.
LEMMA Elements ==
    ASSUME NEW list \in Seq(Frames)
    PROVE  /\ Range(list) = {list[i] : i \in 1..Len(list)}
           /\ list # <<>> => Head(list) \in Range(list) /\ Range(Tail(list)) \subseteq Range(list)
           /\ \A f \in Frames : Range(Append(list, f)) = Range(list) \cup {f}
           /\ \A i \in 1..Len(list) : /\ list[i] \in Range(list)
                                     /\ Range(SubSeq(list, i + 1, Len(list))) \subseteq Range(list)
<1>1. Range(list) = {list[i] : i \in 1..Len(list)} /\ Len(list) \in Nat
  BY RangeEquality
<1>2. ASSUME list # <<>> PROVE Head(list) \in Range(list) /\ Range(Tail(list)) \subseteq Range(list)
  <2>1. /\ Tail(list) \in Seq(Frames) /\ Len(Tail(list)) = Len(list) - 1
        /\ \A i \in 1..Len(Tail(list)) : Tail(list)[i] = list[i + 1]
        /\ Head(list) = list[1] /\ Len(list) # 0
    BY <1>2
  <2>2. Range(Tail(list)) = {Tail(list)[i] : i \in 1..Len(Tail(list))}
    BY <2>1, RangeEquality
  <2>3. QED
    BY <1>1, <2>1, <2>2
<1>3. ASSUME NEW f \in Frames PROVE Range(Append(list, f)) = Range(list) \cup {f}
  <2>1. /\ Append(list, f) \in Seq(Frames) /\ Len(Append(list, f)) = Len(list) + 1
        /\ \A i \in 1..Len(list) : Append(list, f)[i] = list[i]
        /\ Append(list, f)[Len(list) + 1] = f
    BY AppendProperties
  <2>2. Range(Append(list, f)) = {Append(list, f)[i] : i \in 1..Len(Append(list, f))}
    BY <2>1, RangeEquality
  <2>3. QED
    BY <1>1, <2>1, <2>2
<1>4. ASSUME NEW i \in 1..Len(list)
      PROVE  list[i] \in Range(list) /\ Range(SubSeq(list, i + 1, Len(list))) \subseteq Range(list)
  <2> DEFINE rest == SubSeq(list, i + 1, Len(list))
  <2>1. /\ rest \in Seq(Frames) /\ Len(rest) = Len(list) - i
        /\ \A k \in 1..(Len(list) - i) : rest[k] = list[k + i]
    BY RestFacts
  <2> HIDE DEF rest
  <2>2. Range(rest) = {rest[k] : k \in 1..Len(rest)}
    BY <2>1, RangeEquality
  <2>3. \A k \in 1..(Len(list) - i) : k + i \in 1..Len(list)
    BY <1>1
  <2>4. Range(rest) \subseteq Range(list)
    BY <1>1, <2>1, <2>2, <2>3
  <2>5. QED
    BY <1>1, <2>4 DEF rest
<1>5. QED
  BY <1>1, <1>2, <1>3, <1>4

\* The ISP worker writes only buffers nobody refers to.
LEMMA IntactIsp == CoreInv /\ Isp => PicturesIntact'
<1> SUFFICES ASSUME CoreInv, Isp PROVE PicturesIntact'
  OBVIOUS
<1>0. PicturesIntact /\ TypeOK
  BY DEF CoreInv
<1>1. at \in 1..Len(Streams) /\ Streams[at] \in Ids
  BY <1>0, StreamPlaces DEF TypeOK
<1>a. /\ made \in [Ids -> Frames \cup {NoFrame}] /\ content \in [Ids -> [Buffers -> 0..MaxGroup]]
      /\ \A s \in Ids : queue[s] \in Seq(Frames) /\ Len(queue[s]) \in Nat
                       /\ Len(queue[s]) <= QueueDepth
  BY <1>0, Types DEF TypeOK
<1>b. QueueDepth \in Nat \ {0}
  BY SizesAssumption
<1>2. CASE TakeGroup
  BY <1>0, <1>2, IntactKept DEF TakeGroup, Referenced, worker
<1>3. ASSUME NEW b \in Buffers, NEW v, Free(Streams[at], b),
             content' = [content EXCEPT ![Streams[at]][b] = v]
      PROVE  \A s \in Ids : \A f \in Referenced(s) : content'[s][f.buffer] = f.group
  BY <1>0, <1>1, <1>3, <1>a DEF PicturesIntact, Free
<1>4. CASE ProcessCamera
  <2>1. PICK b \in Buffers :
          /\ Free(Streams[at], b)
          /\ content' = [content EXCEPT ![Streams[at]][b] = group]
          /\ made' = [made EXCEPT ![Streams[at]] = [group |-> group, buffer |-> b]]
    BY <1>4 DEF ProcessCamera
  <2>2. UNCHANGED <<queue, frame, pending, encoding>>
    BY <1>4 DEF ProcessCamera, worker
  <2>3. \A s \in Ids : Referenced(s)' \subseteq Referenced(s) \cup
           (IF s = Streams[at] THEN {[group |-> group, buffer |-> b]} ELSE {})
    BY <1>1, <1>a, <2>1, <2>2 DEF Referenced
  <2>4. content'[Streams[at]][b] = group
    BY <1>1, <1>a, <2>1
  <2>5. ASSUME NEW s \in Ids, NEW f \in Referenced(s)' PROVE content'[s][f.buffer] = f.group
    <3>1. CASE f \in Referenced(s)
      BY <1>3, <2>1, <3>1
    <3>2. CASE s = Streams[at] /\ f = [group |-> group, buffer |-> b]
      BY <2>4, <3>2
    <3>3. QED
      BY <2>3, <3>1, <3>2
  <2>6. QED
    BY <2>5 DEF PicturesIntact
<1>5. CASE PoolExhausted \/ ProcessingFails
  <2>1. made' = Each(NoFrame) /\ UNCHANGED <<queue, frame, pending, encoding>>
    BY <1>5 DEF PoolExhausted, ProcessingFails, GiveUp, worker
  <2>2. \A s \in Ids : Referenced(s)' \subseteq Referenced(s)
    BY <2>1 DEF Referenced, Each
  <2>3. CASE UNCHANGED content
    BY <1>0, <2>2, <2>3, IntactKept
  <2>4. CASE \E b \in Buffers : /\ Free(Streams[at], b)
                               /\ content' = [content EXCEPT ![Streams[at]][b] = 0]
    BY <1>3, <2>2, <2>4 DEF PicturesIntact
  <2>5. QED
    BY <1>5, <2>3, <2>4 DEF PoolExhausted, ProcessingFails
<1>6. CASE SubmitFrame
  <2> DEFINE s == Streams[at]
  <2>1. /\ queue' = [queue EXCEPT ![s] = PushLatest(@, made[s])]
        /\ made' = [made EXCEPT ![s] = NoFrame]
        /\ UNCHANGED <<content, frame, pending, encoding>>
    BY <1>6 DEF SubmitFrame, worker
  <2>2. made[s] \in Frames
    <3>1. at \in Made
      BY <1>1, <1>6, StreamPlaces DEF SubmitFrame, Made
    <3>2. made[s] \in {f \in Frames : f.group = group}
      BY <1>1, <3>1 DEF CoreInv, IspInv
    <3>3. QED
      BY <3>2
  <2> HIDE DEF s
  <2>3. Range(PushLatest(queue[s], made[s])) \subseteq Range(queue[s]) \cup {made[s]}
    <3>1. s \in Ids
      BY <1>1 DEF s
    <3>2. CASE Len(queue[s]) = QueueDepth
      <4>1. queue[s] # <<>> /\ Tail(queue[s]) \in Seq(Frames)
        BY <1>a, <1>b, <3>1, <3>2
      <4>2. Range(Append(Tail(queue[s]), made[s])) = Range(Tail(queue[s])) \cup {made[s]}
        BY <2>2, <4>1, Elements
      <4>3. Range(Tail(queue[s])) \subseteq Range(queue[s])
        BY <1>a, <3>1, <4>1, Elements
      <4>4. QED
        BY <3>2, <4>2, <4>3 DEF PushLatest
    <3>3. CASE Len(queue[s]) # QueueDepth
      BY <1>a, <2>2, <3>1, <3>3, Elements DEF PushLatest
    <3>4. QED
      BY <3>2, <3>3
  <2>4. \A t \in Ids : Referenced(t)' \subseteq Referenced(t)
    <3> SUFFICES ASSUME NEW t \in Ids PROVE Referenced(t)' \subseteq Referenced(t)
      OBVIOUS
    <3>1. Range(queue'[t]) \subseteq Range(queue[t]) \cup {made[t]}
      BY <1>a, <2>1, <2>3
    <3>2. made'[t] \in {made[t], NoFrame}
      BY <1>a, <2>1
    <3>3. QED
      BY <2>1, <3>1, <3>2 DEF Referenced
  <2>5. QED
    BY <1>0, <2>1, <2>4, IntactKept
<1>7. QED
  BY <1>2, <1>4, <1>5, <1>6 DEF Isp

\* Everybody else passes frames on, or lets them go.
LEMMA IntactOthers ==
    \A s \in Ids : CoreInv /\ (Worker(s) \/ Callback(s) \/ PipelineDrops(s) \/ PipelineFails(s))
                  => PicturesIntact'
<1> SUFFICES ASSUME NEW s \in Ids, CoreInv,
                    Worker(s) \/ Callback(s) \/ PipelineDrops(s) \/ PipelineFails(s)
             PROVE  PicturesIntact'
  OBVIOUS
<1>1. PicturesIntact /\ TypeOK
  BY DEF CoreInv
<1>2. UNCHANGED content /\ UNCHANGED made
  BY DEF Worker, PopFrame, FrameFails, CopyPicture, AddPending, PushBuffer, Callback, Sample, SampleFails, Encoded,
         PipelineDrops, PipelineFails, isp
<1>3. /\ queue[s] \in Seq(Frames) /\ pending[s] \in Seq(Frames)
      /\ queue \in [Ids -> Seq(Frames)] /\ pending \in [Ids -> Seq(Frames)]
      /\ frame \in [Ids -> Frames \cup {NoFrame}] /\ encoding \in [Ids -> Frames \cup {NoFrame}]
  BY <1>1 DEF TypeOK
<1>4. SUFFICES \A t \in Ids : Referenced(t)' \subseteq Referenced(t)
  BY <1>1, <1>2, IntactKept
<1>5. CASE PopFrame(s)
  <2>1. Head(queue[s]) \in Range(queue[s]) /\ Range(Tail(queue[s])) \subseteq Range(queue[s])
    BY <1>3, <1>5, Elements DEF PopFrame
  <2>2. /\ frame' = [frame EXCEPT ![s] = Head(queue[s])]
        /\ queue' = [queue EXCEPT ![s] = Tail(@)] /\ UNCHANGED <<pending, encoding>>
    BY <1>5 DEF PopFrame
  <2>3. \A t \in Ids : /\ frame'[t] \in {frame[t]} \cup Range(queue[t])
                      /\ Range(queue'[t]) \subseteq Range(queue[t])
    BY <1>3, <2>1, <2>2
  <2>4. QED
    BY <1>2, <2>2, <2>3 DEF Referenced
<1>6. CASE FrameFails(s) \/ CopyPicture(s) \/ PushBuffer(s) \/ SampleFails(s)
          \/ PipelineDrops(s) \/ PipelineFails(s)
  <2>1. UNCHANGED <<queue, frame, pending, encoding>>
    BY <1>6 DEF FrameFails, CopyPicture, PushBuffer, SampleFails, PipelineDrops, PipelineFails,
                worker
  <2>2. QED
    BY <1>2, <2>1 DEF Referenced
<1>7. CASE AddPending(s)
  <2> DEFINE kept == IF Len(pending[s]) = PendingCapacity THEN Tail(pending[s]) ELSE pending[s]
  <2>1. kept \in Seq(Frames) /\ Range(kept) \subseteq Range(pending[s])
    <3>1. CASE Len(pending[s]) = PendingCapacity
      <4>1. pending[s] # <<>>
        BY <1>3, <3>1, SizesAssumption
      <4>2. Tail(pending[s]) \in Seq(Frames)
        BY <1>3, <4>1
      <4>3. QED
        BY <1>3, <3>1, <4>1, <4>2, Elements
    <3>2. CASE Len(pending[s]) # PendingCapacity
      BY <1>3, <3>2
    <3>3. QED
      BY <3>1, <3>2
  <2>2. pending' = [pending EXCEPT ![s] = Append(kept, frame[s])] /\ UNCHANGED <<queue, frame, encoding>>
    BY <1>7 DEF AddPending
  <2>3. frame[s] \in Frames
    BY <1>7 DEF AddPending, CoreInv, LabelsInv
  <2> HIDE DEF kept
  <2>4. Range(Append(kept, frame[s])) = Range(kept) \cup {frame[s]}
    BY <2>1, <2>3, Elements
  <2>5. \A t \in Ids : Range(pending'[t]) \subseteq Range(pending[t]) \cup {frame[t]}
    BY <1>3, <2>1, <2>2, <2>4
  <2>6. QED
    BY <1>2, <2>2, <2>5 DEF Referenced
<1>8. CASE Sample(s)
  <2> DEFINE i == Position(pending[s], Head(pipe[s]).pts)
  <2>1. UNCHANGED <<queue, frame>>
    BY <1>8 DEF Sample, worker
  <2>2. CASE i = 0
    BY <1>2, <1>8, <2>1, <2>2 DEF Sample, Referenced
  <2>3. CASE i # 0
    <3>1. /\ encoding' = [encoding EXCEPT ![s] = pending[s][i]]
          /\ pending' = [pending EXCEPT ![s] = SubSeq(@, i + 1, Len(@))]
      BY <1>8, <2>3 DEF Sample
    <3>2. i \in 1..Len(pending[s])
      BY <1>3, <2>3, PositionFound
    <3> HIDE DEF i
    <3>3. /\ pending[s][i] \in Range(pending[s])
          /\ Range(SubSeq(pending[s], i + 1, Len(pending[s]))) \subseteq Range(pending[s])
      BY <1>3, <3>2, Elements
    <3>4. \A t \in Ids : /\ encoding'[t] \in {encoding[t]} \cup Range(pending[t])
                        /\ Range(pending'[t]) \subseteq Range(pending[t])
      BY <1>3, <3>1, <3>3
    <3>5. QED
      BY <1>2, <2>1, <3>4 DEF Referenced
  <2>4. QED
    BY <2>2, <2>3
<1>9. CASE Encoded(s)
  <2>1. encoding' = [encoding EXCEPT ![s] = NoFrame] /\ UNCHANGED <<queue, frame, pending>>
    BY <1>9 DEF Encoded, worker
  <2>2. \A t \in Ids : encoding'[t] \in {encoding[t], NoFrame}
    BY <1>3, <2>1
  <2>3. QED
    BY <1>2, <2>1, <2>2 DEF Referenced
<1>10. QED
  BY <1>5, <1>6, <1>7, <1>8, <1>9 DEF Worker, Callback

\* Nobody refers to a frame to begin with.
LEMMA CoreInit == Init => CoreInv
<1> SUFFICES ASSUME Init PROVE CoreInv
  OBVIOUS
<1>1. TypeOK
  BY TypeInit
<1>2. IspInv
  <2>1. \A i \in 1..Len(Streams) : i \notin Made /\ made[Streams[i]] = NoFrame
    BY StreamPlaces DEF Init, Made, Each
  <2>2. QED
    BY <2>1 DEF Init, IspInv
<1>3. \A s \in Ids : /\ made[s] = NoFrame /\ frame[s] = NoFrame /\ encoding[s] = NoFrame
                    /\ queue[s] = <<>> /\ pending[s] = <<>> /\ pipe[s] = <<>> /\ wpc[s] = "pop"
  BY DEF Init, Each
<1>4. LabelsInv
  BY <1>3 DEF LabelsInv
<1>5. \A s \in Ids : Range(queue[s]) = {} /\ Range(pending[s]) = {}
  BY <1>3 DEF Range
<1>6. PicturesIntact
  BY <1>3, <1>5 DEF PicturesIntact, Referenced
<1>7. QED
  BY <1>1, <1>2, <1>4, <1>6 DEF CoreInv

\* The invariant is kept by every step.
LEMMA CoreStep == CoreInv /\ [Next]_vars => CoreInv'
<1> SUFFICES ASSUME CoreInv, [Next]_vars PROVE CoreInv'
  OBVIOUS
<1>0. TypeOK /\ IspInv /\ LabelsInv
  BY DEF CoreInv
<1>1. CASE Isp
  <2>1. LabelsInv'
    BY <1>0, <1>1 DEF LabelsInv, Isp, TakeGroup, ProcessCamera, PoolExhausted, ProcessingFails,
                      SubmitFrame, worker
  <2>2. QED
    BY <1>0, <1>1, <2>1, TypeIsp, IspKept, IntactIsp DEF CoreInv
<1>2. ASSUME NEW s \in Ids, Worker(s) \/ Callback(s) \/ PipelineDrops(s) \/ PipelineFails(s)
      PROVE  CoreInv'
  <2>1. UNCHANGED isp
    BY <1>2 DEF Worker, PopFrame, FrameFails, CopyPicture, AddPending, PushBuffer, Callback, Sample, SampleFails, Encoded,
                PipelineDrops, PipelineFails
  <2>2. IspInv'
    BY <1>0, <2>1 DEF IspInv, Made, isp
  <2>3. TypeOK'
    BY <1>0, <1>2, TypeWorker, TypeCallback, TypePipeline
  <2>4. LabelsInv'
    BY <1>0, <1>2, LabelsWorker, LabelsPipe
  <2>5. PicturesIntact'
    BY <1>2, IntactOthers
  <2>6. QED
    BY <2>2, <2>3, <2>4, <2>5 DEF CoreInv
<1>3. CASE UNCHANGED vars
  <2>1. TypeOK' /\ IspInv'
    BY <1>0, <1>3 DEF TypeOK, IspInv, Made, vars, isp, worker, counters
  <2>2. LabelsInv' /\ PicturesIntact'
    BY <1>3 DEF CoreInv, LabelsInv, PicturesIntact, Referenced, vars, isp, worker
  <2>3. QED
    BY <2>1, <2>2 DEF CoreInv
<1>4. QED
  BY <1>1, <1>2, <1>3 DEF Next

\* Every reachable state satisfies the invariant.
LEMMA CoreHolds == Spec => []CoreInv
BY CoreInit, CoreStep, PTL DEF Spec

\* Every variable has its type, and queues and pending lists keep their
\* capacities, for all cameras and sizes.
THEOREM TypeCorrect == Spec => []TypeOK
<1>1. CoreInv => TypeOK
  BY DEF CoreInv
<1>2. QED
  BY <1>1, CoreHolds, PTL

\* No buffer of the pool is written while anybody refers to a frame in it,
\* wherever the frame is: with the ISP, in a queue, with a worker, pending or
\* being delivered.
THEOREM PicturesSafe == Spec => []PicturesIntact
<1>1. CoreInv => PicturesIntact
  BY DEF CoreInv
<1>2. QED
  BY <1>1, CoreHolds, PTL

\* A callback that finds the frame of its sample has one with the labels of the
\* picture in the sample.
LEMMA LabelsStep ==
    CoreInv /\ [Next]_vars =>
        \A s \in Ids : encoding'[s] # encoding[s] /\ encoding'[s] # NoFrame =>
           encoding'[s].group = Head(pipe[s]).picture
<1> SUFFICES ASSUME CoreInv, [Next]_vars, NEW s \in Ids,
                    encoding'[s] # encoding[s], encoding'[s] # NoFrame
             PROVE  encoding'[s].group = Head(pipe[s]).picture
  OBVIOUS
<1>1. TypeOK /\ LabelsInv
  BY DEF CoreInv
<1>2. encoding \in [Ids -> Frames \cup {NoFrame}] /\ pending[s] \in Seq(Frames)
      /\ pipe[s] \in Seq(Samples)
  BY <1>1 DEF TypeOK
<1>3. ~UNCHANGED encoding
  OBVIOUS
<1>4. PICK t \in Ids : Callback(t)
  BY <1>3 DEF Next, Isp, TakeGroup, ProcessCamera, PoolExhausted, ProcessingFails, SubmitFrame,
              Worker, PopFrame, FrameFails, CopyPicture, AddPending, PushBuffer, PipelineDrops, PipelineFails,
              vars
<1>5. CASE Encoded(t)
  <2>1. encoding'[s] \in {encoding[s], NoFrame}
    BY <1>2, <1>5 DEF Encoded
  <2>2. QED
    BY <2>1
<1>6. CASE Sample(t)
  <2> DEFINE i == Position(pending[t], Head(pipe[t]).pts)
  <2>1. i # 0 /\ encoding' = [encoding EXCEPT ![t] = pending[t][i]]
    BY <1>3, <1>6 DEF Sample
  <2>2. t = s
    BY <1>2, <2>1
  <2>3. pending[s][i].group = Head(pipe[s]).pts
    BY <1>2, <2>1, <2>2, PositionFound
  <2>4. Head(pipe[s]) = pipe[s][1] /\ 1 \in 1..Len(pipe[s])
    BY <1>2, <1>6, <2>2, BoundsAssumption DEF Sample
  <2>5. Head(pipe[s]).pts = Head(pipe[s]).picture
    BY <1>1, <2>4 DEF LabelsInv
  <2>6. encoding'[s] = pending[s][i]
    BY <1>2, <2>1, <2>2
  <2>7. QED
    BY <2>3, <2>5, <2>6
<1>7. CASE SampleFails(t)
  BY <1>3, <1>7 DEF SampleFails
<1>8. QED
  BY <1>4, <1>5, <1>6, <1>7 DEF Callback

\* An encoded frame carries the labels of its own picture, whatever the queue and
\* the pipeline left out.
THEOREM LabelsOwn == Spec => OwnLabels
<1>1. CoreInv /\ [Next]_vars =>
         [\A s \in Ids : encoding'[s] # encoding[s] /\ encoding'[s] # NoFrame =>
            encoding'[s].group = Head(pipe[s]).picture]_vars
  BY LabelsStep
<1>2. QED
  BY <1>1, CoreHolds, PTL DEF Spec, OwnLabels

-----------------------------------------------------------------------------
(* The order of the frames of a stream.                                     *)

\* The operations on the lists keep their order.
LEMMA OrderedLists ==
    ASSUME NEW list \in Seq(Frames), Increasing(list)
    PROVE  /\ list # <<>> => /\ Increasing(Tail(list))
                             /\ \A i \in 1..Len(Tail(list)) : Head(list).group < Tail(list)[i].group
           /\ \A i \in 1..Len(list) : Increasing(SubSeq(list, i + 1, Len(list)))
           /\ \A f \in Frames : (\A i \in 1..Len(list) : list[i].group < f.group)
                                 => Increasing(Append(list, f))
<1>1. Len(list) \in Nat
  OBVIOUS
<1>2. ASSUME list # <<>>
      PROVE  /\ Increasing(Tail(list))
             /\ \A i \in 1..Len(Tail(list)) : Head(list).group < Tail(list)[i].group
  <2>1. /\ Len(Tail(list)) = Len(list) - 1 /\ Head(list) = list[1] /\ Len(list) > 0
        /\ \A i \in 1..Len(Tail(list)) : Tail(list)[i] = list[i + 1]
    BY <1>2
  <2>2. \A i \in 1..Len(Tail(list)) : i + 1 \in 1..Len(list) /\ 1 < i + 1
    BY <1>1, <2>1
  <2>3. 1 \in 1..Len(list)
    BY <1>1, <2>1
  <2>4. \A i \in 1..Len(Tail(list)) : Head(list).group < Tail(list)[i].group
    BY <2>1, <2>2, <2>3 DEF Increasing
  <2>5. ASSUME NEW i \in 1..Len(Tail(list)), NEW j \in 1..Len(Tail(list)), i < j
        PROVE  Tail(list)[i].group < Tail(list)[j].group
    <3>1. i + 1 \in 1..Len(list) /\ j + 1 \in 1..Len(list) /\ i + 1 < j + 1
      BY <2>2, <2>5
    <3>2. QED
      BY <2>1, <3>1 DEF Increasing
  <2>6. QED
    BY <2>4, <2>5 DEF Increasing
<1>3. ASSUME NEW i \in 1..Len(list) PROVE Increasing(SubSeq(list, i + 1, Len(list)))
  <2> DEFINE rest == SubSeq(list, i + 1, Len(list))
  <2>1. Len(rest) = Len(list) - i /\ \A k \in 1..(Len(list) - i) : rest[k] = list[k + i]
    BY RestFacts
  <2> HIDE DEF rest
  <2>2. ASSUME NEW k \in 1..Len(rest), NEW m \in 1..Len(rest), k < m
        PROVE  rest[k].group < rest[m].group
    <3>1. k + i \in 1..Len(list) /\ m + i \in 1..Len(list) /\ k + i < m + i
      BY <1>1, <2>1, <2>2
    <3>2. QED
      BY <2>1, <3>1 DEF Increasing
  <2>3. QED
    BY <2>2 DEF Increasing, rest
<1>4. ASSUME NEW f \in Frames, \A i \in 1..Len(list) : list[i].group < f.group
      PROVE  Increasing(Append(list, f))
  <2>1. /\ Len(Append(list, f)) = Len(list) + 1
        /\ \A i \in 1..Len(list) : Append(list, f)[i] = list[i]
        /\ Append(list, f)[Len(list) + 1] = f
    BY AppendProperties
  <2>2. ASSUME NEW k \in 1..(Len(list) + 1), NEW m \in 1..(Len(list) + 1), k < m
        PROVE  Append(list, f)[k].group < Append(list, f)[m].group
    <3>1. CASE m = Len(list) + 1
      BY <1>1, <1>4, <2>1, <2>2, <3>1
    <3>2. CASE m # Len(list) + 1
      <4>1. k \in 1..Len(list) /\ m \in 1..Len(list)
        BY <1>1, <2>2, <3>2
      <4>2. QED
        BY <2>1, <2>2, <4>1 DEF Increasing
    <3>3. QED
      BY <3>1, <3>2
  <2>3. QED
    BY <2>1, <2>2 DEF Increasing
<1>5. QED
  BY <1>2, <1>3, <1>4

\* The group of a frame is a number.
LEMMA GroupNumbers ==
    ASSUME TypeOK
    PROVE  /\ \A f \in Frames \cup {NoFrame} : f.group \in Nat
           /\ \A s \in Ids : /\ frame[s].group \in Nat
                             /\ \A f \in {frame[s]} \cup Range(queue[s]) : f.group \in Nat
                             /\ \A i \in 1..Len(queue[s]) : /\ queue[s][i] \in Range(queue[s])
                                                           /\ queue[s][i].group \in Nat
                             /\ \A i \in 1..Len(pending[s]) : pending[s][i].group \in Nat
<1>1. \A f \in Frames \cup {NoFrame} : f.group \in Nat
  BY DEF Frames, NoFrame
<1>2. ASSUME NEW s \in Ids
      PROVE  /\ frame[s] \in Frames \cup {NoFrame} /\ queue[s] \in Seq(Frames)
             /\ pending[s] \in Seq(Frames)
  BY Types
<1>3. ASSUME NEW list \in Seq(Frames)
      PROVE  /\ Range(list) = {list[i] : i \in 1..Len(list)}
             /\ \A i \in 1..Len(list) : list[i] \in Frames
  BY RangeEquality, ElementOfSeq
<1>4. QED
  BY <1>1, <1>2, <1>3

OrderInv == \A s \in Ids : Ordered(s)

\* The ISP worker submits the frames of one group after those of the other.
LEMMA OrderIsp == CoreInv /\ OrderInv /\ Isp => OrderInv'
<1> SUFFICES ASSUME CoreInv, OrderInv, Isp, NEW t \in Ids PROVE Ordered(t)'
  BY DEF OrderInv
<1>1. TypeOK /\ Ordered(t) /\ at \in 1..Len(Streams) /\ Streams[at] \in Ids
  BY StreamPlaces DEF CoreInv, TypeOK, OrderInv
<1>2. UNCHANGED <<frame, wpc, pending>>
  BY DEF Isp, TakeGroup, ProcessCamera, PoolExhausted, ProcessingFails, SubmitFrame, worker
<1>3. \A f \in {frame[t]} \cup Range(queue[t]) : f.group \in Nat
  BY <1>1, GroupNumbers
<1>4. group \in Nat /\ made \in [Ids -> Frames \cup {NoFrame}] /\ queue \in [Ids -> Seq(Frames)]
  BY <1>1, Types DEF TypeOK
<1>5. CASE TakeGroup
  <2>1. group' = group + 1 /\ UNCHANGED queue
    BY <1>5 DEF TakeGroup
  <2>2. \A f \in {frame[t]} \cup Range(queue[t]) : f.group < group'
    BY <1>1, <1>3, <1>4, <2>1 DEF Ordered
  <2>3. QED
    BY <1>1, <1>2, <2>1, <2>2 DEF Ordered
<1>6. CASE ProcessCamera \/ PoolExhausted \/ ProcessingFails
  <2>1. ipc = "process" /\ UNCHANGED <<group, queue>>
    BY <1>6 DEF ProcessCamera, PoolExhausted, ProcessingFails
  <2>2. \A f \in {frame[t]} \cup Range(queue[t]) : f.group < group
    BY <1>1, <2>1 DEF Ordered
  <2>3. QED
    BY <1>1, <1>2, <2>1, <2>2 DEF Ordered
<1>7. CASE SubmitFrame
  <2> DEFINE s == Streams[at]
  <2>1. /\ queue' = [queue EXCEPT ![s] = PushLatest(@, made[s])]
        /\ made' = [made EXCEPT ![s] = NoFrame]
        /\ UNCHANGED group /\ ipc = "submit" /\ ipc' # "process"
    BY <1>7 DEF SubmitFrame
  <2>2. CASE t # s
    <3>1. queue'[t] = queue[t] /\ made'[t] = made[t]
      BY <1>4, <2>1, <2>2
    <3>2. QED
      BY <1>1, <1>2, <2>1, <3>1 DEF Ordered
  <2>3. CASE t = s
    <3>1. made[t] \in Frames /\ made[t].group = group /\ made[t] # NoFrame
      <4>1. at \in Made
        BY <1>1, <1>7, StreamPlaces DEF SubmitFrame, Made
      <4>2. made[t] \in {f \in Frames : f.group = group}
        BY <1>1, <2>3, <4>1 DEF CoreInv, IspInv
      <4>3. QED
        BY <4>2, NoFrameIsNone
    <3>2. \A f \in {frame[t]} \cup Range(queue[t]) : f.group < group
      BY <1>1, <3>1 DEF Ordered
    <3>3. made'[t] = NoFrame /\ queue'[t] = PushLatest(queue[t], made[t])
      BY <1>4, <2>1, <2>3
    <3> DEFINE kept == IF Len(queue[t]) = QueueDepth THEN Tail(queue[t]) ELSE queue[t]
    <3>4. /\ kept \in Seq(Frames) /\ Increasing(kept) /\ Range(kept) \subseteq Range(queue[t])
          /\ \A i \in 1..Len(kept) : frame[t].group < kept[i].group
      <4>1. CASE Len(queue[t]) = QueueDepth
        <5>1. queue[t] # <<>> /\ Increasing(queue[t]) /\ queue[t] \in Seq(Frames)
          BY <1>1, <1>4, <4>1, SizesAssumption DEF Ordered
        <5>2. Tail(queue[t]) \in Seq(Frames) /\ Len(Tail(queue[t])) = Len(queue[t]) - 1
              /\ \A i \in 1..Len(Tail(queue[t])) : /\ Tail(queue[t])[i] = queue[t][i + 1]
                                                  /\ i + 1 \in 1..Len(queue[t])
          BY <5>1
        <5>3. QED
          BY <1>1, <4>1, <5>1, <5>2, OrderedLists, Elements DEF Ordered
      <4>2. CASE Len(queue[t]) # QueueDepth
        BY <1>1, <1>4, <4>2 DEF Ordered
      <4>3. QED
        BY <4>1, <4>2
    <3>5. queue'[t] = Append(kept, made[t])
      BY <3>3 DEF PushLatest
    <3> HIDE DEF kept
    <3>6. \A i \in 1..Len(kept) : kept[i] \in Range(kept)
      BY <3>4, Elements
    <3>7. \A i \in 1..Len(kept) : kept[i].group < made[t].group
      BY <3>1, <3>2, <3>4, <3>6
    <3>8. Increasing(queue'[t]) /\ Range(queue'[t]) = Range(kept) \cup {made[t]}
      BY <3>1, <3>4, <3>5, <3>7, OrderedLists, Elements
    <3>9. \A i \in 1..Len(queue'[t]) : frame[t].group < queue'[t][i].group
      <4>1. /\ Len(Append(kept, made[t])) = Len(kept) + 1 /\ Len(kept) \in Nat
            /\ \A i \in 1..Len(kept) : Append(kept, made[t])[i] = kept[i]
            /\ Append(kept, made[t])[Len(kept) + 1] = made[t]
        BY <3>1, <3>4, AppendProperties
      <4>2. frame[t].group < made[t].group
        BY <3>1, <3>2
      <4>3. QED
        BY <3>4, <3>5, <4>1, <4>2
    <3>10. \A f \in {frame[t]} \cup Range(queue'[t]) : f.group < group \/ f.group = group
      BY <3>1, <3>2, <3>4, <3>8
    <3>11. QED
      BY <1>1, <1>2, <2>1, <3>3, <3>8, <3>9, <3>10 DEF Ordered
  <2>4. QED
    BY <2>2, <2>3
<1>8. QED
  BY <1>5, <1>6, <1>7 DEF Isp

\* The worker moves one frame at a time from the queue to the pending list.
LEMMA OrderWorker == \A s \in Ids : CoreInv /\ OrderInv /\ Worker(s) => OrderInv'
<1> SUFFICES ASSUME NEW s \in Ids, CoreInv, OrderInv, Worker(s), NEW t \in Ids PROVE Ordered(t)'
  BY DEF OrderInv
<1>1. TypeOK /\ Ordered(t)
  BY DEF CoreInv, OrderInv
<1>2. UNCHANGED <<group, ipc, made>>
  BY DEF Worker, PopFrame, FrameFails, CopyPicture, AddPending, PushBuffer, isp
<1>3. /\ queue \in [Ids -> Seq(Frames)] /\ pending \in [Ids -> Seq(Frames)]
      /\ frame \in [Ids -> Frames \cup {NoFrame}] /\ wpc \in [Ids -> {"pop", "copy", "pending", "push"}]
  BY <1>1 DEF TypeOK
<1>4. CASE t # s
  <2>1. /\ queue'[t] = queue[t] /\ pending'[t] = pending[t] /\ frame'[t] = frame[t]
        /\ wpc'[t] = wpc[t]
    BY <1>3, <1>4 DEF Worker, PopFrame, FrameFails, CopyPicture, AddPending, PushBuffer
  <2>2. QED
    BY <1>1, <1>2, <2>1 DEF Ordered
<1>5. CASE t = s /\ PopFrame(s)
  <2>1. /\ queue[t] # <<>> /\ frame'[t] = Head(queue[t]) /\ queue'[t] = Tail(queue[t])
        /\ wpc'[t] = "copy" /\ pending'[t] = pending[t]
    BY <1>3, <1>5 DEF PopFrame
  <2>2. /\ Head(queue[t]) = queue[t][1] /\ 1 \in 1..Len(queue[t])
        /\ Head(queue[t]) \in Range(queue[t]) /\ Range(Tail(queue[t])) \subseteq Range(queue[t])
        /\ Increasing(Tail(queue[t]))
        /\ \A i \in 1..Len(Tail(queue[t])) : Head(queue[t]).group < Tail(queue[t])[i].group
    <3>1. queue[t] \in Seq(Frames) /\ Increasing(queue[t])
      BY <1>1, <1>3 DEF Ordered
    <3>2. Head(queue[t]) = queue[t][1] /\ 1 \in 1..Len(queue[t])
      BY <2>1, <3>1
    <3>3. /\ Increasing(Tail(queue[t]))
          /\ \A i \in 1..Len(Tail(queue[t])) : Head(queue[t]).group < Tail(queue[t])[i].group
      BY <2>1, <3>1, OrderedLists
    <3>4. QED
      BY <2>1, <3>1, <3>2, <3>3, Elements
  <2>3. frame[t].group < frame'[t].group
    BY <1>1, <2>1, <2>2 DEF Ordered
  <2>4. \A i \in 1..Len(pending[t]) : pending[t][i].group < frame'[t].group
    <3>1. /\ frame[t].group \in Nat /\ \A i \in 1..Len(pending[t]) : pending[t][i].group \in Nat
          /\ frame'[t].group \in Nat
      BY <1>1, <2>1, <2>2, GroupNumbers
    <3>2. QED
      BY <1>1, <2>3, <3>1 DEF Ordered
  <2>5. QED
    BY <1>1, <1>2, <2>1, <2>2, <2>4 DEF Ordered
<1>6. CASE t = s /\ CopyPicture(s)
  <2>1. wpc[t] = "copy" /\ UNCHANGED <<queue, pending, frame>>
    BY <1>6 DEF CopyPicture
  <2>2. QED
    BY <1>1, <1>2, <2>1 DEF Ordered
<1>7. CASE t = s /\ AddPending(s)
  <2> DEFINE kept == IF Len(pending[t]) = PendingCapacity THEN Tail(pending[t]) ELSE pending[t]
  <2>1. /\ wpc[t] = "pending" /\ wpc'[t] = "push" /\ UNCHANGED <<queue, frame>>
        /\ pending'[t] = Append(kept, frame[t])
    BY <1>3, <1>7 DEF AddPending
  <2>2. /\ kept \in Seq(Frames) /\ Increasing(kept)
        /\ \A i \in 1..Len(kept) : kept[i].group < frame[t].group
    <3>1. /\ pending[t] \in Seq(Frames) /\ Increasing(pending[t])
          /\ \A i \in 1..Len(pending[t]) : pending[t][i].group < frame[t].group
      BY <1>1, <1>3, <2>1 DEF Ordered
    <3>2. CASE Len(pending[t]) = PendingCapacity
      <4>1. pending[t] # <<>>
        BY <3>1, <3>2, SizesAssumption
      <4>2. /\ Tail(pending[t]) \in Seq(Frames) /\ Len(Tail(pending[t])) = Len(pending[t]) - 1
            /\ \A i \in 1..Len(Tail(pending[t])) : /\ Tail(pending[t])[i] = pending[t][i + 1]
                                                  /\ i + 1 \in 1..Len(pending[t])
        BY <3>1, <4>1
      <4>3. QED
        BY <3>1, <3>2, <4>1, <4>2, OrderedLists
    <3>3. CASE Len(pending[t]) # PendingCapacity
      BY <3>1, <3>3
    <3>4. QED
      BY <3>2, <3>3
  <2>3. frame[t] \in Frames
    BY <2>1 DEF CoreInv, LabelsInv
  <2> HIDE DEF kept
  <2>4. Increasing(pending'[t])
    BY <2>1, <2>2, <2>3, OrderedLists
  <2>5. /\ Len(Append(kept, frame[t])) = Len(kept) + 1 /\ Len(kept) \in Nat
        /\ \A i \in 1..Len(kept) : Append(kept, frame[t])[i] = kept[i]
        /\ Append(kept, frame[t])[Len(kept) + 1] = frame[t]
    BY <2>2, <2>3, AppendProperties
  <2>6. \A i \in 1..Len(pending'[t]) : \/ pending'[t][i].group < frame[t].group
                                      \/ pending'[t][i].group = frame[t].group
    BY <2>1, <2>2, <2>5
  <2>7. QED
    BY <1>1, <1>2, <2>1, <2>4, <2>6 DEF Ordered
<1>8. CASE t = s /\ PushBuffer(s)
  <2>1. wpc[t] = "push" /\ wpc'[t] = "pop" /\ UNCHANGED <<queue, pending, frame>>
    BY <1>3, <1>8 DEF PushBuffer
  <2>2. QED
    BY <1>1, <1>2, <2>1 DEF Ordered
<1>9. CASE t = s /\ FrameFails(s)
  <2>1. wpc[t] = "copy" /\ wpc'[t] = "pop" /\ UNCHANGED <<queue, pending, frame>>
    BY <1>3, <1>9 DEF FrameFails
  <2>2. QED
    BY <1>1, <1>2, <2>1 DEF Ordered
<1>10. QED
  BY <1>4, <1>5, <1>6, <1>7, <1>8, <1>9 DEF Worker

\* The callback only shortens the pending list.
LEMMA OrderPipe ==
    \A s \in Ids : TypeOK /\ OrderInv /\ (Callback(s) \/ PipelineDrops(s) \/ PipelineFails(s))
                  => OrderInv'
<1> SUFFICES ASSUME NEW s \in Ids, TypeOK, OrderInv,
                    Callback(s) \/ PipelineDrops(s) \/ PipelineFails(s), NEW t \in Ids
             PROVE  Ordered(t)'
  BY DEF OrderInv
<1>1. Ordered(t) /\ pending \in [Ids -> Seq(Frames)] /\ pending[t] \in Seq(Frames)
  BY DEF OrderInv, TypeOK
<1>2. UNCHANGED <<group, ipc, made, frame, wpc, queue>>
  BY DEF Callback, Sample, SampleFails, Encoded, PipelineDrops, PipelineFails, isp, worker
<1>3. CASE pending'[t] = pending[t]
  BY <1>1, <1>2, <1>3 DEF Ordered
<1>4. CASE pending'[t] # pending[t]
  <2> DEFINE i == Position(pending[t], Head(pipe[t]).pts)
  <2>1. Sample(s) /\ t = s
    BY <1>1, <1>4 DEF Callback, Sample, SampleFails, Encoded, PipelineDrops, PipelineFails
  <2>2. i # 0 /\ pending' = [pending EXCEPT ![t] = SubSeq(@, i + 1, Len(@))]
    BY <1>4, <2>1 DEF Sample
  <2>3. i \in 1..Len(pending[t]) /\ Len(pending[t]) \in Nat
    BY <1>1, <2>2, PositionFound
  <2> HIDE DEF i
  <2> DEFINE rest == SubSeq(pending[t], i + 1, Len(pending[t]))
  <2>4. /\ Len(rest) = Len(pending[t]) - i
        /\ \A k \in 1..(Len(pending[t]) - i) : rest[k] = pending[t][k + i]
    BY <1>1, <2>3, RestFacts
  <2>5. Increasing(rest)
    BY <1>1, <2>3, OrderedLists DEF Ordered
  <2>6. pending'[t] = rest
    BY <1>1, <2>2
  <2> HIDE DEF rest
  <2>7. \A k \in 1..Len(rest) : rest[k] = pending[t][k + i] /\ k + i \in 1..Len(pending[t])
    BY <2>3, <2>4
  <2>8. QED
    BY <1>1, <1>2, <2>5, <2>6, <2>7 DEF Ordered
<1>5. QED
  BY <1>3, <1>4

OrderedInv == CoreInv /\ OrderInv

\* The frames of a stream keep the order of their groups.
LEMMA OrderStep == OrderedInv /\ [Next]_vars => OrderedInv'
<1> SUFFICES ASSUME OrderedInv, [Next]_vars PROVE OrderedInv'
  OBVIOUS
<1>1. CoreInv /\ OrderInv /\ TypeOK
  BY DEF OrderedInv, CoreInv
<1>2. CoreInv'
  BY <1>1, CoreStep
<1>3. CASE UNCHANGED vars
  <2>1. OrderInv'
    BY <1>1, <1>3 DEF OrderInv, Ordered, vars, isp, worker
  <2>2. QED
    BY <1>2, <2>1 DEF OrderedInv
<1>4. QED
  BY <1>1, <1>2, <1>3, OrderIsp, OrderWorker, OrderPipe DEF OrderedInv, Next

LEMMA OrderInit == Init => OrderedInv
<1> SUFFICES ASSUME Init PROVE OrderedInv
  OBVIOUS
<1>1. \A s \in Ids : /\ made[s] = NoFrame /\ frame[s] = NoFrame
                    /\ queue[s] = <<>> /\ pending[s] = <<>>
  BY DEF Init, Each
<1>2. Range(<<>>) = {}
  BY DEF Range
<1>3. group = 0 /\ ipc = "wait" /\ NoFrame.group = 0
  BY DEF Init, NoFrame
<1>4. OrderInv
  BY <1>1, <1>2, <1>3 DEF OrderInv, Ordered, Increasing
<1>5. QED
  BY <1>4, CoreInit DEF OrderedInv

-----------------------------------------------------------------------------
(* The pipeline and the statistics, with a pending list as long as the pool. *)

\* The frames pending and the one about to be are in different buffers, so a
\* list as long as the pool has room.
LEMMA RoomForFrame ==
    ASSUME OrderedInv, ListHoldsPool, NEW s \in Ids, wpc[s] = "pending"
    PROVE  Len(pending[s]) < PendingCapacity
<1>1. /\ pending[s] \in Seq(Frames) /\ Len(pending[s]) \in Nat /\ frame[s] \in Frames
      /\ OutputBuffers \in Nat /\ PendingCapacity \in Nat
  BY Types, SizesAssumption DEF OrderedInv, CoreInv, LabelsInv
<1>2. /\ Increasing(pending[s])
      /\ \A i \in 1..Len(pending[s]) : pending[s][i].group < frame[s].group
  BY DEF OrderedInv, OrderInv, Ordered
<1> DEFINE last == Len(pending[s]) + 1
           held == [i \in 1..last |-> IF i = last THEN frame[s] ELSE pending[s][i]]
           buffer == [i \in 1..last |-> held[i].buffer]
<1>a. /\ \A i \in 1..last : held[i] = IF i = last THEN frame[s] ELSE pending[s][i]
      /\ \A i \in 1..last : i # last => i \in 1..Len(pending[s])
      /\ \A i, j \in 1..last : i < j => i # last
  <2>1. \A i \in 1..last : held[i] = IF i = last THEN frame[s] ELSE pending[s][i]
    OBVIOUS
  <2>2. QED
    BY <1>1, <2>1
<1>3. /\ \A i \in 1..last : held[i] \in Frames
      /\ \A i, j \in 1..last : i < j => held[i].group < held[j].group
  <2> HIDE DEF last, held
  <2>4. \A i \in 1..last : held[i] \in Frames
    BY <1>1, <1>a
  <2>5. \A i, j \in 1..last : i < j => held[i].group < held[j].group
    BY <1>2, <1>a DEF Increasing
  <2>6. QED
    BY <2>4, <2>5
<1>4. ASSUME NEW i \in 1..last PROVE content[s][held[i].buffer] = held[i].group
  <2> HIDE DEF last, held
  <2>1. ASSUME i # last PROVE held[i] \in Range(pending[s])
    <3>1. i \in 1..Len(pending[s]) /\ held[i] = pending[s][i]
      BY <1>a, <2>1
    <3>2. QED
      BY <1>1, <3>1, Elements
  <2>2. i = last => held[i] = frame[s]
    BY <1>a
  <2>3. held[i] \in Referenced(s)
    BY <1>3, <2>1, <2>2, NoFrameIsNone DEF Referenced
  <2>4. QED
    BY <2>3 DEF OrderedInv, CoreInv, PicturesIntact
<1>5. buffer \in [1..last -> Buffers] /\ \A i \in 1..last : buffer[i] = held[i].buffer
  <2> HIDE DEF last, held
  <2>1. QED
    BY <1>3 DEF Frames
<1>6. last \in Nat /\ IsFiniteSet(1..last) /\ Cardinality(1..last) = last
  BY <1>1, FS_Interval, SMTT(30)
<1>7. IsFiniteSet(Buffers) /\ Cardinality(Buffers) = OutputBuffers
  <2>1. 1 \in Int /\ OutputBuffers \in Int /\ ~(1 > OutputBuffers) /\ OutputBuffers - 1 + 1 = OutputBuffers
    BY SizesAssumption
  <2>2. IsFiniteSet(1..OutputBuffers) /\ Cardinality(1..OutputBuffers) = OutputBuffers - 1 + 1
    BY <2>1, FS_Interval
  <2>3. QED
    BY <2>1, <2>2 DEF Buffers
<1> HIDE DEF held, buffer
<1>8. ~(OutputBuffers < last)
  <2>1. SUFFICES ASSUME OutputBuffers < last PROVE FALSE
    OBVIOUS
  <2> HIDE DEF last
  <2>2. PICK i \in 1..last, j \in 1..last : i # j /\ buffer[i] = buffer[j]
    BY <1>5, <1>6, <1>7, <2>1, FS_PigeonHole
  <2>3. held[i].group = held[j].group
    BY <1>4, <1>5, <2>2
  <2>4. i < j \/ j < i
    BY <1>6, <2>2
  <2>5. held[i].group \in Nat /\ held[j].group \in Nat
    BY <1>3 DEF Frames
  <2>6. QED
    BY <1>3, <2>3, <2>4, <2>5
<1>9. QED
  BY <1>1, <1>8 DEF ListHoldsPool

PipeInv == \A s \in Ids : Matched(s)

\* The worker adds a frame to the pending list before its buffer to the pipeline.
LEMMA PipeWorker ==
    \A s \in Ids : ListHoldsPool /\ OrderedInv /\ PipeInv /\ Worker(s) => PipeInv'
<1> SUFFICES ASSUME NEW s \in Ids, ListHoldsPool, OrderedInv, PipeInv, Worker(s), NEW t \in Ids
             PROVE  Matched(t)'
  BY DEF PipeInv
<1>1. TypeOK /\ Ordered(t) /\ Matched(t)
  BY DEF OrderedInv, CoreInv, OrderInv, PipeInv
<1>2. /\ queue \in [Ids -> Seq(Frames)] /\ pending \in [Ids -> Seq(Frames)]
      /\ pipe \in [Ids -> Seq(Samples)]
      /\ frame \in [Ids -> Frames \cup {NoFrame}] /\ wpc \in [Ids -> {"pop", "copy", "pending", "push"}]
  BY <1>1 DEF TypeOK
<1>3. /\ frame[t].group \in Nat /\ Len(pipe[t]) \in Nat /\ Len(pending[t]) \in Nat
      /\ \A i \in 1..Len(pipe[t]) : pipe[t][i].pts \in Nat
  <2>1. \A i \in 1..Len(pipe[t]) : pipe[t][i] \in Samples
    BY <1>2, ElementOfSeq
  <2>2. \A i \in 1..Len(pipe[t]) : pipe[t][i].pts \in Nat
    BY <2>1 DEF Samples
  <2>3. Len(pipe[t]) \in Nat /\ Len(pending[t]) \in Nat
    BY <1>1, Types
  <2>4. frame[t].group \in Nat
    BY <1>1, GroupNumbers
  <2>5. QED
    BY <2>2, <2>3, <2>4
<1>4. CASE t # s
  <2>1. /\ pipe'[t] = pipe[t] /\ pending'[t] = pending[t] /\ frame'[t] = frame[t]
        /\ wpc'[t] = wpc[t]
    BY <1>2, <1>4 DEF Worker, PopFrame, FrameFails, CopyPicture, AddPending, PushBuffer
  <2>2. QED
    BY <1>1, <2>1 DEF Matched
<1>5. CASE t = s /\ PopFrame(s)
  <2>1. /\ queue[t] # <<>> /\ frame'[t] = queue[t][1] /\ 1 \in 1..Len(queue[t])
        /\ wpc'[t] = "copy" /\ UNCHANGED <<pending, pipe>>
    BY <1>2, <1>5 DEF PopFrame
  <2>2. frame[t].group < frame'[t].group /\ frame'[t].group \in Nat
    BY <1>1, <2>1, GroupNumbers DEF Ordered
  <2>3. \A i \in 1..Len(pipe[t]) : pipe[t][i].pts < frame'[t].group
    BY <1>1, <1>3, <2>2 DEF Matched
  <2>4. \A i \in 1..Len(pipe[t]) : pipe[t][i].pts <= frame'[t].group
    BY <1>3, <2>2, <2>3
  <2>5. wpc'[t] # "push" /\ pipe' = pipe /\ pending' = pending
    BY <2>1
  <2>6. QED
    BY <1>1, <2>3, <2>4, <2>5 DEF Matched
<1>6. CASE t = s /\ CopyPicture(s)
  <2>1. /\ wpc[t] = "copy" /\ wpc'[t] = "pending" /\ UNCHANGED <<pending, frame, pipe>>
    BY <1>2, <1>6 DEF CopyPicture
  <2>2. QED
    BY <1>1, <2>1 DEF Matched
<1>7. CASE t = s /\ AddPending(s)
  <2>1. wpc[t] = "pending" /\ wpc'[t] = "push" /\ UNCHANGED <<frame, pipe>>
    BY <1>2, <1>7 DEF AddPending
  <2>2. Len(pending[t]) < PendingCapacity
    BY <1>1, <2>1, RoomForFrame
  <2>3. pending'[t] = Append(pending[t], frame[t])
    BY <1>2, <1>3, <1>7, <2>2, SizesAssumption DEF AddPending
  <2>4. frame[t] \in Frames
    BY <2>1 DEF OrderedInv, CoreInv, LabelsInv
  <2>5. /\ Len(pending'[t]) = Len(pending[t]) + 1 /\ pending'[t] # <<>>
        /\ \A i \in 1..Len(pending[t]) : pending'[t][i] = pending[t][i]
        /\ pending'[t][Len(pending'[t])] = frame[t]
    <3>1. pending[t] \in Seq(Frames)
      BY <1>2
    <3>2. /\ Len(Append(pending[t], frame[t])) = Len(pending[t]) + 1
          /\ Append(pending[t], frame[t]) # <<>>
          /\ \A i \in 1..Len(pending[t]) : Append(pending[t], frame[t])[i] = pending[t][i]
          /\ Append(pending[t], frame[t])[Len(pending[t]) + 1] = frame[t]
      BY <2>4, <3>1, AppendProperties
    <3>3. QED
      BY <2>3, <3>2
  <2>6. \A k \in 1..Len(pending[t]) : k \in 1..Len(pending'[t])
    BY <1>3, <2>5
  <2>7. QED
    BY <1>1, <2>1, <2>5, <2>6 DEF Matched
<1>8. CASE t = s /\ PushBuffer(s)
  <2>1. wpc[t] = "push" /\ wpc'[t] = "pop" /\ UNCHANGED <<pending, frame>>
    BY <1>2, <1>8 DEF PushBuffer
  <2>2. /\ pending[t] # <<>> /\ pending[t][Len(pending[t])] = frame[t]
        /\ Len(pending[t]) \in 1..Len(pending[t])
    <3>1. pending[t] # <<>> /\ pending[t] \in Seq(Frames)
      BY <1>1, <1>2, <2>1 DEF Matched
    <3>2. Len(pending[t]) # 0
      BY <3>1
    <3>3. QED
      BY <1>1, <1>3, <2>1, <3>2 DEF Matched
  <2>3. CASE pipe'[t] = pipe[t]
    BY <1>1, <2>1, <2>3 DEF Matched
  <2>4. CASE pipe'[t] # pipe[t]
    <3> DEFINE sample == [pts |-> frame[t].group, picture |-> picture[t]]
    <3>1. pipe'[t] = Append(pipe[t], sample)
      BY <1>2, <1>8, <2>4 DEF PushBuffer
    <3>2. sample \in Samples /\ sample.pts = frame[t].group
      BY <2>1 DEF OrderedInv, CoreInv, LabelsInv, Samples, Frames
    <3> HIDE DEF sample
    <3>3. /\ Len(pipe'[t]) = Len(pipe[t]) + 1
          /\ \A i \in 1..Len(pipe[t]) : pipe'[t][i] = pipe[t][i]
          /\ pipe'[t][Len(pipe[t]) + 1] = sample
      BY <1>2, <3>1, <3>2, AppendProperties
    <3>4. \A i \in 1..Len(pipe[t]) : pipe'[t][i].pts < sample.pts
      BY <1>1, <2>1, <3>2, <3>3 DEF Matched
    <3>5. \A i, j \in 1..Len(pipe'[t]) : i < j => pipe'[t][i].pts < pipe'[t][j].pts
      <4> SUFFICES ASSUME NEW i \in 1..Len(pipe'[t]), NEW j \in 1..Len(pipe'[t]), i < j
                   PROVE  pipe'[t][i].pts < pipe'[t][j].pts
        OBVIOUS
      <4>1. i \in 1..Len(pipe[t])
        BY <1>3, <3>3
      <4>2. CASE j = Len(pipe[t]) + 1
        BY <3>3, <3>4, <4>1, <4>2
      <4>3. CASE j # Len(pipe[t]) + 1
        <5>1. j \in 1..Len(pipe[t])
          BY <1>3, <3>3, <4>3
        <5>2. QED
          BY <1>1, <3>3, <4>1, <5>1 DEF Matched
      <4>4. QED
        BY <4>2, <4>3
    <3>6. \A i \in 1..Len(pipe'[t]) :
             /\ pipe'[t][i].pts <= frame[t].group
             /\ \E k \in 1..Len(pending[t]) : pending[t][k].group = pipe'[t][i].pts
      <4> SUFFICES ASSUME NEW i \in 1..Len(pipe'[t])
                   PROVE  /\ pipe'[t][i].pts <= frame[t].group
                          /\ \E k \in 1..Len(pending[t]) : pending[t][k].group = pipe'[t][i].pts
        OBVIOUS
      <4>1. CASE i = Len(pipe[t]) + 1
        BY <1>3, <2>2, <3>2, <3>3, <4>1, SMTT(30)
      <4>2. CASE i # Len(pipe[t]) + 1
        <5>1. i \in 1..Len(pipe[t])
          BY <1>3, <3>3, <4>2
        <5>2. QED
          BY <1>1, <3>3, <5>1 DEF Matched
      <4>3. QED
        BY <4>1, <4>2
    <3>7. QED
      BY <2>1, <3>5, <3>6 DEF Matched
  <2>5. QED
    BY <2>3, <2>4
<1>9. CASE t = s /\ FrameFails(s)
  <2>1. wpc[t] = "copy" /\ wpc'[t] = "pop" /\ UNCHANGED <<pending, frame, pipe>>
    BY <1>2, <1>9 DEF FrameFails
  <2>2. QED
    BY <1>1, <2>1 DEF Matched
<1>10. QED
  BY <1>4, <1>5, <1>6, <1>7, <1>8, <1>9 DEF Worker

\* A sample always finds its frame, and those that stay in the pipeline keep theirs.
LEMMA SampleMatched ==
    ASSUME TypeOK, OrderInv, PipeInv, NEW s \in Ids, Sample(s)
    PROVE  /\ Position(pending[s], Head(pipe[s]).pts) \in 1..Len(pending[s])
           /\ PipeInv'
<1> DEFINE pos == Position(pending[s], Head(pipe[s]).pts)
<1>1. Ordered(s) /\ Matched(s)
  BY DEF OrderInv, PipeInv
<1>2. /\ pending \in [Ids -> Seq(Frames)] /\ pipe \in [Ids -> Seq(Samples)]
      /\ pending[s] \in Seq(Frames) /\ pipe[s] \in Seq(Samples)
      /\ Len(pending[s]) \in Nat /\ Len(pipe[s]) \in Nat
  BY Types DEF TypeOK
<1>3. /\ pipe[s] # <<>> /\ pipe' = [pipe EXCEPT ![s] = Tail(@)]
      /\ 1 \in 1..Len(pipe[s]) /\ Head(pipe[s]) = pipe[s][1]
  BY <1>2, BoundsAssumption DEF Sample
<1>4. PICK k \in 1..Len(pending[s]) : pending[s][k].group = Head(pipe[s]).pts
  BY <1>1, <1>3 DEF Matched
<1>5. pos \in 1..Len(pending[s]) /\ pending[s][pos].group = Head(pipe[s]).pts
  BY <1>2, <1>4, PositionFound
<1>6. pending' = [pending EXCEPT ![s] = SubSeq(@, pos + 1, Len(@))] /\ UNCHANGED <<frame, wpc>>
  BY <1>5 DEF Sample, worker
<1> HIDE DEF pos
<1> DEFINE rest == SubSeq(pending[s], pos + 1, Len(pending[s]))
<1>7. /\ Len(rest) = Len(pending[s]) - pos
      /\ \A i \in 1..(Len(pending[s]) - pos) : rest[i] = pending[s][i + pos]
  <2>1. pending[s] \in Seq(Frames) /\ pos \in 1..Len(pending[s])
    BY <1>2, <1>5
  <2>2. QED
    BY <2>1, RestFacts
<1>8. pending'[s] = rest /\ pipe'[s] = Tail(pipe[s])
  BY <1>2, <1>3, <1>6
<1> HIDE DEF rest
<1>9. /\ Len(Tail(pipe[s])) = Len(pipe[s]) - 1
      /\ \A i \in 1..Len(Tail(pipe[s])) : Tail(pipe[s])[i] = pipe[s][i + 1]
      /\ \A i \in 1..Len(Tail(pipe[s])) : i + 1 \in 1..Len(pipe[s]) /\ 1 < i + 1
  BY <1>2, <1>3
<1>10. \A i \in 1..Len(pending[s]) : pending[s][i].group \in Nat
  <2>1. \A i \in 1..Len(pending[s]) : pending[s][i] \in Frames
    BY <1>2, ElementOfSeq
  <2>2. QED
    BY <2>1 DEF Frames
<1>11. ASSUME NEW i \in 1..Len(pending[s]), pending[s][pos].group < pending[s][i].group
       PROVE  i - pos \in 1..Len(rest) /\ rest[i - pos] = pending[s][i]
  <2>1. pos < i
    <3>1. ~(i < pos)
      BY <1>1, <1>5, <1>10, <1>11 DEF Ordered, Increasing
    <3>2. i # pos
      BY <1>10, <1>11
    <3>3. QED
      BY <1>5, <3>1, <3>2
  <2>2. i - pos \in 1..(Len(pending[s]) - pos) /\ (i - pos) + pos = i
    BY <1>2, <1>5, <2>1
  <2>3. QED
    BY <1>7, <2>2
<1>12. ASSUME NEW i \in 1..Len(Tail(pipe[s]))
       PROVE  \E m \in 1..Len(rest) : rest[m].group = Tail(pipe[s])[i].pts
  <2>1. Head(pipe[s]).pts < Tail(pipe[s])[i].pts
    BY <1>1, <1>3, <1>9 DEF Matched
  <2>2. PICK m \in 1..Len(pending[s]) : pending[s][m].group = Tail(pipe[s])[i].pts
    BY <1>1, <1>9 DEF Matched
  <2>3. QED
    BY <1>5, <1>11, <2>1, <2>2
<1>13. wpc[s] = "push" => rest # <<>> /\ rest[Len(rest)] = frame[s]
  <2>1. SUFFICES ASSUME wpc[s] = "push" PROVE rest # <<>> /\ rest[Len(rest)] = frame[s]
    OBVIOUS
  <2>2. pending[s] # <<>> /\ pending[s][Len(pending[s])] = frame[s]
    BY <1>1, <2>1 DEF Matched
  <2>3. Len(pending[s]) \in 1..Len(pending[s])
    BY <1>2, <2>2
  <2>4. pending[s][pos].group < frame[s].group
    BY <1>1, <1>3, <1>5, <2>1 DEF Matched
  <2>5. Len(pending[s]) - pos \in 1..Len(rest) /\ rest[Len(pending[s]) - pos] = frame[s]
    BY <1>11, <2>2, <2>3, <2>4
  <2>6. QED
    BY <1>7, <2>5
<1>14. Matched(s)'
  <2>1. \A i, j \in 1..Len(Tail(pipe[s])) : i < j => Tail(pipe[s])[i].pts < Tail(pipe[s])[j].pts
    <3> SUFFICES ASSUME NEW i \in 1..Len(Tail(pipe[s])), NEW j \in 1..Len(Tail(pipe[s])), i < j
                 PROVE  Tail(pipe[s])[i].pts < Tail(pipe[s])[j].pts
      OBVIOUS
    <3>1. i + 1 \in 1..Len(pipe[s]) /\ j + 1 \in 1..Len(pipe[s]) /\ i + 1 < j + 1
      BY <1>9
    <3>2. QED
      BY <1>1, <1>9, <3>1 DEF Matched
  <2>2. \A i \in 1..Len(Tail(pipe[s])) : /\ wpc[s] # "pop" => Tail(pipe[s])[i].pts < frame[s].group
                                       /\ Tail(pipe[s])[i].pts <= frame[s].group
    BY <1>1, <1>9 DEF Matched
  <2>3. QED
    BY <1>6, <1>8, <1>12, <1>13, <2>1, <2>2 DEF Matched
<1>15. ASSUME NEW t \in Ids, t # s PROVE Matched(t)'
  <2>1. pipe'[t] = pipe[t] /\ pending'[t] = pending[t]
    BY <1>2, <1>3, <1>6, <1>15
  <2>2. QED
    <3>1. Matched(t)
      BY DEF PipeInv
    <3>2. QED
      BY <1>6, <2>1, <3>1 DEF Matched
<1>16. QED
  BY <1>5, <1>14, <1>15 DEF pos, PipeInv

\* What the pipeline leaves out was pending like the rest.
LEMMA PipeDropsMatched ==
    \A s \in Ids : TypeOK /\ PipeInv /\ (SampleFails(s) \/ PipelineDrops(s) \/ PipelineFails(s))
                  => PipeInv'
<1> SUFFICES ASSUME NEW s \in Ids, TypeOK, PipeInv,
                    SampleFails(s) \/ PipelineDrops(s) \/ PipelineFails(s), NEW t \in Ids
             PROVE  Matched(t)'
  BY DEF PipeInv
<1>1. Matched(t) /\ pipe \in [Ids -> Seq(Samples)] /\ pipe[s] \in Seq(Samples)
      /\ Len(pipe[s]) \in Nat
  BY Types DEF PipeInv, TypeOK
<1>2. UNCHANGED <<frame, wpc, pending>>
  BY DEF SampleFails, PipelineDrops, PipelineFails, worker
<1>3. CASE pipe'[t] = pipe[t]
  BY <1>1, <1>2, <1>3 DEF Matched
<1>4. CASE pipe'[t] # pipe[t] /\ (SampleFails(s) \/ PipelineFails(s))
  <2>1. pipe'[t] = <<>>
    BY <1>1, <1>4 DEF SampleFails, PipelineFails
  <2>2. QED
    BY <1>1, <1>2, <2>1 DEF Matched
<1>5. CASE pipe'[t] # pipe[t] /\ PipelineDrops(s)
  <2>1. PICK i \in 1..(Len(pipe[s]) - QueueDepth) : pipe' = [pipe EXCEPT ![s] = RemoveAt(@, i)]
    BY <1>5 DEF PipelineDrops
  <2>2. i \in 1..Len(pipe[s]) /\ t = s
    BY <1>1, <1>5, <2>1, SizesAssumption
  <2> DEFINE left == RemoveAt(pipe[s], i)
             old(k) == IF k < i THEN k ELSE k + 1
  <2>3. /\ Len(left) = Len(pipe[s]) - 1
        /\ \A k \in 1..(Len(pipe[s]) - 1) : left[k] = pipe[s][old(k)]
    BY <1>1, <2>2, RemoveAtFacts
  <2>4. pipe'[t] = left
    BY <1>1, <2>1, <2>2
  <2> HIDE DEF left
  <2>5. \A k \in 1..Len(left) : old(k) \in 1..Len(pipe[s]) /\ left[k] = pipe[t][old(k)]
    BY <1>1, <2>2, <2>3
  <2>6. \A k, m \in 1..Len(left) : k < m => old(k) < old(m)
    BY <1>1, <2>2, <2>3
  <2> HIDE DEF old
  <2>7. \A k, m \in 1..Len(left) : k < m => left[k].pts < left[m].pts
    BY <1>1, <2>2, <2>5, <2>6 DEF Matched
  <2>8. \A k \in 1..Len(left) :
           /\ wpc[t] # "pop" => left[k].pts < frame[t].group
           /\ left[k].pts <= frame[t].group
           /\ \E m \in 1..Len(pending[t]) : pending[t][m].group = left[k].pts
    BY <1>1, <2>2, <2>5 DEF Matched
  <2>9. wpc[t] = "push" => pending[t] # <<>> /\ pending[t][Len(pending[t])] = frame[t]
    BY <1>1 DEF Matched
  <2>10. QED
    BY <1>2, <2>4, <2>7, <2>8, <2>9 DEF Matched
<1>6. QED
  BY <1>3, <1>4, <1>5

CountedInv == OrderedInv /\ PipeInv /\ DropsCounted

\* The invariants hold to begin with.
LEMMA CountedInit == Init => CountedInv
<1> SUFFICES ASSUME Init PROVE CountedInv
  OBVIOUS
<1>1. \A s \in Ids : /\ pipe[s] = <<>> /\ wpc[s] = "pop" /\ encoding[s] = NoFrame
                    /\ queue[s] = <<>> /\ pending[s] = <<>>
                    /\ submitted[s] = 0 /\ encoded[s] = 0 /\ queueDrops[s] = 0 /\ encoderDrops[s] = 0
                    /\ frameErrors[s] = 0
  BY DEF Init, Each
<1>2. PipeInv
  BY <1>1 DEF PipeInv, Matched
<1>3. Len(<<>>) = 0
  OBVIOUS
<1>4. DropsCounted
  BY <1>1, <1>3 DEF DropsCounted
<1>5. QED
  BY <1>2, <1>4, OrderInit DEF CountedInv

\* What one stream submitted, and where its frames are.
Accounted(s) ==
    submitted[s] = encoded[s] + queueDrops[s] + encoderDrops[s] + frameErrors[s]
        + Len(queue[s]) + Len(pending[s])
        + (IF wpc[s] \in {"copy", "pending"} THEN 1 ELSE 0)
        + (IF encoding[s] # NoFrame THEN 1 ELSE 0)

\* A frame submitted is queued, perhaps in place of another that is counted.
LEMMA CountedIsp == CoreInv /\ DropsCounted /\ Isp => DropsCounted'
<1> SUFFICES ASSUME CoreInv, DropsCounted, Isp, NEW t \in Ids PROVE Accounted(t)'
  BY DEF DropsCounted, Accounted
<1>1. TypeOK /\ Accounted(t)
  BY DEF CoreInv, DropsCounted, Accounted
<1>2. UNCHANGED <<wpc, pending, encoding, encoded, encoderDrops, frameErrors>>
  BY DEF Isp, TakeGroup, ProcessCamera, PoolExhausted, ProcessingFails, SubmitFrame, worker, counters
<1>3. /\ submitted \in [Ids -> Nat] /\ encoded[t] \in Nat /\ queueDrops \in [Ids -> Nat]
      /\ encoderDrops[t] \in Nat /\ frameErrors[t] \in Nat
      /\ Len(pending[t]) \in Nat /\ Len(queue[t]) \in Nat
      /\ queue \in [Ids -> Seq(Frames)] /\ Len(queue[t]) <= QueueDepth /\ queue[t] \in Seq(Frames)
  BY <1>1, Types DEF TypeOK
<1>4. CASE submitted'[t] = submitted[t] /\ queueDrops'[t] = queueDrops[t] /\ queue'[t] = queue[t]
  BY <1>1, <1>2, <1>4 DEF Accounted
<1>5. CASE SubmitFrame /\ t = Streams[at]
  <2>1. made[t] \in Frames
    <3>1. at \in Made /\ at \in 1..Len(Streams)
      BY <1>1, <1>5, StreamPlaces DEF TypeOK, SubmitFrame, Made
    <3>2. made[t] \in {f \in Frames : f.group = group}
      BY <1>5, <3>1 DEF CoreInv, IspInv
    <3>3. QED
      BY <3>2
  <2>2. Len(PushLatest(queue[t], made[t])) =
           IF Len(queue[t]) = QueueDepth THEN Len(queue[t]) ELSE Len(queue[t]) + 1
    BY <1>3, <2>1, PushLatestFacts
  <2>3. /\ submitted'[t] = submitted[t] + 1
        /\ queueDrops'[t] = IF Len(queue[t]) = QueueDepth THEN queueDrops[t] + 1 ELSE queueDrops[t]
        /\ queue'[t] = PushLatest(queue[t], made[t])
    BY <1>3, <1>5 DEF SubmitFrame
  <2> DEFINE inHand == IF wpc[t] \in {"copy", "pending"} THEN 1 ELSE 0
             inCallback == IF encoding[t] # NoFrame THEN 1 ELSE 0
  <2>4. inHand \in Nat /\ inCallback \in Nat
    OBVIOUS
  <2>5. /\ submitted[t] = encoded[t] + queueDrops[t] + encoderDrops[t] + frameErrors[t]
                            + Len(queue[t]) + Len(pending[t]) + inHand + inCallback
        /\ Accounted(t)' <=>
              submitted'[t] = encoded[t] + queueDrops'[t] + encoderDrops[t] + frameErrors[t]
                                + Len(queue'[t]) + Len(pending[t]) + inHand + inCallback
    BY <1>1, <1>2 DEF Accounted
  <2> HIDE DEF inHand, inCallback
  <2>6. submitted[t] \in Nat /\ queueDrops[t] \in Nat
    BY <1>3
  <2>7. submitted'[t] = encoded[t] + queueDrops'[t] + encoderDrops[t] + frameErrors[t]
                          + Len(queue'[t]) + Len(pending[t]) + inHand + inCallback
    <3>1. /\ Len(queue[t]) \in Nat /\ Len(pending[t]) \in Nat /\ encoded[t] \in Nat
          /\ encoderDrops[t] \in Nat /\ frameErrors[t] \in Nat
      BY <1>3
    <3>2. submitted[t] = encoded[t] + queueDrops[t] + encoderDrops[t] + frameErrors[t]
                           + Len(queue[t]) + Len(pending[t]) + inHand + inCallback
      BY <2>5
    <3>3. \/ queueDrops'[t] = queueDrops[t] + 1 /\ Len(queue'[t]) = Len(queue[t])
          \/ queueDrops'[t] = queueDrops[t] /\ Len(queue'[t]) = Len(queue[t]) + 1
      BY <2>2, <2>3
    <3>4. submitted'[t] = submitted[t] + 1
      BY <2>3
    <3> DEFINE n == submitted[t]  e == encoded[t]  q == queueDrops[t]  d == encoderDrops[t]
               x == frameErrors[t]  l == Len(queue[t])  p == Len(pending[t])
    <3>5. /\ n \in Nat /\ e \in Nat /\ q \in Nat /\ d \in Nat /\ x \in Nat /\ l \in Nat /\ p \in Nat
          /\ n = e + q + d + x + l + p + inHand + inCallback
      BY <2>6, <3>1, <3>2
    <3>6. /\ n + 1 = e + (q + 1) + d + x + l + p + inHand + inCallback
          /\ n + 1 = e + q + d + x + (l + 1) + p + inHand + inCallback
      <4> HIDE DEF n, e, q, d, x, l, p
      <4>1. QED
        BY <2>4, <3>5
    <3>7. QED
      BY <3>3, <3>4, <3>6
  <2>8. QED
    BY <2>5, <2>7
<1>6. QED
  <2>1. CASE SubmitFrame /\ t # Streams[at]
    BY <1>3, <1>4, <2>1 DEF SubmitFrame
  <2>2. CASE ~SubmitFrame
    BY <1>4, <2>2 DEF Isp, TakeGroup, ProcessCamera, PoolExhausted, ProcessingFails, counters
  <2>3. QED
    BY <1>5, <2>1, <2>2

\* The worker takes a frame in hand and passes it on.
LEMMA CountedWorker ==
    \A s \in Ids : ListHoldsPool /\ OrderedInv /\ DropsCounted /\ Worker(s) => DropsCounted'
<1> SUFFICES ASSUME NEW s \in Ids, ListHoldsPool, OrderedInv, DropsCounted, Worker(s), NEW t \in Ids
             PROVE  Accounted(t)'
  BY DEF DropsCounted, Accounted
<1>1. TypeOK /\ Accounted(t)
  BY DEF OrderedInv, CoreInv, DropsCounted, Accounted
<1>2. UNCHANGED <<encoding, encoded, submitted, queueDrops>>
  BY DEF Worker, PopFrame, FrameFails, CopyPicture, AddPending, PushBuffer, counters
<1>3. /\ submitted[t] \in Nat /\ encoded[t] \in Nat /\ queueDrops[t] \in Nat
      /\ encoderDrops \in [Ids -> Nat] /\ encoderDrops[t] \in Nat
      /\ frameErrors \in [Ids -> Nat] /\ frameErrors[t] \in Nat
      /\ Len(pending[t]) \in Nat /\ Len(queue[t]) \in Nat
      /\ queue \in [Ids -> Seq(Frames)] /\ pending \in [Ids -> Seq(Frames)]
      /\ wpc \in [Ids -> {"pop", "copy", "pending", "push"}]
  BY <1>1, Types DEF TypeOK
<1> DEFINE inHand == IF wpc[t] \in {"copy", "pending"} THEN 1 ELSE 0
           inCallback == IF encoding[t] # NoFrame THEN 1 ELSE 0
<1>4. /\ submitted[t] = encoded[t] + queueDrops[t] + encoderDrops[t] + frameErrors[t]
                          + Len(queue[t]) + Len(pending[t]) + inHand + inCallback
      /\ Accounted(t)' <=>
            submitted[t] = encoded[t] + queueDrops[t] + encoderDrops'[t] + frameErrors'[t]
                             + Len(queue'[t]) + Len(pending'[t]) + inHand' + inCallback
  BY <1>1, <1>2 DEF Accounted
<1>5. inHand \in Nat /\ inCallback \in Nat
  OBVIOUS
<1>6. CASE PopFrame(s) /\ t = s
  <2>0. frameErrors'[t] = frameErrors[t]
    BY <1>6 DEF PopFrame, counters
  <2>1. Len(queue'[t]) = Len(queue[t]) - 1
    BY <1>3, <1>6 DEF PopFrame
  <2>2. inHand = 0 /\ inHand' = 1 /\ UNCHANGED <<pending, encoderDrops>>
    BY <1>3, <1>6 DEF PopFrame, counters
  <2>3. inHand' \in Nat /\ encoderDrops'[t] = encoderDrops[t] /\ Len(pending'[t]) = Len(pending[t])
    BY <2>2
  <2> HIDE DEF inHand, inCallback
  <2>4. submitted[t] = encoded[t] + queueDrops[t] + encoderDrops'[t] + frameErrors[t]
                         + Len(queue'[t]) + Len(pending'[t]) + inHand' + inCallback
    <3> DEFINE n == submitted[t]  e == encoded[t]  q == queueDrops[t]  d == encoderDrops[t]
               x == frameErrors[t]  l == Len(queue[t])  p == Len(pending[t])
    <3>1. /\ n \in Nat /\ e \in Nat /\ q \in Nat /\ d \in Nat /\ x \in Nat /\ l \in Nat /\ p \in Nat
          /\ n = e + q + d + x + l + p + 0 + inCallback
      BY <1>3, <1>4, <2>2
    <3>2. n = e + q + d + x + (l - 1) + p + 1 + inCallback
      <4> HIDE DEF n, e, q, d, x, l, p
      <4>1. QED
        BY <1>5, <3>1
    <3>3. QED
      BY <2>1, <2>2, <2>3, <3>2
  <2>5. QED
    BY <1>4, <2>0, <2>4
<1>7. CASE AddPending(s) /\ t = s
  <2>0. frameErrors'[t] = frameErrors[t]
    BY <1>7 DEF AddPending
  <2>1. Len(pending[t]) < PendingCapacity
    BY <1>7, RoomForFrame DEF AddPending
  <2>2. /\ pending'[t] = Append(pending[t], frame[t]) /\ UNCHANGED queue
        /\ encoderDrops'[t] = encoderDrops[t]
    BY <1>3, <1>7, <2>1, SizesAssumption DEF AddPending
  <2>3. Len(pending'[t]) = Len(pending[t]) + 1
    <3>1. pending[t] \in Seq(Frames) /\ frame[t] \in Frames
      BY <1>3, <1>7 DEF AddPending, OrderedInv, CoreInv, LabelsInv
    <3>2. QED
      BY <2>2, <3>1, AppendProperties
  <2>4. inHand = 1 /\ inHand' = 0
    BY <1>3, <1>7 DEF AddPending
  <2> HIDE DEF inHand, inCallback
  <2>5. submitted[t] = encoded[t] + queueDrops[t] + encoderDrops'[t] + frameErrors[t]
                         + Len(queue'[t]) + Len(pending'[t]) + inHand' + inCallback
    <3>1. submitted[t] = encoded[t] + queueDrops[t] + encoderDrops[t] + frameErrors[t]
                           + Len(queue[t]) + Len(pending[t]) + 1 + inCallback
      BY <1>4, <2>4
    <3>2. submitted[t] = encoded[t] + queueDrops[t] + encoderDrops[t] + frameErrors[t]
                           + Len(queue[t]) + (Len(pending[t]) + 1) + 0 + inCallback
      <4> DEFINE n == submitted[t]  e == encoded[t]  q == queueDrops[t]  d == encoderDrops[t]
               x == frameErrors[t]  l == Len(queue[t])  p == Len(pending[t])
      <4>1. /\ n \in Nat /\ e \in Nat /\ q \in Nat /\ d \in Nat /\ x \in Nat /\ l \in Nat /\ p \in Nat
            /\ n = e + q + d + x + l + p + 1 + inCallback
        BY <1>3, <3>1
      <4>2. n = e + q + d + x + l + (p + 1) + 0 + inCallback
        <5> HIDE DEF n, e, q, d, x, l, p
        <5>1. QED
          BY <1>5, <4>1
      <4>3. QED
        BY <4>2
    <3>3. QED
      BY <2>2, <2>3, <2>4, <3>2
  <2>6. QED
    BY <1>4, <2>0, <2>5
<1>8. CASE (CopyPicture(s) \/ PushBuffer(s)) /\ t = s
  <2>1. inHand' = inHand /\ UNCHANGED <<queue, pending, encoderDrops, frameErrors>>
    BY <1>3, <1>8 DEF CopyPicture, PushBuffer, counters
  <2>2. QED
    BY <1>4, <2>1
<1>9. CASE t # s
  <2>1. /\ inHand' = inHand /\ queue'[t] = queue[t] /\ pending'[t] = pending[t]
        /\ encoderDrops'[t] = encoderDrops[t] /\ frameErrors'[t] = frameErrors[t]
    BY <1>3, <1>9 DEF Worker, PopFrame, FrameFails, CopyPicture, AddPending, PushBuffer, counters
  <2>2. QED
    BY <1>4, <2>1
<1>10. CASE FrameFails(s) /\ t = s
  <2>1. /\ frameErrors'[t] = frameErrors[t] + 1
        /\ UNCHANGED <<queue, pending, encoderDrops>>
    BY <1>3, <1>10 DEF FrameFails
  <2>2. inHand = 1 /\ inHand' = 0
    BY <1>3, <1>10 DEF FrameFails
  <2>3. submitted[t] = encoded[t] + queueDrops[t] + encoderDrops[t] + frameErrors[t]
                         + Len(queue[t]) + Len(pending[t]) + 1 + inCallback
    BY <1>4, <2>2
  <2> HIDE DEF inHand, inCallback
  <2>4. submitted[t] = encoded[t] + queueDrops[t] + encoderDrops[t] + (frameErrors[t] + 1)
                         + Len(queue[t]) + Len(pending[t]) + 0 + inCallback
    <3> DEFINE n == submitted[t]  e == encoded[t]  q == queueDrops[t]  d == encoderDrops[t]
               x == frameErrors[t]  l == Len(queue[t])  p == Len(pending[t])
    <3>1. /\ n \in Nat /\ e \in Nat /\ q \in Nat /\ d \in Nat /\ x \in Nat /\ l \in Nat /\ p \in Nat
          /\ n = e + q + d + x + l + p + 1 + inCallback
      BY <1>3, <2>3
    <3>2. n = e + q + d + (x + 1) + l + p + 0 + inCallback
      <4> HIDE DEF n, e, q, d, x, l, p
      <4>1. QED
        BY <1>5, <3>1
    <3>3. QED
      BY <3>2
  <2>5. QED
    BY <1>4, <2>1, <2>2, <2>4
<1>11. QED
  BY <1>6, <1>7, <1>8, <1>9, <1>10 DEF Worker

\* A callback accounts for the frames before the one it found, and takes that one
\* in hand.
LEMMA CountedCallback ==
    \A s \in Ids : OrderedInv /\ PipeInv /\ DropsCounted /\ Callback(s) => DropsCounted'
<1> SUFFICES ASSUME NEW s \in Ids, OrderedInv, PipeInv, DropsCounted, Callback(s), NEW t \in Ids
             PROVE  Accounted(t)'
  BY DEF DropsCounted, Accounted
<1>1. TypeOK /\ OrderInv /\ Accounted(t)
  BY DEF OrderedInv, CoreInv, DropsCounted, Accounted
<1>2. UNCHANGED <<submitted, queueDrops, frameErrors, queue, wpc>>
  BY DEF Callback, Sample, SampleFails, Encoded, worker
<1>3. /\ submitted[t] \in Nat /\ encoded[t] \in Nat /\ queueDrops[t] \in Nat
      /\ encoderDrops[t] \in Nat /\ frameErrors[t] \in Nat /\ Len(pending[t]) \in Nat /\ Len(queue[t]) \in Nat
  BY <1>1, Types
<1>a. /\ pending \in [Ids -> Seq(Frames)] /\ encoding \in [Ids -> Frames \cup {NoFrame}]
      /\ encoded \in [Ids -> Nat] /\ encoderDrops \in [Ids -> Nat]
  BY <1>1, Types DEF TypeOK
<1> DEFINE inHand == IF wpc[t] \in {"copy", "pending"} THEN 1 ELSE 0
           inCallback == IF encoding[t] # NoFrame THEN 1 ELSE 0
<1>4. submitted[t] = encoded[t] + queueDrops[t] + encoderDrops[t] + frameErrors[t]
                       + Len(queue[t]) + Len(pending[t]) + inHand + inCallback
  BY <1>1 DEF Accounted
<1>5. Accounted(t)' <=>
         submitted[t] = encoded'[t] + queueDrops[t] + encoderDrops'[t] + frameErrors[t]
                          + Len(queue[t]) + Len(pending'[t]) + inHand + inCallback'
  BY <1>2 DEF Accounted
<1>6. inHand \in Nat
  OBVIOUS
<1>7. CASE Sample(s) /\ t = s
  <2> DEFINE i == Position(pending[t], Head(pipe[t]).pts)
  <2>1. i \in 1..Len(pending[t])
    BY <1>1, <1>7, SampleMatched
  <2>2. /\ encoderDrops'[t] = encoderDrops[t] + i - 1 /\ encoded'[t] = encoded[t]
        /\ encoding[t] = NoFrame /\ encoding'[t] = pending[t][i]
        /\ pending'[t] = SubSeq(pending[t], i + 1, Len(pending[t]))
    BY <1>7, <1>a, <2>1, SMTT(30) DEF Sample
  <2> HIDE DEF i
  <2>3. Len(pending'[t]) = Len(pending[t]) - i /\ pending[t][i] \in Frames
    <3>1. pending[t] \in Seq(Frames)
      BY <1>a
    <3>2. Len(SubSeq(pending[t], i + 1, Len(pending[t]))) = Len(pending[t]) - i
      BY <2>1, <3>1, RestFacts
    <3>3. pending[t][i] \in Frames
      BY <2>1, <3>1, ElementOfSeq
    <3>4. QED
      BY <2>2, <3>2, <3>3
  <2>4. inCallback = 0 /\ inCallback' = 1
    BY <2>2, <2>3, NoFrameIsNone
  <2>5. submitted[t] = encoded[t] + queueDrops[t] + encoderDrops[t] + frameErrors[t]
                         + Len(queue[t]) + Len(pending[t]) + inHand + 0
    BY <1>4, <2>4
  <2> HIDE DEF inHand, inCallback
  <2>6. submitted[t] = encoded[t] + queueDrops[t] + (encoderDrops[t] + i - 1) + frameErrors[t]
                         + Len(queue[t]) + (Len(pending[t]) - i) + inHand + 1
    <3> DEFINE n == submitted[t]  e == encoded[t]  q == queueDrops[t]  d == encoderDrops[t]
               x == frameErrors[t]  l == Len(queue[t])  p == Len(pending[t])
    <3>1. /\ n \in Nat /\ e \in Nat /\ q \in Nat /\ d \in Nat /\ x \in Nat /\ l \in Nat /\ p \in Nat
          /\ n = e + q + d + x + l + p + inHand + 0 /\ i \in Nat
      BY <1>3, <2>1, <2>5
    <3>2. n = e + q + (d + i - 1) + x + l + (p - i) + inHand + 1
      <4> HIDE DEF n, e, q, d, x, l, p
      <4>1. QED
        BY <1>6, <3>1
    <3>3. QED
      BY <3>2
  <2>7. QED
    BY <1>5, <2>2, <2>3, <2>4, <2>6
<1>8. CASE Encoded(s) /\ t = s
  <2>1. /\ encoded'[t] = encoded[t] + 1 /\ encoding[t] # NoFrame /\ encoding'[t] = NoFrame
        /\ encoderDrops'[t] = encoderDrops[t] /\ pending'[t] = pending[t]
    BY <1>8, <1>a DEF Encoded
  <2>2. inCallback = 1 /\ inCallback' = 0
    BY <2>1
  <2>3. submitted[t] = encoded[t] + queueDrops[t] + encoderDrops[t] + frameErrors[t]
                         + Len(queue[t]) + Len(pending[t]) + inHand + 1
    BY <1>4, <2>2
  <2> HIDE DEF inHand, inCallback
  <2>4. submitted[t] = (encoded[t] + 1) + queueDrops[t] + encoderDrops[t] + frameErrors[t]
                         + Len(queue[t]) + Len(pending[t]) + inHand + 0
    <3> DEFINE n == submitted[t]  e == encoded[t]  q == queueDrops[t]  d == encoderDrops[t]
               x == frameErrors[t]  l == Len(queue[t])  p == Len(pending[t])
    <3>1. /\ n \in Nat /\ e \in Nat /\ q \in Nat /\ d \in Nat /\ x \in Nat /\ l \in Nat /\ p \in Nat
          /\ n = e + q + d + x + l + p + inHand + 1
      BY <1>3, <2>3
    <3>2. n = (e + 1) + q + d + x + l + p + inHand + 0
      <4> HIDE DEF n, e, q, d, x, l, p
      <4>1. QED
        BY <1>6, <3>1
    <3>3. QED
      BY <3>2
  <2>5. QED
    BY <1>5, <2>1, <2>2, <2>4
<1>9. CASE t # s
  <2>1. /\ encoded'[t] = encoded[t] /\ encoding'[t] = encoding[t]
        /\ encoderDrops'[t] = encoderDrops[t] /\ pending'[t] = pending[t]
    BY <1>9, <1>a DEF Callback, Sample, SampleFails, Encoded
  <2>2. QED
    BY <1>4, <1>5, <2>1
<1>10. CASE SampleFails(s) /\ t = s
  <2>1. UNCHANGED <<encoded, encoding, encoderDrops, pending>>
    BY <1>10 DEF SampleFails
  <2>2. QED
    BY <1>4, <1>5, <2>1
<1>11. QED
  BY <1>7, <1>8, <1>9, <1>10 DEF Callback

\* Every step keeps the account, if the list has room for the pool.
LEMMA CountedStep == ListHoldsPool /\ CountedInv /\ [Next]_vars => CountedInv'
<1> SUFFICES ASSUME ListHoldsPool, CountedInv, [Next]_vars PROVE CountedInv'
  OBVIOUS
<1>1. OrderedInv /\ PipeInv /\ DropsCounted /\ CoreInv /\ OrderInv /\ TypeOK
  BY DEF CountedInv, OrderedInv, CoreInv
<1>2. OrderedInv'
  BY <1>1, OrderStep
<1>3. CASE Isp
  <2>1. UNCHANGED <<pipe, frame, wpc, pending>>
    BY <1>3 DEF Isp, TakeGroup, ProcessCamera, PoolExhausted, ProcessingFails, SubmitFrame, worker
  <2>2. PipeInv'
    BY <1>1, <2>1 DEF PipeInv, Matched
  <2>3. QED
    BY <1>1, <1>2, <1>3, <2>2, CountedIsp DEF CountedInv
<1>4. ASSUME NEW s \in Ids, Worker(s) PROVE CountedInv'
  BY <1>1, <1>2, <1>4, PipeWorker, CountedWorker DEF CountedInv
<1>5. ASSUME NEW s \in Ids, Callback(s) PROVE CountedInv'
  <2>1. CASE Sample(s)
    BY <1>1, <1>2, <1>5, <2>1, SampleMatched, CountedCallback DEF CountedInv
  <2>2. CASE Encoded(s)
    <3>1. UNCHANGED <<pipe, frame, wpc, pending>>
      BY <2>2 DEF Encoded, worker
    <3>2. PipeInv'
      BY <1>1, <3>1 DEF PipeInv, Matched
    <3>3. QED
      BY <1>1, <1>2, <1>5, <3>2, CountedCallback DEF CountedInv
  <2>3. CASE SampleFails(s)
    <3>1. PipeInv'
      BY <1>1, <2>3, PipeDropsMatched
    <3>2. QED
      BY <1>1, <1>2, <1>5, <3>1, CountedCallback DEF CountedInv
  <2>4. QED
    BY <1>5, <2>1, <2>2, <2>3 DEF Callback
<1>6. ASSUME NEW s \in Ids, PipelineDrops(s) \/ PipelineFails(s) PROVE CountedInv'
  <2>1. PipeInv'
    BY <1>1, <1>6, PipeDropsMatched
  <2>2. UNCHANGED <<submitted, encoded, queueDrops, encoderDrops, frameErrors, queue, pending, wpc,
                    encoding>>
    BY <1>6 DEF PipelineDrops, PipelineFails, worker, counters
  <2>3. DropsCounted'
    BY <1>1, <2>2 DEF DropsCounted
  <2>4. QED
    BY <1>2, <2>1, <2>3 DEF CountedInv
<1>7. CASE UNCHANGED vars
  <2>1. PipeInv' /\ DropsCounted'
    BY <1>1, <1>7 DEF PipeInv, Matched, DropsCounted, vars, worker, counters
  <2>2. QED
    BY <1>2, <2>1 DEF CountedInv
<1>8. QED
  BY <1>3, <1>4, <1>5, <1>6, <1>7 DEF Next

\* The statistics account for every frame submitted, whatever the queue and the
\* pipeline leave out, whichever frames the worker cannot pass on and whenever the
\* pipeline fails, as long as the pool has no
\* more buffers than the pending list has places.
THEOREM DropsCorrect == ASSUME ListHoldsPool PROVE Spec => []DropsCounted
<1>1. Init => CountedInv
  BY CountedInit
<1>2. CountedInv /\ [Next]_vars => CountedInv'
  BY CountedStep, ListHoldsPool
<1>3. CountedInv => DropsCounted
  BY DEF CountedInv
<1>4. QED
  BY <1>1, <1>2, <1>3, PTL DEF Spec
=============================================================================
