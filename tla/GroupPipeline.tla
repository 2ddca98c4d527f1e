---------------------------- MODULE GroupPipeline ----------------------------
(***************************************************************************)
(* From the trigger to the ISP: the capture threads of the cameras with    *)
(* their image pools and rings, the main loop with FrameGrouper and        *)
(* FrameRateSelector, and the ISP worker with its queue.                   *)
(*                                                                         *)
(* A frame is the trigger cycle that exposed it (LabelsMatchExposures of   *)
(* TriggerCycleQueue); a ring is the sequence of the newest frames         *)
(* (RingHoldsNewest of FrameBuffer); a group of frames is its cycle, its   *)
(* timestamp Spacing times the cycle.  Whoever refers to a frame keeps its *)
(* image out of the pool, which is what couples the threads.               *)
(*                                                                         *)
(* An operator named X_Y is a faulty version of the operator X; it is not  *)
(* part of the specification.                                              *)
(***************************************************************************)
EXTENDS FrameRateSelector, Sequences, FiniteSets, SequencesExt

CONSTANTS Cameras,      \* in the order of FrameGrouper::buffers_, front first
          Capacity,     \* FrameBuffer::kCapacity
          QueueDepth,   \* isp.queue_depth
          Spacing,      \* time between two trigger cycles, in the unit of Period
          MaxCycle,     \* bound: trigger cycles
          MaxLossy,     \* bound: cycles of which a frame is lost
          LastLoss,     \* bound: no frame of a later cycle is lost
          MaxWaiting    \* bound: frames of a camera waiting in the SDK

\* Every camera has one place in the group.
ASSUME CamerasAssumption ==
    Cameras \in Seq(Range(Cameras)) /\ Len(Cameras) > 0 /\ IsInjective(Cameras)
ASSUME SizesAssumption == {Capacity, QueueDepth, Spacing} \subseteq Nat \ {0}
ASSUME BoundsAssumption == {MaxCycle, MaxLossy, LastLoss, MaxWaiting} \subseteq Nat

VARIABLES cycle,        \* current_cycle_
          exposed,      \* per camera, frames delivered to the SDK
          lossy,        \* history: cycles of which a camera lost its frame
          ring,         \* per camera, frame_buffer, oldest frame first
          exhausted,    \* per camera, buffer_pool_exhausted
          mpc,          \* where the main loop is
          at,           \* completeAfter: camera being read
          expected,     \* completeAfter: entries of its ring still to be read
          snapshots,    \* completeAfter: frames read so far, per camera
          groups,       \* complete_groups not yet passed to the selector
          lastGroup,    \* last_group_cycle
          gaps,         \* sync_cycle_gaps
          passed,       \* history: cycles passed to the selector
          queue,        \* input_queue_ of the ISP
          ispInput,     \* the group the ISP worker refers to, 0 for none
          ispBusy       \* the ISP worker is processing it

cameraVars == <<cycle, exposed, lossy, ring, exhausted>>
scanVars == <<mpc, at, expected, snapshots>>
loopVars == <<groups, lastGroup, gaps, passed>>
ispVars == <<queue, ispInput, ispBusy>>
vars == <<cameraVars, scanVars, loopVars, ispVars, selectorVars>>

Ids == Range(Cameras)
NoFrames == [c \in Ids |-> <<>>]

Init ==
    /\ cycle = 0 /\ exposed = NoFrames /\ lossy = 0
    /\ ring = NoFrames /\ exhausted = [c \in Ids |-> 0]
    /\ mpc = "loop" /\ at = 1 /\ expected = <<>> /\ snapshots = NoFrames
    /\ groups = <<>> /\ lastGroup = 0 /\ gaps = 0 /\ passed = {}
    /\ queue = <<>> /\ ispInput = 0 /\ ispBusy = FALSE
    /\ SelectorInit
-----------------------------------------------------------------------------
(* The cameras.                                                             *)

\* One trigger cycle exposes a frame in every camera; some may be lost on the
\* way to the host.
Trigger ==
    /\ cycle < MaxCycle
    /\ \A c \in Ids : Len(exposed[c]) < MaxWaiting
    /\ cycle' = cycle + 1
    /\ \E losers \in SUBSET Ids :
         /\ losers # {} => cycle < LastLoss /\ lossy < MaxLossy
         /\ lossy' = IF losers = {} THEN lossy ELSE lossy + 1
         /\ exposed' = [c \in Ids |-> IF c \in losers THEN exposed[c]
                                      ELSE Append(exposed[c], cycle + 1)]
    /\ UNCHANGED <<ring, exhausted, scanVars, loopVars, ispVars, selectorVars>>

\* Groups outside the rings that still refer to their frames.
Downstream ==
    (Range(groups) \cup Range(queue) \cup {ispInput, pending \div Spacing}) \ {0}

\* Images of camera c with a reference outside image_pool.
InUse(c) == Range(ring[c]) \cup Range(snapshots[c]) \cup Downstream

PoolSize_NoSpare == Capacity
PoolSize == Capacity + 1

Newest(frames) == IF Len(frames) > Capacity THEN Tail(frames) ELSE frames

\* captureLoop: a frame that finds no free image is dropped, the ring then
\* stays as it is.
Capture(c) ==
    /\ exposed[c] # <<>>
    /\ exposed' = [exposed EXCEPT ![c] = Tail(@)]
    /\ IF Cardinality(InUse(c)) < PoolSize
       THEN /\ ring' = [ring EXCEPT ![c] = Newest(Append(@, Head(exposed[c])))]
            /\ UNCHANGED exhausted
       ELSE /\ exhausted' = [exhausted EXCEPT ![c] = @ + 1]
            /\ UNCHANGED ring
    /\ UNCHANGED <<cycle, lossy, scanVars, loopVars, ispVars, selectorVars>>
-----------------------------------------------------------------------------
(* The main loop: completeAfter, one access to a ring at a time, then       *)
(* select and submit for every complete group.                              *)

\* snapshot() of the next camera: load the count, which names the entries.
ReadCount ==
    /\ mpc = "loop" /\ groups = <<>>
    /\ expected' = ring[Cameras[at]]
    /\ mpc' = "slots"
    /\ UNCHANGED <<at, snapshots, cameraVars, loopVars, ispVars, selectorVars>>

\* Load one slot; an entry replaced since is left out.
ReadSlot ==
    /\ mpc = "slots" /\ expected # <<>>
    /\ expected' = Tail(expected)
    /\ LET c == Cameras[at]
           frame == Head(expected)
       IN  snapshots' = IF frame \in Range(ring[c])
                        THEN [snapshots EXCEPT ![c] = Append(@, frame)]
                        ELSE snapshots
    /\ UNCHANGED <<mpc, at, cameraVars, loopVars, ispVars, selectorVars>>

NextCamera ==
    /\ mpc = "slots" /\ expected = <<>> /\ at < Len(Cameras)
    /\ at' = at + 1
    /\ mpc' = "loop"
    /\ UNCHANGED <<expected, snapshots, cameraVars, loopVars, ispVars, selectorVars>>

CompleteAfter_FromLast(shots, cyc) ==
    {k \in Range(shots[Cameras[1]]) : k >= cyc /\ \A c \in Ids : k \in Range(shots[c])}

\* The cycles of which every camera has a frame.
CompleteAfter(shots, cyc) ==
    {k \in Range(shots[Cameras[1]]) : k > cyc /\ \A c \in Ids : k \in Range(shots[c])}

MakeGroups_NewestOnly ==
    /\ mpc = "slots" /\ expected = <<>> /\ at = Len(Cameras)
    /\ LET found == CompleteAfter(snapshots, lastGroup) IN
       groups' = IF found = {} THEN <<>> ELSE <<CHOOSE k \in found : \A j \in found : j <= k>>
    /\ snapshots' = NoFrames /\ at' = 1 /\ mpc' = "loop"
    /\ UNCHANGED <<expected, lastGroup, gaps, passed, cameraVars, ispVars, selectorVars>>

Increasing(q) == \A i, j \in 1..Len(q) : i < j => q[i] < q[j]

Sorted(S) == CHOOSE q \in [1..Cardinality(S) -> S] : Increasing(q)

\* The groups, sorted by cycle; the snapshots are gone when the call returns.
MakeGroups ==
    /\ mpc = "slots" /\ expected = <<>> /\ at = Len(Cameras)
    /\ groups' = Sorted(CompleteAfter(snapshots, lastGroup))
    /\ snapshots' = NoFrames /\ at' = 1 /\ mpc' = "loop"
    /\ UNCHANGED <<expected, lastGroup, gaps, passed, cameraVars, ispVars, selectorVars>>

PushLatest_Unbounded(q, v) == Append(q, v)
\* BoundedLatestQueue::push.
PushLatest(q, v) == Append(IF Len(q) = QueueDepth THEN Tail(q) ELSE q, v)

\* Cycles skipped since the last group; none before the first.
Skipped(k) == IF lastGroup # 0 /\ k > lastGroup + 1 THEN k - lastGroup - 1 ELSE 0

PassGroup ==
    /\ groups # <<>>
    /\ LET k == Head(groups) IN
       /\ gaps' = gaps + Skipped(k)
       /\ lastGroup' = k
       /\ passed' = passed \cup {k}
       /\ Select(TRUE, Spacing * k)
    /\ groups' = Tail(groups)
    /\ queue' = IF output' # output THEN PushLatest(queue, out' \div Spacing)
                                    ELSE queue
    /\ UNCHANGED <<ispInput, ispBusy, cameraVars, scanVars>>
-----------------------------------------------------------------------------
(* The ISP worker.                                                          *)

IspTake ==
    /\ ~ispBusy /\ queue # <<>>
    /\ ispInput' = Head(queue)
    /\ queue' = Tail(queue)
    /\ ispBusy' = TRUE
    /\ UNCHANGED <<cameraVars, scanVars, loopVars, selectorVars>>

\* Processed: the local variable input of run keeps the group until the next
\* one is moved into it.
IspDone ==
    /\ ispBusy
    /\ ispBusy' = FALSE
    /\ UNCHANGED <<queue, ispInput, cameraVars, scanVars, loopVars, selectorVars>>
-----------------------------------------------------------------------------
MainLoop == ReadCount \/ ReadSlot \/ NextCamera \/ MakeGroups \/ PassGroup
Isp == IspTake \/ IspDone

Next == Trigger \/ (\E c \in Ids : Capture(c)) \/ MainLoop \/ Isp

Spec == Init /\ [][Next]_vars

\* The consumers as fast as they can be: all of them are done with a cycle
\* before the next is triggered.
Quiet ==
    /\ \A c \in Ids : exposed[c] = <<>>
    /\ mpc = "loop" /\ at = 1 /\ groups = <<>> /\ CompleteAfter(ring, lastGroup) = {}
    /\ queue = <<>> /\ ~ispBusy

PromptNext ==
    \/ Quiet /\ Trigger
    \/ \E c \in Ids : Capture(c)
    \/ ~Quiet /\ MainLoop
    \/ Isp

PromptSpec ==
    /\ Init /\ [][PromptNext]_vars
    /\ WF_vars(Quiet /\ Trigger) /\ WF_vars(~Quiet /\ MainLoop) /\ WF_vars(Isp)
    /\ \A c \in Ids : WF_vars(Capture(c))
-----------------------------------------------------------------------------
\* Every variable has its type.
TypeOK ==
    /\ {cycle, lossy, lastGroup, gaps, ispInput} \subseteq Nat
    /\ exposed \in [Ids -> Seq(Nat)] /\ ring \in [Ids -> Seq(Nat)]
    /\ snapshots \in [Ids -> Seq(Nat)]
    /\ \A c \in Ids : Len(ring[c]) <= Capacity /\ Len(snapshots[c]) <= Capacity
    /\ exhausted \in [Ids -> Nat]
    /\ mpc \in {"loop", "slots"} /\ at \in 1..Len(Cameras)
    /\ expected \in Seq(Nat) /\ groups \in Seq(Nat) /\ queue \in Seq(Nat)
    /\ Len(queue) <= QueueDepth
    /\ passed \subseteq Nat /\ ispBusy \in BOOLEAN
    /\ SelectorTypeOK

\* The rings are read one slot at a time while the cameras overwrite them; a
\* cycle the main loop has gone past without a group can no longer be complete
\* (completeAfter, last_group_cycle), and from the first group on it is counted
\* in sync_cycle_gaps: nothing still available is thrown away.
Available(k) == \A c \in Ids : k \in Range(ring[c]) \cup Range(exposed[c])
PassedOver == 1..lastGroup \ passed
PassedOverIsGone ==
    /\ \A k \in PassedOver : ~Available(k)
    /\ gaps = Cardinality({k \in PassedOver : Spacing * k > first})

\* Groups reach the ISP in order: what is held, queued and in work is of
\* increasing age.
IspInOrder ==
    LET stages == (IF ispInput # 0 THEN <<ispInput>> ELSE <<>>) \o queue \o
                  (IF pending # 0 THEN <<pending \div Spacing>> ELSE <<>>) \o groups
    IN  \A i, j \in 1..Len(stages) : i < j => stages[i] < stages[j]

\* One image more than the ring has slots is enough for a camera: none is
\* dropped for want of an image unless a frame outside its ring is referred to
\* (kImageBuffersPerCamera).
PoolSuffices ==
    [][\A c \in Ids : exhausted'[c] # exhausted[c] =>
          (Range(snapshots[c]) \cup Downstream) \ Range(ring[c]) # {}]_vars

\* The ring "remains the bounded latest-frame buffer for downstream
\* backpressure" (hik_camera.cpp): time and again it holds the newest frame.
NewestCaptured(c) == exposed[c] = <<>> /\ cycle \in Range(ring[c])
RingFollowsCamera == \A c \in Ids : []<>NewestCaptured(c)
-----------------------------------------------------------------------------
(* What the proofs add: the parts of the inductive invariant.               *)

\* A cycle whose frame camera c has not got any more and never will get.
Gone(c, k) == k <= cycle /\ k \notin Range(ring[c]) \cup Range(exposed[c])

\* The frames of a camera come in order, those of the ring first.
RingsInv ==
    \A c \in Ids :
        /\ Range(ring[c]) \cup Range(exposed[c]) \subseteq 1..cycle
        /\ Increasing(exposed[c])
        /\ \A k \in Range(ring[c]), j \in Range(exposed[c]) : k < j

\* Frames the call in progress has read of camera c or may still read.
Reading(c) ==
    Range(snapshots[c]) \cup (IF c = Cameras[at] THEN Range(expected) ELSE {})

\* What a snapshot has not got of the cycles before one it has is gone.
ScanInv ==
    /\ mpc = "loop" => expected = <<>>
    /\ mpc = "slots" => Len(snapshots[Cameras[at]]) + Len(expected) <= Capacity
    /\ \A i \in 1..Len(Cameras) :
          i > at \/ (i = at /\ mpc = "loop") => snapshots[Cameras[i]] = <<>>
    /\ \A k \in Range(expected) : k \in Range(ring[Cameras[at]]) \/ Gone(Cameras[at], k)
    /\ \A c \in Ids :
          /\ Reading(c) \subseteq 1..cycle
          /\ \A m \in Reading(c) : \A j \in 1..(m - 1) : j \in Reading(c) \/ Gone(c, j)

\* Between the groups found there is none that could still be found.
GroupsInv ==
    /\ Increasing(groups) /\ Range(groups) \subseteq (lastGroup + 1)..cycle
    /\ \A m \in Range(groups) : \A j \in (lastGroup + 1)..(m - 1) :
          j \in Range(groups) \/ \E c \in Ids : Gone(c, j)

PassedInv ==
    /\ lastGroup <= cycle /\ passed \subseteq 1..lastGroup
    /\ \A j \in PassedOver : \E c \in Ids : Gone(c, j)
    /\ first <= Spacing * lastGroup
    /\ gaps = Cardinality({k \in PassedOver : Spacing * k > first})

\* The selector is given every group in order; out is one of them.
SelectorInv ==
    /\ last = Spacing * lastGroup
    /\ next = 0 <=> lastGroup = 0
    /\ pending \in {0, last} /\ (pending # 0 => pending > out)
    /\ \E g \in 0..lastGroup : out = Spacing * g

\* The ISP has what the selector returned.
IspOrder ==
    /\ Increasing(queue)
    /\ \A k \in Range(queue) : ispInput < k /\ Spacing * k <= out
    /\ Spacing * ispInput <= out

IInv == /\ TypeOK /\ RingsInv /\ ScanInv /\ GroupsInv
        /\ PassedInv /\ SelectorInv /\ IspOrder

\* The bounds of the selector leave room for all that the pipeline gives it.
BoundsSuffice == Spacing * MaxCycle <= MaxTime /\ MaxCycle <= MaxInputs

\* The selector has been given at most one group per cycle.
InputsInv == cycle <= MaxCycle /\ input <= lastGroup
=============================================================================
