---------------------------- MODULE CameraCapture ----------------------------
(***************************************************************************)
(* One camera slot of MultiCameraManager: the trigger thread that feeds    *)
(* the label queue and the camera (softwareTriggerAll), the capture thread *)
(* (captureLoop) with its image pool (acquireImageBuffer), the readers     *)
(* that keep frames for a while, and stop and openAll around them.         *)
(*                                                                         *)
(* The label queue is the FIFO that TriggerCycleQueue implements, the ring *)
(* the sequence of newest frames that FrameBuffer holds.  The camera       *)
(* numbers its frames consecutively from FirstNumber in every session, the *)
(* lost ones included; that is external to this code.  In the other        *)
(* trigger modes nobody calls softwareTriggerAll, and the camera sends     *)
(* frames on its own.                                                      *)
(*                                                                         *)
(* An operator named X_Y is a faulty version of the operator X; it is not  *)
(* part of the specification.                                              *)
(***************************************************************************)
EXTENDS Integers, Sequences, FiniteSets

CONSTANTS QueueCapacity,  \* kTriggerQueueCapacity
          RingCapacity,   \* FrameBuffer::kCapacity
          FirstNumber,    \* the camera's first frame number
          EarlyLoss,      \* the first frame of a session may be lost, too
          MaxCycle,       \* bound: trigger cycles, or frames of a camera that runs free
          MaxLost,        \* bound: frames lost in a session
          MaxHeld,        \* bound: frames the readers keep
          MaxSessions     \* bound: calls of openAll

ASSUME CapacityAssumption ==
    QueueCapacity \in Nat \ {0} /\ RingCapacity \in Nat \ {0}
ASSUME CameraAssumption == FirstNumber \in Nat /\ EarlyLoss \in BOOLEAN
ASSUME BoundsAssumption ==
    MaxCycle \in Nat /\ MaxLost \in Nat /\ MaxHeld \in Nat /\ MaxSessions \in Nat

VARIABLES session,      \* how often the cameras were opened
          running,      \* running_
          stopRequested,    \* the stop token of capture_thread
          software,     \* trigger_mode is SOFTWARE_TRIGGER; unchanging
          cycle, tpc,   \* trigger thread: its cycle, and where it is
          labels,       \* trigger_cycles
          nextNumber,   \* number of the camera's next frame
          sdk,          \* frames waiting in the SDK
          lost,         \* history: frames lost in this session
          cpc,          \* where the capture thread is
          previous,     \* previous_frame_number
          toDiscard,    \* dropped - index, labels still to be discarded
          lease,        \* the frame being processed, <<>> for none
          label,        \* its trigger_cycle
          image,        \* the image acquired for it, 0 for none
          images,       \* image_pool: number of the frame each image shows
          ring,         \* frame_buffer, oldest frame first
          held,         \* packets the readers keep
          received, drops, invalid, exhausted, unmatched    \* statistics

trigger == <<cycle, tpc>>
camera == <<nextNumber, sdk, lost>>
loop == <<cpc, previous, toDiscard, lease, label, image>>
frames == <<images, ring, held>>
statistics == <<received, drops, invalid, exhausted, unmatched>>
control == <<session, running, stopRequested, software>>
vars == <<control, trigger, labels, camera, loop, frames, statistics>>

\* kImageBuffersPerCamera
PoolSize == RingCapacity + 1
Pool == 1..PoolSize

Elements(seq) == {seq[i] : i \in 1..Len(seq)}
DropLast(seq) == SubSeq(seq, 1, Len(seq) - 1)

Init ==
    /\ session = 1 /\ running = TRUE /\ stopRequested = FALSE
    /\ software \in BOOLEAN
    /\ cycle = 0 /\ tpc = "idle" /\ labels = <<>>
    /\ nextNumber = FirstNumber /\ sdk = <<>> /\ lost = 0
    /\ cpc = "loop" /\ previous = 0 /\ toDiscard = 0
    /\ lease = <<>> /\ label = 0 /\ image = 0
    /\ images = [i \in Pool |-> 0] /\ ring = <<>> /\ held = {}
    /\ received = 0 /\ drops = 0 /\ invalid = 0 /\ exhausted = 0 /\ unmatched = 0
-----------------------------------------------------------------------------
(* Trigger thread: softwareTriggerAll for this camera.                      *)

\* A full label queue fails the trigger before anything is sent.
TriggerRefused ==
    /\ software /\ tpc = "idle" /\ running /\ cycle < MaxCycle
    /\ Len(labels) = QueueCapacity
    /\ cycle' = cycle + 1
    /\ UNCHANGED <<control, tpc, labels, camera, loop, frames, statistics>>

PushLabel ==
    /\ software /\ tpc = "idle" /\ running /\ cycle < MaxCycle
    /\ Len(labels) < QueueCapacity
    /\ cycle' = cycle + 1
    /\ labels' = Append(labels, cycle + 1)
    /\ tpc' = "command"
    /\ UNCHANGED <<control, camera, loop, frames, statistics>>

CommandFails_KeepsLabel ==
    /\ tpc = "command"
    /\ tpc' = "idle"
    /\ UNCHANGED <<control, cycle, labels, camera, loop, frames, statistics>>

CommandFails ==
    /\ tpc = "command"
    /\ labels' = IF labels = <<>> THEN labels ELSE DropLast(labels)
    /\ tpc' = "idle"
    /\ UNCHANGED <<control, cycle, camera, loop, frames, statistics>>

\* The camera exposes a frame and delivers it, not always with the data the
\* capture loop expects.
FrameDelivered(valid) ==
    /\ tpc = "command"
    /\ sdk' = Append(sdk, [number |-> nextNumber, cycle |-> cycle, valid |-> valid])
    /\ nextNumber' = nextNumber + 1
    /\ tpc' = "idle"
    /\ UNCHANGED <<control, cycle, labels, lost, loop, frames, statistics>>

\* The camera exposes a frame that does not reach the host.
FrameLost ==
    /\ tpc = "command" /\ lost < MaxLost
    /\ EarlyLoss \/ nextNumber > FirstNumber
    /\ nextNumber' = nextNumber + 1
    /\ lost' = lost + 1
    /\ tpc' = "idle"
    /\ UNCHANGED <<control, cycle, labels, sdk, loop, frames, statistics>>

\* A camera that is not triggered by software sends frames, or loses them, from
\* startGrabbing to close; cycle only counts them here, they have none.
FreeRunFrame(valid) ==
    /\ ~software /\ cpc # "stopped" /\ cycle < MaxCycle
    /\ cycle' = cycle + 1
    /\ sdk' = Append(sdk, [number |-> nextNumber, cycle |-> 0, valid |-> valid])
    /\ nextNumber' = nextNumber + 1
    /\ UNCHANGED <<control, tpc, labels, lost, loop, frames, statistics>>

FreeRunFrameLost ==
    /\ ~software /\ cpc # "stopped" /\ cycle < MaxCycle /\ lost < MaxLost
    /\ EarlyLoss \/ nextNumber > FirstNumber
    /\ cycle' = cycle + 1
    /\ nextNumber' = nextNumber + 1
    /\ lost' = lost + 1
    /\ UNCHANGED <<control, tpc, labels, sdk, loop, frames, statistics>>
-----------------------------------------------------------------------------
(* Capture thread: captureLoop.                                             *)

LoopTop ==
    /\ cpc = "loop"
    /\ cpc' = IF stopRequested THEN "ended" ELSE "grab"
    /\ UNCHANGED <<control, trigger, labels, camera, previous, toDiscard, lease,
                   label, image, frames, statistics>>

GrabTimeout_WaitsForFrame ==
    /\ cpc = "grab" /\ sdk # <<>>
    /\ cpc' = "loop"
    /\ UNCHANGED <<control, trigger, labels, camera, previous, toDiscard, lease,
                   label, image, frames, statistics>>

\* getImageBuffer returns TIMEOUT or ERROR.
GrabTimeout ==
    /\ cpc = "grab"
    /\ cpc' = "loop"
    /\ UNCHANGED <<control, trigger, labels, camera, previous, toDiscard, lease,
                   label, image, frames, statistics>>

Missing_OneMore(number) == IF previous # 0 THEN number - previous ELSE 0
\* Frames missing before this one; none before the first.
Missing(number) ==
    IF previous # 0 /\ number > previous + 1 THEN number - previous - 1 ELSE 0

GrabFrame ==
    /\ cpc = "grab" /\ sdk # <<>>
    /\ sdk' = Tail(sdk)
    /\ LET missing == Missing(Head(sdk).number) IN
       /\ lease' = <<Head(sdk)>>
       /\ toDiscard' = missing
       /\ drops' = drops + missing
       /\ previous' = Head(sdk).number
       /\ cpc' = IF missing > 0 THEN "discard" ELSE "label"
    /\ UNCHANGED <<control, trigger, labels, nextNumber, lost, label, image, frames,
                   received, invalid, exhausted, unmatched>>

\* The labels of the missing frames are popped, as long as there are any.
DiscardLabel ==
    /\ cpc = "discard"
    /\ labels' = IF labels = <<>> THEN labels ELSE Tail(labels)
    /\ toDiscard' = toDiscard - 1
    /\ cpc' = IF labels = <<>> \/ toDiscard = 1 THEN "label" ELSE "discard"
    /\ UNCHANGED <<control, trigger, camera, previous, lease, label, image, frames,
                   statistics>>

PopLabel_OnceChecked ==
    /\ cpc = "label"
    /\ LET pops == software /\ lease[1].valid /\ labels # <<>> IN
       /\ label' = IF pops THEN Head(labels) ELSE 0
       /\ labels' = IF pops THEN Tail(labels) ELSE labels
    /\ cpc' = "check"
    /\ UNCHANGED <<control, trigger, camera, previous, toDiscard, lease, image, frames,
                   statistics>>

\* Only in SOFTWARE_TRIGGER mode is there a label to pop.
PopLabel ==
    /\ cpc = "label"
    /\ label' = IF ~software \/ labels = <<>> THEN 0 ELSE Head(labels)
    /\ labels' = IF ~software \/ labels = <<>> THEN labels ELSE Tail(labels)
    /\ unmatched' = IF software /\ labels = <<>> THEN unmatched + 1 ELSE unmatched
    /\ cpc' = "check"
    /\ UNCHANGED <<control, trigger, camera, previous, toDiscard, lease, image, frames,
                   received, drops, invalid, exhausted>>

\* A continue releases the lease.
RejectFrame ==
    /\ cpc = "check" /\ ~lease[1].valid
    /\ invalid' = invalid + 1
    /\ lease' = <<>> /\ cpc' = "loop"
    /\ UNCHANGED <<control, trigger, labels, camera, previous, toDiscard, label, image,
                   frames, received, drops, exhausted, unmatched>>

\* Packets of this session that keep an image in use.
Packets == {p \in Elements(ring) \cup held : p.session = session}

Free_RingOnly(i) == \A p \in Elements(ring) : p.image # i
\* use_count() is 1: only the pool refers to the image.
Free(i) == \A p \in Packets : p.image # i

NoImageFree ==
    /\ cpc = "check" /\ lease[1].valid
    /\ \A i \in Pool : ~Free(i)
    /\ exhausted' = exhausted + 1
    /\ lease' = <<>> /\ cpc' = "loop"
    /\ UNCHANGED <<control, trigger, labels, camera, previous, toDiscard, label, image,
                   frames, received, drops, invalid, unmatched>>

\* The first free image is taken and overwritten.
AcquireImage ==
    /\ cpc = "check" /\ lease[1].valid
    /\ \E i \in Pool :
         /\ Free(i) /\ \A j \in 1..(i - 1) : ~Free(j)
         /\ image' = i
         /\ images' = [images EXCEPT ![i] = 0]
    /\ cpc' = "push"
    /\ UNCHANGED <<control, trigger, labels, camera, previous, toDiscard, lease, label,
                   ring, held, statistics>>

Packet == [number |-> lease[1].number, cycle |-> label, image |-> image,
           session |-> session, exposedBy |-> lease[1].cycle]

PushFrame ==
    /\ cpc = "push"
    /\ images' = [images EXCEPT ![image] = lease[1].number]
    /\ ring' = Append(IF Len(ring) = RingCapacity THEN Tail(ring) ELSE ring, Packet)
    /\ received' = received + 1
    /\ image' = 0 /\ lease' = <<>> /\ cpc' = "loop"
    /\ UNCHANGED <<control, trigger, labels, camera, previous, toDiscard, label, held,
                   drops, invalid, exhausted, unmatched>>
-----------------------------------------------------------------------------
(* Readers: whoever gets a packet from the ring keeps it for as long as it  *)
(* likes.                                                                   *)

TakePacket ==
    /\ Cardinality(held) < MaxHeld
    /\ \E p \in Elements(ring) : held' = held \cup {p}
    /\ UNCHANGED <<control, trigger, labels, camera, loop, images, ring, statistics>>

ReleasePacket ==
    /\ \E p \in held : held' = held \ {p}
    /\ UNCHANGED <<control, trigger, labels, camera, loop, images, ring, statistics>>
-----------------------------------------------------------------------------
(* stop and openAll.  The application stops its scheduler first, so that no *)
(* trigger is under way.                                                    *)

RequestStop ==
    /\ running /\ tpc = "idle"
    /\ running' = FALSE /\ stopRequested' = TRUE
    /\ UNCHANGED <<session, software, trigger, labels, camera, loop, frames, statistics>>

\* The thread is joined and the camera closed, which discards what waits in the
\* SDK; the pool lets go of its images.
StopJoins ==
    /\ stopRequested /\ cpc = "ended"
    /\ cpc' = "stopped"
    /\ sdk' = <<>>
    /\ UNCHANGED <<control, trigger, labels, nextNumber, lost, previous, toDiscard,
                   lease, label, image, frames, statistics>>

\* openAll and startCapture: rings, labels and statistics are cleared, the pool
\* gets new images and a new thread runs captureLoop.
Reopen ==
    /\ cpc = "stopped" /\ session < MaxSessions
    /\ session' = session + 1 /\ running' = TRUE /\ stopRequested' = FALSE
    /\ labels' = <<>>
    /\ nextNumber' = FirstNumber /\ lost' = 0
    /\ cpc' = "loop" /\ previous' = 0 /\ toDiscard' = 0
    /\ images' = [i \in Pool |-> 0] /\ ring' = <<>>
    /\ received' = 0 /\ drops' = 0 /\ invalid' = 0 /\ exhausted' = 0 /\ unmatched' = 0
    /\ UNCHANGED <<software, trigger, sdk, lease, label, image, held>>
-----------------------------------------------------------------------------
TriggerStep ==
    \/ TriggerRefused \/ PushLabel \/ CommandFails \/ FrameLost
    \/ FreeRunFrameLost
    \/ \E valid \in BOOLEAN : FrameDelivered(valid) \/ FreeRunFrame(valid)

CaptureStep ==
    \/ LoopTop \/ GrabTimeout \/ GrabFrame \/ DiscardLabel \/ PopLabel
    \/ RejectFrame \/ NoImageFree \/ AcquireImage \/ PushFrame

Next ==
    \/ TriggerStep \/ CaptureStep \/ TakePacket \/ ReleasePacket
    \/ RequestStop \/ StopJoins \/ Reopen

Spec == Init /\ [][Next]_vars

\* The capture thread keeps running, and stop waits for it.
FairSpec == Spec /\ WF_vars(CaptureStep) /\ WF_vars(StopJoins)
-----------------------------------------------------------------------------
Sdk == [number : Nat, cycle : Nat, valid : BOOLEAN]
AllPackets == [number : Nat, cycle : Nat, image : Pool, session : Nat, exposedBy : Nat]

ControlTypes ==
    /\ session \in Nat /\ running \in BOOLEAN /\ stopRequested \in BOOLEAN
    /\ software \in BOOLEAN
    /\ cycle \in Nat /\ tpc \in {"idle", "command"}
    /\ cpc \in {"loop", "grab", "discard", "label", "check", "push", "ended", "stopped"}

NumberTypes ==
    /\ nextNumber \in Nat /\ lost \in Nat
    /\ previous \in Nat /\ toDiscard \in Nat /\ label \in Nat
    /\ received \in Nat /\ drops \in Nat /\ invalid \in Nat /\ exhausted \in Nat
    /\ unmatched \in Nat

QueueTypes ==
    /\ labels \in Seq(Nat) /\ Len(labels) <= QueueCapacity
    /\ sdk \in Seq(Sdk) /\ lease \in Seq(Sdk)

ImageTypes ==
    /\ image \in Pool \cup {0} /\ images \in [Pool -> Nat]
    /\ ring \in Seq(AllPackets) /\ Len(ring) <= RingCapacity
    /\ held \subseteq AllPackets

\* Every variable has its type; the queues keep their capacities.
TypeOK == ControlTypes /\ NumberTypes /\ QueueTypes /\ ImageTypes

\* trigger_cycle of a published frame is the cycle whose trigger exposed it, and
\* 0 for a frame nobody triggered, whatever frames are lost or invalid and
\* however often the cameras are reopened (the label and the frame number travel
\* separately).
TrueLabels ==
    \A p \in Elements(ring) \cup held : p.cycle = p.exposedBy

\* No image is written while a published packet refers to it
\* (acquireImageBuffer): every packet shows its own frame as long as it lives.
ImagesIntact == \A p \in Packets : images[p.image] = p.number

\* The statistics account for every frame number up to the last one grabbed.
FramesAccounted ==
    cpc \in {"loop", "grab"} /\ previous # 0 =>
        previous - FirstNumber + 1 = received + drops + invalid + exhausted

\* A full label queue, which keeps the camera from being triggered, is never
\* final: a frame is on its way that will free a label.
RefusalEnds ==
    Len(labels) = QueueCapacity /\ tpc = "idle" /\ running =>
        sdk # <<>> \/ cpc \notin {"loop", "grab"}

\* stop returns although no frame may come any more: the grab has a timeout.
StopReturns == stopRequested ~> cpc = "stopped"
-----------------------------------------------------------------------------
(* The inductive invariant behind these, for a camera that does not lose    *)
(* its first frame and does not number it 0.  The labels in the queue are   *)
(* those of the frame being processed and of the ones it overtook, then     *)
(* those of all frames exposed since, lost or not, then that of a command.  *)

InHand == {"discard", "label", "check", "push"}

\* The number of the last frame grabbed.
Base == IF previous = 0 THEN FirstNumber - 1 ELSE previous

\* Labels still to be popped for the frame being processed.
Owed == IF cpc = "discard" THEN toDiscard + 1 ELSE IF cpc = "label" THEN 1 ELSE 0

ControlInv ==
    /\ running <=> ~stopRequested
    /\ cpc \in {"ended", "stopped"} => ~running
    /\ ~running => tpc = "idle"
    /\ cpc = "discard" => toDiscard > 0
    /\ cpc = "push" => image \in Pool
    /\ IF cpc \in InHand THEN Len(lease) = 1 ELSE lease = <<>>

NumbersInv ==
    /\ previous = 0 \/ previous >= FirstNumber
    /\ cpc \in InHand => previous # 0
    /\ Base < nextNumber
    /\ lost <= MaxLost
    /\ cpc = "stopped" => sdk = <<>>
    /\ cpc # "stopped" =>
        /\ \A i \in 1..Len(sdk) : sdk[i].number > Base /\ sdk[i].number < nextNumber
        /\ \A i, j \in 1..Len(sdk) : i < j => sdk[i].number < sdk[j].number
        /\ nextNumber - 1 - Base <= lost + Len(sdk)
        /\ previous = 0 =>
              IF sdk = <<>> THEN nextNumber = FirstNumber ELSE sdk[1].number = FirstNumber

LabelsInv ==
    /\ software =>
        /\ Len(labels) = Owed + (nextNumber - 1 - Base) + (IF tpc = "command" THEN 1 ELSE 0)
        /\ tpc = "command" => labels[Len(labels)] = cycle
        /\ cpc \in {"discard", "label"} => labels[Owed] = lease[1].cycle
        /\ cpc # "stopped" =>
              \A i \in 1..Len(sdk) : labels[Owed + (sdk[i].number - Base)] = sdk[i].cycle
    /\ ~software =>
        /\ labels = <<>> /\ tpc = "idle"
        /\ cpc \in InHand => lease[1].cycle = 0
        /\ \A i \in 1..Len(sdk) : sdk[i].cycle = 0
    /\ cpc \in {"check", "push"} => label = lease[1].cycle

AccountInv ==
    Base + 1 = FirstNumber + received + drops + invalid + exhausted
                 + (IF cpc \in InHand THEN 1 ELSE 0)

PoolInv ==
    /\ \A p \in Elements(ring) \cup held : p.session <= session
    /\ cpc = "push" => Free(image)
    /\ ImagesIntact

IInv ==
    TypeOK /\ ControlInv /\ PoolInv /\ NumbersInv /\ LabelsInv /\ AccountInv /\ TrueLabels
=============================================================================
