------------------------- MODULE CameraCaptureProofs -------------------------
(***************************************************************************)
(* Proofs about CameraCapture, for every size of the queue, the ring and   *)
(* the pool, and any number of frames, losses, readers and sessions.       *)
(***************************************************************************)
EXTENDS CameraCapture, TLAPS

\* What the queue operations of this module do, by length and by index.
LEMMA SequenceFacts ==
    ASSUME NEW S, NEW q \in Seq(S), NEW v \in S
    PROVE  /\ Len(q) \in Nat
           /\ Append(q, v) \in Seq(S) /\ Len(Append(q, v)) = Len(q) + 1
           /\ Append(q, v)[Len(q) + 1] = v
           /\ \A i \in 1..Len(q) : Append(q, v)[i] = q[i] /\ q[i] \in S
           /\ q # <<>> => /\ Tail(q) \in Seq(S) /\ Len(Tail(q)) = Len(q) - 1
                          /\ Len(q) > 0 /\ Head(q) = q[1] /\ Head(q) \in S
                          /\ \A i \in 1..(Len(q) - 1) : Tail(q)[i] = q[i + 1]
  OBVIOUS

LEMMA DropLastFacts ==
    ASSUME NEW S, NEW q \in Seq(S), q # <<>>
    PROVE  /\ DropLast(q) \in Seq(S) /\ Len(DropLast(q)) = Len(q) - 1
           /\ \A i \in 1..(Len(q) - 1) : DropLast(q)[i] = q[i]
  BY DEF DropLast

-----------------------------------------------------------------------------
(* Types, and the places of the capture thread.                            *)

Types == ControlTypes /\ NumberTypes /\ QueueTypes /\ ImageTypes /\ ControlInv

LEMMA TypeInit == Init => Types
<1> SUFFICES ASSUME Init PROVE Types
  OBVIOUS
<1>1. PoolSize \in Nat /\ FirstNumber \in Nat /\ QueueCapacity \in Nat /\ RingCapacity \in Nat
  BY CapacityAssumption, CameraAssumption DEF PoolSize
<1>2. \A T : <<>> \in Seq(T) /\ Len(<<>>) = 0
  OBVIOUS
<1>3. ControlTypes /\ NumberTypes
  BY <1>1 DEF Init, ControlTypes, NumberTypes
<1>4. labels \in Seq(Nat) /\ sdk \in Seq(Sdk) /\ lease \in Seq(Sdk) /\ ring \in Seq(AllPackets)
  BY <1>2, Zenon DEF Init
<1>5. Len(labels) <= QueueCapacity /\ Len(ring) <= RingCapacity
  BY <1>1, <1>2 DEF Init
<1>6. image \in Pool \cup {0} /\ images \in [Pool -> Nat] /\ held \subseteq AllPackets
  BY DEF Init
<1>7. ControlInv
  BY DEF Init, ControlInv, InHand
<1>8. QED
  BY <1>3, <1>4, <1>5, <1>6, <1>7 DEF Types, QueueTypes, ImageTypes

\* What a step that leaves a group of variables alone keeps.
LEMMA Kept ==
    ASSUME Types
    PROVE  /\ UNCHANGED <<control, trigger, cpc>> => ControlTypes'
           /\ UNCHANGED <<labels, sdk, lease>> => QueueTypes'
           /\ UNCHANGED <<image, images, ring, held>> => ImageTypes'
           /\ UNCHANGED <<nextNumber, lost, previous, toDiscard, label, statistics>> => NumberTypes'
           /\ UNCHANGED <<control, tpc, cpc, toDiscard, lease, image>> => ControlInv'
<1>1. UNCHANGED <<control, trigger, cpc>> => ControlTypes'
  BY DEF Types, ControlTypes, control, trigger
<1>2. UNCHANGED <<labels, sdk, lease>> => QueueTypes'
  BY DEF Types, QueueTypes
<1>3. UNCHANGED <<image, images, ring, held>> => ImageTypes'
  BY DEF Types, ImageTypes
<1>4. UNCHANGED <<nextNumber, lost, previous, toDiscard, label, statistics>> => NumberTypes'
  BY DEF Types, NumberTypes, statistics
<1>5. UNCHANGED <<control, tpc, cpc, toDiscard, lease, image>> => ControlInv'
  BY DEF Types, ControlInv, control
<1>6. QED
  BY <1>1, <1>2, <1>3, <1>4, <1>5

LEMMA TypeTrigger == Types /\ TriggerStep => Types'
<1> SUFFICES ASSUME Types, TriggerStep PROVE Types'
  OBVIOUS
<1>1. QueueCapacity \in Nat
  BY CapacityAssumption
<1>2. UNCHANGED <<control, loop, frames, statistics>>
  BY DEF TriggerStep, TriggerRefused, PushLabel, CommandFails, FrameLost, FreeRunFrameLost,
         FrameDelivered, FreeRunFrame
<1>3. ImageTypes'
  BY <1>2, Kept DEF loop, frames
<1>4. cycle' \in Nat /\ nextNumber' \in Nat /\ lost' \in Nat
  <2>1. /\ cycle' \in {cycle, cycle + 1}
        /\ nextNumber' \in {nextNumber, nextNumber + 1}
        /\ lost' \in {lost, lost + 1}
    BY DEF TriggerStep, TriggerRefused, PushLabel, CommandFails, FrameLost, FreeRunFrameLost,
           FrameDelivered, FreeRunFrame, camera
  <2>2. cycle \in Nat /\ nextNumber \in Nat /\ lost \in Nat
    BY DEF Types, ControlTypes, NumberTypes
  <2>3. QED
    BY <2>1, <2>2
<1>5. tpc' \in {"idle", "command"} /\ (tpc' = "command" => tpc = "command" \/ running)
  <2>1. (tpc' = "command" /\ running) \/ tpc' = "idle" \/ tpc' = tpc
    BY DEF TriggerStep, TriggerRefused, PushLabel, CommandFails, FrameLost, FreeRunFrameLost,
           FrameDelivered, FreeRunFrame
  <2>2. QED
    BY <2>1 DEF Types, ControlTypes
<1>6. labels' \in Seq(Nat) /\ Len(labels') <= QueueCapacity
  <2>1. CASE PushLabel
    BY <1>1, <2>1, SequenceFacts DEF PushLabel, Types, QueueTypes, ControlTypes
  <2>2. CASE CommandFails
    BY <1>1, <2>2, SequenceFacts, DropLastFacts DEF CommandFails, Types, QueueTypes
  <2>3. CASE UNCHANGED labels
    BY <2>3 DEF Types, QueueTypes
  <2>4. QED
    BY <2>1, <2>2, <2>3
       DEF TriggerStep, TriggerRefused, FrameLost, FreeRunFrameLost, FrameDelivered, FreeRunFrame
<1>7. sdk' \in Seq(Sdk)
  <2>1. CASE UNCHANGED sdk
    BY <2>1 DEF Types, QueueTypes
  <2>2. CASE \E valid \in BOOLEAN : FrameDelivered(valid) \/ FreeRunFrame(valid)
    <3>1. PICK valid \in BOOLEAN :
              \/ sdk' = Append(sdk, [number |-> nextNumber, cycle |-> cycle, valid |-> valid])
              \/ sdk' = Append(sdk, [number |-> nextNumber, cycle |-> 0, valid |-> valid])
      BY <2>2 DEF FrameDelivered, FreeRunFrame
    <3>2. [number |-> nextNumber, cycle |-> cycle, valid |-> valid] \in Sdk
      BY DEF Sdk, Types, ControlTypes, NumberTypes
    <3>3. [number |-> nextNumber, cycle |-> 0, valid |-> valid] \in Sdk
      BY DEF Sdk, Types, NumberTypes
    <3>4. PICK frame \in Sdk : sdk' = Append(sdk, frame)
      BY <3>1, <3>2, <3>3
    <3>5. sdk \in Seq(Sdk)
      BY DEF Types, QueueTypes
    <3>6. QED
      BY <3>4, <3>5
  <2>3. QED
    BY <2>1, <2>2
       DEF TriggerStep, TriggerRefused, PushLabel, CommandFails, FrameLost, FreeRunFrameLost, camera
<1>8. ControlTypes' /\ NumberTypes' /\ QueueTypes'
  BY <1>2, <1>4, <1>5, <1>6, <1>7
     DEF Types, ControlTypes, NumberTypes, QueueTypes, control, loop, statistics
<1>9. ControlInv'
  BY <1>2, <1>5 DEF Types, ControlInv, ControlTypes, control, loop
<1>10. QED
  BY <1>3, <1>8, <1>9 DEF Types

\* The frame being processed.
LEMMA Leased ==
    ASSUME Types, cpc \in InHand
    PROVE  /\ lease \in Seq(Sdk) /\ Len(lease) = 1 /\ lease[1] \in Sdk
           /\ lease[1].number \in Nat /\ lease[1].cycle \in Nat /\ lease[1].valid \in BOOLEAN
<1>1. lease \in Seq(Sdk) /\ Len(lease) = 1
  BY DEF Types, QueueTypes, ControlInv
<1>2. lease[1] \in Sdk
  <2>1. \A i \in 1..Len(lease) : lease[i] \in Sdk
    BY <1>1
  <2>2. 1 \in 1..Len(lease)
    BY <1>1
  <2>3. QED
    BY <2>1, <2>2
<1>3. QED
  BY <1>1, <1>2 DEF Sdk

LEMMA TypeGrab == Types /\ GrabFrame => Types'
<1> SUFFICES ASSUME Types, GrabFrame PROVE Types'
  OBVIOUS
<1>1. sdk \in Seq(Sdk) /\ sdk # <<>>
  BY DEF GrabFrame, Types, QueueTypes
<1>2. sdk' \in Seq(Sdk) /\ Head(sdk) \in Sdk /\ Head(sdk).number \in Nat
  <2>1. sdk' \in Seq(Sdk) /\ Head(sdk) \in Sdk
    BY <1>1 DEF GrabFrame
  <2>2. QED
    BY <2>1 DEF Sdk
<1>3. Missing(Head(sdk).number) \in Nat
  BY <1>2 DEF Missing, Types, NumberTypes
<1>4. lease' \in Seq(Sdk) /\ Len(lease') = 1
  BY <1>2 DEF GrabFrame
<1>5. /\ toDiscard' = Missing(Head(sdk).number)
      /\ drops' = drops + Missing(Head(sdk).number)
      /\ previous' = Head(sdk).number
      /\ cpc' = IF Missing(Head(sdk).number) > 0 THEN "discard" ELSE "label"
      /\ UNCHANGED <<control, trigger, labels, nextNumber, lost, label, image, frames,
                     received, invalid, exhausted, unmatched>>
  BY DEF GrabFrame
<1>6. ControlTypes' /\ NumberTypes' /\ QueueTypes'
  BY <1>2, <1>3, <1>4, <1>5
     DEF Types, ControlTypes, NumberTypes, QueueTypes, control, trigger
<1>7. ImageTypes'
  BY <1>5, Kept DEF frames
<1>8. ControlInv'
  BY <1>3, <1>4, <1>5, <1>6 DEF Types, ControlInv, ControlTypes, InHand, control, trigger, GrabFrame
<1>9. QED
  BY <1>6, <1>7, <1>8 DEF Types

LEMMA TypeLabels == Types /\ (DiscardLabel \/ PopLabel) => Types'
<1> SUFFICES ASSUME Types, DiscardLabel \/ PopLabel PROVE Types'
  OBVIOUS
<1>1. /\ UNCHANGED <<control, trigger, camera, previous, lease, image, frames>>
      /\ UNCHANGED <<received, drops, invalid, exhausted>>
      /\ cpc \in InHand
  BY DEF DiscardLabel, PopLabel, loop, statistics, InHand
<1>2. ImageTypes'
  BY <1>1, Kept DEF frames
<1>3. labels \in Seq(Nat) /\ Len(labels) <= QueueCapacity
  BY DEF Types, QueueTypes
<1>4. labels' \in Seq(Nat) /\ Len(labels') <= QueueCapacity
      /\ (labels # <<>> => Head(labels) \in Nat)
  <2>1. labels # <<>> => /\ Tail(labels) \in Seq(Nat) /\ Len(Tail(labels)) = Len(labels) - 1
                         /\ Head(labels) \in Nat
    BY <1>3
  <2>2. labels' = labels \/ (labels # <<>> /\ labels' = Tail(labels))
    BY DEF DiscardLabel, PopLabel
  <2>3. Len(labels) \in Nat /\ QueueCapacity \in Nat
    BY <1>3, CapacityAssumption
  <2>4. QED
    BY <1>3, <2>1, <2>2, <2>3
<1>5. toDiscard' \in Nat /\ label' \in Nat /\ unmatched' \in Nat
      /\ cpc' \in {"discard", "label", "check"} /\ (cpc' = "discard" => toDiscard' > 0)
  <2>1. toDiscard \in Nat /\ label \in Nat /\ unmatched \in Nat /\ (labels = <<>> \/ labels # <<>>)
    BY DEF Types, NumberTypes
  <2>2. CASE DiscardLabel
    <3>1. cpc = "discard" /\ toDiscard > 0
      BY <2>2 DEF DiscardLabel, Types, ControlInv
    <3>2. UNCHANGED <<label, unmatched>> /\ toDiscard' = toDiscard - 1
      BY <2>2 DEF DiscardLabel, statistics
    <3>3. cpc' = IF labels = <<>> \/ toDiscard = 1 THEN "label" ELSE "discard"
      BY <2>2 DEF DiscardLabel
    <3>4. QED
      BY <2>1, <3>1, <3>2, <3>3
  <2>3. CASE PopLabel
    BY <1>4, <2>1, <2>3 DEF PopLabel
  <2>4. QED
    BY <2>2, <2>3
<1>6. ControlTypes' /\ NumberTypes' /\ QueueTypes'
  BY <1>1, <1>4, <1>5
     DEF Types, ControlTypes, NumberTypes, QueueTypes, control, trigger, camera
<1>7. ControlInv'
  BY <1>1, <1>5 DEF Types, ControlInv, ControlTypes, InHand, control, trigger
<1>8. QED
  BY <1>2, <1>6, <1>7 DEF Types

LEMMA TypeLoop == Types /\ (LoopTop \/ GrabTimeout) => Types'
<1> SUFFICES ASSUME Types, LoopTop \/ GrabTimeout PROVE Types'
  OBVIOUS
<1>1. UNCHANGED <<control, trigger, labels, camera, previous, toDiscard, lease, label, image,
                  frames, statistics>>
  BY DEF LoopTop, GrabTimeout
<1>2. /\ cpc \in {"loop", "grab"} /\ cpc' \in {"loop", "grab", "ended"}
      /\ cpc' = "ended" => stopRequested
  BY DEF LoopTop, GrabTimeout
<1>3. QueueTypes' /\ ImageTypes' /\ NumberTypes'
  BY <1>1, Kept DEF camera, frames
<1>4. ControlTypes' /\ ControlInv'
  BY <1>1, <1>2 DEF Types, ControlTypes, ControlInv, InHand, control, trigger
<1>5. QED
  BY <1>3, <1>4 DEF Types

LEMMA TypeReject == Types /\ (RejectFrame \/ NoImageFree \/ PushFrame) => Types'
<1> SUFFICES ASSUME Types, RejectFrame \/ NoImageFree \/ PushFrame PROVE Types'
  OBVIOUS
<1>1. /\ UNCHANGED <<control, trigger, labels, camera, previous, toDiscard, label, held,
                     drops, unmatched>>
      /\ cpc \in InHand /\ cpc' = "loop" /\ lease' = <<>>
  BY DEF RejectFrame, NoImageFree, PushFrame, frames, statistics, InHand
<1>2. received' \in Nat /\ invalid' \in Nat /\ exhausted' \in Nat
  BY DEF RejectFrame, NoImageFree, PushFrame, Types, NumberTypes
<1>3. ControlTypes' /\ NumberTypes' /\ ControlInv'
  BY <1>1, <1>2
     DEF Types, ControlTypes, NumberTypes, ControlInv, InHand, control, trigger, camera
<1>4. QueueTypes'
  BY <1>1 DEF Types, QueueTypes, camera
<1>5. ImageTypes'
  <2>1. CASE UNCHANGED <<image, images, ring>>
    BY <1>1, <2>1 DEF Types, ImageTypes
  <2>2. CASE PushFrame
    <3>1. Packet \in AllPackets
      <4>1. lease[1].number \in Nat /\ lease[1].cycle \in Nat
        BY <1>1, Leased
      <4>2. image \in Pool
        BY <2>2 DEF PushFrame, Types, ControlInv
      <4>3. QED
        BY <4>1, <4>2 DEF Packet, AllPackets, Types, ControlTypes, NumberTypes
    <3>2. ring \in Seq(AllPackets) /\ Len(ring) <= RingCapacity /\ RingCapacity \in Nat \ {0}
      BY CapacityAssumption DEF Types, ImageTypes
    <3>3. /\ Len(ring) = RingCapacity => Tail(ring) \in Seq(AllPackets)
                                        /\ Len(Tail(ring)) = Len(ring) - 1
          /\ Len(ring) \in Nat
      BY <3>2
    <3>4. PICK rest \in Seq(AllPackets) :
              /\ ring' = Append(rest, Packet)
              /\ Len(rest) < RingCapacity
      <4>1. ring' = Append(IF Len(ring) = RingCapacity THEN Tail(ring) ELSE ring, Packet)
        BY <2>2 DEF PushFrame
      <4>2. CASE Len(ring) = RingCapacity
        <5>1. Tail(ring) \in Seq(AllPackets) /\ Len(Tail(ring)) < RingCapacity
          BY <3>2, <3>3, <4>2
        <5>2. ring' = Append(Tail(ring), Packet)
          BY <4>1, <4>2
        <5>3. QED
          BY <5>1, <5>2
      <4>3. CASE Len(ring) # RingCapacity
        BY <3>2, <3>3, <4>1, <4>3
      <4>4. QED
        BY <4>2, <4>3
    <3>5. ring' \in Seq(AllPackets) /\ Len(ring') <= RingCapacity
      BY <3>1, <3>2, <3>4
    <3>6. image' \in Pool \cup {0} /\ images' \in [Pool -> Nat]
      BY <1>1, <2>2, Leased DEF PushFrame, Types, ImageTypes
    <3>7. QED
      BY <1>1, <3>5, <3>6 DEF Types, ImageTypes
  <2>3. QED
    BY <2>1, <2>2 DEF RejectFrame, NoImageFree, frames
<1>6. QED
  BY <1>3, <1>4, <1>5 DEF Types

LEMMA TypeAcquire == Types /\ AcquireImage => Types'
<1> SUFFICES ASSUME Types, AcquireImage PROVE Types'
  OBVIOUS
<1>1. /\ UNCHANGED <<control, trigger, labels, camera, previous, toDiscard, lease, label,
                     ring, held, statistics>>
      /\ cpc = "check" /\ cpc' = "push"
  BY DEF AcquireImage
<1>2. PICK i \in Pool : image' = i /\ images' = [images EXCEPT ![i] = 0]
  BY DEF AcquireImage
<1>3. image' \in Pool /\ images' \in [Pool -> Nat]
  BY <1>2 DEF Types, ImageTypes
<1>4. ControlTypes' /\ ControlInv'
  BY <1>1, <1>3 DEF Types, ControlTypes, ControlInv, InHand, control, trigger
<1>5. NumberTypes' /\ QueueTypes'
  BY <1>1, Kept DEF camera
<1>6. ImageTypes'
  BY <1>1, <1>3 DEF Types, ImageTypes
<1>7. QED
  BY <1>4, <1>5, <1>6 DEF Types

LEMMA TypeReaders == Types /\ (TakePacket \/ ReleasePacket) => Types'
<1> SUFFICES ASSUME Types, TakePacket \/ ReleasePacket PROVE Types'
  OBVIOUS
<1>1. UNCHANGED <<control, trigger, labels, camera, loop, images, ring, statistics>>
  BY DEF TakePacket, ReleasePacket
<1>2. Elements(ring) \subseteq AllPackets
  BY DEF Types, ImageTypes, Elements
<1>3. held' \subseteq AllPackets
  BY <1>2 DEF TakePacket, ReleasePacket, Types, ImageTypes
<1>4. ControlTypes' /\ NumberTypes' /\ QueueTypes' /\ ControlInv'
  BY <1>1, Kept DEF camera, loop, control, trigger
<1>5. QED
  BY <1>1, <1>3, <1>4 DEF Types, ImageTypes, loop

LEMMA TypeStop == Types /\ (RequestStop \/ StopJoins \/ Reopen) => Types'
<1> SUFFICES ASSUME Types, RequestStop \/ StopJoins \/ Reopen PROVE Types'
  OBVIOUS
<1>1. \A T : <<>> \in Seq(T) /\ Len(<<>>) = 0
  OBVIOUS
<1>2. CASE RequestStop
  <2>1. UNCHANGED <<session, software, trigger, labels, camera, loop, frames, statistics>>
        /\ running' = FALSE /\ stopRequested' = TRUE /\ tpc = "idle"
    BY <1>2 DEF RequestStop
  <2>2. NumberTypes' /\ QueueTypes' /\ ImageTypes'
    BY <2>1, Kept DEF camera, loop, frames
  <2>3. ControlTypes' /\ ControlInv'
    BY <2>1 DEF Types, ControlTypes, ControlInv, loop, trigger
  <2>4. QED
    BY <2>2, <2>3 DEF Types
<1>3. CASE StopJoins
  <2>1. /\ UNCHANGED <<control, trigger, labels, nextNumber, lost, previous, toDiscard,
                       lease, label, image, frames, statistics>>
        /\ cpc = "ended" /\ cpc' = "stopped" /\ sdk' = <<>>
    BY <1>3 DEF StopJoins
  <2>2. NumberTypes' /\ ImageTypes'
    BY <2>1, Kept DEF frames
  <2>3. QueueTypes'
    BY <1>1, <2>1 DEF Types, QueueTypes
  <2>4. ControlTypes' /\ ControlInv'
    BY <2>1 DEF Types, ControlTypes, ControlInv, InHand, control, trigger
  <2>5. QED
    BY <2>2, <2>3, <2>4 DEF Types
<1>4. CASE Reopen
  <2>1. QueueTypes'
    <3>1. labels' = <<>> /\ UNCHANGED <<sdk, lease>>
      BY <1>4 DEF Reopen
    <3>2. QED
      BY <1>1, <3>1, CapacityAssumption DEF Types, QueueTypes
  <2>2. ImageTypes'
    <3>1. ring' = <<>> /\ images' = [i \in Pool |-> 0] /\ UNCHANGED <<image, held>>
      BY <1>4 DEF Reopen
    <3>2. images' \in [Pool -> Nat]
      BY <3>1
    <3>3. QED
      BY <1>1, <3>1, <3>2, CapacityAssumption DEF Types, ImageTypes
  <2>3. NumberTypes' /\ ControlTypes'
    <3>1. NumberTypes'
      BY <1>4, CameraAssumption DEF Reopen, Types, NumberTypes
    <3>2. ControlTypes'
      <4>1. /\ session' = session + 1 /\ running' = TRUE /\ stopRequested' = FALSE
            /\ cpc' = "loop" /\ UNCHANGED <<software, cycle, tpc>>
        BY <1>4 DEF Reopen, trigger
      <4>2. session' \in Nat
        BY <4>1 DEF Types, ControlTypes
      <4>3. cpc' \in {"loop", "grab", "discard", "label", "check", "push", "ended", "stopped"}
        BY <4>1
      <4>4. QED
        BY <4>1, <4>2, <4>3, Zenon DEF Types, ControlTypes
    <3>3. QED
      BY <3>1, <3>2
  <2>4. ControlInv'
    BY <1>4 DEF Reopen, Types, ControlInv, InHand, trigger
  <2>5. QED
    BY <2>1, <2>2, <2>3, <2>4 DEF Types
<1>5. QED
  BY <1>2, <1>3, <1>4

LEMMA TypeStep == Types /\ [Next]_vars => Types'
<1> SUFFICES ASSUME Types, [Next]_vars PROVE Types'
  OBVIOUS
<1>1. CASE UNCHANGED vars
  BY <1>1, Kept DEF vars, control, trigger, camera, loop, frames, Types
<1>2. CASE CaptureStep
  BY <1>2, TypeLoop, TypeGrab, TypeLabels, TypeReject, TypeAcquire DEF CaptureStep
<1>3. QED
  BY <1>1, <1>2, TypeTrigger, TypeReaders, TypeStop DEF Next

\* Every variable has its type, and the label queue and the ring keep their
\* capacities, in every trigger mode and however the camera numbers its frames.
THEOREM TypeCorrect == Spec => []TypeOK
<1>1. Types => TypeOK
  BY DEF Types, TypeOK
<1>2. QED
  BY <1>1, TypeInit, TypeStep, PTL DEF Spec

-----------------------------------------------------------------------------
(* The pool: an image some packet of the session refers to is not the one  *)
(* being written.                                                          *)

\* What a packet from the ring or a reader may be.
Shown == Elements(ring) \cup held

LEMMA PoolInit == Init => PoolInv
  BY DEF Init, PoolInv, Elements, Packets, ImagesIntact

\* A step that adds no packet and writes no image keeps the invariant, as long
\* as the image being written is free.
LEMMA PoolKept ==
    ASSUME Types, Types', PoolInv, UNCHANGED <<session, images>>, Shown' \subseteq Shown,
           cpc' = "push" => cpc = "push" /\ UNCHANGED image
    PROVE  PoolInv'
<1>1. Packets' \subseteq Packets
  BY DEF Packets, Shown
<1>2. ImagesIntact'
  BY <1>1 DEF PoolInv, ImagesIntact
<1>3. cpc' = "push" => Free(image)'
  BY <1>1 DEF PoolInv, Free
<1>4. \A p \in Shown' : p.session <= session'
  BY DEF PoolInv, Shown
<1>5. QED
  BY <1>2, <1>3, <1>4 DEF PoolInv, Shown

\* Appending to the ring, full or not, adds the packet and nothing else.
LEMMA RingElements ==
    ASSUME NEW S, NEW r \in Seq(S), NEW p \in S
    PROVE  /\ Elements(Append(r, p)) \subseteq Elements(r) \cup {p}
           /\ r # <<>> => Elements(Append(Tail(r), p)) \subseteq Elements(r) \cup {p}
<1>1. \A q \in Seq(S) : Elements(Append(q, p)) \subseteq Elements(q) \cup {p}
  BY DEF Elements
<1>2. r # <<>> => Tail(r) \in Seq(S) /\ Elements(Tail(r)) \subseteq Elements(r)
  <2>1. SUFFICES ASSUME r # <<>> PROVE Tail(r) \in Seq(S) /\ Elements(Tail(r)) \subseteq Elements(r)
    OBVIOUS
  <2>2. Tail(r) \in Seq(S) /\ Len(r) \in Nat /\ Len(Tail(r)) = Len(r) - 1
    BY <2>1
  <2>3. \A i \in 1..(Len(r) - 1) : Tail(r)[i] = r[i + 1] /\ i + 1 \in 1..Len(r)
    BY <2>1
  <2>4. QED
    BY <2>2, <2>3 DEF Elements
<1>3. QED
  BY <1>1, <1>2

LEMMA PoolPush == Types /\ Types' /\ PoolInv /\ PushFrame => PoolInv'
<1> SUFFICES ASSUME Types, Types', PoolInv, PushFrame PROVE PoolInv'
  OBVIOUS
<1>1. /\ UNCHANGED <<session, held>> /\ cpc = "push" /\ cpc' = "loop"
      /\ images' = [images EXCEPT ![image] = lease[1].number]
      /\ ring' = Append(IF Len(ring) = RingCapacity THEN Tail(ring) ELSE ring, Packet)
      /\ image \in Pool /\ Free(image)
  BY DEF PushFrame, control, PoolInv, Types, ControlInv
<1>2. /\ Packet.image = image /\ Packet.number = lease[1].number /\ Packet.session = session
      /\ Packet \in AllPackets
  <2>1. lease[1].number \in Nat /\ lease[1].cycle \in Nat
    BY <1>1, Leased DEF InHand
  <2>2. QED
    BY <1>1, <2>1 DEF Packet, AllPackets, Types, ControlTypes, NumberTypes
<1>3. ring \in Seq(AllPackets) /\ (Len(ring) = RingCapacity => ring # <<>>)
  BY CapacityAssumption DEF Types, ImageTypes
<1>4. Elements(ring)' \subseteq Elements(ring) \cup {Packet}
  BY <1>1, <1>2, <1>3, RingElements DEF Elements
<1>5. Packets' \subseteq Packets \cup {Packet}
  BY <1>1, <1>4 DEF Packets
<1>6. \A p \in Packets : p.image # image /\ images[p.image] = p.number /\ p.image \in Pool
  <2>1. Packets \subseteq AllPackets
    BY <1>3 DEF Packets, Elements, Types, ImageTypes
  <2>2. QED
    BY <1>1, <2>1 DEF Free, PoolInv, ImagesIntact, AllPackets
<1>7. images \in [Pool -> Nat]
  BY DEF Types, ImageTypes
<1>8. ImagesIntact'
  BY <1>1, <1>2, <1>5, <1>6, <1>7 DEF ImagesIntact
<1>9. \A p \in (Elements(ring) \cup held)' : p.session <= session'
  BY <1>1, <1>2, <1>4 DEF PoolInv, Types, ControlTypes
<1>10. QED
  BY <1>1, <1>8, <1>9 DEF PoolInv

LEMMA PoolAcquire == Types /\ Types' /\ PoolInv /\ AcquireImage => PoolInv'
<1> SUFFICES ASSUME Types, Types', PoolInv, AcquireImage PROVE PoolInv'
  OBVIOUS
<1>1. UNCHANGED <<session, ring, held>>
  BY DEF AcquireImage, control
<1>2. PICK i \in Pool : Free(i) /\ image' = i /\ images' = [images EXCEPT ![i] = 0]
  BY DEF AcquireImage
<1>3. Packets' = Packets
  BY <1>1 DEF Packets, Elements
<1>4. Packets \subseteq AllPackets
  BY DEF Packets, Elements, Types, ImageTypes
<1>5. \A p \in Packets : p.image # i /\ p.image \in Pool /\ images[p.image] = p.number
  BY <1>2, <1>4 DEF Free, PoolInv, ImagesIntact, AllPackets
<1>6. images \in [Pool -> Nat]
  BY DEF Types, ImageTypes
<1>7. ImagesIntact'
  BY <1>2, <1>3, <1>5, <1>6 DEF ImagesIntact
<1>8. Free(image)'
  BY <1>2, <1>3, <1>5 DEF Free
<1>9. QED
  BY <1>1, <1>7, <1>8 DEF PoolInv, Elements

\* The images of a session are new, and no packet is one of it.
LEMMA PoolReopen == Types /\ Types' /\ PoolInv /\ Reopen => PoolInv'
<1> SUFFICES ASSUME Types, Types', PoolInv, Reopen PROVE PoolInv'
  OBVIOUS
<1>1. session' = session + 1 /\ ring' = <<>> /\ UNCHANGED held /\ cpc' = "loop" /\ session \in Nat
  BY DEF Reopen, Types, ControlTypes
<1>2. Elements(ring)' = {}
  BY <1>1 DEF Elements
<1>3. \A p \in held : p.session <= session /\ p.session \in Nat
  BY DEF PoolInv, Types, ImageTypes, AllPackets
<1>4. Packets' = {}
  BY <1>1, <1>2, <1>3 DEF Packets
<1>5. \A p \in (Elements(ring) \cup held)' : p.session <= session'
  BY <1>1, <1>2, <1>3
<1>6. QED
  BY <1>1, <1>4, <1>5 DEF PoolInv, ImagesIntact

LEMMA PoolStep == Types /\ Types' /\ PoolInv /\ [Next]_vars => PoolInv'
<1> SUFFICES ASSUME Types, Types', PoolInv, [Next]_vars PROVE PoolInv'
  OBVIOUS
<1>1. CASE TriggerStep
  <2>1. UNCHANGED <<control, loop, frames>>
    BY <1>1 DEF TriggerStep, TriggerRefused, PushLabel, CommandFails, FrameLost, FreeRunFrameLost,
           FrameDelivered, FreeRunFrame
  <2>2. QED
    BY <2>1, PoolKept DEF control, loop, frames, Shown, Elements
<1>2. CASE LoopTop \/ GrabTimeout \/ GrabFrame \/ DiscardLabel \/ PopLabel
  <2>1. UNCHANGED <<control, frames>> /\ cpc' # "push"
    BY <1>2 DEF LoopTop, GrabTimeout, GrabFrame, DiscardLabel, PopLabel
  <2>2. QED
    BY <2>1, PoolKept DEF control, frames, Shown, Elements
<1>3. CASE RejectFrame \/ NoImageFree
  <2>1. UNCHANGED <<control, frames>> /\ cpc' # "push"
    BY <1>3 DEF RejectFrame, NoImageFree
  <2>2. QED
    BY <2>1, PoolKept DEF control, frames, Shown, Elements
<1>4. CASE TakePacket \/ ReleasePacket
  <2>1. UNCHANGED <<control, loop, images, ring>> /\ held' \subseteq held \cup Elements(ring)
    BY <1>4 DEF TakePacket, ReleasePacket
  <2>2. QED
    BY <2>1, PoolKept DEF control, loop, Shown, Elements
<1>5. CASE RequestStop \/ StopJoins
  <2>1. UNCHANGED <<session, frames>> /\ (cpc' = "push" => UNCHANGED <<cpc, image>>)
    BY <1>5 DEF RequestStop, StopJoins, loop, control
  <2>2. QED
    BY <2>1, PoolKept DEF frames, Shown, Elements
<1>6. CASE UNCHANGED vars
  BY <1>6, PoolKept DEF vars, control, loop, frames, Shown, Elements
<1>7. QED
  BY <1>1, <1>2, <1>3, <1>4, <1>5, <1>6, PoolPush, PoolAcquire, PoolReopen DEF Next, CaptureStep

\* No image is written while a packet of the session refers to it, whoever
\* keeps packets for however long.
THEOREM ImagesSafe == Spec => []ImagesIntact
<1>1. PoolInv => ImagesIntact
  BY DEF PoolInv
<1>2. QED
  BY <1>1, TypeInit, TypeStep, PoolInit, PoolStep, PTL DEF Spec

-----------------------------------------------------------------------------
(* Frame numbers, for a camera that does not lose its first frame and does *)
(* not number it 0.                                                        *)

Regular == FirstNumber > 0 /\ ~EarlyLoss

LEMMA NumbersInit == Regular /\ Init => NumbersInv
  BY CameraAssumption, BoundsAssumption DEF Regular, Init, NumbersInv, Base, InHand

\* What the numbers depend on.
LEMMA NumbersKept ==
    ASSUME NumbersInv, UNCHANGED <<previous, nextNumber, lost, sdk>>,
           cpc' \in InHand => cpc \in InHand, cpc = "stopped" <=> cpc' = "stopped"
    PROVE  NumbersInv'
  BY DEF NumbersInv, Base

\* A frame is exposed: it has the next number, and gets to the SDK or is lost.
LEMMA NumbersExposed ==
    ASSUME Types, NumbersInv, cpc # "stopped", UNCHANGED <<previous, cpc>>,
           nextNumber' = nextNumber + 1,
           \/ /\ UNCHANGED lost
              /\ \E frame \in Sdk : sdk' = Append(sdk, frame) /\ frame.number = nextNumber
           \/ /\ lost' = lost + 1 /\ lost < MaxLost
              /\ UNCHANGED sdk /\ nextNumber > FirstNumber
    PROVE  NumbersInv'
<1>1. /\ sdk \in Seq(Sdk) /\ Len(sdk) \in Nat /\ \A i \in 1..Len(sdk) : sdk[i].number \in Nat
      /\ sdk = <<>> <=> Len(sdk) = 0
      /\ nextNumber \in Nat /\ lost \in Nat /\ previous \in Nat
      /\ FirstNumber \in Nat /\ MaxLost \in Nat /\ Base \in Int
  <2>1. sdk \in Seq(Sdk) /\ \A i \in 1..Len(sdk) : sdk[i] \in Sdk
    BY DEF Types, QueueTypes
  <2>2. \A i \in 1..Len(sdk) : sdk[i].number \in Nat
    BY <2>1 DEF Sdk
  <2>3. QED
    BY <2>1, <2>2, CameraAssumption, BoundsAssumption DEF Types, NumberTypes, Base
<1>2. Base' = Base
  BY DEF Base
<1>3. CASE UNCHANGED sdk
  <2>1. nextNumber > FirstNumber /\ lost' = lost + 1 /\ lost < MaxLost
    <3>1. sdk' = sdk /\ ~ \E frame \in Sdk : sdk' = Append(sdk, frame)
      BY <1>1, <1>3
    <3>2. QED
      BY <3>1
  <2>2. QED
    BY <1>1, <1>2, <1>3, <2>1 DEF NumbersInv
<1>4. CASE \E frame \in Sdk : sdk' = Append(sdk, frame) /\ frame.number = nextNumber
  <2>1. PICK frame \in Sdk : sdk' = Append(sdk, frame) /\ frame.number = nextNumber
    BY <1>4
  <2>2. UNCHANGED lost
    BY <1>1, <2>1
  <2>3. /\ Len(sdk') = Len(sdk) + 1 /\ sdk'[Len(sdk) + 1].number = nextNumber
        /\ \A i \in 1..Len(sdk) : sdk'[i] = sdk[i]
        /\ sdk' # <<>>
    BY <1>1, <2>1
  <2>4. \A i \in 1..Len(sdk') : i \in 1..Len(sdk) \/ i = Len(sdk) + 1
    BY <1>1, <2>3
  <2>5. /\ \A i \in 1..Len(sdk) : sdk[i].number > Base /\ sdk[i].number < nextNumber
        /\ \A i, j \in 1..Len(sdk) : i < j => sdk[i].number < sdk[j].number
        /\ Base < nextNumber
    BY <1>4 DEF NumbersInv
  <2>6. \A i \in 1..Len(sdk') : sdk'[i].number > Base /\ sdk'[i].number < nextNumber + 1
    BY <1>1, <2>3, <2>4, <2>5
  <2>7. \A i, j \in 1..Len(sdk') : i < j => sdk'[i].number < sdk'[j].number
    BY <1>1, <2>3, <2>4, <2>5
  <2>8. previous = 0 => sdk'[1].number = FirstNumber
    <3>1. CASE sdk = <<>>
      BY <1>1, <1>4, <2>3, <3>1 DEF NumbersInv
    <3>2. CASE sdk # <<>>
      BY <1>1, <1>4, <2>3, <3>2 DEF NumbersInv
    <3>3. QED
      BY <3>1, <3>2
  <2>9. QED
    BY <1>1, <1>2, <1>4, <2>2, <2>3, <2>6, <2>7, <2>8 DEF NumbersInv
<1>5. QED
  BY <1>3, <1>4

\* The frame grabbed follows the last one, in number, by those missing.
LEMMA Grabbed ==
    ASSUME Regular, Types, NumbersInv, GrabFrame
    PROVE  /\ previous' \in Nat /\ previous' = Head(sdk).number /\ Base' = previous'
           /\ Base \in Int /\ previous' > Base /\ previous' >= FirstNumber
           /\ Missing(Head(sdk).number) = previous' - Base - 1
           /\ Owed' = previous' - Base /\ Owed = 0
           /\ sdk # <<>> /\ sdk \in Seq(Sdk) /\ Len(sdk) \in Nat \ {0} /\ Len(sdk') = Len(sdk) - 1
           /\ \A i \in 1..Len(sdk') : sdk'[i] = sdk[i + 1] /\ i + 1 \in 1..Len(sdk)
           /\ Head(sdk) = sdk[1] /\ 1 \in 1..Len(sdk)
           /\ \A i \in 1..Len(sdk) : sdk[i].number \in Nat
<1>1. sdk # <<>> /\ sdk \in Seq(Sdk) /\ sdk' = Tail(sdk)
  BY DEF GrabFrame, Types, QueueTypes
<1>2. /\ Len(sdk) \in Nat \ {0} /\ Len(sdk') = Len(sdk) - 1
      /\ Head(sdk) = sdk[1] /\ 1 \in 1..Len(sdk)
      /\ \A i \in 1..Len(sdk') : sdk'[i] = sdk[i + 1] /\ i + 1 \in 1..Len(sdk)
      /\ \A i \in 1..Len(sdk) : sdk[i] \in Sdk
  BY <1>1
<1>3. \A i \in 1..Len(sdk) : sdk[i].number \in Nat
  BY <1>2 DEF Sdk
<1>4. previous' = Head(sdk).number /\ previous' \in Nat
  BY <1>2, <1>3 DEF GrabFrame
<1>5. previous \in Nat /\ FirstNumber \in Nat \ {0} /\ Base \in Int
  BY CameraAssumption DEF Types, NumberTypes, Regular, Base
<1>6. previous' > Base /\ (previous = 0 => previous' = FirstNumber)
  BY <1>1, <1>2, <1>4 DEF NumbersInv, GrabFrame
<1>7. previous' >= FirstNumber /\ Base' = previous'
  BY <1>4, <1>5, <1>6 DEF Base, NumbersInv
<1>8. Missing(Head(sdk).number) = previous' - Base - 1
  BY <1>4, <1>5, <1>6 DEF Missing, Base
<1>9. Owed' = previous' - Base
  <2>1. /\ toDiscard' = previous' - Base - 1
        /\ cpc' = IF previous' - Base - 1 > 0 THEN "discard" ELSE "label"
    BY <1>8 DEF GrabFrame
  <2>2. QED
    BY <1>4, <1>5, <1>6, <2>1 DEF Owed
<1>10. Owed = 0
  BY DEF Owed, GrabFrame
<1>11. QED
  BY <1>1, <1>2, <1>3, <1>4, <1>5, <1>6, <1>7, <1>8, <1>9, <1>10

LEMMA NumbersGrab == Regular /\ Types /\ NumbersInv /\ GrabFrame => NumbersInv'
<1> SUFFICES ASSUME Regular, Types, NumbersInv, GrabFrame PROVE NumbersInv'
  OBVIOUS
<1>1. UNCHANGED <<nextNumber, lost>> /\ cpc # "stopped" /\ cpc' # "stopped"
  BY DEF GrabFrame
<1>2. /\ nextNumber \in Nat /\ lost \in Nat /\ FirstNumber \in Nat \ {0}
  BY CameraAssumption DEF Types, NumberTypes, Regular
<1>3. /\ \A i \in 1..Len(sdk) : sdk[i].number > Base /\ sdk[i].number < nextNumber
      /\ \A i, j \in 1..Len(sdk) : i < j => sdk[i].number < sdk[j].number
      /\ nextNumber - 1 - Base <= lost + Len(sdk)
      /\ lost <= MaxLost
  BY <1>1 DEF NumbersInv
<1>4. \A i \in 1..Len(sdk') : sdk'[i].number > previous' /\ sdk'[i].number < nextNumber
  <2>1. \A i \in 1..Len(sdk') : sdk'[i] = sdk[i + 1] /\ i + 1 \in 1..Len(sdk) /\ 1 < i + 1
    BY Grabbed
  <2>2. previous' = sdk[1].number /\ 1 \in 1..Len(sdk)
    BY Grabbed
  <2>3. QED
    BY <1>3, <2>1, <2>2
<1>5. \A i, j \in 1..Len(sdk') : i < j => sdk'[i].number < sdk'[j].number
  <2>1. \A i \in 1..Len(sdk') : sdk'[i] = sdk[i + 1] /\ i + 1 \in 1..Len(sdk)
    BY Grabbed
  <2>2. \A i, j \in 1..Len(sdk') : i < j => i + 1 < j + 1
    OBVIOUS
  <2>3. QED
    BY <1>3, <2>1, <2>2
<1>6. previous' # 0 /\ previous' >= FirstNumber /\ previous' < nextNumber
  BY <1>2, <1>3, Grabbed
<1>7. nextNumber - 1 - previous' <= lost + Len(sdk')
  <2>1. previous' > Base /\ Len(sdk') = Len(sdk) - 1 /\ Len(sdk) \in Nat
        /\ previous' \in Nat /\ Base \in Int
    BY Grabbed
  <2>2. QED
    BY <1>2, <1>3, <2>1
<1>8. Base' = previous'
  BY Grabbed
<1>9. QED
  BY <1>1, <1>3, <1>4, <1>5, <1>6, <1>7, <1>8 DEF NumbersInv

LEMMA NumbersStep == Regular /\ Types /\ Types' /\ NumbersInv /\ [Next]_vars => NumbersInv'
<1> SUFFICES ASSUME Regular, Types, Types', NumbersInv, [Next]_vars PROVE NumbersInv'
  OBVIOUS
<1>1. CASE TriggerRefused \/ PushLabel \/ CommandFails
  <2>1. UNCHANGED <<camera, loop>>
    BY <1>1 DEF TriggerRefused, PushLabel, CommandFails
  <2>2. QED
    BY <2>1, NumbersKept DEF camera, loop
<1>2. CASE FrameLost \/ FreeRunFrameLost
  <2>1. /\ UNCHANGED <<previous, cpc, sdk>> /\ nextNumber' = nextNumber + 1
        /\ lost' = lost + 1 /\ lost < MaxLost /\ nextNumber > FirstNumber
        /\ cpc # "stopped"
    BY <1>2 DEF FrameLost, FreeRunFrameLost, loop, Regular, Types, ControlInv
  <2>2. QED
    BY <2>1, NumbersExposed
<1>3. CASE \E valid \in BOOLEAN : FrameDelivered(valid) \/ FreeRunFrame(valid)
  <2>1. PICK valid \in BOOLEAN : FrameDelivered(valid) \/ FreeRunFrame(valid)
    BY <1>3
  <2>2. /\ UNCHANGED <<previous, cpc, lost>> /\ nextNumber' = nextNumber + 1 /\ cpc # "stopped"
        /\ \/ sdk' = Append(sdk, [number |-> nextNumber, cycle |-> cycle, valid |-> valid])
           \/ sdk' = Append(sdk, [number |-> nextNumber, cycle |-> 0, valid |-> valid])
    BY <2>1 DEF FrameDelivered, FreeRunFrame, loop, Types, ControlInv
  <2>3. /\ [number |-> nextNumber, cycle |-> cycle, valid |-> valid] \in Sdk
        /\ [number |-> nextNumber, cycle |-> 0, valid |-> valid] \in Sdk
    BY DEF Sdk, Types, ControlTypes, NumberTypes
  <2>4. PICK frame \in Sdk : sdk' = Append(sdk, frame) /\ frame.number = nextNumber
    BY <2>2, <2>3
  <2>5. QED
    BY <2>2, <2>4, NumbersExposed
<1>4. CASE LoopTop \/ GrabTimeout \/ DiscardLabel \/ PopLabel
  <2>1. /\ UNCHANGED <<previous, camera>> /\ cpc # "stopped" /\ cpc' # "stopped"
        /\ cpc' \in InHand => cpc \in InHand
    BY <1>4 DEF LoopTop, GrabTimeout, DiscardLabel, PopLabel, InHand
  <2>2. QED
    BY <2>1, NumbersKept DEF camera
<1>5. CASE RejectFrame \/ NoImageFree \/ AcquireImage \/ PushFrame
  <2>1. UNCHANGED <<previous, camera>> /\ cpc # "stopped" /\ cpc' # "stopped" /\ cpc \in InHand
    BY <1>5 DEF RejectFrame, NoImageFree, AcquireImage, PushFrame, InHand
  <2>2. QED
    BY <2>1, NumbersKept DEF camera
<1>6. CASE TakePacket \/ ReleasePacket \/ RequestStop \/ UNCHANGED vars
  <2>1. UNCHANGED <<camera, loop>>
    BY <1>6 DEF TakePacket, ReleasePacket, RequestStop, vars
  <2>2. QED
    BY <2>1, NumbersKept DEF camera, loop
<1>7. CASE StopJoins
  <2>1. cpc' = "stopped" /\ sdk' = <<>> /\ UNCHANGED <<previous, nextNumber, lost>>
    BY <1>7 DEF StopJoins
  <2>2. QED
    BY <2>1 DEF NumbersInv, Base, InHand
<1>8. CASE Reopen
  <2>1. /\ cpc' = "loop" /\ previous' = 0 /\ nextNumber' = FirstNumber /\ lost' = 0
        /\ UNCHANGED sdk /\ cpc = "stopped"
    BY <1>8 DEF Reopen
  <2>2. QED
    BY <2>1, CameraAssumption, BoundsAssumption DEF NumbersInv, Base, InHand
<1>9. QED
  BY <1>1, <1>2, <1>3, <1>4, <1>5, <1>6, <1>7, <1>8, NumbersGrab
     DEF Next, TriggerStep, CaptureStep

-----------------------------------------------------------------------------
(* Labels, under the same assumption: where in the queue the label of a    *)
(* frame is.                                                               *)

\* The facts about numbers that place a label in the queue.
LEMMA Places ==
    ASSUME Types, NumbersInv
    PROVE  /\ Base \in Int /\ Base < nextNumber /\ nextNumber \in Nat
           /\ Owed \in Nat /\ Len(labels) \in Nat /\ Len(sdk) \in Nat
           /\ cpc # "stopped" =>
                 \A i \in 1..Len(sdk) : sdk[i].number - Base \in 1..(nextNumber - 1 - Base)
<1>1. sdk \in Seq(Sdk) /\ labels \in Seq(Nat) /\ \A i \in 1..Len(sdk) : sdk[i] \in Sdk
  BY DEF Types, QueueTypes
<1>2. \A i \in 1..Len(sdk) : sdk[i].number \in Nat
  BY <1>1 DEF Sdk
<1>3. Base \in Int /\ nextNumber \in Nat /\ Owed \in Nat
  BY CameraAssumption DEF Types, NumberTypes, Base, Owed
<1>4. Len(labels) \in Nat /\ Len(sdk) \in Nat
  BY <1>1
<1>5. /\ Base < nextNumber
      /\ cpc # "stopped" =>
            \A i \in 1..Len(sdk) : sdk[i].number > Base /\ sdk[i].number < nextNumber
  BY DEF NumbersInv
<1>6. cpc # "stopped" =>
        \A i \in 1..Len(sdk) : sdk[i].number - Base \in 1..(nextNumber - 1 - Base)
  <2>1. SUFFICES ASSUME cpc # "stopped", NEW i \in 1..Len(sdk)
                 PROVE  sdk[i].number - Base \in 1..(nextNumber - 1 - Base)
    OBVIOUS
  <2>2. sdk[i].number \in Nat /\ sdk[i].number > Base /\ sdk[i].number < nextNumber
    BY <1>2, <1>5, <2>1
  <2>3. QED
    BY <1>3, <2>2
<1>7. QED
  BY <1>3, <1>4, <1>5, <1>6

\* An index that stays within the queue when numbers are added up.
LEMMA IndexAdds ==
    ASSUME NEW o \in Nat, NEW k \in Int, NEW x \in 1..k, NEW n \in Nat, o + k <= n
    PROVE  o + x \in 1..n
  OBVIOUS

LEMMA LabelsInit == Regular /\ Init => LabelsInv
<1> SUFFICES ASSUME Regular, Init PROVE LabelsInv
  OBVIOUS
<1>1. Len(labels) = 0 /\ labels = <<>> /\ Len(sdk) = 0
  BY DEF Init
<1>2. QED
  BY <1>1, CameraAssumption DEF Init, LabelsInv, Owed, Base, InHand

LEMMA LabelsKept ==
    ASSUME LabelsInv,
           UNCHANGED <<software, labels, tpc, previous, toDiscard, nextNumber, sdk, lease, label>>,
           UNCHANGED cpc, tpc = "command" => UNCHANGED cycle
    PROVE  LabelsInv'
<1>1. Owed' = Owed /\ Base' = Base
  BY DEF Owed, Base
<1>2. QED
  BY <1>1 DEF LabelsInv

\* A label is pushed, or taken back by a command that fails.
LEMMA LabelsCommand ==
    ASSUME Types, NumbersInv, LabelsInv, PushLabel \/ CommandFails
    PROVE  LabelsInv'
<1>0. /\ Base \in Int /\ Base < nextNumber /\ nextNumber \in Nat
      /\ Owed \in Nat /\ Len(labels) \in Nat /\ Len(sdk) \in Nat
      /\ cpc # "stopped" =>
            \A i \in 1..Len(sdk) : sdk[i].number - Base \in 1..(nextNumber - 1 - Base)
  BY Places
<1>1. UNCHANGED <<control, camera, loop>> /\ software
  BY DEF PushLabel, CommandFails, LabelsInv
<1>2. Owed' = Owed /\ Base' = Base
  BY <1>1 DEF Owed, Base, loop
<1>3. UNCHANGED <<software, cpc, nextNumber, sdk, lease, label>>
  BY <1>1 DEF control, camera, loop
<1>4. Owed + (nextNumber - 1 - Base) <= Len(labels) /\ Owed <= Len(labels)
  BY <1>0, <1>1 DEF LabelsInv
<1>5. /\ cpc # "stopped" =>
            \A i \in 1..Len(sdk) : /\ Owed + (sdk[i].number - Base) \in 1..Len(labels)
                                   /\ labels[Owed + (sdk[i].number - Base)] = sdk[i].cycle
                                   /\ sdk[i].number - Base <= nextNumber - 1 - Base
  <2>1. SUFFICES ASSUME cpc # "stopped", NEW i \in 1..Len(sdk)
                 PROVE  /\ Owed + (sdk[i].number - Base) \in 1..Len(labels)
                        /\ labels[Owed + (sdk[i].number - Base)] = sdk[i].cycle
                        /\ sdk[i].number - Base <= nextNumber - 1 - Base
    OBVIOUS
  <2>2. sdk[i].number - Base \in 1..(nextNumber - 1 - Base) /\ nextNumber - 1 - Base \in Int
    BY <1>0, <2>1
  <2>3. Owed + (sdk[i].number - Base) \in 1..Len(labels)
    BY <1>0, <1>4, <2>2, IndexAdds
  <2>4. labels[Owed + (sdk[i].number - Base)] = sdk[i].cycle
    BY <1>1, <2>1 DEF LabelsInv
  <2>5. QED
    BY <1>0, <2>2, <2>3, <2>4
<1>6. cpc \in {"discard", "label"} => labels[Owed] = lease[1].cycle /\ Owed \in 1..Len(labels)
  BY <1>1, <1>4 DEF LabelsInv, Owed, Types, NumberTypes
<1>7. CASE PushLabel
  <2>1. labels' = Append(labels, cycle') /\ cycle' \in Nat /\ tpc = "idle" /\ tpc' = "command"
    BY <1>7 DEF PushLabel, Types, ControlTypes
  <2>2. /\ Len(labels') = Len(labels) + 1 /\ labels'[Len(labels) + 1] = cycle'
        /\ \A i \in 1..Len(labels) : labels'[i] = labels[i]
    BY <2>1
  <2>3. Len(labels') = Owed + (nextNumber - 1 - Base) + 1
    BY <1>0, <1>1, <2>1, <2>2 DEF LabelsInv
  <2>4. QED
    BY <1>1, <1>2, <1>3, <1>5, <1>6, <2>1, <2>2, <2>3 DEF LabelsInv
<1>8. CASE CommandFails
  <2>1. Len(labels) = Owed + (nextNumber - 1 - Base) + 1 /\ labels # <<>>
    <3>1. Len(labels) = Owed + (nextNumber - 1 - Base) + 1
      BY <1>1, <1>8 DEF LabelsInv, CommandFails
    <3>2. QED
      BY <1>0, <3>1
  <2>2. labels' = DropLast(labels) /\ tpc' = "idle"
    BY <1>8, <2>1 DEF CommandFails
  <2>3. /\ Len(labels') = Len(labels) - 1
        /\ \A i \in 1..(Len(labels) - 1) : labels'[i] = labels[i]
    <3>1. labels \in Seq(Nat)
      BY DEF Types, QueueTypes
    <3>2. QED
      BY <2>1, <2>2, <3>1, DropLastFacts
  <2>4. cpc \in {"discard", "label"} => Owed \in 1..(Len(labels) - 1)
    BY <1>0, <1>6, <2>1
  <2>5. cpc # "stopped" =>
          \A i \in 1..Len(sdk) : Owed + (sdk[i].number - Base) \in 1..(Len(labels) - 1)
    BY <1>0, <1>5, <2>1
  <2>6. Len(labels') = Owed + (nextNumber - 1 - Base)
    BY <1>0, <2>1, <2>3
  <2>7. cpc \in {"discard", "label"} => labels'[Owed] = lease[1].cycle
    BY <1>6, <2>3, <2>4
  <2>8. cpc # "stopped" =>
          \A i \in 1..Len(sdk) : labels'[Owed + (sdk[i].number - Base)] = sdk[i].cycle
    BY <1>5, <2>3, <2>5
  <2>9. cpc \in {"check", "push"} => label = lease[1].cycle
    BY DEF LabelsInv
  <2>10. (IF tpc' = "command" THEN 1 ELSE 0) = 0 /\ tpc' # "command"
    BY <2>2
  <2>11. Owed + (nextNumber - 1 - Base) + 0 = Owed + (nextNumber - 1 - Base)
    BY <1>0
  <2>12. QED
    BY <1>1, <1>2, <1>3, <2>6, <2>7, <2>8, <2>9, <2>10, <2>11 DEF LabelsInv
<1>9. QED
  BY <1>7, <1>8

\* A frame is exposed by the command whose label is the last one, or by none.
LEMMA LabelsExposed ==
    ASSUME Types, NumbersInv, LabelsInv,
           \/ FrameLost \/ FreeRunFrameLost
           \/ \E valid \in BOOLEAN : FrameDelivered(valid) \/ FreeRunFrame(valid)
    PROVE  LabelsInv'
<1>0. /\ Base \in Int /\ Base < nextNumber /\ nextNumber \in Nat
      /\ Owed \in Nat /\ Len(labels) \in Nat /\ Len(sdk) \in Nat
      /\ cpc # "stopped" =>
            \A i \in 1..Len(sdk) : sdk[i].number - Base \in 1..(nextNumber - 1 - Base)
  BY Places
<1>1. /\ UNCHANGED <<control, labels, loop>> /\ nextNumber' = nextNumber + 1 /\ cpc # "stopped"
      /\ software => tpc = "command" /\ tpc' = "idle"
      /\ ~software => UNCHANGED tpc
  BY DEF FrameLost, FreeRunFrameLost, FrameDelivered, FreeRunFrame, Types, ControlInv, LabelsInv
<1>2. Owed' = Owed /\ Base' = Base
  BY <1>1 DEF Owed, Base, loop
<1>3. UNCHANGED <<software, cpc, labels, lease, label>>
  BY <1>1 DEF control, loop
<1>4. /\ software => /\ Len(labels) = Owed + (nextNumber' - 1 - Base)
                     /\ labels[Len(labels)] = cycle
      /\ ~software => labels = <<>> /\ tpc = "idle"
  BY <1>0, <1>1 DEF LabelsInv
<1>5. sdk' = sdk \/ \E frame \in Sdk : /\ sdk' = Append(sdk, frame) /\ frame.number = nextNumber
                                       /\ frame.cycle = IF software THEN cycle ELSE 0
  <2>1. CASE FrameLost \/ FreeRunFrameLost
    BY <2>1 DEF FrameLost, FreeRunFrameLost
  <2>2. CASE \E valid \in BOOLEAN : FrameDelivered(valid) \/ FreeRunFrame(valid)
    <3>1. PICK valid \in BOOLEAN : FrameDelivered(valid) \/ FreeRunFrame(valid)
      BY <2>2
    <3>2. CASE FrameDelivered(valid)
      <4>1. [number |-> nextNumber, cycle |-> cycle, valid |-> valid] \in Sdk
        BY DEF Sdk, Types, ControlTypes, NumberTypes
      <4>2. software
        BY <3>2 DEF FrameDelivered, LabelsInv
      <4>3. QED
        BY <3>2, <4>1, <4>2 DEF FrameDelivered
    <3>3. CASE FreeRunFrame(valid)
      <4>1. [number |-> nextNumber, cycle |-> 0, valid |-> valid] \in Sdk
        BY DEF Sdk, Types, NumberTypes
      <4>2. QED
        BY <3>3, <4>1 DEF FreeRunFrame
    <3>4. QED
      BY <3>1, <3>2, <3>3
  <2>3. QED
    BY <2>1, <2>2
<1>6. /\ software => \A i \in 1..Len(sdk') : labels[Owed + (sdk'[i].number - Base)] = sdk'[i].cycle
      /\ ~software => \A i \in 1..Len(sdk') : sdk'[i].cycle = 0
  <2>1. CASE sdk' = sdk
    BY <1>1, <2>1 DEF LabelsInv
  <2>2. CASE \E frame \in Sdk : /\ sdk' = Append(sdk, frame) /\ frame.number = nextNumber
                                /\ frame.cycle = IF software THEN cycle ELSE 0
    <3>1. PICK frame \in Sdk : /\ sdk' = Append(sdk, frame) /\ frame.number = nextNumber
                               /\ frame.cycle = IF software THEN cycle ELSE 0
      BY <2>2
    <3>2. sdk \in Seq(Sdk)
      BY DEF Types, QueueTypes
    <3>3. /\ Len(sdk') = Len(sdk) + 1 /\ sdk'[Len(sdk) + 1] = frame
          /\ \A i \in 1..Len(sdk) : sdk'[i] = sdk[i]
      BY <3>1, <3>2
    <3>4. \A i \in 1..Len(sdk') : i \in 1..Len(sdk) \/ i = Len(sdk) + 1
      BY <3>3
    <3>5. software => labels[Owed + (nextNumber - Base)] = cycle
      <4>1. software => Owed + (nextNumber - Base) = Len(labels)
        BY <1>0, <1>1, <1>4
      <4>2. QED
        BY <1>4, <4>1
    <3>6. QED
      BY <1>1, <3>1, <3>3, <3>4, <3>5 DEF LabelsInv
  <2>3. QED
    BY <1>5, <2>1, <2>2
<1>7. QED
  BY <1>1, <1>2, <1>3, <1>4, <1>6 DEF LabelsInv

\* The frame grabbed owes the labels of those missing, and its own.
LEMMA LabelsGrab == Regular /\ Types /\ NumbersInv /\ LabelsInv /\ GrabFrame => LabelsInv'
<1> SUFFICES ASSUME Regular, Types, NumbersInv, LabelsInv, GrabFrame PROVE LabelsInv'
  OBVIOUS
<1>0. /\ Base \in Int /\ Base < nextNumber /\ nextNumber \in Nat
      /\ Owed \in Nat /\ Len(labels) \in Nat /\ Len(sdk) \in Nat
      /\ cpc # "stopped" =>
            \A i \in 1..Len(sdk) : sdk[i].number - Base \in 1..(nextNumber - 1 - Base)
  BY Places
<1>1. /\ UNCHANGED <<software, tpc, cycle, labels, nextNumber>>
      /\ cpc # "stopped" /\ cpc' \in {"discard", "label"} /\ lease' = <<sdk[1]>>
  BY Grabbed DEF GrabFrame, control, trigger
<1>2. lease'[1] = sdk[1]
  BY <1>1
<1>3. software => /\ Len(labels) = nextNumber - 1 - Base + (IF tpc = "command" THEN 1 ELSE 0)
                  /\ \A i \in 1..Len(sdk) : labels[sdk[i].number - Base] = sdk[i].cycle
  <2>1. Owed = 0 /\ Base \in Int /\ \A i \in 1..Len(sdk) : sdk[i].number \in Nat
    BY Grabbed
  <2>2. software =>
          /\ Len(labels) = Owed + (nextNumber - 1 - Base) + (IF tpc = "command" THEN 1 ELSE 0)
          /\ \A i \in 1..Len(sdk) : labels[Owed + (sdk[i].number - Base)] = sdk[i].cycle
    BY <1>1 DEF LabelsInv
  <2>3. \A i \in 1..Len(sdk) : Owed + (sdk[i].number - Base) = sdk[i].number - Base
    BY <2>1
  <2>4. Owed + (nextNumber - 1 - Base) = nextNumber - 1 - Base
    BY <1>0, <2>1
  <2>5. software => \A i \in 1..Len(sdk) : labels[sdk[i].number - Base] = sdk[i].cycle
    BY <2>2, <2>3
  <2>6. QED
    BY <2>2, <2>4, <2>5
<1>4. software =>
        Len(labels) = Owed' + (nextNumber - 1 - Base') + (IF tpc = "command" THEN 1 ELSE 0)
  BY <1>0, <1>3, Grabbed
<1>5. software => labels[Owed'] = lease'[1].cycle
  BY <1>2, <1>3, Grabbed
<1>6. software => \A i \in 1..Len(sdk') : labels[Owed' + (sdk'[i].number - Base')] = sdk'[i].cycle
  <2>1. SUFFICES ASSUME software, NEW i \in 1..Len(sdk')
                 PROVE  labels[Owed' + (sdk'[i].number - Base')] = sdk'[i].cycle
    OBVIOUS
  <2>2. sdk'[i] = sdk[i + 1] /\ i + 1 \in 1..Len(sdk) /\ sdk[i + 1].number \in Nat
    BY Grabbed
  <2>3. Owed' + (sdk'[i].number - Base') = sdk[i + 1].number - Base
    <3>1. Owed' = previous' - Base /\ Base' = previous' /\ Base \in Int /\ previous' \in Nat
      BY Grabbed
    <3>2. QED
      BY <2>2, <3>1
  <2>4. QED
    BY <1>3, <2>1, <2>2, <2>3
<1>7. ~software => lease'[1].cycle = 0 /\ \A i \in 1..Len(sdk') : sdk'[i].cycle = 0
  BY <1>2, Grabbed DEF LabelsInv
<1>8. QED
  BY <1>1, <1>3, <1>4, <1>5, <1>6, <1>7 DEF LabelsInv

\* A label is popped: every other one moves up by one place, and one less is
\* owed.
LEMMA LabelsPopped ==
    ASSUME Types, NumbersInv, LabelsInv, DiscardLabel \/ PopLabel
    PROVE  LabelsInv'
<1>0. /\ Base \in Int /\ Base < nextNumber /\ nextNumber \in Nat
      /\ Owed \in Nat /\ Len(labels) \in Nat /\ Len(sdk) \in Nat
      /\ cpc # "stopped" =>
            \A i \in 1..Len(sdk) : sdk[i].number - Base \in 1..(nextNumber - 1 - Base)
  BY Places
<1>1. /\ UNCHANGED <<software, tpc, cycle, previous, nextNumber, sdk, lease>>
      /\ cpc \in {"discard", "label"} /\ Base' = Base
      /\ cpc' \in {"discard", "label", "check"}
  BY DEF DiscardLabel, PopLabel, control, trigger, camera, Base
<1>2. CASE ~software
  <2>1. labels = <<>> /\ labels' = <<>> /\ lease[1].cycle = 0 /\ tpc = "idle"
        /\ (cpc' = "check" => label' = 0)
    BY <1>1, <1>2 DEF DiscardLabel, PopLabel, LabelsInv, InHand
  <2>2. QED
    BY <1>1, <1>2, <2>1 DEF LabelsInv
<1>3. CASE software
  <2>1. /\ Owed \in Nat \ {0} /\ toDiscard \in Nat
        /\ cpc = "label" => Owed = 1
        /\ cpc = "discard" => Owed = toDiscard + 1
    BY <1>1 DEF Owed, Types, NumberTypes
  <2>2. /\ Len(labels) = Owed + (nextNumber - 1 - Base) + (IF tpc = "command" THEN 1 ELSE 0)
        /\ labels[Owed] = lease[1].cycle
        /\ \A i \in 1..Len(sdk) : labels[Owed + (sdk[i].number - Base)] = sdk[i].cycle
        /\ tpc = "command" => labels[Len(labels)] = cycle
    BY <1>1, <1>3 DEF LabelsInv
  <2>3. labels # <<>> /\ Len(labels) >= Owed
    BY <1>0, <2>1, <2>2
  <2>4. labels' = Tail(labels) /\ Owed' = Owed - 1
        /\ (cpc' = "check" => label' = labels[Owed] /\ cpc = "label")
        /\ (cpc' # "check" => Owed' > 0)
    <3>1. CASE DiscardLabel
      <4>1. /\ labels' = Tail(labels) /\ toDiscard' = toDiscard - 1 /\ cpc = "discard"
            /\ cpc' = IF toDiscard = 1 THEN "label" ELSE "discard"
        BY <2>3, <3>1 DEF DiscardLabel
      <4>2. toDiscard > 0
        BY <4>1 DEF Types, ControlInv
      <4>3. QED
        BY <2>1, <4>1, <4>2 DEF Owed
    <3>2. CASE PopLabel
      <4>1. labels' = Tail(labels) /\ label' = Head(labels) /\ cpc = "label" /\ cpc' = "check"
        BY <1>3, <2>3, <3>2 DEF PopLabel
      <4>2. Head(labels) = labels[1]
        BY <2>3
      <4>3. QED
        BY <2>1, <4>1, <4>2 DEF Owed
    <3>3. QED
      BY <3>1, <3>2
  <2>5. Len(labels') = Len(labels) - 1 /\ \A i \in 1..(Len(labels) - 1) : labels'[i] = labels[i + 1]
    BY <2>3, <2>4
  <2>6. Len(labels') = Owed' + (nextNumber - 1 - Base) + (IF tpc = "command" THEN 1 ELSE 0)
    BY <1>0, <2>2, <2>4, <2>5
  <2>7. tpc = "command" => labels'[Len(labels')] = cycle
    <3>1. SUFFICES ASSUME tpc = "command" PROVE labels'[Len(labels')] = cycle
      OBVIOUS
    <3>2. Len(labels) > Owed
      BY <1>0, <2>2, <3>1
    <3>3. Len(labels) - 1 \in 1..(Len(labels) - 1)
      BY <2>1, <3>2
    <3>4. labels'[Len(labels) - 1] = labels[Len(labels)]
      BY <2>5, <3>3
    <3>5. QED
      BY <2>2, <2>5, <3>1, <3>4
  <2>8. cpc' # "check" => labels'[Owed'] = lease[1].cycle
    <3>1. SUFFICES ASSUME cpc' # "check" PROVE labels'[Owed'] = lease[1].cycle
      OBVIOUS
    <3>2. Owed - 1 \in 1..(Len(labels) - 1)
      BY <2>1, <2>3, <2>4, <3>1
    <3>3. labels'[Owed - 1] = labels[Owed]
      BY <2>1, <2>5, <3>2
    <3>4. QED
      BY <2>2, <2>4, <3>3
  <2>9. \A i \in 1..Len(sdk) : labels'[Owed' + (sdk[i].number - Base)] = sdk[i].cycle
    <3>1. SUFFICES ASSUME NEW i \in 1..Len(sdk)
                   PROVE  labels'[Owed' + (sdk[i].number - Base)] = sdk[i].cycle
      OBVIOUS
    <3>2. sdk[i].number - Base \in 1..(nextNumber - 1 - Base) /\ nextNumber - 1 - Base \in Int
      BY <1>0, <1>1
    <3>3. Owed' + (sdk[i].number - Base) \in 1..(Len(labels) - 1)
      <4>1. Len(labels) >= Owed + (nextNumber - 1 - Base)
        BY <1>0, <2>2
      <4>2. /\ Owed - 1 \in Nat /\ Len(labels) - 1 \in Nat
            /\ (Owed - 1) + (nextNumber - 1 - Base) <= Len(labels) - 1
        BY <1>0, <2>1, <2>3, <4>1
      <4>3. (Owed - 1) + (sdk[i].number - Base) \in 1..(Len(labels) - 1)
        BY <3>2, <4>2, IndexAdds
      <4>4. QED
        BY <2>4, <4>3
    <3>4. labels'[Owed' + (sdk[i].number - Base)] = labels[Owed' + (sdk[i].number - Base) + 1]
      BY <2>5, <3>3
    <3>5. Owed' + (sdk[i].number - Base) + 1 = Owed + (sdk[i].number - Base)
      BY <1>0, <2>4, <3>2
    <3>6. QED
      BY <2>2, <3>4, <3>5
  <2>10. QED
    BY <1>1, <1>3, <2>2, <2>4, <2>6, <2>7, <2>8, <2>9 DEF LabelsInv
<1>4. QED
  BY <1>2, <1>3

\* stop forgets the frames in the SDK, openAll the labels.
LEMMA LabelsStop ==
    ASSUME Regular, Types, NumbersInv, LabelsInv, StopJoins \/ Reopen
    PROVE  LabelsInv'
<1>1. CASE StopJoins
  <2>1. /\ UNCHANGED <<software, tpc, cycle, labels, nextNumber, previous>>
        /\ cpc = "ended" /\ cpc' = "stopped" /\ sdk' = <<>>
    BY <1>1 DEF StopJoins, control, trigger
  <2>2. Owed' = Owed /\ Base' = Base /\ Len(sdk') = 0
    BY <2>1 DEF Owed, Base
  <2>3. QED
    BY <2>1, <2>2 DEF LabelsInv, InHand
<1>2. CASE Reopen
  <2>1. /\ UNCHANGED <<software, tpc, sdk>> /\ cpc' = "loop" /\ cpc = "stopped"
        /\ labels' = <<>> /\ nextNumber' = FirstNumber /\ previous' = 0
    BY <1>2 DEF Reopen, trigger
  <2>2. tpc = "idle" /\ Len(sdk) = 0
    BY <2>1 DEF Types, ControlInv, NumbersInv
  <2>3. Owed' = 0 /\ Base' = FirstNumber - 1 /\ Len(labels') = 0
    BY <2>1 DEF Owed, Base
  <2>4. QED
    BY <2>1, <2>2, <2>3, CameraAssumption DEF LabelsInv, InHand
<1>3. QED
  BY <1>1, <1>2

LEMMA LabelsStep == Regular /\ Types /\ NumbersInv /\ LabelsInv /\ [Next]_vars => LabelsInv'
<1> SUFFICES ASSUME Regular, Types, NumbersInv, LabelsInv, [Next]_vars PROVE LabelsInv'
  OBVIOUS
<1>1. CASE TriggerRefused
  <2>1. UNCHANGED <<control, tpc, labels, camera, loop>> /\ tpc = "idle"
    BY <1>1 DEF TriggerRefused
  <2>2. QED
    BY <2>1, LabelsKept DEF control, camera, loop
<1>2. CASE LoopTop \/ GrabTimeout \/ RejectFrame \/ NoImageFree \/ AcquireImage \/ PushFrame
  <2>1. /\ UNCHANGED <<control, trigger, labels, camera, previous, toDiscard, label>>
        /\ \/ cpc \in {"loop", "grab", "check", "push"} /\ cpc' \in {"loop", "grab", "ended"}
           \/ cpc = "check" /\ cpc' = "push" /\ UNCHANGED lease
    BY <1>2 DEF LoopTop, GrabTimeout, RejectFrame, NoImageFree, AcquireImage, PushFrame
  <2>2. Owed' = Owed /\ Base' = Base /\ Owed = 0
    BY <2>1 DEF Owed, Base
  <2>3. QED
    BY <2>1, <2>2 DEF LabelsInv, control, trigger, camera, InHand
<1>3. CASE TakePacket \/ ReleasePacket \/ RequestStop \/ UNCHANGED vars
  <2>1. UNCHANGED <<software, trigger, labels, camera, loop>>
    BY <1>3 DEF TakePacket, ReleasePacket, RequestStop, vars, control
  <2>2. QED
    BY <2>1, LabelsKept DEF trigger, camera, loop
<1>4. QED
  BY <1>1, <1>2, <1>3, LabelsCommand, LabelsExposed, LabelsGrab, LabelsPopped, LabelsStop
     DEF Next, TriggerStep, CaptureStep

-----------------------------------------------------------------------------
(* The statistics, and the labels of the packets.                          *)

LEMMA AccountInit == Regular /\ Init => AccountInv
  BY CameraAssumption DEF Regular, Init, AccountInv, Base, InHand

LEMMA AccountStep ==
    Regular /\ Types /\ NumbersInv /\ AccountInv /\ [Next]_vars => AccountInv'
<1> SUFFICES ASSUME Regular, Types, NumbersInv, AccountInv, [Next]_vars PROVE AccountInv'
  OBVIOUS
<1>1. /\ received \in Nat /\ drops \in Nat /\ invalid \in Nat /\ exhausted \in Nat
      /\ Base \in Int /\ FirstNumber \in Nat
  BY CameraAssumption DEF Types, NumberTypes, Base
<1>2. CASE GrabFrame
  <2>1. drops' = drops + (previous' - Base - 1) /\ UNCHANGED <<received, invalid, exhausted>>
        /\ cpc \notin InHand /\ cpc' \in InHand
    BY <1>2, Grabbed DEF GrabFrame, InHand
  <2>2. Base' = previous' /\ previous' \in Nat
    BY <1>2, Grabbed
  <2>3. /\ (IF cpc \in InHand THEN 1 ELSE 0) = 0
        /\ (IF cpc' \in InHand THEN 1 ELSE 0) = 1
    BY <2>1
  <2>4. Base + 1 = FirstNumber + received + drops + invalid + exhausted
    BY <1>1, <2>3 DEF AccountInv
  <2>5. Base' + 1 = FirstNumber + received + drops' + invalid + exhausted + 1
    BY <1>1, <2>1, <2>2, <2>4
  <2>6. QED
    BY <2>1, <2>3, <2>5 DEF AccountInv
<1>3. CASE RejectFrame \/ NoImageFree \/ PushFrame
  <2>1. /\ UNCHANGED <<previous, drops>> /\ cpc \in InHand /\ cpc' \notin InHand
        /\ \/ received' = received + 1 /\ UNCHANGED <<invalid, exhausted>>
           \/ invalid' = invalid + 1 /\ UNCHANGED <<received, exhausted>>
           \/ exhausted' = exhausted + 1 /\ UNCHANGED <<received, invalid>>
    BY <1>3 DEF RejectFrame, NoImageFree, PushFrame, InHand
  <2>2. Base' = Base
    BY <2>1 DEF Base
  <2>3. /\ (IF cpc \in InHand THEN 1 ELSE 0) = 1
        /\ (IF cpc' \in InHand THEN 1 ELSE 0) = 0
    BY <2>1
  <2>4. Base + 1 = FirstNumber + received + drops + invalid + exhausted + 1
    BY <1>1, <2>3 DEF AccountInv
  <2>5. Base' + 1 = FirstNumber + received' + drops' + invalid' + exhausted'
    BY <1>1, <2>1, <2>2, <2>4
  <2>6. QED
    BY <1>1, <2>1, <2>3, <2>5 DEF AccountInv
<1>4. CASE TriggerStep \/ TakePacket \/ ReleasePacket \/ RequestStop \/ UNCHANGED vars
  <2>1. UNCHANGED <<loop, statistics>>
    BY <1>4 DEF TriggerStep, TriggerRefused, PushLabel, CommandFails, FrameLost, FreeRunFrameLost,
           FrameDelivered, FreeRunFrame, TakePacket, ReleasePacket, RequestStop, vars
  <2>2. QED
    BY <2>1 DEF AccountInv, Base, loop, statistics
<1>5. CASE LoopTop \/ GrabTimeout \/ DiscardLabel \/ PopLabel \/ AcquireImage \/ StopJoins
  <2>1. /\ UNCHANGED <<previous, received, drops, invalid, exhausted>>
        /\ cpc' \in InHand <=> cpc \in InHand
    BY <1>5 DEF LoopTop, GrabTimeout, DiscardLabel, PopLabel, AcquireImage, StopJoins,
           statistics, InHand
  <2>2. QED
    BY <2>1 DEF AccountInv, Base
<1>6. CASE Reopen
  <2>1. /\ previous' = 0 /\ cpc' = "loop"
        /\ received' = 0 /\ drops' = 0 /\ invalid' = 0 /\ exhausted' = 0
    BY <1>6 DEF Reopen
  <2>2. QED
    BY <1>1, <2>1 DEF AccountInv, Base, InHand
<1>7. QED
  BY <1>2, <1>3, <1>4, <1>5, <1>6 DEF Next, CaptureStep

LEMMA TrueLabelsStep ==
    Types /\ LabelsInv /\ TrueLabels /\ [Next]_vars => TrueLabels'
<1> SUFFICES ASSUME Types, LabelsInv, TrueLabels, [Next]_vars PROVE TrueLabels'
  OBVIOUS
<1>1. CASE PushFrame
  <2>1. /\ UNCHANGED held /\ cpc = "push"
        /\ ring' = Append(IF Len(ring) = RingCapacity THEN Tail(ring) ELSE ring, Packet)
    BY <1>1 DEF PushFrame
  <2>2. Packet \in AllPackets /\ Packet.cycle = Packet.exposedBy
    <3>1. lease[1].number \in Nat /\ lease[1].cycle \in Nat /\ label = lease[1].cycle
      BY <2>1, Leased DEF InHand, LabelsInv
    <3>2. image \in Pool
      BY <2>1 DEF Types, ControlInv
    <3>3. QED
      BY <3>1, <3>2 DEF Packet, AllPackets, Types, ControlTypes, NumberTypes
  <2>3. ring \in Seq(AllPackets) /\ (Len(ring) = RingCapacity => ring # <<>>)
    BY CapacityAssumption DEF Types, ImageTypes
  <2>4. Elements(ring)' \subseteq Elements(ring) \cup {Packet}
    BY <2>1, <2>2, <2>3, RingElements DEF Elements
  <2>5. QED
    BY <2>1, <2>2, <2>4 DEF TrueLabels
<1>2. CASE ~PushFrame
  <2>1. Elements(ring)' \subseteq Elements(ring) /\ held' \subseteq held \cup Elements(ring)
    <3>1. CASE Reopen
      BY <3>1 DEF Reopen, Elements
    <3>2. CASE TakePacket \/ ReleasePacket
      BY <3>2 DEF TakePacket, ReleasePacket, Elements
    <3>3. CASE UNCHANGED <<ring, held>>
      BY <3>3 DEF Elements
    <3>4. QED
      BY <1>2, <3>1, <3>2, <3>3
         DEF Next, TriggerStep, CaptureStep, TriggerRefused, PushLabel, CommandFails, FrameLost,
             FreeRunFrameLost, FrameDelivered, FreeRunFrame, LoopTop, GrabTimeout, GrabFrame,
             DiscardLabel, PopLabel, RejectFrame, NoImageFree, AcquireImage, RequestStop,
             StopJoins, vars, frames
  <2>2. QED
    BY <2>1 DEF TrueLabels
<1>3. QED
  BY <1>1, <1>2

-----------------------------------------------------------------------------
\* The inductive invariant of a regular camera.
LEMMA CaptureCorrect ==
    ASSUME Regular
    PROVE  Spec => [](Types /\ NumbersInv /\ LabelsInv /\ AccountInv /\ TrueLabels)
<1> DEFINE Inv == Types /\ NumbersInv /\ LabelsInv /\ AccountInv /\ TrueLabels
<1>1. Init => TrueLabels
  BY DEF Init, TrueLabels, Elements
<1>2. Init => Inv
  BY <1>1, TypeInit, NumbersInit, LabelsInit, AccountInit
<1>3. Inv /\ [Next]_vars => Inv'
  BY TypeStep, NumbersStep, LabelsStep, AccountStep, TrueLabelsStep
<1>4. QED
  BY <1>2, <1>3, PTL DEF Spec

\* trigger_cycle of every published frame is the cycle whose trigger exposed it.
THEOREM LabelsTrue ==
    ASSUME Regular
    PROVE  Spec => []TrueLabels
  BY CaptureCorrect, PTL

\* The statistics account for every frame number up to the last one grabbed.
THEOREM FramesCounted ==
    ASSUME Regular
    PROVE  Spec => []FramesAccounted
<1>1. Types /\ AccountInv => FramesAccounted
  <2>1. Types => /\ previous \in Nat /\ received \in Nat /\ drops \in Nat /\ invalid \in Nat
                 /\ exhausted \in Nat /\ FirstNumber \in Nat
    BY CameraAssumption DEF Types, NumberTypes
  <2>2. QED
    BY <2>1 DEF AccountInv, FramesAccounted, Base, InHand
<1>2. QED
  BY <1>1, CaptureCorrect, PTL

\* A full label queue is never final, if fewer frames are lost in a session than
\* the queue has places.
THEOREM RefusalsEnd ==
    ASSUME Regular, MaxLost < QueueCapacity
    PROVE  Spec => []RefusalEnds
<1>1. Types /\ NumbersInv /\ LabelsInv => RefusalEnds
  <2>1. SUFFICES ASSUME Types, NumbersInv, LabelsInv, Len(labels) = QueueCapacity,
                        tpc = "idle", running, sdk = <<>>, cpc \in {"loop", "grab"}
                 PROVE  FALSE
    BY DEF RefusalEnds
  <2>2. Len(sdk) = 0 /\ Owed = 0
    BY <2>1 DEF Owed
  <2>3. Base \in Int /\ nextNumber \in Nat /\ lost \in Nat
    BY <2>1, Places DEF Types, NumberTypes
  <2>4. nextNumber - 1 - Base <= lost /\ lost <= MaxLost
    BY <2>1, <2>2, <2>3 DEF NumbersInv
  <2>5. software
    <3>1. QueueCapacity # 0 /\ Len(<<>>) = 0
      BY CapacityAssumption
    <3>2. QED
      BY <2>1, <3>1 DEF LabelsInv
  <2>6. Len(labels) = nextNumber - 1 - Base
    BY <2>1, <2>2, <2>3, <2>5 DEF LabelsInv
  <2>7. QED
    BY <2>1, <2>3, <2>4, <2>6, CapacityAssumption, BoundsAssumption
<1>2. QED
  BY <1>1, CaptureCorrect, PTL
=============================================================================
