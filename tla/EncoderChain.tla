----------------------------- MODULE EncoderChain -----------------------------
(***************************************************************************)
(* From the ISP to the encoded frames: the ISP worker, which takes one     *)
(* NV12 buffer per camera from a fixed pool and hands the group to the     *)
(* encoders, and for every camera an encoder with its worker thread and    *)
(* the callback that receives the encoded pictures.  A buffer returns to   *)
(* its pool when the last reference to it goes, which is what couples the  *)
(* streams.                                                                *)
(*                                                                         *)
(* Groups are numbered; the number stands for the labels of a frame, its   *)
(* PTS and its picture.  The GStreamer pipeline is external: it keeps the  *)
(* order of the buffers, may leave out old ones while QueueDepth newer     *)
(* ones follow (leaky=downstream, drop=true), and the hardware may keep    *)
(* the newest HardwareDelay of them until another one comes.               *)
(*                                                                         *)
(* An operator named X_Y is a faulty version of the operator X; it is not  *)
(* part of the specification.                                              *)
(***************************************************************************)
EXTENDS Integers, Sequences, FiniteSets, SequencesExt

CONSTANTS Streams,          \* active cameras, in their order
          OutputBuffers,    \* isp.output_buffers_per_camera
          QueueDepth,       \* encoder.queue_depth
          PendingCapacity,  \* kPendingCapacity
          HardwareDelay,    \* pictures the hardware keeps
          MayFail,          \* streams whose pipeline may fail
          MaxGroup          \* bound: groups given to the ISP

ASSUME StreamsAssumption ==
    Streams \in Seq(Range(Streams)) /\ Len(Streams) > 0 /\ IsInjective(Streams)
ASSUME SizesAssumption == {OutputBuffers, QueueDepth, PendingCapacity} \subseteq Nat \ {0}
ASSUME BoundsAssumption ==
    HardwareDelay \in Nat /\ MaxGroup \in Nat /\ MayFail \subseteq Range(Streams)

VARIABLES group,        \* the group the ISP worker processes or submits
          ipc, at,      \* where the ISP worker is, and at which camera
          made,         \* output.group.frames
          content,      \* per stream, the group each buffer of its pool shows
          errors,       \* processing_errors_: groups given up
          queue,        \* per stream, input_queue_
          frame,        \* per stream, the frame the encoder's worker refers to
          wpc,          \* per stream, where the encoder's worker is
          picture,      \* per stream, the picture it copied
          pending,      \* per stream, pending_frames_
          pipe,         \* per stream, the pipeline: buffers with PTS and picture
          failed,       \* streams whose pipeline has failed
          encoding,     \* per stream, the frame whose callback is under way
          submitted, encoded, queueDrops, encoderDrops,  \* per stream, statistics
          frameErrors,  \* of errors_, the frames the worker could not pass on
          pipeErrors    \* of errors_, the buffers refused or unreadable

isp == <<group, ipc, at, made, errors>>
worker == <<frame, wpc, picture>>
counters == <<submitted, encoded, queueDrops, encoderDrops, frameErrors, pipeErrors>>
vars == <<isp, content, queue, worker, pending, pipe, failed, encoding, counters>>

Ids == Range(Streams)
Buffers == 1..OutputBuffers
Frames == [group : 1..MaxGroup, buffer : Buffers]
NoFrame == [group |-> 0, buffer |-> 0]
Each(value) == [s \in Ids |-> value]

Init ==
    /\ group = 0 /\ ipc = "wait" /\ at = 1 /\ errors = 0
    /\ made = Each(NoFrame) /\ content = Each([b \in Buffers |-> 0])
    /\ queue = Each(<<>>)
    /\ frame = Each(NoFrame) /\ wpc = Each("pop") /\ picture = Each(0)
    /\ pending = Each(<<>>) /\ pipe = Each(<<>>) /\ failed = {}
    /\ encoding = Each(NoFrame)
    /\ submitted = Each(0) /\ encoded = Each(0) /\ queueDrops = Each(0)
    /\ encoderDrops = Each(0) /\ frameErrors = Each(0) /\ pipeErrors = Each(0)
-----------------------------------------------------------------------------
(* The pool of a camera.                                                    *)

\* Frames of stream s that somebody refers to.
Referenced(s) ==
    ({made[s], frame[s], encoding[s]} \cup Range(queue[s]) \cup Range(pending[s]))
        \ {NoFrame}

Free_UnlessPending(s, b) == \A f \in Range(pending[s]) : f.buffer # b
\* use_count() is 1: only the pool refers to the buffer.
Free(s, b) == \A f \in Referenced(s) : f.buffer # b

Exhausted(s) == \A b \in Buffers : ~Free(s, b)
-----------------------------------------------------------------------------
(* ISP worker: process, then the output callback.                           *)

TakeGroup ==
    /\ ipc = "wait" /\ group < MaxGroup
    /\ group' = group + 1
    /\ ipc' = "process" /\ at' = 1
    /\ UNCHANGED <<made, errors, content, queue, worker, pending, pipe, failed,
                   encoding, counters>>

\* One camera of the group: the first free buffer is taken and written.
ProcessCamera ==
    /\ ipc = "process"
    /\ LET s == Streams[at] IN
       \E b \in Buffers :
         /\ Free(s, b) /\ \A a \in 1..(b - 1) : ~Free(s, a)
         /\ content' = [content EXCEPT ![s][b] = group]
         /\ made' = [made EXCEPT ![s] = [group |-> group, buffer |-> b]]
    /\ IF at < Len(Streams) THEN at' = at + 1 /\ UNCHANGED ipc
                            ELSE at' = 1 /\ ipc' = "submit"
    /\ UNCHANGED <<group, errors, queue, worker, pending, pipe, failed, encoding, counters>>

\* The whole group is given up, what was made of it released.
GiveUp ==
    /\ errors' = errors + 1
    /\ made' = Each(NoFrame)
    /\ ipc' = "wait" /\ at' = 1

PoolExhausted ==
    /\ ipc = "process" /\ Exhausted(Streams[at])
    /\ GiveUp
    /\ UNCHANGED <<group, content, queue, worker, pending, pipe, failed, encoding, counters>>

\* The image is not of the configured size, or the backend fails, perhaps
\* having written part of the buffer; the group is given up as well.
ProcessingFails ==
    /\ ipc = "process"
    /\ LET s == Streams[at] IN
       \/ UNCHANGED content
       \/ \E b \in Buffers :
            /\ Free(s, b) /\ \A a \in 1..(b - 1) : ~Free(s, a)
            /\ content' = [content EXCEPT ![s][b] = 0]
    /\ GiveUp
    /\ UNCHANGED <<group, queue, worker, pending, pipe, failed, encoding, counters>>

\* BoundedLatestQueue::push.
PushLatest(q, v) == Append(IF Len(q) = QueueDepth THEN Tail(q) ELSE q, v)

\* MultiStreamEncoder::submit moves the frames to the encoders one by one.
SubmitFrame ==
    /\ ipc = "submit"
    /\ LET s == Streams[at] IN
       /\ submitted' = [submitted EXCEPT ![s] = @ + 1]
       /\ queueDrops' = [queueDrops EXCEPT ![s] = IF Len(queue[s]) = QueueDepth THEN @ + 1
                                                                             ELSE @]
       /\ queue' = [queue EXCEPT ![s] = PushLatest(@, made[s])]
       /\ made' = [made EXCEPT ![s] = NoFrame]
    /\ IF at < Len(Streams) THEN at' = at + 1 /\ UNCHANGED ipc
                            ELSE at' = 1 /\ ipc' = "wait"
    /\ UNCHANGED <<group, errors, content, worker, pending, pipe, failed, encoding,
                   encoded, encoderDrops, frameErrors, pipeErrors>>
-----------------------------------------------------------------------------
(* The worker of an encoder: run.                                           *)

\* waitPop moves the next frame into the local variable frame, which refers to
\* the last one until then.
PopFrame(s) ==
    /\ wpc[s] = "pop" /\ queue[s] # <<>>
    /\ frame' = [frame EXCEPT ![s] = Head(queue[s])]
    /\ queue' = [queue EXCEPT ![s] = Tail(@)]
    /\ wpc' = [wpc EXCEPT ![s] = "copy"]
    /\ UNCHANGED <<isp, content, picture, pending, pipe, failed, encoding, counters>>

\* The frame has no data or too little, or there is no GStreamer buffer for it or
\* none that can be written: an error, and on to the next frame.
FrameFails(s) ==
    /\ wpc[s] = "copy"
    /\ frameErrors' = [frameErrors EXCEPT ![s] = @ + 1]
    /\ wpc' = [wpc EXCEPT ![s] = "pop"]
    /\ UNCHANGED <<isp, content, queue, frame, picture, pending, pipe, failed, encoding,
                   submitted, encoded, queueDrops, encoderDrops, pipeErrors>>

CopyPicture(s) ==
    /\ wpc[s] = "copy"
    /\ picture' = [picture EXCEPT ![s] = content[s][frame[s].buffer]]
    /\ wpc' = [wpc EXCEPT ![s] = "pending"]
    /\ UNCHANGED <<isp, content, queue, frame, pending, pipe, failed, encoding, counters>>

\* A full list of pending frames makes room by dropping its oldest.
AddPending(s) ==
    /\ wpc[s] = "pending"
    /\ LET full == Len(pending[s]) = PendingCapacity IN
       /\ pending' = [pending EXCEPT ![s] = Append(IF full THEN Tail(@) ELSE @, frame[s])]
       /\ encoderDrops' = [encoderDrops EXCEPT ![s] = IF full THEN @ + 1 ELSE @]
    /\ wpc' = [wpc EXCEPT ![s] = "push"]
    /\ UNCHANGED <<isp, content, queue, frame, picture, pipe, failed, encoding,
                   submitted, encoded, queueDrops, frameErrors, pipeErrors>>

\* A failed pipeline refuses the buffer; its frame stays pending.
PushBuffer(s) ==
    /\ wpc[s] = "push"
    /\ IF s \in failed
       THEN /\ pipeErrors' = [pipeErrors EXCEPT ![s] = @ + 1]
            /\ UNCHANGED pipe
       ELSE /\ pipe' = [pipe EXCEPT ![s] = Append(@, [pts |-> frame[s].group,
                                                      picture |-> picture[s]])]
            /\ UNCHANGED pipeErrors
    /\ wpc' = [wpc EXCEPT ![s] = "pop"]
    /\ UNCHANGED <<isp, content, queue, frame, picture, pending, failed, encoding,
                   submitted, encoded, queueDrops, encoderDrops, frameErrors>>
-----------------------------------------------------------------------------
(* The pipeline of an encoder, external.                                    *)

PipelineDrops(s) ==
    /\ \E i \in 1..(Len(pipe[s]) - QueueDepth) :
         pipe' = [pipe EXCEPT ![s] = RemoveAt(@, i)]
    /\ UNCHANGED <<isp, content, queue, worker, pending, failed, encoding, counters>>

PipelineFails(s) ==
    /\ s \in MayFail \ failed
    /\ failed' = failed \cup {s}
    /\ pipe' = [pipe EXCEPT ![s] = <<>>]
    /\ UNCHANGED <<isp, content, queue, worker, pending, encoding, counters>>
-----------------------------------------------------------------------------
(* The callback of an encoder: handleNewSample, on the pipeline's thread.   *)

Position_Oldest(list, pts) == IF list = <<>> THEN 0 ELSE 1
Position_NoTimestamp(list, pts) == 0
\* Where the pending frame with the sample's PTS is, 0 for nowhere.
Position(list, pts) == SelectInSeq(list, LAMBDA f : f.group = pts)

Sample_KeepsOlder(s) ==
    /\ encoding[s] = NoFrame /\ Len(pipe[s]) > HardwareDelay
    /\ pipe' = [pipe EXCEPT ![s] = Tail(@)]
    /\ LET i == Position(pending[s], Head(pipe[s]).pts) IN
       IF i = 0
       THEN /\ encoderDrops' = [encoderDrops EXCEPT ![s] = @ + 1]
            /\ UNCHANGED <<pending, encoding>>
       ELSE /\ encoderDrops' = [encoderDrops EXCEPT ![s] = @ + i - 1]
            /\ encoding' = [encoding EXCEPT ![s] = pending[s][i]]
            /\ pending' = [pending EXCEPT ![s] = RemoveAt(@, i)]
    /\ UNCHANGED <<isp, content, queue, worker, failed, submitted, encoded,
                   queueDrops, frameErrors, pipeErrors>>

\* The frames pending before the one matched were dropped on the way.
Sample(s) ==
    /\ encoding[s] = NoFrame /\ Len(pipe[s]) > HardwareDelay
    /\ pipe' = [pipe EXCEPT ![s] = Tail(@)]
    /\ LET i == Position(pending[s], Head(pipe[s]).pts) IN
       IF i = 0
       THEN /\ encoderDrops' = [encoderDrops EXCEPT ![s] = @ + 1]
            /\ UNCHANGED <<pending, encoding>>
       ELSE /\ encoderDrops' = [encoderDrops EXCEPT ![s] = @ + i - 1]
            /\ encoding' = [encoding EXCEPT ![s] = pending[s][i]]
            /\ pending' = [pending EXCEPT ![s] = SubSeq(@, i + 1, Len(@))]
    /\ UNCHANGED <<isp, content, queue, worker, failed, submitted, encoded,
                   queueDrops, frameErrors, pipeErrors>>

\* A sample without a buffer, or with one that cannot be read, is an error that
\* ends the pipeline; its frame stays pending.
SampleFails(s) ==
    /\ encoding[s] = NoFrame /\ Len(pipe[s]) > HardwareDelay
    /\ s \in MayFail \ failed
    /\ pipeErrors' = [pipeErrors EXCEPT ![s] = @ + 1]
    /\ failed' = failed \cup {s}
    /\ pipe' = [pipe EXCEPT ![s] = <<>>]
    /\ UNCHANGED <<isp, content, queue, worker, pending, encoding, submitted, encoded,
                   queueDrops, encoderDrops, frameErrors>>

\* The output callback has the encoded frame; the local pending goes.
Encoded(s) ==
    /\ encoding[s] # NoFrame
    /\ encoded' = [encoded EXCEPT ![s] = @ + 1]
    /\ encoding' = [encoding EXCEPT ![s] = NoFrame]
    /\ UNCHANGED <<isp, content, queue, worker, pending, pipe, failed, submitted,
                   queueDrops, encoderDrops, frameErrors, pipeErrors>>
-----------------------------------------------------------------------------
Isp == TakeGroup \/ ProcessCamera \/ PoolExhausted \/ ProcessingFails \/ SubmitFrame
Worker(s) ==
    PopFrame(s) \/ FrameFails(s) \/ CopyPicture(s) \/ AddPending(s) \/ PushBuffer(s)
Callback(s) == Sample(s) \/ SampleFails(s) \/ Encoded(s)

Next ==
    \/ Isp
    \/ \E s \in Ids : Worker(s) \/ Callback(s) \/ PipelineDrops(s) \/ PipelineFails(s)

Spec == Init /\ [][Next]_vars

\* The threads go on with what they have begun, and a working pipeline keeps
\* delivering; no group need ever come.
FairSpec ==
    /\ Spec
    /\ WF_vars(ipc # "wait" /\ Isp)
    /\ \A s \in Ids : WF_vars(Worker(s)) /\ WF_vars(Callback(s))
-----------------------------------------------------------------------------
Samples == [pts : 1..MaxGroup, picture : 1..MaxGroup]

\* Every variable has its type; queues and pending lists keep their capacities.
TypeOK ==
    /\ group \in 0..MaxGroup /\ ipc \in {"wait", "process", "submit"}
    /\ at \in 1..Len(Streams) /\ errors \in Nat
    /\ made \in [Ids -> Frames \cup {NoFrame}]
    /\ content \in [Ids -> [Buffers -> 0..MaxGroup]]
    /\ queue \in [Ids -> Seq(Frames)] /\ pending \in [Ids -> Seq(Frames)]
    /\ \A s \in Ids : Len(queue[s]) <= QueueDepth /\ Len(pending[s]) <= PendingCapacity
    /\ frame \in [Ids -> Frames \cup {NoFrame}]
    /\ wpc \in [Ids -> {"pop", "copy", "pending", "push"}]
    /\ picture \in [Ids -> 0..MaxGroup] /\ pipe \in [Ids -> Seq(Samples)]
    /\ failed \subseteq MayFail /\ encoding \in [Ids -> Frames \cup {NoFrame}]
    /\ \A count \in {submitted, encoded, queueDrops, encoderDrops,
                     frameErrors, pipeErrors} :
           count \in [Ids -> Nat]

\* A buffer is not written while anybody still has a frame in it
\* (acquireOutputBuffer): a frame shows its own group as long as it lives.
PicturesIntact ==
    \A s \in Ids : \A f \in Referenced(s) : content[s][f.buffer] = f.group

\* The labels of an encoded frame are those of its picture, whatever the queue
\* and the pipeline left out (handleNewSample matches by PTS).
OwnLabels ==
    [][\A s \in Ids : encoding'[s] # encoding[s] /\ encoding'[s] # NoFrame =>
          encoding'[s].group = Head(pipe[s]).picture]_vars

\* The statistics account for every frame submitted: it is encoded, counted as
\* dropped once, counted as an error by the worker (run), or still inside.
DropsCounted ==
    \A s \in Ids :
        submitted[s] = encoded[s] + queueDrops[s] + encoderDrops[s] + frameErrors[s]
            + Len(queue[s]) + Len(pending[s])
            + (IF wpc[s] \in {"copy", "pending"} THEN 1 ELSE 0)
            + (IF encoding[s] # NoFrame THEN 1 ELSE 0)

-----------------------------------------------------------------------------
(* What the proofs add to these to get an inductive invariant.              *)

\* Cameras whose frame of the group the ISP worker has made and not submitted.
Made == {i \in 1..Len(Streams) : \/ ipc = "process" /\ i < at
                                 \/ ipc = "submit" /\ i >= at}

\* The frames of the group under way are those of the cameras in Made.
IspInv ==
    /\ ipc # "wait" => group > 0
    /\ \A i \in 1..Len(Streams) :
          made[Streams[i]] \in IF i \in Made THEN {f \in Frames : f.group = group}
                                            ELSE {NoFrame}

\* The worker of an encoder labels a picture with the frame it copied it from.
LabelsInv ==
    \A s \in Ids :
        /\ wpc[s] # "pop" => frame[s] \in Frames
        /\ wpc[s] \in {"pending", "push"} => picture[s] = frame[s].group
        /\ \A i \in 1..Len(pipe[s]) : pipe[s][i].pts = pipe[s][i].picture

Increasing(list) ==
    \A i, j \in 1..Len(list) : i < j => list[i].group < list[j].group

\* Frames keep the order of their groups from the ISP to the pending list: those
\* pending, then the worker's, then the queue, then the group under way.
Ordered(s) ==
    /\ Increasing(pending[s]) /\ Increasing(queue[s])
    /\ \A i \in 1..Len(pending[s]) :
          \/ pending[s][i].group < frame[s].group
          \/ pending[s][i].group = frame[s].group /\ wpc[s] \in {"push", "pop"}
    /\ \A i \in 1..Len(queue[s]) : frame[s].group < queue[s][i].group
    /\ \A f \in {frame[s]} \cup Range(queue[s]) :
          \/ f.group < group
          \/ f.group = group /\ ipc # "process" /\ made[s] = NoFrame

\* What is in the pipeline is pending, in the same order.
Matched(s) ==
    /\ \A i, j \in 1..Len(pipe[s]) : i < j => pipe[s][i].pts < pipe[s][j].pts
    /\ \A i \in 1..Len(pipe[s]) :
          /\ wpc[s] # "pop" => pipe[s][i].pts < frame[s].group
          /\ pipe[s][i].pts <= frame[s].group
          /\ \E k \in 1..Len(pending[s]) : pending[s][k].group = pipe[s][i].pts
    /\ wpc[s] = "push" => pending[s] # <<>> /\ pending[s][Len(pending[s])] = frame[s]

\* A pending list as long as the pool is never full when a frame is added.
ListHoldsPool == OutputBuffers <= PendingCapacity
-----------------------------------------------------------------------------
\* A pool that has run out fills again as long as its pipeline works: nothing the
\* pipeline leaves out or the hardware keeps holds the buffers for ever.
PoolRecovers == \A s \in Ids : Exhausted(s) ~> ~Exhausted(s) \/ s \in failed

\* "Sends the four videos independently" (README): no stream, not even one whose
\* encoder has failed, keeps its pool exhausted for ever, which would make the
\* ISP give up every further group of all the streams.
StreamsIndependent == \A s \in Ids : []<>~Exhausted(s)
=============================================================================
