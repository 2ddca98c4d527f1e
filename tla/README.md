# Verification of the four-camera capture program

TLA+ specifications of the program in `src/`, TLC configurations that check them
on small instances, and proofs checked by TLAPS. `PROJECT.json` lists the parts of
the system, the runs, the lines every definition stands for, and the hazards the
properties are for.

    tlc -config MCFrameBuffer.cfg FrameBuffer     # a run: module and .cfg as in PROJECT.json
    tlapm FrameBufferProofs.tla                   # the proofs of a module

## 1. The system

The repository builds two programs. In `four_camera_capture` four cameras are triggered by
software at 60 Hz. Their frames are labelled with the
trigger cycle, grouped by it, thinned to 45 fps, processed to NV12, encoded and sent
as four video streams, with one metadata packet per group. With `--single` it is a diagnostic of
one camera. `camera_app` shows the pictures of one camera until Escape is pressed.

    scheduler --softwareTriggerAll--> camera ==frame==> captureLoop --push--> FrameBuffer (one per camera)
        |                                                 ^                      |
        +----push/cancelLastPush--> TriggerCycleQueue --pop                       | snapshot
                                                                                 v
     main loop:  FrameGrouper.completeAfter -> FrameRateSelector.select -> IspPipeline.submit
                                                                                 v
     ISP worker: IspProcessor.process -> MetadataSender.send, MultiStreamEncoder.submit
                                                                                 v
     encoder worker (per camera) -> GStreamer -> handleNewSample -> MultiStreamOutput.send -> streamer worker

| Part | State | Operations | Interacts through | What makes it correct |
|---|---|---|---|---|
| TriggerCycleQueue | `values_`, `head_`, `tail_` (atomics) | push, cancelLastPush, pop, clear | scheduler and capture thread, no lock | labels and exposures stay matched; no slot is raced on; it is a FIFO |
| Camera slot (MultiCameraManager) | image pool, previous frame number, statistics, thread | openAll, startCapture, softwareTriggerAll, captureLoop, stop | label queue, SDK, ring, references to images | true labels; images not overwritten in use; statistics account for every frame; stop returns |
| FrameBuffer | 4 slots, published and overwritten counts | push, latest, snapshot, clear | atomics, one writer, several readers | readers get published frames in order, and miss only what was replaced |
| FrameGrouper | none of its own | completeAfter | reads four rings one after the other | no complete cycle still available is passed over |
| FrameRateSelector | output clock, pending group, statistics | select, reset, statistics | main loop only | nearest group, rate bound, order, accounting |
| BoundedLatestQueue | queue, closed, condition variable | push, waitPop, close, size | any producer, one worker | no lost wake-up, oldest dropped, drained at stop |
| IspPipeline / IspProcessor | input queue, NV12 buffer pools | start, submit, run, stop, process | queue, references to buffers | groups whole and in order; buffers not overwritten in use |
| GStreamerEncoder, MultiStreamEncoder | input queue, pending frames, pipeline | start, submit, run, handleNewSample, stop | queue, GStreamer threads, callback | labels follow pictures; buffers come back; streams independent |
| Streamers, MultiStreamOutput | queue, pipeline or file, statistics | start, send, run, stop | queue, GStreamer | start/stop in any state, order per stream, statistics that add up |
| MetadataSender | queue, socket, statistics | start, send, run, stop | queue, UDP | the exact RTP time stamp, order, statistics that add up |
| SoftwareTriggerScheduler | cycle counter, next wake-up | start, run, stop | callback into the camera slots | no bursts, no drift without a counted overrun |
| Configuration | AppConfig, CommandLine | ParseCommandLine, LoadConfig, the overrides in run | constructors and start of the parts | what is accepted fits together; mistakes are found before a camera is opened |
| Application | last group cycle, stop flag | run, signal handler | all of the above | orderly start-up and shutdown |
| Preview | thread, close flag | start, run, stop | reads the rings; ends the loop | gone before what it reads |
| HikCamera, FrameLease | SDK handle, lease | open, startGrabbing, getImageBuffer, softwareTrigger, close | SDK | every SDK buffer released once, nothing closed under a command |
| Single-camera diagnostic | options, counts, scheduler | RunSingleCameraDiagnostic | HikCamera from two threads | ends with the camera given back, whatever fails |
| camera_app (CameraNode) | handle, supported pixel format | init, grab, shutdown, main | SDK | every buffer released, ends at Escape |
| CUDA/NPP backend, image processing | | | | not modelled, see section 7 |

The hard behaviours: lock-free structures between two threads (label queue, frame
ring); exclusive use of a buffer decided by `use_count() == 1` while other threads
copy and drop references; pools that run out because something downstream still
refers to a frame; frames that are lost on the way while their labels are not;
values dropped from queues and pipelines on purpose; a schedule that must neither drift nor make up
for lost time; start-ups that fail at any of their steps; settings that are checked one by one but
must fit together; and stopping all of this.

## 2. Modules

Conventions. One action is one atomic access, one critical section, or one call whose intermediate
states no other thread can see. Variables keep the names of the code (`tail` for `tail_`); history
variables are marked `history` where they are declared and no guard of a faithful action reads them.
An operator named `X_Y` is a faulty version of the operator `X` just after it, of the kind a slip in
the code would be; it is used by no specification, only by `PROJECT.json`, which says which property
notices the slip.

| Module | Models | Actions and the code |
|---|---|---|
| `CycleFifo` | what a label queue promises | abstract bounded FIFO: put, cancel the last, take |
| `TriggerCycleQueue` | `TriggerCycleQueue` with the trigger command and the frames | `Push*`, `Cancel*`, `Pop*`: one per atomic load or store of push, cancelLastPush, pop; `CommandFires`, `CommandFails`, `CommandAckLost`: the outcomes of `softwareTrigger`; implements `CycleFifo` |
| `CameraCapture` | one slot of `MultiCameraManager`, triggered by software or not | `TriggerRefused`, `PushLabel`, `CommandFails`, `FrameDelivered`: softwareTriggerAll; `FreeRunFrame`: a camera that triggers itself; `LoopTop` ... `PushFrame`: captureLoop in its order; `TakePacket`, `ReleasePacket`: readers of the ring; `RequestStop`, `StopJoins`, `Reopen`: stop, openAll and startCapture |
| `FrameBuffer` | `FrameBuffer` | `Push*`: the two stores and the overwrite count; `Snapshot*`, `Latest*`: one load each, `latest` with its two attempts; `Clear` |
| `FrameRateSelector` | `FrameRateSelector` | one action per branch of `select`; `Reset`; `SelectorInit`, `SelectorNext`, `SelectorSpec` |
| `GroupPipeline` | cameras, grouper, selector, ISP queue and worker | `Trigger`, `Capture`; `ReadCount`, `ReadSlot`, `NextCamera`, `MakeGroups`: completeAfter slot by slot; `PassGroup`: the body of the main loop; `IspTake`, `IspDone`. Extends `FrameRateSelector`, whose steps the main loop takes, and implements it. |
| `LatestQueue` | `BoundedLatestQueue` with the owner's submit, worker and stop | `Submit*`, `Push*`; `WaitPop*`, `SpuriousWakeup`, `WorkDone`; `StopBegins`, `Close`, `RequestStop`, `Join` |
| `Streamer` | `FileStreamer`, `GstAppSrcStreamer`, `MetadataSender` | `Send`, `WaitFrame`, `StopStreamer`: the steps of `LatestQueue`, which it extends and implements, with the statistics; `WriteFile`, `NoData`, `NoBuffer`, `PushBuffer`, `BusError`, `SendTo`: what becomes of a value; `RtpTimestamp`: the time stamp of the metadata |
| `EncoderChain` | ISP worker, NV12 pools, encoders | `TakeGroup`, `ProcessCamera`, `PoolExhausted`, `ProcessingFails`, `SubmitFrame`: IspPipeline::run with process and MultiStreamEncoder::submit; `PopFrame`, `FrameFails`, `CopyPicture`, `AddPending`, `PushBuffer`: GStreamerEncoder::run; `Sample`, `SampleFails`, `Encoded`: handleNewSample; `PipelineDrops`, `PipelineFails`: GStreamer, external |
| `AppLifecycle` | `run`, with start, worker and stop of every part | `StartPart`, `OpenCamera`, `GrabCamera`, `StartThread`, `StartFails`, `InstallHandler`, `ResetFlag`, `SelectorThrows`: the start-up in the order of `Startup`; `SubmitGroup`, `LeaveLoop`: the loop; `Tell`, `Join`, `Release`, `Destroy`: the stops in `ShutdownOrder` and the destructors in `DestructionOrder`; `Signal`; `Take` ... `PreviewCloses`: what the threads and callbacks do meanwhile |
| `TriggerScheduler` | `SoftwareTriggerScheduler` in integer time | `StartScheduler`, `NextCycle`, `CallbackReturns`, `PlanNext`, `Wake`, `RequestSchedulerStop`, `JoinScheduler`; `Tick`: time |
| `MvsSession` | what the camera SDK asks of its caller (external) | the order of handle, device, grabbing, buffers and commands |
| `SingleCamera` | `RunSingleCameraDiagnostic` with `HikCamera` and the scheduler | extends `TriggerScheduler`; `Enumerate` ... `SetStrategy`, `OpenFails`: open; `LoopCondition`, `GrabFrame`, `GrabFails`, `Look`: the loop with its lease; `TriggerCycle`, `CommandReturns`: the scheduler's callback; `StopGrabbing` ... `DestroyHandle`: close; implements `MvsSession` |
| `CameraNode` | `camera_app` | `Prepare` ... `StartGrabbing`, `InitFails`: init; `GrabFrame`, `GrabFails`, `Convert`: grab; `Show`: main; `StopGrabbing` ... `DestroyHandle`: shutdown; implements `MvsSession` |
| `Configuration` | ParseCommandLine, LoadConfig, the overrides of run and the checks of the parts | one action per check in the order of main and run, from any of the settings in the constant `Initial` |
| `CameraTools` | the two programs before and besides the capture | composes `Configuration`, `SingleCamera` and `CameraNode`, one program at a time |
| `*Proofs` | | theorems and their proofs, one module per specification |
| `MC*` | | constants for TLC |

How they fit together. Each specification takes from the one before what that one's
properties promise: `CameraCapture` and `GroupPipeline` use the label queue as a FIFO
(`ImplementsFifo`), the ring as the sequence of newest frames (`RingHoldsNewest`,
`SnapshotMissesOnlyReplaced`) and `GroupPipeline` a frame as its cycle
(`LabelsMatchExposures`, `TrueLabels`). `GroupPipeline` and `EncoderChain` use the queue
between two stages as a sequence that drops its oldest (`HoldsLatest`, `EachOnce`), and
`AppLifecycle` that a stopped worker drains it (`DrainedAtStop`); `Streamer` shows that the
streamers are such workers (`StreamerIsLatestQueue`). `CameraCapture` takes for granted that a
camera can be opened, grabbed from, triggered from another thread and closed, which is what
`SingleCamera` is about (`ObeysSdk`). In `AppLifecycle` a thread's turn
(a grab with its lease, a trigger, a group in a stage) is "busy" from its first to its last use of
what it works with; what it computes is in the other modules.

Abstractions. A frame, a group and a label are the number of the trigger cycle; images
and NV12 buffers are pool indices together with the frame they show; timestamps are small
integers in proportion to the cycle, as host timestamps are taken in the order in which the
frames of a camera arrive. 64-bit counters do not wrap in the lifetime of the program, with one
exception that matters and is modelled: the difference `tail - head` in `push` after a lost
acknowledgement (`Full`). The 32-bit frame number of the camera wraps after more than two
years at 60 Hz and is not modelled.

## 3. Runs

All passing runs together take less than ten minutes; `encoder_chain`, `camera_tools` and
`app_lifecycle` are the longest. `GroupPipeline` has its type invariant in its run; it is proved too (section 5), and so are, without
a run, those of `TriggerCycleQueue`, `FrameBuffer`, `FrameRateSelector`, `LatestQueue`,
`CameraCapture`, `EncoderChain` and `AppLifecycle`. Those of `SingleCamera` and `CameraNode` hold on
the instances below (each under its own `Spec`) and say what the variables mean.

| Run | Instance | Shows |
|---|---|---|
| `trigger_queue` | capacity 2, 6 cycles, two commands that fire and are reported as failed: the ring wraps three times, full and empty queues, a cancel against a pop | until an acknowledgement is lost (`Truthful`) labels match exposures, no slot race, refinement of `CycleFifo`, every exposure gets its label; labels grow until a second one is lost |
| `frame_buffer` | capacity 4 as in the code, 2 readers, 8 pushes: both attempts of `latest` can be lapped | reads, order, freshness |
| `selector` | period 3, all timestamps -1..10, incomplete groups, resets | accounting, rate, nearest group, no output time skipped while inputs keep coming |
| `group_pipeline` | 2 cameras, ring of 2 slots, 5 cycles, one lossy, arbitrary scheduling | nothing available is passed over and the gaps are counted, order at the ISP, when a pool can run out |
| `latest_queue` | a streamer of each kind: capacity 2, 5 submits, 2 errors on the bus, a stop at any moment, spurious wake-ups, writes that fail | no lost wake-up, every value leaves once, statistics add up at every moment, stop returns |
| `camera_capture` | label queue 2, ring 2, 5 cycles, 2 sessions triggered by software or not, one lost frame per session, one packet kept | labels, images, statistics, refusals end, stop returns |
| `encoder_chain` | one stream with the default pool of 4, queue of 2 and pending limit of 16, 7 groups, processing that may fail, frames that cannot be passed on, a pipeline that may fail | labels follow pictures, buffers intact, every frame accounted for once, the pool recovers while the pipeline works |
| `app_lifecycle` | 2 cameras, 2 streams, queues of 1, one group under way, all start failures and an output rate refused after them, signals at any moment | no thread in a part that is closed or destroyed, nothing on its way refused, everything released at the end |
| `camera_tools` | settings that differ from the defaults in at most two places (three with `--disable-encoder`), or in at most one from rates too small to have a period; the diagnostic with period 2, duration 4, 2 SDK buffers; `camera_app` | accepted settings fit together and nearly all mistakes are found before a camera is opened; no bursts and no drift; both camera programs use the SDK as it asks and end with the camera given back |

In `camera_tools` `MaxTime` = 6 bounds the clock: three periods, so that the scheduler can be late
by more than a period before the second and the third cycle; only the last sleep before a join may
go beyond. Two settings at a time are enough for what is compared in pairs (rates, counts, codec and
output mode); the third is there because `--disable-encoder` takes away the checks of others.

One group under way in `app_lifecycle` is in every stage at some stop; two groups with one stream,
and one camera with two streams and two groups, were checked as well. Two cameras instead of four:
the four slots and streams share no state except through the group, in which all cameras but the
first play the same part; two have every interaction of a pair. Bounds on cycles and pushes are long
enough for each ring, queue and pool of the instance to be filled, overrun and emptied.

Three runs end in a violation, each of something the repository's documents say:

* `group_pipeline_outage` (`RingFollowsCamera`): with two cycles lost on different cameras,
  each ring keeps frames no later cycle completes, and the ISP worker's local variable keeps
  the last group. All five images of a camera are then referenced; captureLoop drops every further
  frame, so no new group comes that would release the old one. One lossy cycle is survived: with
  `MaxLossy = 1` the property holds in this configuration.
* `camera_capture_first_lost` (`TrueLabels`): a frame lost before the first one of a
  session shifts all labels of that camera, since loss is only seen between two received frames.
* `encoder_failure_stops_all` (`StreamsIndependent`): pending frames of a failed pipeline
  keep their buffers for ever; every later group is given up for all streams.

What the passing runs depend on, found by varying the constants, and what else the models show:

* With an output period of more than five capture periods, which LoadConfig accepts, the pending
  group of the selector, the group in the ISP and the ring hold all five images of a camera without
  any loss, and the capture stops in the same way as in `group_pipeline_outage`. Spacing 3 with
  periods 3 to 12 was checked to be free of it.
* Cameras that trigger themselves (`FREE_RUN`, `HARDWARE_TRIGGER`) deliver frames without a cycle
  (`TrueLabels` covers them); `completeAfter` skips cycles up to the last one it grouped, which
  begins at 0, so that no group is ever formed, although LoadConfig accepts these modes.
* LoadConfig compares the capture rate, a float, with the software frequency, a double: equal rates
  such as 59.94 that a float does not have are refused (`AsFloat`, in eighths in the model).
* `--validate-config` means that LoadConfig accepts the file. Parts may still refuse it (a GOP of 0,
  an odd image size, no metadata port, CUDA not built, AV1 over RTP), all before a camera is opened.
  `LateRefusals` names the exceptions, rates that are refused when the cameras grab already: those
  that are not numbers (`.nan`, `.inf`), and those below about 1e-10, whose period in nanoseconds
  does not fit in 64 bits. That conversion is undefined (`PeriodPositive`): it gives a negative
  period, which is refused, on x86-64, and the largest number, which is accepted, on ARM64. What the
  program does with a period of centuries is not modelled.
* `PartsAgree` excepts `--isp-cameras` alone: it can leave encoders without pictures.
* `ProgramEnds` of `camera_app` needs a camera that sends images of a format it can convert: after a
  grab that failed main reads no key, and in software trigger mode nobody sends a trigger.
* After a lost acknowledgement the properties conditioned on `Truthful` do fail: the cancel takes
  away a label that was popped already, `tail` falls behind `head`, and every later trigger of the
  camera is refused, because `tail - head` wraps. `LabelsIncrease` survives one loss and no more: with
  two, an exposure may be left when `tail` is behind `head`, `pop` (which only asks whether they are
  equal) runs on through old slots, and the frame gets a label of an earlier lap or 0.
* The second session of `camera_capture` (`Reopen`) is what `MultiCameraManager` allows its user; the
  programs of the repository open their cameras once.
* `TrueLabels` and `FramesAccounted` assume that the camera's first frame number is not 0
  (`FirstNumber = 1`): 0 also stands for "no frame yet" in captureLoop.
* `RefusalEnds` needs fewer lost frames in a row than the label queue has slots (64).
* `PoolRecovers` needs `HardwareDelay` below the encoder's queue depth (2 by default): a hardware
  encoder that keeps two pictures back can leave the pool exhausted for good. The pipeline is
  configured without B-frames, which keeps the delay below that.
* `StopReleases` starts with the loop, or with a failed start. The handlers are installed last, so
  Ctrl+C during the start-up (opening four cameras takes seconds) kills the process with cameras and
  pipelines open, and one between the installation and the reset of `g_stop_requested` is forgotten.
  The README's promise that Ctrl+C releases cameras and GStreamer resources is about the running
  program and holds there. A stop that GStreamer or the camera SDK never returns from is outside of
  the model.
* `NothingRefused` needs the stops to follow the data. Stopping outputs before the ISP would lose
  frames but destroy nothing in use, as the destructors come later; stopping the cameras before the
  scheduler would let it trigger a closed camera.
* `DropsCounted` has three ways out of an encoder: encoded, dropped, or one of those `errors_` that
  the worker counts before a frame is pending (`frameErrors`). The encoder's statistics do not tell
  these from the other errors: a buffer refused by the pipeline and an unreadable sample, whose frames
  stay pending (`pipeErrors`), and messages on the bus and exceptions of the output callback, which
  belong to no frame still to be counted and are left out.
* `DropsCounted` needs the pending limit (16) to be at least the pool size (4); a larger pool in the
  configuration would count frames twice.

## 4. Fairness

`FairSpec` always means: a thread goes on inside the call it is in. Triggers, submits, stops,
failures and losses are never fair. `TriggerCycleQueue`: both threads between two calls.
`LatestQueue` and `Streamer`: a call of push that has begun, the worker, every write (it returns,
with or without success), and the rest of stop. `CameraCapture`: the capture loop (its grab has a
timeout) and the join. `EncoderChain`: the ISP worker with a group it has taken, the encoder
workers, and the callback, as a working GStreamer pipeline delivers what it has. `AppLifecycle`:
main alone, and while it waits in a stop the one thread or callback it waits for. `SingleCamera`,
and with it `camera_tools`: the main thread, the scheduler's thread, and time, as grabs have a
timeout and the other calls of the SDK are taken to return; frames may stay away and every call may
fail. `CameraNode`: its only thread. What `AppLifecycle` assumes is justified by grabs with a
timeout, short sleeps and finite queues that nobody fills any more. `PromptSpec` of `GroupPipeline`
also makes the trigger fair and lets the consumers finish a cycle before the next one; it is the
most favourable schedule, so what still stops under it stops under every other.

## 5. Proofs

Proved for all values of the constants, from the assumptions named beside them and those the
theorems state. Each safety property of the passing runs has its theorem (`PROJECT.json` says which),
and several hold for more than their runs can look at. Each proof has an inductive invariant, stated
in the specification under "What the proofs add" or as `IInv` and shown in three steps: the initial
states have it, each action keeps it (a lemma per action or group of actions), and it implies the
properties.

* `TriggerCycleQueueProofs`: `TypeCorrect`, always; and in every state before an acknowledgement is
  lost (`Truthful => IInv` is the invariant) `LabelsCorrect`, `SlotsSafe` and
  `FifoImplemented`, the refinement of `CycleFifo`. The invariant says which exposures have their
  labels in the slots between head and tail (`LabelsStored`), that the stored labels are the exposed
  cycles up to the one whose command is under way (`ExposuresStored`), and what the local copies of
  the two threads still mean (`SchedulerCopies`, `CaptureCopies`). The crux is that a cancel takes
  away a label no frame has been exposed for, so that the capture thread cannot be reading it. For
  the refinement the slots from head to tail are read as a sequence (`Labels`): the stores of tail
  and head are the operations of the FIFO, all other steps change nothing it knows of.
  `LabelsGrow` goes on until a second acknowledgement is lost, with an invariant of its own,
  `LabelsInv`: there is at most one exposure more than labels (`ExposuresCounted`), so no pop begins
  with the tail behind the head; a label cancelled while it is popped is still older than what a push
  writes into its slot (`PopInv`). With a second loss the statement is false (section 3).
* `CameraCaptureProofs`: `TypeCorrect` and `ImagesSafe` without conditions; `LabelsTrue` and
  `FramesCounted` if frame numbers do not begin at 0 and the first frame of a session is not lost;
  `RefusalsEnd` if also fewer frames are lost in a session than the label queue has places. The
  invariant says where the label of every frame is in the queue: it is `Owed` labels from the head,
  and then one per number from `Base` on. An image that is free cannot become referenced before it
  is pushed, as packets are only copied from packets.
* `FrameBufferProofs`: `TypeCorrect`, `RingCorrect`, `ReadsPublished`, `SnapshotsComplete`,
  `LatestFresh`. The invariant relates a reader's progress to the window it loaded: what it has not
  collected is still to be read, or has been replaced (`NotOverlooked`); the bound on `latest` comes
  from counting the pushes that a failed attempt proves (`CallInv`).
* `GroupPipelineProofs`, first of the selector alone, for every period and input:
  `SelectorTypeCorrect`, `GroupsAccounted`, `RateCorrect`, `OutputsInOrder` (proved only; no run
  checks it), `NearestReturned`, `NoTimeSkipped`. The output clock is kept as first timestamp plus a
  multiple of the period (`RateInv`), which needs the closed form of the loop in
  `advanceOutputTimestamp` (`Advance`).
  Then of the pipeline, for any cameras, ring and scheduling: `TypeCorrect`; `PassedOverCorrect`, as
  the frames of a camera come in order and leave its ring oldest first: what a snapshot lacks below
  a frame that it has is gone for good (`Gone`), although the rings are read one slot after the
  other while they change (`ScanInv`), so that a cycle between two groups found can be completed by
  no later call (`GroupsInv`, `PassedInv`); `IspOrdered`, through the pending group of the selector
  and the queue that drops its oldest (`IspOrder`); `PoolCorrect`, by counting the images that ring,
  groups and packets refer to. That completeAfter returns its groups in order rests on sorting a
  finite set, by taking a smallest set that could not be sorted (`Sortable`).
  `PipelineSelects` (the pipeline implements the selector's specification) and `PipelineRate` (so
  what is proved of that one holds in the main loop) assume `BoundsSuffice`: the bounds of the selector,
  which the code has not, do not stop the pipeline.
* `StreamerProofs`: of `LatestQueue`, `TypeCorrect`, `QueueCorrect`, `StopCorrect`, `ValuesAccounted`.
  The invariant ties the flags to how far stop has come (`StopOrder`) and says that a worker ends only
  with the queue closed and empty; for `EachOnce` that the head of the queue is the next value to
  leave. Of the streamers, `StreamerIsLatestQueue`, every step is one of `LatestQueue` or
  changes none of its variables, and so `StreamerQueueCorrect`, all that holds of the queue;
  `StatisticsCorrect` (`CountersInv` relates the counters to the values under way);
  `RtpTimestampExact`, the time stamp computed from seconds and rest apart is the exact quotient
  modulo 2^32 for every time. TLC's integers are too small for it.
* `EncoderChainProofs`, for any streams, pool, queue and pending limit: `TypeCorrect`;
  `PicturesSafe`, as the holders of one buffer (group under way, queue, worker, pending list)
  exclude each other and a writer takes a buffer that has none; `LabelsOwn`, as frames keep the order
  of their groups from the ISP to the pending list (`Ordered`) and what is in the pipeline is pending
  in the same order (`Matched`); `DropsCorrect` under `ListHoldsPool`, whatever the worker cannot
  pass on. All need each camera to appear once in a group, as the holders of a buffer are told apart
  by camera. `ListHoldsPool` is
  not idle: with a pending limit below the pool size a frame dropped from a full list is counted, and
  again when its sample comes and is not found, and LoadConfig does not bound
  `output_buffers_per_camera` by the limit of 16.
* `AppLifecycleProofs`, for any number of cameras, streams and groups, any queue depth and whatever
  start fails or output rate is refused: `TypeCorrect`, `PartsSafe` and `HandedOn`. The argument is
  one of order. `Precedes` says which steps of main have to come before which (a writer joined before what it writes to is told,
  released or destroyed; the scheduler joined before the cameras close; ...). The first half of the
  module shows that the plans main follows, `Startup` and the stops and destructors from wherever the
  start-up or the loop ends, respect it, adding the block of one object after the other (`StopOf`,
  `DestroyOf`); an object that was never started counts as stopped (`Finished`). The second half shows
  that a plan in this order keeps `UsersInv`: what a thread that has not ended uses is there.
* `CameraToolsProofs`: `ScheduleHolds`, the scheduler alone and for every delay, from `IInv` of
  `TriggerScheduler` (the next wake-up is ahead of every cycle by one period per cycle in between);
  `DiagnosticSchedule`, the same within the diagnostic; `SdkObeyed` and `NodeObeysSdk`, the diagnostic
  and `camera_app` implement `MvsSession`, from how far the session is at each place of the main
  thread (`SessionInv`, `NodeInv`) and, for the diagnostic, that the scheduler's thread exists only
  while the camera grabs. Of the two programs with the settings they start from (`ToolsInv`):
  `ToolsObeySdk`, `ToolsSchedule`, and, for all combinations of settings and not only the two or
  three changes of the run, `SettingsAgree` and `RefusedEarly`.

Only model-checked: the liveness properties (`EveryExposureLabelled`, `StopReturns`,
`ValuesLeave`, `PoolRecovers`, `StopReleases`, `ProgramEnds`), which are out of the prover's
reach as far as they rest on fairness. The loop of `advanceOutputTimestamp` is recursive and so is
what TLC compares its closed form with (`MCFrameRateSelector`, up to a bound); the proofs use the
closed form.

## 6. Plan

Done: the path of a frame from the trigger to the encoded picture and its sending, the life cycle of
the program around it, what it accepts as configuration, the two single-camera programs, and the
proofs of what the runs check but for liveness. Next, in this order:

1. What each specification takes from the one before (section 2) as a theorem: `GroupPipeline`
   reads rings and a queue as sequences, which `FrameBuffer` and `LatestQueue` promise in other words.
2. The safety part of the liveness properties: that a thread which is waited for can always go on
   (no state of `AppLifecycle` or `LatestQueue` in which a stop waits for a thread that waits for it).
3. `TypeOK` of `SingleCamera` and `CameraNode`.

## 7. Not modelled

* The image processing (CUDA/NPP kernels, OpenCV path, colour configuration, pixel conversion in
  camera_app): data, not control. What may fail in it is one outcome, `ProcessingFails`.
* GStreamer, the camera SDK and the network, other than as the environment of the code that calls
  them. The vendor's headers in `src/include`, more than half of the lines of the repository, are
  declarations without code of this program; what it relies on is `MvsSession`.
* The node values a camera is configured with (`HikCamera`, `CameraNode`): each group of calls
  succeeds or fails.
* The layout of the metadata packet.
* What the preview draws; its thread is in `AppLifecycle`, its reads are those of `FrameBuffer`.
* `NullStreamer`, which counts and returns.
* Logging, statistics printing and latency percentiles; `--enumerate-only`, which prints, and
  `--isp-dump-dir`, which writes one group to files.
