----------------------------- MODULE AppLifecycle -----------------------------
(***************************************************************************)
(* The life of the program: run of four_camera_capture.cpp starts its      *)
(* parts one after the other, any of which may fail, loops until it is     *)
(* interrupted, and stops and destroys them, while their threads go on     *)
(* handing groups and calls to each other.                                 *)
(*                                                                         *)
(* What main still has to do is the sequence plan.  A part <<o, i>> is one *)
(* thread of object o with what it owns: the worker of a stage with its    *)
(* queue and pipeline, file or socket; a capture thread with its camera;   *)
(* the scheduler; the preview.  A queue drops its oldest value and is      *)
(* drained after a stop, as shown in LatestQueue; running_ and closed_,    *)
(* which stop sets one after the other, are one flag here, told.           *)
(*                                                                         *)
(* An operator named X_Y is a faulty version of the operator X; it is not  *)
(* part of the specification.                                              *)
(***************************************************************************)
EXTENDS Integers, Sequences, SequencesExt

CONSTANTS CameraCount,  \* kCameraCount
          StreamCount,  \* active_camera_count of encoder and output
          QueueDepth,   \* queue_depth of every stage
          MaxGroups     \* bound: groups submitted to the ISP

ASSUME CountsAssumption ==
    {CameraCount, StreamCount, QueueDepth} \subseteq Nat \ {0} /\ MaxGroups \in Nat

VARIABLES phase,            \* of main: "start", "loop", "end", "returned", "killed"
          plan,             \* of main: the steps to be done in this phase
          alive,            \* objects constructed and not yet destroyed
          opened,           \* parts with an open pipeline, file, socket or handle_
          grabbing,         \* cameras with grabbing_
          thread,           \* per part, where its thread is
          told,             \* parts whose stop has begun
          work,             \* per part, the group or camera its thread works on
          queue,            \* per stage, its queue of groups
          delivered,        \* steps of the ISP callback done for its group
          pipe, callback,   \* per stream, the encoder's pipeline and its callback
          groups,           \* groups submitted to the ISP
          stopRequested,    \* g_stop_requested
          installed,        \* signals whose handler is installed
          closeRequested    \* close_requested_ of the preview

mainVars == <<phase, plan, alive>>
resourceVars == <<opened, grabbing>>
threadVars == <<thread, work>>
pipelineVars == <<pipe, callback>>
signalVars == <<stopRequested, installed>>
vars == <<mainVars, resourceVars, threadVars, told, queue, delivered, pipelineVars,
          groups, signalVars, closeRequested>>

Stages == {"output", "encoder", "metadata", "isp"}
Objects == Stages \cup {"manager", "scheduler", "preview"}
Count(o) == CASE o \in {"output", "encoder"} -> StreamCount
              [] o = "manager" -> CameraCount
              [] OTHER -> 1
PartsOf(O) == UNION {{<<o, i>> : i \in 1..Count(o)} : o \in O}
Parts == PartsOf(Objects)
StageParts == PartsOf(Stages)
Signals == {"SIGINT", "SIGTERM"}

Isp == <<"isp", 1>>
Metadata == <<"metadata", 1>>
Scheduler == <<"scheduler", 1>>
Preview == <<"preview", 1>>
Camera(c) == <<"manager", c>>
Encoder(s) == <<"encoder", s>>
Output(s) == <<"output", s>>

Do(step, part) == [step |-> step, part |-> part]
\* One step for each part of object o.
Each(step, o) == [i \in 1..Count(o) |-> Do(step, <<o, i>>)]
-----------------------------------------------------------------------------
(* The order in which things are done.                                      *)

Startup ==
    Each("start", "output") \o Each("start", "encoder") \o Each("start", "metadata")
    \o Each("start", "isp")
    \o Each("open", "manager") \o Each("grab", "manager") \o Each("thread", "manager")
    \o Each("start", "scheduler") \o Each("thread", "preview")
    \o << Do("handle", "SIGINT"), Do("handle", "SIGTERM"), Do("reset", "SIGINT") >>

\* stop of an object: its threads are told and joined, then what they used is
\* released; one part after the other, but all cameras together.
StopOf(o) ==
    IF o = "manager"
    THEN Each("tell", o) \o Each("join", o) \o Each("release", o)
    ELSE [k \in 1..(3 * Count(o)) |->
             Do(<<"tell", "join", "release">>[((k - 1) % 3) + 1], <<o, ((k - 1) \div 3) + 1>>)]

\* The destructor stops what has not been stopped.
DestroyOf(o) == Append(StopOf(o), Do("destroy", <<o, 1>>))

ShutdownOrder_CamerasFirst ==
    <<"preview", "manager", "scheduler", "isp", "encoder", "output", "metadata">>
ShutdownOrder_OutputFirst ==
    <<"preview", "scheduler", "output", "metadata", "encoder", "isp", "manager">>
\* The stops after the loop.
ShutdownOrder ==
    <<"preview", "scheduler", "isp", "encoder", "output", "metadata", "manager">>

\* The locals of run are destroyed in the reverse order of their declaration.
DestructionOrder ==
    <<"preview", "scheduler", "manager", "isp", "metadata", "encoder", "output">>

Shutdown ==
    LET Stop(k) == StopOf(ShutdownOrder[k])
    IN  Stop(1) \o Stop(2) \o Stop(3) \o Stop(4) \o Stop(5) \o Stop(6) \o Stop(7)
\* Those of O, the objects constructed.
Unwind(O) ==
    LET Leave(k) == IF DestructionOrder[k] \in O THEN DestroyOf(DestructionOrder[k]) ELSE <<>>
    IN  Leave(1) \o Leave(2) \o Leave(3) \o Leave(4) \o Leave(5) \o Leave(6) \o Leave(7)
\* After the loop, where every object is constructed.
AfterLoop == Shutdown \o Unwind(Objects)
-----------------------------------------------------------------------------
Init ==
    /\ phase = "start" /\ plan = Startup /\ alive = {}
    /\ opened = {} /\ grabbing = {}
    /\ thread = [p \in Parts |-> "none"] /\ work = [p \in Parts |-> 0] /\ told = {}
    /\ queue = [p \in StageParts |-> <<>>] /\ delivered = 0
    /\ pipe = [s \in 1..StreamCount |-> <<>>] /\ callback = [s \in 1..StreamCount |-> 0]
    /\ groups = 0
    /\ stopRequested = 0 /\ installed = {} /\ closeRequested = FALSE

\* Main does the next step of its plan, which is of this kind.
Does(ph, step) == phase = ph /\ plan # <<>> /\ Head(plan).step = step /\ plan' = Tail(plan)
Part == Head(plan).part
-----------------------------------------------------------------------------
(* Main: starting.                                                          *)

\* MultiStreamOutput, MultiStreamEncoder, MetadataSender, IspPipeline and
\* SoftwareTriggerScheduler: open what the thread needs, then start it.
StartPart ==
    /\ Does("start", "start")
    /\ alive' = alive \cup {Part[1]}
    /\ opened' = opened \cup ({Part} \cap PartsOf({"output", "encoder", "metadata"}))
    /\ thread' = [thread EXCEPT ![Part] = "idle"]
    /\ UNCHANGED <<phase, grabbing, told, work, queue, delivered, pipelineVars, groups,
                   signalVars, closeRequested>>

OpenCamera ==
    /\ Does("start", "open")
    /\ alive' = alive \cup {"manager"}
    /\ opened' = opened \cup {Part}
    /\ UNCHANGED <<phase, grabbing, threadVars, told, queue, delivered, pipelineVars,
                   groups, signalVars, closeRequested>>

GrabCamera ==
    /\ Does("start", "grab")
    /\ grabbing' = grabbing \cup {Part[2]}
    /\ UNCHANGED <<phase, alive, opened, threadVars, told, queue, delivered, pipelineVars,
                   groups, signalVars, closeRequested>>

\* A thread whose start cannot fail: the capture threads and the preview.
StartThread ==
    /\ Does("start", "thread")
    /\ alive' = alive \cup {Part[1]}
    /\ thread' = [thread EXCEPT ![Part] = "idle"]
    /\ UNCHANGED <<phase, resourceVars, told, work, queue, delivered, pipelineVars, groups,
                   signalVars, closeRequested>>

StartFails_Keeps ==
    /\ phase = "start" /\ plan # <<>> /\ Head(plan).step \in {"start", "open", "grab"}
    /\ plan' = <<>>
    /\ alive' = alive \cup {Part[1]}
    /\ phase' = "end"
    /\ UNCHANGED <<resourceVars, threadVars, told, queue, delivered, pipelineVars, groups,
                   signalVars, closeRequested>>

\* A start that fails, or the constructor before it, has released what it opened
\* itself; run returns, and the object that failed is the first to be stopped, except
\* that run stops the manager itself when the scheduler fails.  --open-all returns
\* here as well, with every camera open.
StartFails ==
    /\ phase = "start" /\ plan # <<>> /\ Head(plan).step \in {"start", "open", "grab"}
    /\ plan' = (IF Part = Scheduler THEN StopOf("manager") ELSE <<>>)
               \o Unwind(alive \cup {Part[1]})
    /\ alive' = alive \cup {Part[1]}
    /\ phase' = "end"
    /\ UNCHANGED <<resourceVars, threadVars, told, queue, delivered, pipelineVars, groups,
                   signalVars, closeRequested>>

InstallHandler ==
    /\ Does("start", "handle")
    /\ installed' = installed \cup {Part}
    /\ UNCHANGED <<phase, alive, resourceVars, threadVars, told, queue, delivered,
                   pipelineVars, groups, stopRequested, closeRequested>>

ResetFlag ==
    /\ Does("start", "reset")
    /\ stopRequested' = 0
    /\ UNCHANGED <<phase, alive, resourceVars, threadVars, told, queue, delivered,
                   pipelineVars, groups, installed, closeRequested>>

\* FrameRateSelector's constructor refuses the output rate: the exception leaves run,
\* which stops nothing itself, and main reports it.
SelectorThrows ==
    /\ phase = "start" /\ plan = <<>>
    /\ phase' = "end" /\ plan' = Unwind(alive)
    /\ UNCHANGED <<alive, resourceVars, threadVars, told, queue, delivered, pipelineVars,
                   groups, signalVars, closeRequested>>

EnterLoop ==
    /\ phase = "start" /\ plan = <<>>
    /\ phase' = "loop"
    /\ UNCHANGED <<plan, alive, resourceVars, threadVars, told, queue, delivered,
                   pipelineVars, groups, signalVars, closeRequested>>
-----------------------------------------------------------------------------
(* Main: the loop and the end.                                              *)

\* The owner takes values.
Running(p) == thread[p] # "none" /\ p \notin told

\* BoundedLatestQueue::push.
PushLatest(q, v) == Append(IF Len(q) = QueueDepth THEN Tail(q) ELSE q, v)

\* submit and send alike: refused by an owner that is not running.
Offered(p, v) == IF Running(p) THEN [queue EXCEPT ![p] = PushLatest(@, v)] ELSE queue

SubmitGroup ==
    /\ phase = "loop" /\ groups < MaxGroups
    /\ groups' = groups + 1
    /\ queue' = Offered(Isp, groups + 1)
    /\ UNCHANGED <<mainVars, resourceVars, threadVars, told, delivered, pipelineVars,
                   signalVars, closeRequested>>

Interrupted == stopRequested = 1 \/ closeRequested

\* Interrupted, or because --duration has passed.
LeaveLoop ==
    /\ phase = "loop"
    /\ phase' = "end"
    /\ plan' = AfterLoop
    /\ UNCHANGED <<alive, resourceVars, threadVars, told, queue, delivered, pipelineVars,
                   groups, signalVars, closeRequested>>

Tell ==
    /\ Does("end", "tell")
    /\ told' = told \cup {Part}
    /\ UNCHANGED <<phase, alive, resourceVars, threadVars, queue, delivered, pipelineVars,
                   groups, signalVars, closeRequested>>

Join ==
    /\ Does("end", "join") /\ thread[Part] \in {"none", "ended"}
    /\ UNCHANGED <<phase, alive, resourceVars, threadVars, told, queue, delivered,
                   pipelineVars, groups, signalVars, closeRequested>>

\* Setting a pipeline to NULL waits for a callback under way and drops what is
\* still inside; a camera stops grabbing, then closes.
Release ==
    /\ Does("end", "release")
    /\ \A s \in 1..StreamCount : Part = Encoder(s) => callback[s] = 0
    /\ opened' = opened \ {Part}
    /\ grabbing' = {c \in grabbing : Camera(c) # Part}
    /\ pipe' = [s \in 1..StreamCount |-> IF Part = Encoder(s) THEN <<>> ELSE pipe[s]]
    /\ UNCHANGED <<phase, alive, threadVars, told, queue, delivered, callback, groups,
                   signalVars, closeRequested>>

Destroy ==
    /\ Does("end", "destroy")
    /\ alive' = alive \ {Part[1]}
    /\ UNCHANGED <<phase, resourceVars, threadVars, told, queue, delivered, pipelineVars,
                   groups, signalVars, closeRequested>>

Return ==
    /\ phase = "end" /\ plan = <<>>
    /\ phase' = "returned"
    /\ UNCHANGED <<plan, alive, resourceVars, threadVars, told, queue, delivered,
                   pipelineVars, groups, signalVars, closeRequested>>
-----------------------------------------------------------------------------
(* A signal, at any moment: without its handler it ends the process.        *)

Signal(sig) ==
    /\ phase # "returned"
    /\ IF sig \in installed THEN stopRequested' = 1 /\ UNCHANGED phase
                            ELSE phase' = "killed" /\ UNCHANGED stopRequested
    /\ UNCHANGED <<plan, alive, resourceVars, threadVars, told, queue, delivered,
                   pipelineVars, groups, installed, closeRequested>>
-----------------------------------------------------------------------------
(* The threads.                                                             *)

Begins(p, w) ==
    /\ thread[p] = "idle"
    /\ thread' = [thread EXCEPT ![p] = "busy"] /\ work' = [work EXCEPT ![p] = w]
Ends(p) ==
    /\ thread[p] = "busy"
    /\ thread' = [thread EXCEPT ![p] = "idle"] /\ work' = [work EXCEPT ![p] = 0]

\* waitPop of a stage.
Take(p) ==
    /\ queue[p] # <<>>
    /\ Begins(p, Head(queue[p]))
    /\ queue' = [queue EXCEPT ![p] = Tail(@)]
    /\ UNCHANGED <<mainVars, resourceVars, told, delivered, pipelineVars, groups,
                   signalVars, closeRequested>>

\* A thread ends once it is told, a stage not before its queue is empty.
ThreadEnds(p) ==
    /\ thread[p] = "idle" /\ p \in told
    /\ p \in StageParts => queue[p] = <<>>
    /\ thread' = [thread EXCEPT ![p] = "ended"]
    /\ UNCHANGED <<mainVars, resourceVars, told, work, queue, delivered, pipelineVars,
                   groups, signalVars, closeRequested>>

\* process gives a group up.
IspGivesUp ==
    /\ delivered = 0 /\ Ends(Isp)
    /\ UNCHANGED <<mainVars, resourceVars, told, queue, delivered, pipelineVars, groups,
                   signalVars, closeRequested>>

\* The output callback of the ISP: to the metadata sender, then to each encoder.
IspDelivers ==
    /\ thread[Isp] = "busy" /\ delivered <= StreamCount
    /\ queue' = Offered(IF delivered = 0 THEN Metadata ELSE Encoder(delivered), work[Isp])
    /\ delivered' = delivered + 1
    /\ UNCHANGED <<mainVars, resourceVars, threadVars, told, pipelineVars, groups,
                   signalVars, closeRequested>>

IspDone ==
    /\ delivered = StreamCount + 1 /\ Ends(Isp)
    /\ delivered' = 0
    /\ UNCHANGED <<mainVars, resourceVars, told, queue, pipelineVars, groups, signalVars,
                   closeRequested>>

\* The pipeline takes the buffer, or refuses or leaves it out.
EncoderPushes(s) ==
    /\ Ends(Encoder(s))
    /\ pipe' \in {pipe, [pipe EXCEPT ![s] = PushLatest(@, work[Encoder(s)])]}
    /\ UNCHANGED <<mainVars, resourceVars, told, queue, delivered, callback, groups,
                   signalVars, closeRequested>>

\* handleNewSample, on a thread of the pipeline.
CallbackBegins(s) ==
    /\ pipe[s] # <<>> /\ callback[s] = 0
    /\ callback' = [callback EXCEPT ![s] = Head(pipe[s])]
    /\ pipe' = [pipe EXCEPT ![s] = Tail(@)]
    /\ UNCHANGED <<mainVars, resourceVars, threadVars, told, queue, delivered, groups,
                   signalVars, closeRequested>>

CallbackSends(s) ==
    /\ callback[s] # 0
    /\ queue' = Offered(Output(s), callback[s])
    /\ callback' = [callback EXCEPT ![s] = 0]
    /\ UNCHANGED <<mainVars, resourceVars, threadVars, told, delivered, pipe, groups,
                   signalVars, closeRequested>>

\* Outputs and the metadata sender write to what they have open.
Written(p) ==
    /\ Ends(p)
    /\ UNCHANGED <<mainVars, resourceVars, told, queue, delivered, pipelineVars, groups,
                   signalVars, closeRequested>>

\* softwareTriggerAll refuses a cycle when the manager does not run, and otherwise
\* triggers one camera after the other.
SchedulerBegins ==
    /\ Scheduler \notin told /\ Camera(1) \notin told
    /\ Begins(Scheduler, 1)
    /\ UNCHANGED <<mainVars, resourceVars, told, queue, delivered, pipelineVars, groups,
                   signalVars, closeRequested>>

SchedulerGoesOn ==
    /\ IF work[Scheduler] = CameraCount
       THEN Ends(Scheduler)
       ELSE /\ thread[Scheduler] = "busy" /\ UNCHANGED thread
            /\ work' = [work EXCEPT ![Scheduler] = @ + 1]
    /\ UNCHANGED <<mainVars, resourceVars, told, queue, delivered, pipelineVars, groups,
                   signalVars, closeRequested>>

\* A turn of a capture thread, from getImageBuffer to the release of the lease.
CaptureBegins(c) ==
    /\ Camera(c) \notin told /\ Begins(Camera(c), c)
    /\ UNCHANGED <<mainVars, resourceVars, told, queue, delivered, pipelineVars, groups,
                   signalVars, closeRequested>>

CaptureDone(c) ==
    /\ Ends(Camera(c))
    /\ UNCHANGED <<mainVars, resourceVars, told, queue, delivered, pipelineVars, groups,
                   signalVars, closeRequested>>

\* A turn of the preview, which reads the rings; Q or a failed window ends it.
PreviewBegins ==
    /\ Preview \notin told /\ Begins(Preview, 1)
    /\ UNCHANGED <<mainVars, resourceVars, told, queue, delivered, pipelineVars, groups,
                   signalVars, closeRequested>>

PreviewDone ==
    /\ Ends(Preview)
    /\ UNCHANGED <<mainVars, resourceVars, told, queue, delivered, pipelineVars, groups,
                   signalVars, closeRequested>>

PreviewCloses ==
    /\ thread[Preview] = "busy"
    /\ closeRequested' = TRUE
    /\ thread' = [thread EXCEPT ![Preview] = "ended"] /\ work' = [work EXCEPT ![Preview] = 0]
    /\ UNCHANGED <<mainVars, resourceVars, told, queue, delivered, pipelineVars, groups,
                   signalVars>>
-----------------------------------------------------------------------------
Starting == \/ StartPart \/ OpenCamera \/ GrabCamera \/ StartThread \/ InstallHandler
            \/ ResetFlag \/ EnterLoop
Ending == Tell \/ Join \/ Release \/ Destroy \/ Return

\* What a thread does with what it has begun, and how it ends.
GoesOn(p) ==
    \/ p \in StageParts /\ Take(p)
    \/ ThreadEnds(p)
    \/ p = Isp /\ (IspGivesUp \/ IspDelivers \/ IspDone)
    \/ \E s \in 1..StreamCount : p = Encoder(s) /\ EncoderPushes(s)
    \/ p \in PartsOf({"output", "metadata"}) /\ Written(p)
    \/ p = Scheduler /\ SchedulerGoesOn
    \/ \E c \in 1..CameraCount : p = Camera(c) /\ CaptureDone(c)
    \/ p = Preview /\ PreviewDone
Callback(s) == CallbackBegins(s) \/ CallbackSends(s)

Next ==
    /\ phase # "killed"
    /\ \/ Starting \/ StartFails \/ SelectorThrows \/ SubmitGroup \/ LeaveLoop \/ Ending
       \/ \E sig \in Signals : Signal(sig)
       \/ \E p \in Parts : GoesOn(p)
       \/ \E s \in 1..StreamCount : Callback(s)
       \/ SchedulerBegins \/ PreviewBegins \/ PreviewCloses
       \/ \E c \in 1..CameraCount : CaptureBegins(c)

Spec == Init /\ [][Next]_vars

\* What main waits for in a stop: the thread to be joined, or the callback that
\* setting a pipeline to NULL waits for.
Awaited ==
    /\ phase = "end" /\ plan # <<>>
    /\ \/ Head(plan).step = "join" /\ GoesOn(Part)
       \/ Head(plan).step = "release" /\ \E s \in 1..StreamCount :
                                             Part = Encoder(s) /\ CallbackSends(s)

\* Main goes on, and so does what it waits for: a grab has a timeout, the sleeps are
\* short.  Nothing else need happen, not even a step of any other thread.
FairSpec == Spec /\ WF_vars((Interrupted /\ LeaveLoop) \/ Ending \/ Awaited)
-----------------------------------------------------------------------------
Ended(p) == thread[p] \in {"none", "ended"}

\* What a plan may consist of.
Steps ==
    [step : {"start"}, part : PartsOf(Stages \cup {"scheduler"})]
    \cup [step : {"open", "grab"}, part : PartsOf({"manager"})]
    \cup [step : {"thread"}, part : PartsOf({"manager", "preview"})]
    \cup [step : {"tell", "join", "release", "destroy"}, part : Parts]
    \cup [step : {"handle", "reset"}, part : Signals]

\* Every variable has its type; queues and pipelines keep their capacity.
TypeOK ==
    /\ phase \in {"start", "loop", "end", "returned", "killed"}
    /\ plan \in Seq(Steps)
    /\ alive \subseteq Objects
    /\ opened \subseteq Parts /\ grabbing \subseteq 1..CameraCount
    /\ thread \in [Parts -> {"none", "idle", "busy", "ended"}]
    /\ told \subseteq Parts /\ work \in [Parts -> Nat]
    /\ queue \in [StageParts -> Seq(1..MaxGroups)]
    /\ \A p \in StageParts : Len(queue[p]) <= QueueDepth
    /\ delivered \in 0..(StreamCount + 1)
    /\ pipe \in [1..StreamCount -> Seq(1..MaxGroups)]
    /\ \A s \in 1..StreamCount : Len(pipe[s]) <= QueueDepth
    /\ callback \in [1..StreamCount -> 0..MaxGroups]
    /\ groups \in 0..MaxGroups
    /\ stopRequested \in 0..1 /\ installed \subseteq Signals /\ closeRequested \in BOOLEAN

\* Whatever start fails and whenever main stops: no thread is in a part that is
\* closed or destroyed.  HikCamera has no lock of its own, the encoders' callback
\* holds a bare pointer to the outputs, and the ISP's one to encoders and metadata
\* sender; only the orders of stopping and destroying keep them apart.
PartsOutliveTheirUsers ==
    /\ \A c \in 1..CameraCount :
         thread[Camera(c)] = "busy" \/ work[Scheduler] = c => c \in grabbing
    /\ thread[Preview] = "busy" => "manager" \in alive
    /\ thread[Isp] = "busy" => {"metadata", "encoder"} \subseteq alive
    /\ \A s \in 1..StreamCount : callback[s] # 0 => "output" \in alive /\ Encoder(s) \in opened
    /\ \A p \in PartsOf({"output", "encoder", "metadata"}) : thread[p] = "busy" => p \in opened
    /\ \A p \in Parts : p[1] \notin alive => Ended(p)

\* What a stage still has to hand on finds the next stage running, also during the
\* shutdown and after a failed start: nothing processed is refused on its way out.
NothingRefused ==
    /\ phase = "loop" => Running(Isp)
    /\ thread[Isp] = "busy" =>
         /\ delivered = 0 => Running(Metadata)
         /\ \A s \in 1..StreamCount : delivered <= s => Running(Encoder(s))
    /\ \A s \in 1..StreamCount : callback[s] # 0 => Running(Output(s))

Released ==
    /\ phase = "returned" /\ alive = {} /\ opened = {} /\ grabbing = {}
    /\ \A p \in Parts : Ended(p)
    /\ \A p \in StageParts : queue[p] = <<>>

\* Once the loop runs, Ctrl+C "releases the cameras and the GStreamer resources"
\* (README), and so do the preview's Q and every failed start: run returns with
\* everything closed, joined and drained, unless a signal without a handler
\* kills the process during a failed start.
StopReleases ==
    (phase = "end" \/ (phase = "loop" /\ Interrupted)) ~>
        Released \/ (phase = "killed" /\ installed # Signals)
-----------------------------------------------------------------------------
(* What the proofs add: the inductive invariant.                            *)

\* r has to be done before q.
Precedes(r, q) ==
    \/ /\ q.step \in {"start", "thread"}
       /\ \/ r.step = "start" /\ \E s \in 1..StreamCount : q.part = Encoder(s) /\ r.part = Output(s)
          \/ r.step = "start" /\ q.part = Isp /\ r.part \in PartsOf({"metadata", "encoder"})
          \/ r.step = "grab" /\ q.part \in {r.part, Scheduler}
          \/ r.step = "open" /\ q.part = Preview
    \/ /\ q.step = "release" /\ r.step = "join"
       /\ r.part = q.part \/ (r.part = Scheduler /\ q.part[1] = "manager")
    \/ /\ q.step \in {"tell", "destroy"}
       /\ \/ r = Do("join", Isp) /\ q.part[1] \in {"metadata", "encoder"}
          \/ r.step = "release" /\ \E s \in 1..StreamCount : r.part = Encoder(s) /\ q.part[1] = "output"
                                     /\ (q.step = "tell" => q.part = Output(s))
    \/ /\ q.step = "destroy" /\ r.step = "join"
       /\ r.part[1] = q.part[1] \/ (r.part = Preview /\ q.part[1] = "manager")

\* Every step of q has what precedes it in D or earlier in q.
Ordered(q, D) ==
    \A k \in 1..Len(q) : \A r \in Steps :
        Precedes(r, q[k]) => r \in D \/ \E j \in 1..(k - 1) : q[j] = r

\* The part takes values, and its object exists.
Live(p) == Running(p) /\ p[1] \in alive

\* Steps of the start-up, and of the end, whose effect is there.
Begun ==
    {r \in Steps : \/ r.step = "start" /\ Live(r.part)
                   \/ r.step = "open" /\ "manager" \in alive
                   \/ r.step = "grab" /\ r.part[2] \in grabbing}
Quiet(s) == Ended(Encoder(s)) /\ pipe[s] = <<>> /\ callback[s] = 0
Finished ==
    {r \in Steps : /\ r.step \in {"join", "release"} /\ Ended(r.part)
                   /\ r.step = "release" =>
                         \A s \in 1..StreamCount : r.part = Encoder(s) => Quiet(s)}

\* What is still to be done is in order.
PlanInv ==
    /\ phase = "start" => Ordered(plan, Begun)
    /\ phase = "end" => Ordered(plan, Finished)
    /\ phase = "start" => Live(Isp) \/ \E k \in 1..Len(plan) : plan[k] = Do("start", Isp)
    /\ phase = "loop" => Live(Isp)

\* Before the loop no group is under way and no stop, and what is still to be
\* started has not been.
StartInv ==
    phase = "start" =>
        /\ told = {}
        /\ \A p \in StageParts : thread[p] \in {"none", "idle"} /\ queue[p] = <<>>
        /\ \A s \in 1..StreamCount : pipe[s] = <<>> /\ callback[s] = 0
        /\ \A k \in 1..Len(plan) :
             /\ plan[k].step \in {"start", "thread"} => thread[plan[k].part] = "none"
             /\ \A j \in 1..(k - 1) : plan[j] # plan[k]

\* What a thread that has not ended uses is there.
UsersInv ==
    /\ \A p \in Parts : ~Ended(p) => p[1] \in alive
    /\ \A p \in PartsOf({"output", "metadata"}) : ~Ended(p) => p \in opened
    /\ \A c \in 1..CameraCount : ~Ended(Camera(c)) \/ ~Ended(Scheduler) => c \in grabbing
    /\ ~Ended(Preview) => "manager" \in alive
    /\ ~Ended(Isp) => \A p \in PartsOf({"metadata", "encoder"}) : Live(p)
    /\ \A s \in 1..StreamCount : ~Quiet(s) => Live(Output(s)) /\ Encoder(s) \in opened

\* A thread has work only within a turn, a stage that is busy has a group.
WorkInv ==
    /\ \A p \in Parts : work[p] # 0 => thread[p] = "busy"
    /\ \A p \in StageParts : work[p] \in 0..MaxGroups /\ (thread[p] = "busy" => work[p] # 0)
    /\ thread[Scheduler] = "busy" => work[Scheduler] \in 1..CameraCount

IInv == TypeOK /\ PlanInv /\ StartInv /\ UsersInv /\ WorkInv
=============================================================================
