---------------------------- MODULE SingleCamera ----------------------------
(***************************************************************************)
(* --single: RunSingleCameraDiagnostic with its HikCamera, the leases on   *)
(* the SDK's buffers, and a SoftwareTriggerScheduler whose                 *)
(* callback is HikCamera::softwareTrigger.  The main thread and the        *)
(* scheduler's thread use the same camera.                                 *)
(*                                                                         *)
(* The time that passes matters here: the main loop runs for Duration and  *)
(* the scheduler's schedule is absolute.  It passes in Tick, between any   *)
(* two steps, from the start of the scheduler on; MaxTime bounds it except *)
(* where a thread only waits for time to pass.                             *)
(***************************************************************************)
EXTENDS TriggerScheduler

CONSTANTS
    Duration,   \* duration_seconds
    Nodes,      \* sdk_image_nodes: buffers of the SDK
    MaxFrames,  \* bound: frames a camera sends that is not triggered by software
    MaxTime     \* bound: see Tick above

ASSUME SingleCameraAssumption ==
    /\ Nodes \in Nat \ {0}
    /\ Duration \in Nat /\ MaxFrames \in Nat /\ MaxTime \in Nat
    /\ Duration <= MaxTime

VARIABLES
    device, lent, command,  \* the SDK's side of the session, see MvsSession
    ready,                  \* frames the SDK has for the program
    sent,                   \* history: frames of a camera that is not triggered
    at,                     \* where the main thread is
    grabbing,               \* grabbing_ of HikCamera; its handle_ is set iff device # "none"
    lease,                  \* owner_ of the lease in the loop is set
    complete, incomplete,   \* the counts of the diagnostic
    result,                 \* what it returns, -1 before
    options                 \* of the command line and the configuration, unchanging

cameraVars == <<device, lent, command, ready, sent, grabbing, lease>>
mainVars == <<at, complete, incomplete, result, options>>
vars == <<schedulerVars, cameraVars, mainVars>>

(* Parts of the call sequence: where open stands, and where close does. *)
Opening == {"enumerate", "create", "openDevice", "configure", "strategy"}
Closing == {"stopGrabbing", "closeDevice", "destroy"}
Places ==
    Opening \cup Closing \cup {"opened", "start", "loop", "grab", "look", "stop", "join", "ended"}

TypeOK ==
    /\ SchedulerTypeOK
    /\ device \in {"none", "created", "open", "grabbing"}
    /\ lent \in 0..1 /\ ready \in 0..Nodes /\ lent + ready <= Nodes
    /\ command \in BOOLEAN /\ grabbing \in BOOLEAN /\ lease \in BOOLEAN
    /\ grabbing => device = "grabbing"
    /\ lease <=> lent = 1
    /\ at \in Places
    /\ complete \in Nat /\ incomplete \in Nat /\ sent \in 0..MaxFrames
    /\ result \in {-1, 0, 1, 2}
    /\ options \in [openOnly : BOOLEAN, software : BOOLEAN, frequencyValid : BOOLEAN]

Init ==
    /\ SchedulerInit
    /\ device = "none" /\ lent = 0 /\ command = FALSE /\ ready = 0 /\ sent = 0
    /\ at = "enumerate"
    /\ grabbing = FALSE /\ lease = FALSE
    /\ complete = 0 /\ incomplete = 0
    /\ result = -1
    /\ options \in [openOnly : BOOLEAN, software : BOOLEAN, frequencyValid : BOOLEAN]

-----------------------------------------------------------------------------
(* openBySerial and open: one step per group of SDK calls that succeeds as *)
(* a whole or makes open fail.                                             *)
OpenStep(place, next) ==
    /\ at = place
    /\ at' = next
    /\ UNCHANGED <<schedulerVars, lent, command, ready, sent, grabbing, lease,
                   complete, incomplete, result, options>>

Enumerate == OpenStep("enumerate", "create") /\ UNCHANGED device

CreateHandle == OpenStep("create", "openDevice") /\ device' = "created"

OpenDevice == OpenStep("openDevice", "configure") /\ device' = "open"

Configure == OpenStep("configure", "strategy") /\ UNCHANGED device

SetStrategy == OpenStep("strategy", "opened") /\ UNCHANGED device

OpenFails_KeepsHandle ==
    /\ at \in Opening
    /\ at' = IF at = "strategy" THEN "stopGrabbing" ELSE "ended"
    /\ result' = 1
    /\ UNCHANGED <<schedulerVars, cameraVars, complete, incomplete, options>>

(* A failure before there is a handle returns, one after it calls close;   *)
(* the diagnostic returns 1 either way.                                    *)
OpenFails ==
    /\ at \in Opening
    /\ at' = IF at \in {"enumerate", "create"} THEN "ended" ELSE "stopGrabbing"
    /\ result' = 1
    /\ UNCHANGED <<schedulerVars, cameraVars, complete, incomplete, options>>

(* Without a duration opening was all; the camera's destructor closes it.  *)
OpenedOnly ==
    /\ at = "opened" /\ options.openOnly
    /\ at' = "stopGrabbing"
    /\ result' = 0
    /\ UNCHANGED <<schedulerVars, cameraVars, complete, incomplete, options>>

StartGrabbing ==
    /\ at = "opened" /\ ~options.openOnly
    /\ \/ /\ at' = "start" /\ device' = "grabbing" /\ grabbing' = TRUE
          /\ UNCHANGED result
       \/ /\ at' = "stopGrabbing" /\ result' = 1
          /\ UNCHANGED <<device, grabbing>>
    /\ UNCHANGED <<schedulerVars, lent, command, ready, sent, lease, complete, incomplete, options>>

(* scheduler.start, and start = now; start fails without a period. *)
StartTriggering ==
    /\ at = "start"
    /\ \/ /\ options.frequencyValid
          /\ StartScheduler
          /\ at' = "loop"
          /\ UNCHANGED result
       \/ /\ ~options.frequencyValid
          /\ at' = "stopGrabbing" /\ result' = 1
          /\ UNCHANGED schedulerVars
    /\ UNCHANGED <<cameraVars, complete, incomplete, options>>

(* The loop condition; the scheduler was started at time 0.  Within the    *)
(* loop, getImageBuffer first resets the lease, which is new and empty.    *)
LoopCondition ==
    /\ at = "loop"
    /\ at' = IF now < Duration THEN "grab" ELSE "stop"
    /\ UNCHANGED <<schedulerVars, cameraVars, complete, incomplete, result, options>>

GrabFrame ==
    /\ at = "grab" /\ grabbing
    /\ ready > 0
    /\ ready' = ready - 1
    /\ lent' = lent + 1 /\ lease' = TRUE
    /\ at' = "look"
    /\ UNCHANGED <<schedulerVars, device, command, sent, grabbing, complete,
                   incomplete, result, options>>

GrabTimesOut ==
    /\ at = "grab" /\ grabbing
    /\ ready = 0
    /\ at' = "loop"
    /\ UNCHANGED <<schedulerVars, cameraVars, complete, incomplete, result, options>>

(* An error returns 1 once the scheduler has been stopped. *)
GrabFails ==
    /\ at = "grab"
    /\ at' = "stop"
    /\ result' = 1
    /\ UNCHANGED <<schedulerVars, cameraVars, complete, incomplete, options>>

(* The frame is as it should be, or not; at the end of the turn the lease  *)
(* gives the buffer back.                                                  *)
Look ==
    /\ at = "look"
    /\ \/ complete' = complete + 1 /\ UNCHANGED incomplete
       \/ incomplete' = incomplete + 1 /\ UNCHANGED complete
    /\ lent' = lent - 1 /\ lease' = FALSE
    /\ at' = "loop"
    /\ UNCHANGED <<schedulerVars, device, command, ready, sent, grabbing, result, options>>

StopScheduler_NoJoin ==
    /\ at = "stop"
    /\ RequestSchedulerStop
    /\ at' = "stopGrabbing"
    /\ result' = IF result = 1 THEN 1 ELSE IF incomplete = 0 /\ complete > 0 THEN 0 ELSE 2
    /\ UNCHANGED <<cameraVars, complete, incomplete, options>>

(* scheduler.stop: the request, then the join. *)
StopScheduler ==
    /\ at = "stop"
    /\ RequestSchedulerStop
    /\ at' = "join"
    /\ UNCHANGED <<cameraVars, complete, incomplete, result, options>>

JoinTriggering ==
    /\ at = "join"
    /\ JoinScheduler
    /\ at' = "stopGrabbing"
    /\ result' = IF result = 1 THEN 1 ELSE IF incomplete = 0 /\ complete > 0 THEN 0 ELSE 2
    /\ UNCHANGED <<cameraVars, complete, incomplete, options>>

(* close, by a failing open or by the destructor of the camera: grabbing   *)
(* is stopped only if it was started; a device that did not open refuses   *)
(* to be closed.                                                           *)
StopGrabbing ==
    /\ at = "stopGrabbing"
    /\ at' = "closeDevice"
    /\ device' = IF grabbing THEN "open" ELSE device
    /\ grabbing' = FALSE
    /\ ready' = 0
    /\ UNCHANGED <<schedulerVars, lent, command, sent, lease, complete,
                   incomplete, result, options>>

CloseDevice ==
    /\ at = "closeDevice"
    /\ at' = "destroy"
    /\ device' = "created"
    /\ UNCHANGED <<schedulerVars, lent, command, ready, sent, grabbing, lease,
                   complete, incomplete, result, options>>

DestroyHandle ==
    /\ at = "destroy"
    /\ at' = "ended"
    /\ device' = "none"
    /\ UNCHANGED <<schedulerVars, lent, command, ready, sent, grabbing, lease,
                   complete, incomplete, result, options>>

-----------------------------------------------------------------------------
(* A cycle calls softwareTrigger, which sends the command if the camera is *)
(* grabbing and configured for it, and returns false otherwise.            *)
TriggerCycle ==
    /\ NextCycle
    /\ command' = (device # "none" /\ grabbing /\ options.software)
    /\ UNCHANGED <<device, lent, ready, sent, grabbing, lease, mainVars>>

TriggerRefused ==
    /\ ~command
    /\ CallbackReturns(FALSE)
    /\ UNCHANGED <<cameraVars, mainVars>>

(* The command returns, with success or without, and the camera has sent a *)
(* frame or not; a frame for which the SDK has no buffer is lost.          *)
CommandReturns ==
    /\ command
    /\ command' = FALSE
    /\ \E ok \in BOOLEAN : CallbackReturns(ok)
    /\ ready' \in {ready} \cup (IF lent + ready < Nodes THEN {ready + 1} ELSE {})
    /\ UNCHANGED <<device, lent, sent, grabbing, lease, mainVars>>

FrameArrives ==
    /\ ~options.software
    /\ device = "grabbing" /\ lent + ready < Nodes
    /\ sent < MaxFrames
    /\ ready' = ready + 1 /\ sent' = sent + 1
    /\ UNCHANGED <<schedulerVars, device, lent, command, grabbing, lease, mainVars>>

TimePasses ==
    /\ spc \notin {"none", "ended"}
    /\ now < MaxTime \/ (spc = "sleep" /\ at = "join" /\ now < nextWakeup)
    /\ Tick
    /\ UNCHANGED <<cameraVars, mainVars>>

SchedulerStep ==
    \/ TriggerCycle \/ TriggerRefused \/ CommandReturns
    \/ (ThreadBegins \/ ThreadEnds \/ PlanNext \/ Wake) /\ UNCHANGED <<cameraVars, mainVars>>

MainStep ==
    \/ Enumerate \/ CreateHandle \/ OpenDevice \/ Configure \/ SetStrategy \/ OpenFails
    \/ OpenedOnly \/ StartGrabbing \/ StartTriggering
    \/ LoopCondition \/ GrabFrame \/ GrabTimesOut \/ GrabFails \/ Look
    \/ StopScheduler \/ JoinTriggering
    \/ StopGrabbing \/ CloseDevice \/ DestroyHandle

Next == SchedulerStep \/ MainStep \/ FrameArrives \/ TimePasses

Spec == Init /\ [][Next]_vars

(* Every call returns, both threads are scheduled and time passes; frames  *)
(* may stay away and every call may fail.                                  *)
FairSpec == Spec /\ WF_vars(MainStep) /\ WF_vars(SchedulerStep) /\ WF_vars(TimePasses)

-----------------------------------------------------------------------------
Sdk == INSTANCE MvsSession

(* The main thread and the scheduler together use the camera as the SDK    *)
(* asks: no buffer is kept or given back twice, and the camera is not      *)
(* stopped, closed or destroyed under a trigger command.                   *)
ObeysSdk == Sdk!Spec

(* The inductive invariant behind ObeysSdk: how far the session is at each *)
(* place of the main thread, that only a frame being looked at is lent,    *)
(* and that the scheduler's thread exists only while the camera grabs.     *)
Looping == {"loop", "grab", "look", "stop", "join"}

SessionInv ==
    /\ at \in Places
    /\ at \in {"enumerate", "create", "ended"} => device = "none"
    /\ at \in {"openDevice", "destroy"} => device = "created"
    /\ at \in {"configure", "strategy", "opened"} => device = "open"
    /\ at \in Looping \cup {"start"} => device = "grabbing"
    /\ at = "stopGrabbing" => device \in {"created", "open", "grabbing"}
    /\ at = "closeDevice" => device \in {"created", "open"}
    /\ grabbing <=> device = "grabbing"
    /\ lent = IF at = "look" THEN 1 ELSE 0
    /\ at \notin Looping => spc = "none"
    /\ spc # "callback" => command = FALSE
    /\ command \in BOOLEAN

(* However open, grabbing or triggering fails, the diagnostic ends, with a *)
(* result and with the camera given back.                                  *)
DiagnosticEnds == <>(at = "ended" /\ result >= 0 /\ device = "none")

=============================================================================
