----------------------------- MODULE CameraNode -----------------------------
(***************************************************************************)
(* camera_app: HikCameraNode and the main function of camera.cpp, the      *)
(* preview of a single camera that is built beside the four-camera         *)
(* program.  One thread opens the first camera the SDK finds, shows what   *)
(* it grabs, and ends when Escape is read.                                 *)
(*                                                                         *)
(* Most settings are written without a look at what the call returns; they *)
(* are left out, except for the two that decide what a grab may find: the  *)
(* pixel format the camera ends up with, and what triggers it.             *)
(***************************************************************************)
EXTENDS Naturals

VARIABLES
    device, lent,   \* the SDK's side of the session, see MvsSession
    nodeAt,         \* where the thread is
    handle,         \* handle_ is set
    supported,      \* grab can convert the pixel format of the camera
    triggered,      \* the camera waits for a software trigger, which nobody sends
    escape          \* Escape has been pressed and not been read yet

nodeVars == <<device, lent, nodeAt, handle, supported, triggered, escape>>

Initialising ==
    {"config", "enumerate", "create", "openDevice", "format", "size", "trigger",
     "strategy", "start"}
Running == {"grab", "convert", "show"}

TypeOK ==
    /\ device \in {"none", "created", "open", "grabbing"}
    /\ lent \in 0..1
    /\ nodeAt \in Initialising \cup Running \cup {"stopGrabbing", "closeDevice", "destroy", "ended"}
    /\ handle = (device # "none")
    /\ supported \in BOOLEAN /\ triggered \in BOOLEAN /\ escape \in BOOLEAN

Init ==
    /\ device = "none" /\ lent = 0
    /\ nodeAt = "config"
    /\ handle = FALSE
    /\ supported = FALSE /\ triggered = FALSE /\ escape = FALSE

-----------------------------------------------------------------------------
(* init goes on from one of its steps to the next one. *)
InitStep(place, next) ==
    /\ nodeAt = place
    /\ nodeAt' = next
    /\ UNCHANGED <<lent, escape>>

(* LoadCameraConfig and MV_CC_EnumDevices. *)
Prepare ==
    /\ InitStep("config", "enumerate") \/ InitStep("enumerate", "create")
    /\ UNCHANGED <<device, handle, supported, triggered>>

CreateHandle ==
    /\ InitStep("create", "openDevice")
    /\ device' = "created" /\ handle' = TRUE
    /\ UNCHANGED <<supported, triggered>>

OpenDevice ==
    /\ InitStep("openDevice", "format")
    /\ device' = "open"
    /\ UNCHANGED <<handle, supported, triggered>>

(* SetPixelFormatWithFallbacks may fail with every name it tries; the      *)
(* camera then keeps its own format, which grab may know or not.           *)
SetPixelFormat ==
    /\ InitStep("format", "size")
    /\ supported' \in BOOLEAN
    /\ UNCHANGED <<device, handle, triggered>>

SetSize ==
    /\ InitStep("size", "trigger")
    /\ UNCHANGED <<device, handle, supported, triggered>>

(* TriggerMode and TriggerSource as configured, and the image settings. *)
SetTrigger ==
    /\ InitStep("trigger", "strategy")
    /\ triggered' \in BOOLEAN
    /\ UNCHANGED <<device, handle, supported>>

SetStrategy ==
    /\ InitStep("strategy", "start")
    /\ UNCHANGED <<device, handle, supported, triggered>>

StartGrabbing ==
    /\ InitStep("start", "grab")
    /\ device' = "grabbing"
    /\ UNCHANGED <<handle, supported, triggered>>

(* A step that fails: before there is a handle init just returns, later it *)
(* shuts down; main then returns -1.                                       *)
InitFails ==
    /\ nodeAt \in Initialising \ {"format", "trigger"}
    /\ nodeAt' = IF handle THEN "stopGrabbing" ELSE "ended"
    /\ UNCHANGED <<device, lent, handle, supported, triggered, escape>>

-----------------------------------------------------------------------------
GrabFrame ==
    /\ nodeAt = "grab" /\ handle
    /\ ~triggered
    /\ lent' = lent + 1
    /\ nodeAt' = "convert"
    /\ UNCHANGED <<device, handle, supported, triggered, escape>>

(* No frame within a second, or an error: main tries again. *)
GrabFails ==
    /\ nodeAt = "grab"
    /\ UNCHANGED nodeVars

(* The image is converted or refused; the buffer goes back either way. *)
Convert ==
    /\ nodeAt = "convert"
    /\ lent' = lent - 1
    /\ nodeAt' = IF supported THEN "show" ELSE "grab"
    /\ UNCHANGED <<device, handle, supported, triggered, escape>>

(* imshow and waitKey: Escape ends the loop. *)
Show ==
    /\ nodeAt = "show"
    /\ nodeAt' = IF escape THEN "stopGrabbing" ELSE "grab"
    /\ escape' = FALSE
    /\ UNCHANGED <<device, lent, handle, supported, triggered>>

PressEscape ==
    /\ nodeAt \in Running
    /\ escape' = TRUE
    /\ UNCHANGED <<device, lent, nodeAt, handle, supported, triggered>>

(* shutdown: the SDK refuses to stop or close what was not started or      *)
(* opened, and nothing looks at what it returns.                           *)
StopGrabbing ==
    /\ nodeAt = "stopGrabbing"
    /\ nodeAt' = "closeDevice"
    /\ device' = IF device = "grabbing" THEN "open" ELSE device
    /\ UNCHANGED <<lent, handle, supported, triggered, escape>>

CloseDevice ==
    /\ nodeAt = "closeDevice"
    /\ nodeAt' = "destroy"
    /\ device' = IF device = "open" THEN "created" ELSE device
    /\ UNCHANGED <<lent, handle, supported, triggered, escape>>

DestroyHandle ==
    /\ nodeAt = "destroy"
    /\ nodeAt' = "ended"
    /\ device' = "none" /\ handle' = FALSE
    /\ UNCHANGED <<lent, supported, triggered, escape>>

NodeStep ==
    \/ Prepare \/ CreateHandle \/ OpenDevice \/ SetPixelFormat \/ SetSize \/ SetTrigger
    \/ SetStrategy \/ StartGrabbing \/ InitFails
    \/ GrabFrame \/ Convert \/ Show
    \/ StopGrabbing \/ CloseDevice \/ DestroyHandle

NodeNext == NodeStep \/ GrabFails \/ PressEscape

Spec == Init /\ [][NodeNext]_nodeVars

FairSpec == Spec /\ WF_nodeVars(NodeStep)

-----------------------------------------------------------------------------
Sdk == INSTANCE MvsSession WITH command <- FALSE

(* camera_app uses the camera as the SDK asks: the buffer of a frame that  *)
(* cannot be converted is given back like any other.                       *)
ObeysSdk == Sdk!Spec

(* Escape ends the program and gives the camera back, if the camera sends  *)
(* images that grab can convert.  Otherwise it does not: after a grab that *)
(* failed main reads no key.                                               *)
EscapeEnds ==
    escape /\ supported /\ ~triggered ~> nodeAt = "ended" /\ device = "none"

(* The inductive invariant behind ObeysSdk: how far the session is at each *)
(* place, and that only a frame being converted is lent.                   *)
NodeInv ==
    /\ nodeAt \in {"config", "enumerate", "create", "ended"} => device = "none"
    /\ nodeAt \in {"openDevice", "destroy"} => device = "created"
    /\ nodeAt \in {"format", "size", "trigger", "strategy", "start"} => device = "open"
    /\ nodeAt \in Running => device = "grabbing"
    /\ nodeAt = "stopGrabbing" => device \in {"created", "open", "grabbing"}
    /\ nodeAt = "closeDevice" => device \in {"created", "open"}
    /\ handle <=> device # "none"
    /\ lent = IF nodeAt = "convert" THEN 1 ELSE 0

=============================================================================
