----------------------------- MODULE CameraTools -----------------------------
(* What the two programs do before and besides capturing from four cameras,*)
(* one program at a time: the four-camera program as far as its settings   *)
(* decide, with the diagnostic of a single camera that they may ask for,   *)
(* and camera_app.                                                         *)
EXTENDS SingleCamera

CONSTANT Initial    \* see Configuration

VARIABLES program, settings, stage, outputs, nodeAt, handle, supported, triggered, escape

Config == INSTANCE Configuration

ASSUME InitialAssumption == Config!InitialTyped

Node == INSTANCE CameraNode

configOnly == <<settings, stage, outputs>>
nodeOnly == <<nodeAt, handle, supported, triggered, escape>>
allVars == <<vars, program, configOnly, nodeOnly>>

(* The diagnostic starts with the options BeginDiagnostic gives it. *)
ToolsInit ==
    /\ Init /\ options = [openOnly |-> TRUE, software |-> TRUE, frequencyValid |-> TRUE]
    /\ \/ program = "four_camera_capture" /\ Config!Init
       \/ program = "camera_app" /\ settings = Config!Default /\ stage = "" /\ outputs = 0
    /\ Node!Init

Configures(A) == program = "four_camera_capture" /\ A /\ UNCHANGED <<program, vars, nodeOnly>>

BeginDiagnostic ==
    /\ program = "four_camera_capture" /\ stage = "single"
    /\ program' = "diagnostic"
    /\ \E positive \in Config!PeriodPositive(settings.softwareFrequency) :
          options' = [openOnly |-> settings.duration = 0,
                      software |-> settings.triggerMode = "SOFTWARE_TRIGGER",
                      frequencyValid |-> positive]
    /\ settings' = Config!Default
    /\ UNCHANGED <<schedulerVars, cameraVars, at, complete, incomplete, result, stage,
                   outputs, nodeOnly>>

Diagnostic(A) == program = "diagnostic" /\ A /\ UNCHANGED <<program, configOnly, nodeOnly>>

App(A) ==
    /\ program = "camera_app"
    /\ A
    /\ UNCHANGED <<program, configOnly, schedulerVars, mainVars, command, ready, sent,
                   grabbing, lease>>

ToolsNext ==
    \/ Configures(Config!Next) \/ BeginDiagnostic
    \/ Diagnostic(Next)
    \/ App(Node!NodeNext)

ToolsSpec ==
    /\ ToolsInit /\ [][ToolsNext]_allVars
    /\ WF_allVars(Diagnostic(MainStep))
    /\ WF_allVars(Diagnostic(SchedulerStep))
    /\ WF_allVars(Diagnostic(TimePasses))
    /\ WF_allVars(App(Node!NodeStep))

(* PartsAgree and LateRefusals of Configuration. *)
PartsAgree == Config!PartsAgree
LateRefusals == Config!LateRefusals

(* DiagnosticEnds of SingleCamera and EscapeEnds of CameraNode: either     *)
(* program ends with the camera given back.                                *)
ProgramEnds ==
    /\ (program = "diagnostic") ~> (at = "ended" /\ result >= 0 /\ device = "none")
    /\ Node!EscapeEnds

-----------------------------------------------------------------------------
(* What the proofs add: the inductive invariant of the composition.  The   *)
(* programs share the camera, which is as each of them finds it.           *)
ToolsInv ==
    /\ IInv
    /\ program \in {"four_camera_capture", "diagnostic", "camera_app"}
    /\ Config!StageInv
    /\ program # "camera_app" => SessionInv
    /\ program = "camera_app" => Node!NodeInv /\ command = FALSE

=============================================================================
