-------------------------- MODULE CameraToolsProofs --------------------------
(***************************************************************************)
(* Proofs about TriggerScheduler, for every period and however late its    *)
(* thread is; about SingleCamera, which uses it, and CameraNode, for every *)
(* duration, number of buffers and number of frames; and about CameraTools *)
(* for all combinations of settings.                                       *)
(***************************************************************************)
EXTENDS CameraTools, TLAPS

\* One period more.
LEMMA OneMore ==
    ASSUME NEW a \in Int
    PROVE  /\ a * Period \in Int
           /\ (a + 1) * Period = a * Period + Period
BY PeriodAssumption

-----------------------------------------------------------------------------
(* The types. *)

LEMMA SchedulerTypes ==
    ASSUME SchedulerTypeOK, [SchedulerNext]_schedulerVars
    PROVE  SchedulerTypeOK'
<1> USE PeriodAssumption DEF SchedulerTypeOK, schedulerVars, counters
<1>1. CASE StartScheduler
  <2>1. <<>> \in Seq(Nat)
    OBVIOUS
  <2>2. QED
    BY <1>1, <2>1 DEF StartScheduler
<1>2. CASE ThreadBegins
  BY <1>2 DEF ThreadBegins
<1>3. CASE NextCycle
  BY <1>3 DEF NextCycle
<1>4. CASE ThreadEnds
  BY <1>4 DEF ThreadEnds
<1>5. ASSUME NEW ok \in BOOLEAN, CallbackReturns(ok) PROVE SchedulerTypeOK'
  BY <1>5 DEF CallbackReturns
<1>6. CASE PlanNext
  BY <1>6 DEF PlanNext
<1>7. CASE Wake
  BY <1>7 DEF Wake
<1>8. CASE RequestSchedulerStop
  BY <1>8 DEF RequestSchedulerStop
<1>9. CASE JoinScheduler
  BY <1>9 DEF JoinScheduler
<1>10. CASE Tick
  BY <1>10 DEF Tick
<1>11. CASE UNCHANGED schedulerVars
  BY <1>11
<1>12. QED
  BY <1>1, <1>2, <1>3, <1>4, <1>5, <1>6, <1>7, <1>8, <1>9, <1>10, <1>11 DEF SchedulerNext

-----------------------------------------------------------------------------
(* The schedule.  Steps that leave the cycles and the schedule alone keep  *)
(* everything that is known of them.                                       *)

ScheduleUnchanged == UNCHANGED <<nextWakeup, generated, overruns, origin, starts>>

LEMMA ScheduleKept ==
    ASSUME IInv, SchedulerTypeOK', ScheduleUnchanged, Planned' = Planned,
           now' >= now,
           spc' \in {"none", "begin"} \/ spc \notin {"none", "begin"},
           spc' = "begin" => spc = "begin",
           spc' = "top" => spc = "top" \/ now >= nextWakeup,
           spc' \in {"callback", "plan"} => spc \in {"callback", "plan"}
    PROVE  IInv'
<1>1. Len(starts') = generated' /\ (spc' = "begin" => generated' = 0)
  BY DEF IInv, ScheduleUnchanged
<1>2. (spc' \notin {"none", "begin"} => Ahead')
  BY DEF IInv, ScheduleUnchanged, Ahead
<1>3. Due'
  BY DEF IInv, ScheduleUnchanged, Due, SchedulerTypeOK
<1>4. NoBursts'
  BY DEF IInv, ScheduleUnchanged, NoBursts
<1>5. NoDrift'
  BY DEF IInv, ScheduleUnchanged, NoDrift
<1>6. QED
  BY <1>1, <1>2, <1>3, <1>4, <1>5 DEF IInv

\* A cycle begins: it is due, and the schedule says that it is late enough
\* after every cycle before it.
LEMMA CycleBegins ==
    ASSUME IInv, SchedulerTypeOK', NextCycle
    PROVE  IInv'
<1> DEFINE n == generated
<1>1. /\ n \in Nat /\ Len(starts) = n /\ starts \in Seq(Nat) /\ now \in Nat /\ nextWakeup \in Nat
      /\ spc = "top" /\ spc' = "callback" /\ n' = n + 1 /\ starts' = Append(starts, now)
      /\ UNCHANGED <<now, nextWakeup, overruns, origin>>
      /\ now >= nextWakeup /\ origin \in Nat /\ overruns \in Nat
  BY DEF IInv, SchedulerTypeOK, NextCycle, Due
<1>2. /\ Len(starts') = n + 1 /\ starts'[n + 1] = now
      /\ \A i \in 1..n : starts'[i] = starts[i] /\ starts[i] \in Nat
  BY <1>1
<1>3. Planned = n /\ Planned' = n
  BY <1>1 DEF Planned
<1>4. \A i \in 1..n : nextWakeup > starts[i] + (n - i) * Period
  BY <1>1, <1>3 DEF IInv, Ahead
<1>5. Ahead'
  BY <1>1, <1>2, <1>3, <1>4 DEF Ahead
<1>6. Due'
  BY <1>1, <1>2 DEF Due
<1>7. NoBursts'
  <2>1. SUFFICES ASSUME NEW i \in 1..(n + 1), NEW j \in 1..(n + 1), i < j
                 PROVE  starts'[j] > starts'[i] + (j - i - 1) * Period
    BY <1>2 DEF NoBursts
  <2>2. CASE j = n + 1
    <3>1. i \in 1..n /\ j - i - 1 = n - i
      BY <1>1, <2>1, <2>2
    <3>2. starts'[i] = starts[i] /\ starts'[j] = now
      BY <1>2, <2>2, <3>1
    <3>3. nextWakeup > starts[i] + (n - i) * Period
      BY <1>4, <3>1
    <3>4. (n - i) * Period \in Int
      BY <1>1, <3>1, OneMore
    <3>5. now > starts[i] + (n - i) * Period
      BY <1>1, <1>2, <3>1, <3>3, <3>4
    <3>6. QED
      BY <3>1, <3>2, <3>5
  <2>3. CASE j # n + 1
    <3>1. i \in 1..n /\ j \in 1..n
      BY <1>1, <2>1, <2>3
    <3>2. starts[j] > starts[i] + (j - i - 1) * Period
      BY <1>1, <2>1, <3>1 DEF IInv, NoBursts
    <3>3. QED
      BY <1>2, <3>1, <3>2
  <2>4. QED
    BY <2>2, <2>3
<1>8. NoDrift'
  <2>1. SUFFICES ASSUME overruns = 0
                 PROVE  /\ nextWakeup = origin + n * Period
                        /\ \A k \in 1..(n + 1) : starts'[k] >= origin + (k - 1) * Period
    BY <1>1, <1>2, <1>3 DEF NoDrift
  <2>2. /\ nextWakeup = origin + n * Period
        /\ \A k \in 1..n : starts[k] >= origin + (k - 1) * Period
    BY <1>1, <1>3, <2>1 DEF IInv, NoDrift
  <2>3. ASSUME NEW k \in 1..(n + 1) PROVE starts'[k] >= origin + (k - 1) * Period
    <3>1. CASE k \in 1..n
      BY <1>2, <2>2, <3>1
    <3>2. CASE k = n + 1
      <4>1. k - 1 = n
        BY <1>1, <3>2
      <4>2. QED
        BY <1>1, <1>2, <2>2, <3>2, <4>1
    <3>3. QED
      BY <1>1, <3>1, <3>2
  <2>4. QED
    BY <2>2, <2>3
<1>9. QED
  BY <1>1, <1>2, <1>5, <1>6, <1>7, <1>8 DEF IInv

\* The next cycle is planned one period later than this one was, or one
\* period from now; either way it is one period further from all others.
LEMMA CyclePlanned ==
    ASSUME IInv, SchedulerTypeOK', PlanNext
    PROVE  IInv'
<1> DEFINE n == generated
           w == nextWakeup'
<1>1. /\ n \in Nat /\ n > 0 /\ Len(starts) = n /\ starts \in Seq(Nat)
      /\ now \in Nat /\ nextWakeup \in Nat /\ w \in Nat /\ Period \in Nat \ {0}
      /\ spc = "plan" /\ spc' = "sleep"
      /\ UNCHANGED <<now, generated, origin, starts>>
      /\ starts[n] >= nextWakeup /\ now >= starts[n] /\ origin \in Nat /\ overruns \in Nat
  <2>1. /\ SchedulerTypeOK /\ SchedulerTypeOK' /\ Len(starts) = generated /\ Due
        /\ Period \in Nat \ {0}
    BY PeriodAssumption DEF IInv
  <2>2. /\ spc = "plan" /\ spc' = "sleep"
        /\ UNCHANGED <<now, generated, origin, starts>>
    BY DEF PlanNext, counters
  <2>3. n > 0 /\ starts[n] >= nextWakeup /\ now >= starts[n]
    BY <2>1, <2>2 DEF Due
  <2>4. QED
    BY <2>1, <2>2, <2>3 DEF SchedulerTypeOK
<1>2. Planned = n - 1 /\ Planned' = n
  BY <1>1 DEF Planned
<1>3. \A i \in 1..n : starts[i] \in Nat
  BY <1>1
<1>4. \A i \in 1..(n - 1) : nextWakeup > starts[i] + (n - 1 - i) * Period
  BY <1>1, <1>2 DEF IInv, Ahead
<1>5. w >= nextWakeup + Period /\ w > now
  <2>1. CASE now < nextWakeup + Period /\ w = nextWakeup + Period
    BY <1>1, <2>1
  <2>2. CASE now >= nextWakeup + Period /\ w = now + Period
    BY <1>1, <2>2
  <2>3. QED
    BY <2>1, <2>2 DEF PlanNext
<1>6. ASSUME NEW i \in 1..n PROVE w > starts[i] + (n - i) * Period
  <2>1. CASE i = n
    <3>1. n - i = 0 /\ 0 * Period = 0
      BY <1>1, <2>1
    <3>2. QED
      BY <1>1, <1>3, <1>5, <2>1, <3>1
  <2>2. CASE i # n
    <3>1. i \in 1..(n - 1) /\ n - 1 - i \in Int /\ n - i = (n - 1 - i) + 1
      BY <1>1, <2>2
    <3>2. (n - i) * Period = (n - 1 - i) * Period + Period /\ (n - 1 - i) * Period \in Int
      BY <3>1, OneMore
    <3>3. nextWakeup > starts[i] + (n - 1 - i) * Period
      BY <1>4, <3>1
    <3>4. QED
      BY <1>1, <1>3, <1>5, <3>2, <3>3
  <2>3. QED
    BY <2>1, <2>2
<1>7. Ahead'
  BY <1>1, <1>2, <1>6 DEF Ahead
<1>8. Due' /\ NoBursts'
  BY <1>1 DEF Due, NoBursts, IInv
<1>9. NoDrift'
  <2>1. SUFFICES ASSUME overruns' = 0
                 PROVE  /\ w = origin + n * Period
                        /\ \A k \in 1..n : starts[k] >= origin + (k - 1) * Period
    BY <1>1, <1>2 DEF NoDrift
  <2>2. w = nextWakeup + Period /\ overruns = 0
    BY <1>1, <2>1 DEF PlanNext
  <2>3. /\ nextWakeup = origin + (n - 1) * Period
        /\ \A k \in 1..n : starts[k] >= origin + (k - 1) * Period
    BY <1>1, <1>2, <2>2 DEF IInv, NoDrift
  <2>4. n * Period = (n - 1) * Period + Period /\ (n - 1) * Period \in Int
    <3>1. n - 1 \in Int /\ n = (n - 1) + 1
      BY <1>1
    <3>2. QED
      BY <3>1, OneMore
  <2>5. QED
    BY <1>1, <2>2, <2>3, <2>4
<1>10. QED
  BY <1>1, <1>7, <1>8, <1>9 DEF IInv

LEMMA ScheduleInductive ==
    ASSUME IInv, [SchedulerNext]_schedulerVars
    PROVE  IInv'
<1> USE DEF schedulerVars, counters
<1>1. SchedulerTypeOK' /\ SchedulerTypeOK /\ now \in Nat
  BY SchedulerTypes DEF IInv, SchedulerTypeOK
<1>2. CASE StartScheduler
  BY <1>1, <1>2 DEF StartScheduler, IInv, Due, NoBursts, NoDrift
<1>3. CASE ThreadBegins
  <2>1. /\ starts' = starts /\ generated' = generated /\ generated = 0 /\ Len(starts) = 0
        /\ spc' = "top" /\ nextWakeup' = now /\ origin' = now /\ now' = now
    BY <1>3 DEF ThreadBegins, IInv
  <2>2. Planned' = 0 /\ 0 * Period = 0
    BY <2>1, PeriodAssumption DEF Planned
  <2>3. QED
    BY <1>1, <2>1, <2>2 DEF IInv, Due, NoBursts, NoDrift, Ahead
<1>4. CASE NextCycle
  BY <1>1, <1>4, CycleBegins
<1>5. CASE ThreadEnds
  BY <1>1, <1>5, ScheduleKept DEF ThreadEnds, ScheduleUnchanged, Planned
<1>6. ASSUME NEW ok \in BOOLEAN, CallbackReturns(ok) PROVE IInv'
  BY <1>1, <1>6, ScheduleKept DEF CallbackReturns, ScheduleUnchanged, Planned
<1>7. CASE PlanNext
  BY <1>1, <1>7, CyclePlanned
<1>8. CASE Wake
  BY <1>1, <1>8, ScheduleKept DEF Wake, ScheduleUnchanged, Planned
<1>9. CASE RequestSchedulerStop
  BY <1>1, <1>9, ScheduleKept DEF RequestSchedulerStop, ScheduleUnchanged, Planned
<1>10. CASE JoinScheduler
  BY <1>1, <1>10, ScheduleKept DEF JoinScheduler, ScheduleUnchanged, Planned
<1>11. CASE Tick
  BY <1>1, <1>11, ScheduleKept DEF Tick, ScheduleUnchanged, Planned
<1>12. CASE UNCHANGED schedulerVars
  BY <1>1, <1>12, ScheduleKept DEF ScheduleUnchanged, Planned
<1>13. QED
  BY <1>2, <1>3, <1>4, <1>5, <1>6, <1>7, <1>8, <1>9, <1>10, <1>11, <1>12 DEF SchedulerNext

LEMMA ScheduleInit == SchedulerInit => IInv
<1> SUFFICES ASSUME SchedulerInit PROVE IInv
  OBVIOUS
<1>1. <<>> \in Seq(Nat) /\ Len(<<>>) = 0
  OBVIOUS
<1>2. SchedulerTypeOK
  BY <1>1 DEF SchedulerInit, SchedulerTypeOK
<1>3. QED
  BY <1>1, <1>2 DEF SchedulerInit, IInv, Due, NoBursts, NoDrift

\* SoftwareTriggerScheduler::run: whatever the callback does and however
\* late the thread is, cycles do not bunch up, and the schedule does not
\* drift unless an overrun is counted.
THEOREM ScheduleHolds == SchedulerSpec => [](NoBursts /\ NoDrift)
<1>1. IInv /\ [SchedulerNext]_schedulerVars => IInv'
  BY ScheduleInductive
<1>2. IInv => NoBursts /\ NoDrift
  BY DEF IInv
<1>3. QED
  BY <1>1, <1>2, ScheduleInit, PTL DEF SchedulerSpec

-----------------------------------------------------------------------------
(* The diagnostic as a user of the camera. *)

\* One step of the session: it keeps SessionInv, and the SDK allows it.
SessionStep == SessionInv' /\ [Sdk!Next]_(Sdk!sdkVars)

\* A step of one thread that leaves alone what SessionInv speaks of.
LEMMA SessionKept ==
    ASSUME SessionInv, UNCHANGED <<device, lent, command, grabbing, at, spc>>
    PROVE  SessionStep
BY DEF SessionInv, SessionStep, Sdk!sdkVars

LEMMA OpenSteps ==
    ASSUME SessionInv,
           \/ Enumerate \/ CreateHandle \/ OpenDevice \/ Configure \/ SetStrategy \/ OpenFails
           \/ OpenedOnly
    PROVE  SessionStep
<1> USE DEF SessionInv, SessionStep, Places, Opening, Closing, Looping, schedulerVars, cameraVars,
            OpenStep, Sdk!sdkVars, Sdk!Next
<1>1. CASE Enumerate
  BY <1>1 DEF Enumerate
<1>2. CASE CreateHandle
  BY <1>2 DEF CreateHandle, Sdk!CreateHandle
<1>3. CASE OpenDevice
  BY <1>3 DEF OpenDevice, Sdk!OpenDevice
<1>4. CASE Configure
  BY <1>4 DEF Configure
<1>5. CASE SetStrategy
  BY <1>5 DEF SetStrategy
<1>6. CASE OpenFails
  BY <1>6 DEF OpenFails
<1>7. CASE OpenedOnly
  BY <1>7 DEF OpenedOnly
<1>8. QED
  BY <1>1, <1>2, <1>3, <1>4, <1>5, <1>6, <1>7

LEMMA LoopSteps ==
    ASSUME SessionInv,
           \/ StartGrabbing \/ StartTriggering \/ LoopCondition \/ GrabFrame \/ GrabTimesOut
           \/ GrabFails \/ Look \/ StopScheduler \/ JoinTriggering
    PROVE  SessionStep
<1> USE DEF SessionInv, SessionStep, Places, Opening, Closing, Looping, schedulerVars, cameraVars,
            Sdk!sdkVars, Sdk!Next
<1>1. CASE StartGrabbing
  BY <1>1 DEF StartGrabbing, Sdk!StartGrabbing
<1>2. CASE StartTriggering
  BY <1>2 DEF StartTriggering, StartScheduler
<1>3. CASE LoopCondition
  BY <1>3 DEF LoopCondition
<1>4. CASE GrabFrame
  BY <1>4 DEF GrabFrame, Sdk!LendBuffer
<1>5. CASE GrabTimesOut
  BY <1>5 DEF GrabTimesOut
<1>6. CASE GrabFails
  BY <1>6 DEF GrabFails
<1>7. CASE Look
  BY <1>7 DEF Look, Sdk!FreeBuffer
<1>8. CASE StopScheduler
  BY <1>8 DEF StopScheduler, RequestSchedulerStop
<1>9. CASE JoinTriggering
  BY <1>9 DEF JoinTriggering, JoinScheduler
<1>10. QED
  BY <1>1, <1>2, <1>3, <1>4, <1>5, <1>6, <1>7, <1>8, <1>9

LEMMA CloseSteps ==
    ASSUME SessionInv, StopGrabbing \/ CloseDevice \/ DestroyHandle
    PROVE  SessionStep
<1> USE DEF SessionInv, SessionStep, Places, Opening, Closing, Looping, schedulerVars, cameraVars,
            Sdk!sdkVars, Sdk!Next, Sdk!Idle
<1>1. CASE StopGrabbing
  BY <1>1 DEF StopGrabbing, Sdk!StopGrabbing
<1>2. CASE CloseDevice
  BY <1>2 DEF CloseDevice, Sdk!CloseDevice
<1>3. CASE DestroyHandle
  BY <1>3 DEF DestroyHandle, Sdk!DestroyHandle
<1>4. QED
  BY <1>1, <1>2, <1>3

LEMMA SchedulerSteps ==
    ASSUME SessionInv, SchedulerStep
    PROVE  SessionStep
<1> USE DEF SessionInv, SessionStep, Places, Opening, Closing, Looping, mainVars,
            Sdk!sdkVars, Sdk!Next
<1>1. CASE TriggerCycle
  BY <1>1 DEF TriggerCycle, NextCycle, Sdk!CommandBegins
<1>2. CASE TriggerRefused
  BY <1>2 DEF TriggerRefused, CallbackReturns, cameraVars
<1>3. CASE CommandReturns
  BY <1>3 DEF CommandReturns, CallbackReturns, Sdk!CommandReturns
<1>4. CASE (ThreadBegins \/ ThreadEnds \/ PlanNext \/ Wake) /\ UNCHANGED <<cameraVars, mainVars>>
  BY <1>4 DEF ThreadBegins, ThreadEnds, PlanNext, Wake, cameraVars
<1>5. QED
  BY <1>1, <1>2, <1>3, <1>4 DEF SchedulerStep

LEMMA SessionInductive ==
    ASSUME SessionInv, [Next]_vars
    PROVE  SessionStep
<1>1. CASE SchedulerStep
  BY <1>1, SchedulerSteps
<1>2. CASE MainStep
  BY <1>2, OpenSteps, LoopSteps, CloseSteps DEF MainStep
<1>3. CASE FrameArrives
  BY <1>3, SessionKept DEF FrameArrives, schedulerVars, mainVars
<1>4. CASE TimePasses
  BY <1>4, SessionKept DEF TimePasses, Tick, cameraVars, mainVars
<1>5. CASE UNCHANGED vars
  BY <1>5, SessionKept DEF vars, schedulerVars, cameraVars, mainVars
<1>6. QED
  BY <1>1, <1>2, <1>3, <1>4, <1>5 DEF Next

LEMMA SessionBegins == Init => SessionInv /\ Sdk!Init
BY DEF Init, SchedulerInit, SessionInv, Sdk!Init, Places, Opening, Looping

\* The diagnostic implements MvsSession: the places of the main thread map
\* to how far the session is, and the scheduler's thread gives commands only
\* in between.  For every number of frames and buffers, every duration, and
\* whatever fails.
THEOREM SdkObeyed == Spec => ObeysSdk
<1>1. Init => SessionInv /\ Sdk!Init
  BY SessionBegins
<1>2. SessionInv /\ [Next]_vars => SessionInv' /\ [Sdk!Next]_(Sdk!sdkVars)
  BY SessionInductive DEF SessionStep
<1>3. QED
  BY <1>1, <1>2, PTL DEF Spec, ObeysSdk, Sdk!Spec

\* The scheduler of the diagnostic is the scheduler above.
LEMMA SchedulerRefined ==
    ASSUME [Next]_vars
    PROVE  [SchedulerNext]_schedulerVars
<1>1. CASE SchedulerStep
  BY <1>1 DEF SchedulerStep, TriggerCycle, TriggerRefused, CommandReturns, SchedulerNext
<1>2. CASE MainStep
  BY <1>2 DEF MainStep, Enumerate, CreateHandle, OpenDevice, Configure, SetStrategy, OpenFails,
     OpenStep, OpenedOnly, StartGrabbing, StartTriggering, LoopCondition, GrabFrame, GrabTimesOut,
     GrabFails, Look, StopScheduler, JoinTriggering, StopGrabbing, CloseDevice, DestroyHandle,
     SchedulerNext
<1>3. CASE FrameArrives
  BY <1>3 DEF FrameArrives
<1>4. CASE TimePasses
  BY <1>4 DEF TimePasses, SchedulerNext
<1>5. CASE UNCHANGED vars
  BY <1>5 DEF vars
<1>6. QED
  BY <1>1, <1>2, <1>3, <1>4, <1>5 DEF Next

\* In the diagnostic, too, cycles do not bunch up and the schedule does not
\* drift without an overrun, however long the camera's calls take.
THEOREM DiagnosticSchedule == Spec => [](NoBursts /\ NoDrift)
<1>1. Init => SchedulerInit
  BY DEF Init
<1>2. IInv /\ [Next]_vars => IInv'
  BY SchedulerRefined, ScheduleInductive
<1>3. IInv => NoBursts /\ NoDrift
  BY DEF IInv
<1>4. QED
  BY <1>1, <1>2, <1>3, ScheduleInit, PTL DEF Spec

-----------------------------------------------------------------------------
(* camera_app as a user of the camera. *)

NodeSessionStep == Node!NodeInv' /\ [Node!Sdk!Next]_(Node!Sdk!sdkVars)

LEMMA NodeInductive ==
    ASSUME Node!NodeInv, [Node!NodeNext]_(Node!nodeVars)
    PROVE  NodeSessionStep
<1> USE DEF Node!NodeInv, NodeSessionStep, Node!Running, Node!Initialising, Node!nodeVars,
            Node!InitStep, Node!Sdk!sdkVars, Node!Sdk!Next, Node!Sdk!Idle
<1>1. CASE Node!Prepare
  BY <1>1 DEF Node!Prepare
<1>2. CASE Node!CreateHandle
  BY <1>2 DEF Node!CreateHandle, Node!Sdk!CreateHandle
<1>3. CASE Node!OpenDevice
  BY <1>3 DEF Node!OpenDevice, Node!Sdk!OpenDevice
<1>4. CASE Node!SetPixelFormat \/ Node!SetSize \/ Node!SetTrigger \/ Node!SetStrategy
  BY <1>4 DEF Node!SetPixelFormat, Node!SetSize, Node!SetTrigger, Node!SetStrategy
<1>5. CASE Node!StartGrabbing
  BY <1>5 DEF Node!StartGrabbing, Node!Sdk!StartGrabbing
<1>6. CASE Node!InitFails
  BY <1>6 DEF Node!InitFails
<1>7. CASE Node!GrabFrame
  BY <1>7 DEF Node!GrabFrame, Node!Sdk!LendBuffer
<1>8. CASE Node!Convert
  BY <1>8 DEF Node!Convert, Node!Sdk!FreeBuffer
<1>9. CASE Node!Show \/ Node!GrabFails \/ Node!PressEscape
  BY <1>9 DEF Node!Show, Node!GrabFails, Node!PressEscape
<1>10. CASE Node!StopGrabbing
  BY <1>10 DEF Node!StopGrabbing, Node!Sdk!StopGrabbing
<1>11. CASE Node!CloseDevice
  BY <1>11 DEF Node!CloseDevice, Node!Sdk!CloseDevice
<1>12. CASE Node!DestroyHandle
  BY <1>12 DEF Node!DestroyHandle, Node!Sdk!DestroyHandle
<1>13. CASE UNCHANGED Node!nodeVars
  BY <1>13
<1>14. QED
  BY <1>1, <1>2, <1>3, <1>4, <1>5, <1>6, <1>7, <1>8, <1>9, <1>10, <1>11, <1>12, <1>13
     DEF Node!NodeNext, Node!NodeStep

\* camera_app implements MvsSession, too, whichever step of init fails and
\* whatever images come: also a frame that cannot be converted is given back.
THEOREM NodeObeysSdk == Node!Spec => Node!ObeysSdk
<1>1. Node!Init => Node!NodeInv /\ Node!Sdk!Init
  BY DEF Node!Init, Node!NodeInv, Node!Sdk!Init, Node!Running
<1>2. Node!NodeInv /\ [Node!NodeNext]_(Node!nodeVars)
          => Node!NodeInv' /\ [Node!Sdk!Next]_(Node!Sdk!sdkVars)
  BY NodeInductive DEF NodeSessionStep
<1>3. QED
  BY <1>1, <1>2, PTL DEF Node!Spec, Node!ObeysSdk, Node!Sdk!Spec

-----------------------------------------------------------------------------
(* The settings. *)

LEMMA DefaultTyped == Config!Default \in Config!Settings
BY DEF Config!Default, Config!Settings, Config!Fps, Config!Rates

LEMMA RateTyped ==
    ASSUME NEW r \in Config!Rates
    PROVE  r \in Int /\ Config!AsFloat(r) \in Int
BY DEF Config!AsFloat, Config!Rates, Config!NaN, Config!Inf

LEMMA SettingsTyped ==
    ASSUME NEW s \in Config!Settings
    PROVE  /\ {s.captureRate, s.softwareFrequency, s.outputRate} \subseteq Config!Rates
           /\ {s.ispCameras, s.encoderCameras, s.encoderFps} \subseteq Nat
           /\ s.outputMode \in {"srt", "rtp", "null", "file", "other"}
           /\ s.optOutput \in {"", "srt", "rtp", "null", "file", "other"}
BY Zenon DEF Config!Settings

LEMMA SettingsKept ==
    ASSUME NEW s \in Config!Settings, NEW isp \in BOOLEAN, NEW encoder \in BOOLEAN,
           NEW processed \in Nat, NEW encoded \in Nat,
           NEW mode \in {"srt", "rtp", "null", "file", "other"}
    PROVE  [s EXCEPT !.ispEnabled = isp, !.encoderEnabled = encoder,
                     !.ispCameras = processed, !.encoderCameras = encoded,
                     !.outputMode = mode] \in Config!Settings
BY ZenonT(60) DEF Config!Settings

\* The overrides of run keep the settings within their types.
LEMMA OverrideTyped ==
    ASSUME NEW s \in Config!Settings, s.optIspCameras \in Nat, s.optEncoderCameras \in Nat
    PROVE  Config!Override(s) \in Config!Settings
<1> DEFINE t == Config!Override(s)
           isp == s.ispEnabled /\ ~s.disableIsp
           encoder == s.encoderEnabled /\ ~s.disableEncoder
           processed == IF s.optEncoderCameras # 0 THEN s.optEncoderCameras
                        ELSE IF s.optIspCameras # 0 THEN s.optIspCameras ELSE s.ispCameras
           encoded == IF s.optEncoderCameras # 0 THEN s.optEncoderCameras
                      ELSE s.encoderCameras
           mode == IF s.optOutput # "" THEN s.optOutput ELSE s.outputMode
<1>1. /\ s.ispCameras \in Nat /\ s.encoderCameras \in Nat
      /\ s.outputMode \in {"srt", "rtp", "null", "file", "other"}
      /\ s.optOutput \in {"", "srt", "rtp", "null", "file", "other"}
  BY SettingsTyped
<1>2. isp \in BOOLEAN /\ encoder \in BOOLEAN
  OBVIOUS
<1>3. processed \in Nat /\ encoded \in Nat
  BY <1>1
<1>4. mode \in {"srt", "rtp", "null", "file", "other"}
  BY <1>1
<1>5. t = [s EXCEPT !.ispEnabled = isp, !.encoderEnabled = encoder,
                    !.ispCameras = processed, !.encoderCameras = encoded,
                    !.outputMode = mode]
  BY DEF Config!Override
<1> HIDE DEF isp, encoder, processed, encoded, mode, t
<1>6. [s EXCEPT !.ispEnabled = isp, !.encoderEnabled = encoder,
                !.ispCameras = processed, !.encoderCameras = encoded,
                !.outputMode = mode] \in Config!Settings
  BY <1>2, <1>3, <1>4, SettingsKept, ZenonT(60)
<1>7. QED
  BY <1>5, <1>6, Zenon DEF t

\* What LoadConfig has compared still fits together after the overrides of
\* run, if encoders that are still enabled have an ISP.
LEMMA OverrideAgrees ==
    ASSUME NEW s \in Config!Settings, Config!Loads(s),
           Config!Override(s).encoderEnabled => Config!Override(s).ispEnabled,
           s.optIspCameras \in Nat, s.optEncoderCameras \in Nat
    PROVE  Config!Agreed(Config!Override(s))
<1> DEFINE t == Config!Override(s)
<1>1. /\ t.captureRate = s.captureRate /\ t.outputRate = s.outputRate
      /\ t.encoderFps = s.encoderFps
      /\ t.triggerMode = s.triggerMode /\ t.softwareFrequency = s.softwareFrequency
      /\ t.optIspCameras = s.optIspCameras /\ t.optEncoderCameras = s.optEncoderCameras
      /\ t.ispCameras = IF s.optEncoderCameras # 0 THEN s.optEncoderCameras
                        ELSE IF s.optIspCameras # 0 THEN s.optIspCameras ELSE s.ispCameras
      /\ t.encoderCameras = IF s.optEncoderCameras # 0 THEN s.optEncoderCameras
                            ELSE s.encoderCameras
  BY DEF Config!Override, Config!Settings
<1>2. t.encoderCameras <= t.ispCameras \/ (t.optIspCameras # 0 /\ t.optEncoderCameras = 0)
  <2>1. s.encoderCameras <= s.ispCameras /\ s.encoderCameras \in Nat /\ s.ispCameras \in Nat
    BY DEF Config!Loads, Config!EncoderAccepted, Config!Settings
  <2>2. QED
    BY <1>1, <2>1
<1>3. /\ Config!CaptureRateAccepted(t) /\ Config!TriggerAccepted(t)
      /\ Config!OutputRateAccepted(t) /\ t.encoderFps = Config!Truncated(t.outputRate)
  BY <1>1 DEF Config!Loads, Config!CaptureRateAccepted, Config!TriggerAccepted,
     Config!OutputRateAccepted, Config!EncoderAccepted
<1>4. QED
  BY <1>2, <1>3 DEF Config!Agreed

\* A rate of which LoadConfig has left no positive period is not a number or tiny;
\* one of which a positive period comes is positive.
LEMMA OnlyPeriodsLate ==
    ASSUME NEW s \in Config!Settings, Config!Agreed(s),
           NEW r \in {s.outputRate, s.softwareFrequency}
    PROVE  /\ FALSE \in Config!PeriodPositive(r) =>
                 r \in {Config!NaN, Config!Inf} \cup 1..Config!Tiny
           /\ TRUE \in Config!PeriodPositive(r) => Config!Positive(r)
<1>1. s.outputRate \in Int /\ s.softwareFrequency \in Int
  <2>1. s.outputRate \in Config!Rates /\ s.softwareFrequency \in Config!Rates
    BY SettingsTyped
  <2>2. QED
    BY <2>1, RateTyped
<1>2. ~Config!NotPositive(s.outputRate) /\ ~Config!NotPositive(s.softwareFrequency)
  BY DEF Config!Agreed, Config!OutputRateAccepted, Config!TriggerAccepted
<1>3. r \in Int /\ ~Config!NotPositive(r)
  BY <1>1, <1>2
<1>4. ~Config!Positive(r) => r \in {Config!NaN, Config!Inf}
  BY <1>3 DEF Config!NotPositive, Config!Positive, Config!Finite
<1>5. Config!Positive(r) /\ r <= Config!Tiny => r \in 1..Config!Tiny
  BY <1>3 DEF Config!Positive, Config!Tiny
<1>6. QED
  BY <1>4, <1>5 DEF Config!PeriodPositive

LEMMA ConfigInductive ==
    ASSUME Config!StageInv, [Config!Next]_(Config!configurationVars)
    PROVE  Config!StageInv'
<1> USE DEF Config!StageInv, Config!Starting, Config!LateRefusals
<1>1. CASE Config!ParseCommandLine
  BY <1>1 DEF Config!ParseCommandLine, Config!Goes
<1>2. CASE Config!LoadConfig
  BY <1>2 DEF Config!LoadConfig, Config!Goes
<1>3. CASE Config!Dispatch
  BY <1>3 DEF Config!Dispatch, Config!Goes
<1>4. CASE Config!Overrides
  <2>1. /\ settings' = Config!Override(settings) /\ stage \in {"override"} /\ UNCHANGED outputs
        /\ stage' = IF settings'.encoderEnabled => settings'.ispEnabled THEN "outputs"
                                                                       ELSE "refused"
    BY <1>4 DEF Config!Overrides, Config!Goes
  <2>2. settings' \in Config!Settings
    BY <2>1, OverrideTyped DEF Config!OptionsAccepted
  <2>3. stage' = "outputs" => Config!Agreed(settings')
    BY <2>1, OverrideAgrees DEF Config!OptionsAccepted
  <2>4. QED
    BY <2>1, <2>2, <2>3
<1>5. CASE Config!ConstructOutputs
  BY <1>5 DEF Config!ConstructOutputs, Config!Goes
<1>6. CASE Config!ConstructEncoders
  BY <1>6 DEF Config!ConstructEncoders, Config!Goes
<1>7. CASE Config!ConstructMetadata
  BY <1>7 DEF Config!ConstructMetadata, Config!Goes
<1>8. CASE Config!ConstructIsp
  BY <1>8 DEF Config!ConstructIsp, Config!Goes
<1>9. CASE Config!OpenCameras
  BY <1>9 DEF Config!OpenCameras, Config!Goes
<1>10. CASE Config!StartScheduler
  <2>1. PICK positive \in Config!PeriodPositive(settings.softwareFrequency) :
           /\ stage = "scheduler"
           /\ stage' = IF settings.triggerMode = "SOFTWARE_TRIGGER" => positive THEN "selector"
                                                                             ELSE "refused late"
    BY <1>10 DEF Config!StartScheduler, Config!LateGoes
  <2>2. positive \in BOOLEAN /\ UNCHANGED <<settings, outputs>>
    BY <1>10 DEF Config!StartScheduler, Config!PeriodPositive
  <2>3. CASE positive
    BY <2>1, <2>2, <2>3, OnlyPeriodsLate
  <2>4. CASE ~positive
    <3>1. settings.softwareFrequency \in {Config!NaN, Config!Inf} \cup 1..Config!Tiny
      BY <2>1, <2>2, <2>4, OnlyPeriodsLate
    <3>2. QED
      BY <2>1, <2>2, <2>4, <3>1
  <2>5. QED
    BY <2>3, <2>4
<1>11. CASE Config!ConstructSelector
  <2>1. PICK positive \in Config!PeriodPositive(settings.outputRate) :
           stage = "selector" /\ stage' = IF positive THEN "running" ELSE "refused late"
    BY <1>11 DEF Config!ConstructSelector, Config!LateGoes
  <2>2. positive \in BOOLEAN /\ UNCHANGED <<settings, outputs>>
    BY <1>11 DEF Config!ConstructSelector, Config!PeriodPositive
  <2>3. CASE positive
    BY <2>1, <2>2, <2>3, OnlyPeriodsLate
  <2>4. CASE ~positive
    <3>1. settings.outputRate \in {Config!NaN, Config!Inf} \cup 1..Config!Tiny
      BY <2>1, <2>2, <2>4, OnlyPeriodsLate
    <3>2. QED
      BY <2>1, <2>2, <2>4, <3>1
  <2>5. QED
    BY <2>3, <2>4
<1>12. CASE UNCHANGED Config!configurationVars
  BY <1>12 DEF Config!configurationVars
<1>13. QED
  BY <1>1, <1>2, <1>3, <1>4, <1>5, <1>6, <1>7, <1>8, <1>9, <1>10, <1>11, <1>12 DEF Config!Next

-----------------------------------------------------------------------------
(* The programs one at a time. *)

LEMMA ToolsBegin == ToolsInit => ToolsInv /\ Sdk!Init
<1> SUFFICES ASSUME ToolsInit PROVE ToolsInv /\ Sdk!Init
  OBVIOUS
<1>1. Init /\ IInv
  BY ScheduleInit DEF ToolsInit, Init
<1>2. SessionInv /\ Sdk!Init
  BY <1>1, SessionBegins
<1>3. Node!NodeInv
  BY DEF ToolsInit, Node!Init, Node!NodeInv, Node!Running
<1>4. Config!StageInv
  <2>1. settings \in Config!Settings
    BY DefaultTyped, InitialAssumption DEF ToolsInit, Config!Init, Config!InitialTyped
  <2>2. stage \in {"options", ""}
    BY DEF ToolsInit, Config!Init
  <2>3. QED
    BY <2>1, <2>2 DEF Config!StageInv, Config!Starting, Config!LateRefusals
<1>5. command = FALSE
  BY <1>1 DEF Init
<1>6. program \in {"four_camera_capture", "camera_app"}
  BY DEF ToolsInit
<1>7. QED
  BY <1>1, <1>2, <1>3, <1>4, <1>5, <1>6 DEF ToolsInv

ToolsStep == ToolsInv' /\ [Sdk!Next]_(Sdk!sdkVars)

\* What camera_app does with the camera is what MvsSession knows, too; it
\* gives no commands.
LEMMA NodeIsSdk ==
    ASSUME [Node!Sdk!Next]_(Node!Sdk!sdkVars), command = FALSE, UNCHANGED command
    PROVE  [Sdk!Next]_(Sdk!sdkVars)
BY DEF Node!Sdk!Next, Node!Sdk!sdkVars, Sdk!Next, Sdk!sdkVars, Node!Sdk!Idle, Sdk!Idle,
   Node!Sdk!CreateHandle, Node!Sdk!OpenDevice, Node!Sdk!StartGrabbing, Node!Sdk!LendBuffer,
   Node!Sdk!FreeBuffer, Node!Sdk!CommandBegins, Node!Sdk!CommandReturns, Node!Sdk!StopGrabbing,
   Node!Sdk!CloseDevice, Node!Sdk!DestroyHandle,
   Sdk!CreateHandle, Sdk!OpenDevice, Sdk!StartGrabbing, Sdk!LendBuffer,
   Sdk!FreeBuffer, Sdk!CommandBegins, Sdk!CommandReturns, Sdk!StopGrabbing,
   Sdk!CloseDevice, Sdk!DestroyHandle

LEMMA ToolsInductive ==
    ASSUME ToolsInv, [ToolsNext]_allVars
    PROVE  ToolsStep
<1>1. CASE Configures(Config!Next)
  <2>1. /\ program = "four_camera_capture" /\ program' = program
        /\ Config!Next /\ UNCHANGED <<vars, nodeOnly>>
    BY <1>1 DEF Configures
  <2>2. UNCHANGED schedulerVars /\ UNCHANGED <<device, lent, command, grabbing, at, spc>>
    BY <2>1 DEF vars, schedulerVars, cameraVars, mainVars
  <2>3. IInv'
    BY <2>2, ScheduleInductive DEF ToolsInv
  <2>4. SessionStep
    BY <2>1, <2>2, SessionKept DEF ToolsInv
  <2>5. Config!StageInv'
    BY <2>1, ConfigInductive DEF ToolsInv
  <2>6. QED
    BY <2>1, <2>3, <2>4, <2>5 DEF ToolsInv, ToolsStep, SessionStep
<1>2. CASE BeginDiagnostic
  <2>1. /\ program = "four_camera_capture" /\ program' = "diagnostic"
        /\ stage' = "single" /\ settings' = Config!Default
        /\ UNCHANGED <<schedulerVars, cameraVars, at>>
    BY <1>2 DEF BeginDiagnostic
  <2>2. UNCHANGED schedulerVars /\ UNCHANGED <<device, lent, command, grabbing, at, spc>>
    BY <2>1 DEF schedulerVars, cameraVars
  <2>3. IInv'
    BY <2>2, ScheduleInductive DEF ToolsInv
  <2>4. SessionStep
    BY <2>1, <2>2, SessionKept DEF ToolsInv
  <2>5. Config!StageInv'
    BY <2>1, DefaultTyped DEF Config!StageInv, Config!Starting, Config!LateRefusals
  <2>6. QED
    BY <2>1, <2>3, <2>4, <2>5 DEF ToolsInv, ToolsStep, SessionStep
<1>3. CASE Diagnostic(Next)
  <2>1. /\ program = "diagnostic" /\ program' = program /\ Next /\ UNCHANGED configOnly
    BY <1>3 DEF Diagnostic
  <2>2. IInv'
    BY <2>1, SchedulerRefined, ScheduleInductive DEF ToolsInv
  <2>3. SessionStep
    BY <2>1, SessionInductive DEF ToolsInv
  <2>4. Config!StageInv'
    BY <2>1, ConfigInductive DEF ToolsInv, configOnly, Config!configurationVars
  <2>5. QED
    BY <2>1, <2>2, <2>3, <2>4 DEF ToolsInv, ToolsStep, SessionStep
<1>4. CASE App(Node!NodeNext)
  <2>1. /\ program = "camera_app" /\ program' = program /\ Node!NodeNext
        /\ UNCHANGED configOnly /\ UNCHANGED schedulerVars /\ UNCHANGED command
    BY <1>4 DEF App
  <2>2. IInv'
    BY <2>1, ScheduleInductive DEF ToolsInv
  <2>3. NodeSessionStep
    BY <2>1, NodeInductive DEF ToolsInv
  <2>4. [Sdk!Next]_(Sdk!sdkVars)
    BY <2>1, <2>3, NodeIsSdk DEF ToolsInv, NodeSessionStep
  <2>5. Config!StageInv'
    BY <2>1, ConfigInductive DEF ToolsInv, configOnly, Config!configurationVars
  <2>6. QED
    BY <2>1, <2>2, <2>3, <2>4, <2>5 DEF ToolsInv, ToolsStep, NodeSessionStep
<1>5. CASE UNCHANGED allVars
  <2>1. /\ UNCHANGED program /\ UNCHANGED <<vars, configOnly, nodeOnly>>
    BY <1>5 DEF allVars
  <2>2. UNCHANGED schedulerVars /\ UNCHANGED <<device, lent, command, grabbing, at, spc>>
    BY <2>1 DEF vars, schedulerVars, cameraVars, mainVars
  <2>3. IInv'
    BY <2>2, ScheduleInductive DEF ToolsInv
  <2>4. program # "camera_app" => SessionStep
    BY <2>1, <2>2, SessionKept DEF ToolsInv, Config!StageInv
  <2>5. Node!NodeInv => Node!NodeInv'
    BY <2>1, <2>2, NodeInductive DEF nodeOnly, Node!nodeVars, NodeSessionStep
  <2>6. Config!StageInv'
    BY <2>1, ConfigInductive DEF ToolsInv, configOnly, Config!configurationVars
  <2>7. QED
    BY <2>1, <2>2, <2>3, <2>4, <2>5, <2>6 DEF ToolsInv, ToolsStep, SessionStep, Sdk!sdkVars
<1>6. QED
  BY <1>1, <1>2, <1>3, <1>4, <1>5 DEF ToolsNext

LEMMA ToolsInvAlways == ToolsSpec => []ToolsInv
<1>1. ToolsInv /\ [ToolsNext]_allVars => ToolsInv'
  BY ToolsInductive DEF ToolsStep
<1>2. QED
  BY <1>1, ToolsBegin, PTL DEF ToolsSpec

\* Whichever of the programs runs and whatever fails in it, the camera is used
\* as the SDK asks (HikCamera and HikCameraNode).
THEOREM ToolsObeySdk == ToolsSpec => ObeysSdk
<1>1. ToolsInv /\ [ToolsNext]_allVars => [Sdk!Next]_(Sdk!sdkVars)
  BY ToolsInductive DEF ToolsStep
<1>2. QED
  BY <1>1, ToolsBegin, ToolsInvAlways, PTL DEF ToolsSpec, ObeysSdk, Sdk!Spec

\* Of all combinations of settings, those the four-camera program runs with fit
\* together, with the overrides of run applied after LoadConfig's comparisons.
THEOREM SettingsAgree == ToolsSpec => []PartsAgree
<1>1. ToolsInv => PartsAgree
  <2> SUFFICES ASSUME ToolsInv, stage = "running"
               PROVE  PartsAgree
    BY DEF PartsAgree, Config!PartsAgree
  <2> DEFINE s == settings
  <2>1. /\ s \in Config!Settings /\ Config!Agreed(s) /\ Config!Positive(s.outputRate)
        /\ outputs = IF s.encoderEnabled THEN s.encoderCameras ELSE 0
        /\ s.triggerMode = "SOFTWARE_TRIGGER" => Config!Positive(s.softwareFrequency)
    BY DEF ToolsInv, Config!StageInv, Config!Starting
  <2>2. /\ s.captureRate \in Config!Rates /\ s.softwareFrequency \in Config!Rates
        /\ s.outputRate \in Config!Rates /\ s.encoderFps \in Nat
    BY <2>1, SettingsTyped
  <2>3. /\ Config!AsFloat(s.captureRate) \in Int
        /\ s.outputRate \in Nat /\ s.outputRate > 0 /\ s.outputRate # Config!NaN
    BY <2>1, <2>2, RateTyped DEF Config!Positive, Config!Finite, Config!Rates
  <2>4. s.outputRate <= Config!AsFloat(s.captureRate)
    BY <2>1, <2>3 DEF Config!Agreed, Config!OutputRateAccepted, Config!Exceeds
  <2>5. s.outputRate - s.encoderFps * Config!Fps \in 0..(Config!Fps - 1)
    <3>1. s.encoderFps = s.outputRate \div 8
      BY <2>1, <2>3 DEF Config!Agreed, Config!Truncated, Config!Fps
    <3>2. QED
      BY <2>3, <3>1 DEF Config!Fps
  <2>6. s.triggerMode = "SOFTWARE_TRIGGER" => s.softwareFrequency = Config!AsFloat(s.captureRate)
    BY <2>1 DEF Config!Agreed, Config!TriggerAccepted, Config!Positive
  <2>7. QED
    BY <2>1, <2>3, <2>4, <2>5, <2>6 DEF PartsAgree, Config!PartsAgree, Config!Agreed
<1>2. QED
  BY <1>1, ToolsInvAlways, PTL

\* Once the cameras grab, run refuses a combination of settings only for rates
\* that are not numbers or too small to have a period (SoftwareTriggerScheduler,
\* FrameRateSelector).
THEOREM RefusedEarly == ToolsSpec => []LateRefusals
<1>1. ToolsInv => LateRefusals
  BY DEF ToolsInv, Config!StageInv, LateRefusals
<1>2. QED
  BY <1>1, ToolsInvAlways, PTL

\* No bursts and no drift of the scheduler, for whatever settings the diagnostic
\* was started.
THEOREM ToolsSchedule == ToolsSpec => [](NoBursts /\ NoDrift)
<1>1. ToolsInv => NoBursts /\ NoDrift
  BY DEF ToolsInv, IInv
<1>2. QED
  BY <1>1, ToolsInvAlways, PTL

=============================================================================
