----------------------------- MODULE MvsSession -----------------------------
(***************************************************************************)
(* What the camera SDK asks of a program that uses one camera, as far as   *)
(* src/ relies on it: a handle is created, the device opened, grabbing     *)
(* started; buffers are lent by MV_CC_GetImageBuffer and each is given     *)
(* back once by MV_CC_FreeImageBuffer, before grabbing is stopped; and the *)
(* steps are undone in the opposite order, while no command to the camera  *)
(* is on its way.  A call the SDK refuses changes nothing here.            *)
(***************************************************************************)
EXTENDS Naturals

VARIABLES
    device,     \* how far the session has come
    lent,       \* buffers lent to the program and not yet given back
    command     \* a software trigger command is under way

sdkVars == <<device, lent, command>>

Init == device = "none" /\ lent = 0 /\ command = FALSE

Idle == lent = 0 /\ ~command

CreateHandle == device = "none" /\ device' = "created" /\ UNCHANGED <<lent, command>>

OpenDevice == device = "created" /\ device' = "open" /\ UNCHANGED <<lent, command>>

StartGrabbing == device = "open" /\ device' = "grabbing" /\ UNCHANGED <<lent, command>>

LendBuffer == device = "grabbing" /\ lent' = lent + 1 /\ UNCHANGED <<device, command>>

FreeBuffer == device = "grabbing" /\ lent > 0 /\ lent' = lent - 1 /\ UNCHANGED <<device, command>>

CommandBegins == device = "grabbing" /\ ~command /\ command' = TRUE /\ UNCHANGED <<device, lent>>

CommandReturns == command /\ command' = FALSE /\ UNCHANGED <<device, lent>>

StopGrabbing == device = "grabbing" /\ Idle /\ device' = "open" /\ UNCHANGED <<lent, command>>

CloseDevice == device = "open" /\ Idle /\ device' = "created" /\ UNCHANGED <<lent, command>>

DestroyHandle == device = "created" /\ Idle /\ device' = "none" /\ UNCHANGED <<lent, command>>

Next ==
    \/ CreateHandle \/ OpenDevice \/ StartGrabbing
    \/ LendBuffer \/ FreeBuffer \/ CommandBegins \/ CommandReturns
    \/ StopGrabbing \/ CloseDevice \/ DestroyHandle

Spec == Init /\ [][Next]_sdkVars

=============================================================================
