--------------------------- MODULE MCGroupPipeline ---------------------------
(***************************************************************************)
(* Small instances of GroupPipeline.                                       *)
(***************************************************************************)
EXTENDS GroupPipeline

CONSTANTS FrontCam, RearCam

TwoCameras == <<FrontCam, RearCam>>
=============================================================================
