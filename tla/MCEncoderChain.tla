---------------------------- MODULE MCEncoderChain ----------------------------
(***************************************************************************)
(* Small instances of EncoderChain.                                        *)
(***************************************************************************)
EXTENDS EncoderChain

CONSTANTS FrontCam, RearCam

OneStream == <<FrontCam>>
TwoStreams == <<FrontCam, RearCam>>
FrontOnly == {FrontCam}
=============================================================================
