------------------------------- MODULE Streamer -------------------------------
(***************************************************************************)
(* The last stage: FileStreamer, GstAppSrcStreamer (RTP and SRT) and       *)
(* MetadataSender.  Each is a LatestQueue whose worker writes what it      *)
(* takes, may fail at that, and counts.  kind is the one that is built.    *)
(***************************************************************************)
EXTENDS LatestQueue

CONSTANT MaxReports     \* bound: errors reported on the bus of a pipeline

ASSUME MaxReportsAssumption == MaxReports \in Nat

VARIABLES
    kind,       \* "file", "pipeline" or "metadata"
    sent,       \* sent_
    errors,     \* errors_
    failed,     \* the state of the ofstream output_
    phase,      \* "bus" while the worker is in checkBus, "frame" otherwise
    refused,    \* history: submits that push did not accept
    reported    \* history: errors counted in checkBus

counterVars == <<sent, errors, failed, phase, reported>>
streamerVars == <<vars, kind, counterVars, refused>>

StreamerInit ==
    /\ Init
    /\ kind \in {"file", "pipeline", "metadata"}
    /\ sent = 0 /\ errors = 0 /\ failed = FALSE /\ phase = "frame"
    /\ refused = 0 /\ reported = 0

Succeeds ==
    /\ sent' = sent + 1
    /\ UNCHANGED errors

Fails ==
    /\ errors' = errors + 1
    /\ UNCHANGED sent

(* send counts what it submits before it knows whether push accepts it. *)
Send ==
    /\ \/ SubmitCheck /\ UNCHANGED refused
       \/ PushRejected /\ refused' = refused + 1
       \/ (Push \/ PushDisplacing \/ CountDrop) /\ UNCHANGED refused
    /\ UNCHANGED <<kind, counterVars>>

WaitFrame ==
    /\ WaitPop \/ WaitPopEnds \/ WaitPopSleeps \/ SpuriousWakeup
    /\ UNCHANGED <<kind, counterVars, refused>>

(* A frame without data, of any streamer. *)
NoData ==
    /\ kind # "metadata" /\ phase = "frame"
    /\ WorkDone
    /\ Fails
    /\ UNCHANGED <<kind, failed, phase, refused, reported>>

WriteFile_CountsBoth ==
    /\ kind = "file"
    /\ WorkDone
    /\ failed' \in {failed, TRUE}
    /\ sent' = sent + 1
    /\ errors' = IF failed' THEN errors + 1 ELSE errors
    /\ UNCHANGED <<kind, phase, refused, reported>>

(* Once a write has failed the ofstream stays failed. *)
WriteFile ==
    /\ kind = "file"
    /\ WorkDone
    /\ failed' \in {failed, TRUE}
    /\ IF failed' THEN Fails ELSE Succeeds
    /\ UNCHANGED <<kind, phase, refused, reported>>

(* No buffer for the frame: the next frame, without a look at the bus. *)
NoBuffer ==
    /\ kind = "pipeline" /\ phase = "frame"
    /\ WorkDone
    /\ Fails
    /\ UNCHANGED <<kind, failed, phase, refused, reported>>

(* gst_app_src_push_buffer, with either result, then checkBus. *)
PushBuffer ==
    /\ kind = "pipeline" /\ wpc = "work" /\ phase = "frame"
    /\ Succeeds \/ Fails
    /\ phase' = "bus"
    /\ UNCHANGED <<vars, kind, failed, refused, reported>>

(* An error on the bus is counted as well, whether or not the frame it is  *)
(* about has been.                                                         *)
BusError ==
    /\ phase = "bus" /\ reported < MaxReports
    /\ Fails
    /\ reported' = reported + 1
    /\ UNCHANGED <<vars, kind, failed, phase, refused>>

BusEmpty ==
    /\ phase = "bus"
    /\ WorkDone
    /\ phase' = "frame"
    /\ UNCHANGED <<kind, sent, errors, failed, refused, reported>>

SendTo ==
    /\ kind = "metadata"
    /\ WorkDone
    /\ Succeeds \/ Fails
    /\ UNCHANGED <<kind, failed, phase, refused, reported>>

StopStreamer ==
    /\ StopBegins \/ Stop
    /\ UNCHANGED <<kind, counterVars, refused>>

Write == NoData \/ WriteFile \/ NoBuffer \/ PushBuffer \/ BusError \/ BusEmpty \/ SendTo

StreamerNext == Send \/ WaitFrame \/ Write \/ StopStreamer

StreamerSpec == StreamerInit /\ [][StreamerNext]_streamerVars

(* As in LatestQueue; every write returns. *)
StreamerFairSpec ==
    /\ StreamerSpec
    /\ WF_streamerVars(~(ppc = "idle") /\ Send)
    /\ WF_streamerVars((WaitPop \/ WaitPopEnds \/ WaitPopSleeps) /\ WaitFrame)
    /\ WF_streamerVars(Write)
    /\ WF_streamerVars(Stop /\ StopStreamer)

-----------------------------------------------------------------------------
(* The stamp by which a receiver of the metadata finds the pictures of a   *)
(* group: its time in units of the RTP clock, in 32 bits.  The program     *)
(* counts whole seconds and the rest apart, so that no product leaves 64   *)
(* bits.                                                                   *)
InUnits(t, clock, unit) == (t \div unit) * clock + ((t % unit) * clock) \div unit

RtpTimestamp(ns) == IF ns <= 0 THEN 0 ELSE InUnits(ns, 90000, 1000000000) % (2 ^ 32)

-----------------------------------------------------------------------------
(* What the statistics are taken from adds up at every moment: a frame     *)
(* submitted was refused, dropped, sent or counted as an error once, or is *)
(* on its way; what a pipeline reports on its bus comes on top.            *)
StatisticsAdd ==
    submits + reported =
        refused + drops + sent + errors + Len(queue)
        + (IF ppc = "idle" THEN 0 ELSE 1)
        + (IF wpc = "work" /\ phase = "frame" THEN 1 ELSE 0)

(* The inductive invariant behind it: only a pipeline has a bus to check,  *)
(* and only with a frame in hand.                                          *)
CountersInv ==
    /\ sent \in Nat /\ errors \in Nat /\ refused \in Nat /\ reported \in Nat
    /\ phase \in {"frame", "bus"}
    /\ phase = "bus" => wpc = "work" /\ kind = "pipeline"
    /\ StatisticsAdd

=============================================================================
