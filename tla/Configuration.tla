---------------------------- MODULE Configuration ----------------------------
(***************************************************************************)
(* What the four-camera program accepts: the checks of ParseCommandLine    *)
(* and LoadConfig, what run overrides afterwards, and what the parts ask   *)
(* for when run constructs and starts them one after the other.  Only the  *)
(* settings decide here; what hardware and network may refuse as well is   *)
(* in AppLifecycle and SingleCamera.                                       *)
(*                                                                         *)
(* Rates are in eighths of a frame per second, as the file gives them; the *)
(* capture rate becomes a float, which does not have the odd ones.  NaN    *)
(* and Inf are YAML's .nan and .inf.  1 and 2 stand for the rates up to    *)
(* Tiny: they have more nanoseconds in a period than 64 bits hold (some    *)
(* three hundred years), and 1 for those that a float rounds to 0.         *)
(***************************************************************************)
EXTENDS Integers

CONSTANT Initial    \* combinations of settings the program may be given

Fps == 8
NaN == -1
Tiny == 2
Inf == 1000000

(* A setting that is only compared with a range is inside or outside; at   *)
(* most one of them is outside.  LoadConfig looks at these:                *)
LoadedRanges == {
    "serials", "pixel_format", "auto_brightness_target", "white_balance_mode",
    "frames_per_camera", "grab_timeout_ms", "usb_transfer_size", "usb_transfer_ways",
    "sdk_image_nodes", "color_matrix", "isp.queue_depth", "encoder.queue_depth",
    "output.queue_depth", "mtu", "payload_type", "metadata_queue_depth", "image size"}

(* and the parts at these: *)
PartRanges == {
    "odd image size", "isp.white_balance", "gamma", "output_buffers_per_camera",
    "gop", "metadata_port", "server_ip"}

(* The settings of config/config.yaml and no options; 0 and "" are options *)
(* that are not given.  cudaBuilt is the build option ENABLE_CUDA_ISP.     *)
Default == [
    outside |-> "", captureRate |-> 60 * Fps, exposureAuto |-> FALSE,
    exposure |-> 10000, autoUpper |-> 15000,
    triggerMode |-> "SOFTWARE_TRIGGER", softwareFrequency |-> 60 * Fps, outputRate |-> 45 * Fps,
    ispEnabled |-> TRUE, ispBackend |-> "cuda_npp", cudaBuilt |-> TRUE, ispCameras |-> 4,
    encoderEnabled |-> TRUE, codec |-> "h265", encoderFps |-> 45, encoderCameras |-> 4,
    zeroBitrate |-> 5, outputMode |-> "srt", metadataEnabled |-> TRUE,
    mode |-> "CAPTURE", duration |-> 10, disableIsp |-> FALSE, disableEncoder |-> FALSE,
    optIspCameras |-> 0, optEncoderCameras |-> 0, optOutput |-> ""]

(* Other values, most of them on both sides of a check; zeroBitrate is the *)
(* first camera whose bitrate is 0.                                        *)
Others == [
    outside |-> LoadedRanges \cup PartRanges,
    captureRate |-> {0, 1, Tiny, 120 * Fps, 249 * Fps, 250 * Fps, 481, NaN, Inf},
    exposureAuto |-> {TRUE}, exposure |-> {0, 16666, 16667}, autoUpper |-> {0, 16667},
    triggerMode |-> {"FREE_RUN", "HARDWARE_TRIGGER", "other"},
    softwareFrequency |-> {0, Tiny, 120 * Fps, 481, NaN, Inf},
    outputRate |-> {0, 1, Tiny, 361, 367, 368, 60 * Fps, 481, NaN, Inf},
    ispEnabled |-> {FALSE}, ispBackend |-> {"opencv_cpu", "other"}, cudaBuilt |-> {FALSE},
    ispCameras |-> {0, 2, 5},
    encoderEnabled |-> {FALSE}, codec |-> {"av1", "other"}, encoderFps |-> {0, 46, 60},
    encoderCameras |-> {0, 2, 5}, zeroBitrate |-> {1, 4},
    outputMode |-> {"null", "rtp", "other"}, metadataEnabled |-> {FALSE},
    mode |-> {"VALIDATE_CONFIG", "OPEN_ALL_ONLY", "OPEN_SINGLE_ONLY"},
    duration |-> {-1, 0}, disableIsp |-> {TRUE}, disableEncoder |-> {TRUE},
    optIspCameras |-> {1, 4, 5}, optEncoderCameras |-> {2, 4, 5},
    optOutput |-> {"null", "rtp", "other"}]

(* The rates at which one picture comes in centuries, and no encoder. *)
Slow == [Default EXCEPT !.captureRate = Tiny, !.softwareFrequency = Tiny, !.outputRate = Tiny,
                        !.encoderFps = 0, !.disableEncoder = TRUE]

(* The settings that differ from s in one place. *)
Variants(s) == UNION {{[s EXCEPT ![f] = v] : v \in Others[f]} : f \in DOMAIN Others}

(* What the parsers of the file and of the options can return. *)
Rates == Nat \cup {NaN}
Settings == [
    outside : LoadedRanges \cup PartRanges \cup {""}, captureRate : Rates,
    exposureAuto : BOOLEAN, exposure : Int, autoUpper : Int,
    triggerMode : {"SOFTWARE_TRIGGER", "FREE_RUN", "HARDWARE_TRIGGER", "other"},
    softwareFrequency : Rates, outputRate : Rates,
    ispEnabled : BOOLEAN, ispBackend : {"cuda_npp", "opencv_cpu", "other"},
    cudaBuilt : BOOLEAN, ispCameras : Nat,
    encoderEnabled : BOOLEAN, codec : {"h264", "h265", "av1", "other"},
    encoderFps : Nat, encoderCameras : Nat, zeroBitrate : 1..5,
    outputMode : {"srt", "rtp", "null", "file", "other"}, metadataEnabled : BOOLEAN,
    mode : {"CAPTURE", "VALIDATE_CONFIG", "OPEN_ALL_ONLY", "OPEN_SINGLE_ONLY"},
    duration : Int, disableIsp : BOOLEAN, disableEncoder : BOOLEAN,
    optIspCameras : Int, optEncoderCameras : Int,
    optOutput : {"", "srt", "rtp", "null", "file", "other"}]

InitialTyped == Initial \subseteq Settings

VARIABLES
    settings,   \* AppConfig and CommandLine
    stage,      \* what main and run do next, or how they ended
    outputs     \* streamers constructed

configurationVars == <<settings, stage, outputs>>

-----------------------------------------------------------------------------
(* Doubles and floats: a comparison with NaN is false.                     *)
AsFloat(r) ==
    IF r \in {NaN, Inf} \/ r % 2 = 0 THEN r ELSE IF r % 4 = 1 THEN r - 1 ELSE r + 1

NotPositive(r) == r # NaN /\ r <= 0

Exceeds(r, limit) == r # NaN /\ r > limit

Finite(r) == r \notin {NaN, Inf}

Positive(r) == Finite(r) /\ r > 0

(* Whether a positive period comes of a rate, in int64_t nanoseconds.  What *)
(* a conversion that overflows gives is not defined: it is negative on     *)
(* x86-64 and the largest number there is on ARM64.                        *)
PeriodPositive(r) ==
    IF ~Positive(r) THEN {FALSE} ELSE IF r <= Tiny THEN BOOLEAN ELSE {TRUE}

(* uint32_t of a double; the conversion of NaN, which is undefined, gives  *)
(* 0 on ARM64 and on x86-64.                                               *)
Truncated(r) == IF r = NaN THEN 0 ELSE r \div Fps

CodecKnown(s) == s.codec # "other"

ModeKnown(mode) == mode # "other"

OptionsAccepted(s) ==
    /\ s.optIspCameras \in 0..4
    /\ s.optEncoderCameras \in 0..4
    /\ ModeKnown(s.optOutput)
    /\ s.duration >= 0

CaptureRateAccepted(s) ==
    Positive(AsFloat(s.captureRate)) /\ AsFloat(s.captureRate) <= 249 * Fps

(* Times in microseconds, against the period of the capture rate. *)
ExposureAccepted(s) ==
    LET Periods(t) == t * AsFloat(s.captureRate)
        second == Fps * 1000000
    IN IF s.exposureAuto
       THEN s.autoUpper > 0 /\ Periods(s.autoUpper) < second
       ELSE s.exposure > 0 /\ Periods(s.exposure) <= second

(* The tolerance is below the spacing of doubles here, but infinite for an *)
(* infinite frequency, which is as far from the capture rate.              *)
TriggerAccepted(s) ==
    /\ s.triggerMode # "other"
    /\ ~NotPositive(s.softwareFrequency)
    /\ \/ s.triggerMode # "SOFTWARE_TRIGGER"
       \/ ~Finite(s.softwareFrequency)
       \/ s.softwareFrequency = AsFloat(s.captureRate)

OutputRateAccepted_ZeroAllowed(s) == ~Exceeds(s.outputRate, AsFloat(s.captureRate))

OutputRateAccepted(s) ==
    /\ ~NotPositive(s.outputRate)
    /\ ~Exceeds(s.outputRate, AsFloat(s.captureRate))

IspAccepted(s) == s.ispBackend # "other" /\ s.ispCameras \in 1..4

EncoderAccepted(s) ==
    /\ CodecKnown(s)
    /\ s.encoderFps = Truncated(s.outputRate)
    /\ s.encoderCameras \in 1..4
    /\ s.encoderCameras <= s.ispCameras

Loads(s) ==
    /\ s.outside \notin LoadedRanges
    /\ CaptureRateAccepted(s) /\ ExposureAccepted(s)
    /\ TriggerAccepted(s)
    /\ OutputRateAccepted(s)
    /\ IspAccepted(s) /\ EncoderAccepted(s)
    /\ ModeKnown(s.outputMode)

-----------------------------------------------------------------------------
Init ==
    /\ settings \in Initial
    /\ stage = "options"
    /\ outputs = 0

Goes(from, ok, to) ==
    /\ stage = from
    /\ stage' = IF ok THEN to ELSE "refused"

ParseCommandLine ==
    /\ Goes("options", OptionsAccepted(settings), "load")
    /\ UNCHANGED <<settings, outputs>>

LoadConfig ==
    /\ Goes("load", Loads(settings), "dispatch")
    /\ UNCHANGED <<settings, outputs>>

(* --validate-config and --single end here, the latter in SingleCamera. *)
Dispatch ==
    /\ Goes("dispatch", TRUE,
            CASE settings.mode = "VALIDATE_CONFIG" -> "valid"
              [] settings.mode = "OPEN_SINGLE_ONLY" -> "single"
              [] OTHER -> "override")
    /\ UNCHANGED <<settings, outputs>>

Override_EncodersOnly(s) ==
    [s EXCEPT
        !.ispEnabled = @ /\ ~s.disableIsp,
        !.encoderEnabled = @ /\ ~s.disableEncoder,
        !.ispCameras = IF s.optIspCameras # 0 THEN s.optIspCameras ELSE @,
        !.encoderCameras = IF s.optEncoderCameras # 0 THEN s.optEncoderCameras ELSE @,
        !.outputMode = IF s.optOutput # "" THEN s.optOutput ELSE @]

(* What the options change in the configuration: a number of encoders is   *)
(* also one of ISP cameras, and wins.                                      *)
Override(s) ==
    [s EXCEPT
        !.ispEnabled = @ /\ ~s.disableIsp,
        !.encoderEnabled = @ /\ ~s.disableEncoder,
        !.ispCameras = IF s.optEncoderCameras # 0 THEN s.optEncoderCameras
                       ELSE IF s.optIspCameras # 0 THEN s.optIspCameras ELSE @,
        !.encoderCameras = IF s.optEncoderCameras # 0 THEN s.optEncoderCameras ELSE @,
        !.outputMode = IF s.optOutput # "" THEN s.optOutput ELSE @]

Overrides ==
    /\ settings' = Override(settings)
    /\ Goes("override", settings'.encoderEnabled => settings'.ispEnabled, "outputs")
    /\ UNCHANGED outputs

(* The constructor and start of MultiStreamOutput. *)
ConstructOutputs ==
    LET accepted == ~(settings.outputMode = "rtp" /\ settings.codec = "av1")
    IN /\ Goes("outputs", settings.encoderEnabled => accepted, "encoders")
       /\ outputs' = IF settings.encoderEnabled THEN settings.encoderCameras ELSE 0
       /\ UNCHANGED settings

(* GStreamerEncoder, one per active camera. *)
ConstructEncoders ==
    /\ Goes("encoders",
            settings.encoderEnabled =>
                /\ settings.encoderFps > 0 /\ settings.outside # "gop"
                /\ settings.zeroBitrate > settings.encoderCameras,
            "metadata")
    /\ UNCHANGED <<settings, outputs>>

HasMetadata(s) == s.encoderEnabled /\ s.outputMode \in {"rtp", "srt"} /\ s.metadataEnabled

ConstructMetadata ==
    /\ Goes("metadata",
            HasMetadata(settings) => settings.outside \notin {"metadata_port", "server_ip"}, "isp")
    /\ UNCHANGED <<settings, outputs>>

(* IspProcessor and, for each camera, its CUDA backend. *)
ConstructIsp ==
    /\ Goes("isp",
            settings.ispEnabled =>
                /\ settings.outside \notin
                       {"odd image size", "isp.white_balance", "gamma", "output_buffers_per_camera"}
                /\ settings.ispBackend = "cuda_npp" => settings.cudaBuilt,
            "cameras")
    /\ UNCHANGED <<settings, outputs>>

OpenCameras ==
    /\ Goes("cameras", TRUE, IF settings.mode = "OPEN_ALL_ONLY" THEN "valid" ELSE "scheduler")
    /\ UNCHANGED <<settings, outputs>>

(* What is refused from here on is refused with the cameras grabbing. *)
LateGoes(from, ok, to) ==
    /\ stage = from
    /\ stage' = IF ok THEN to ELSE "refused late"

StartScheduler ==
    /\ \E positive \in PeriodPositive(settings.softwareFrequency) :
          LateGoes("scheduler", settings.triggerMode = "SOFTWARE_TRIGGER" => positive, "selector")
    /\ UNCHANGED <<settings, outputs>>

ConstructSelector ==
    /\ \E positive \in PeriodPositive(settings.outputRate) :
          LateGoes("selector", positive, "running")
    /\ UNCHANGED <<settings, outputs>>

Next ==
    \/ ParseCommandLine \/ LoadConfig \/ Dispatch \/ Overrides
    \/ ConstructOutputs \/ ConstructEncoders \/ ConstructMetadata \/ ConstructIsp
    \/ OpenCameras \/ StartScheduler \/ ConstructSelector

-----------------------------------------------------------------------------
(* In the running program the parts fit together, although the options are *)
(* applied after LoadConfig has compared the settings: whoever is encoded  *)
(* is processed and sent, unless only --isp-cameras was given; an encoder  *)
(* counts on less than one frame per second fewer than come; and the       *)
(* selector has a rate the cameras and the scheduler keep up with.         *)
PartsAgree ==
    stage = "running" =>
        /\ settings.encoderEnabled =>
               /\ settings.ispEnabled
               /\ outputs = settings.encoderCameras
               /\ settings.encoderCameras <= settings.ispCameras
                  \/ (settings.optIspCameras # 0 /\ settings.optEncoderCameras = 0)
               /\ settings.outputRate - settings.encoderFps * Fps \in 0..(Fps - 1)
        /\ settings.outputRate \in 1..AsFloat(settings.captureRate)
        /\ settings.triggerMode = "SOFTWARE_TRIGGER" =>
              settings.outputRate <= settings.softwareFrequency

(* Once the cameras grab, run refuses only rates that are not numbers or   *)
(* whose period overflows (SoftwareTriggerScheduler, FrameRateSelector):   *)
(* every other mistake is found before a camera is opened.                 *)
LateRefusals ==
    stage = "refused late" =>
        {settings.softwareFrequency, settings.outputRate} \cap ({NaN, Inf} \cup 1..Tiny) # {}

-----------------------------------------------------------------------------
(* What the proofs add: what is known of the settings at each stage.       *)
Agreed(s) ==
    /\ s.encoderEnabled => s.ispEnabled
    /\ \/ s.encoderCameras <= s.ispCameras
       \/ s.optIspCameras # 0 /\ s.optEncoderCameras = 0
    /\ CaptureRateAccepted(s) /\ TriggerAccepted(s) /\ OutputRateAccepted(s)
    /\ s.encoderFps = Truncated(s.outputRate)

Starting ==
    {"encoders", "metadata", "isp", "cameras", "scheduler", "selector", "running", "refused late"}

StageInv ==
    /\ settings \in Settings
    /\ stage = "load" => OptionsAccepted(settings)
    /\ stage \in {"dispatch", "override"} => OptionsAccepted(settings) /\ Loads(settings)
    /\ stage \in {"outputs"} \cup Starting => Agreed(settings)
    /\ stage \in Starting =>
          outputs = IF settings.encoderEnabled THEN settings.encoderCameras ELSE 0
    /\ stage \in {"selector", "running"} /\ settings.triggerMode = "SOFTWARE_TRIGGER" =>
          Positive(settings.softwareFrequency)
    /\ stage = "running" => Positive(settings.outputRate)
    /\ LateRefusals

=============================================================================
