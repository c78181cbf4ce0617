------------------------------ MODULE DetectTool ----------------------------
(***************************************************************************)
(* The live detection tool (tools/live_person_detect_test/main.c): it      *)
(* starts the image signal processor, the camera and the person detector   *)
(* in this order, shows the detector an even share of the camera's frames, *)
(* and takes everything down in the opposite order whichever step failed.  *)
(*                                                                         *)
(* V4l2Capture and IspControl are the components it drives.  The detector  *)
(* is what PersonDetector promises: it copies a submitted frame or skips   *)
(* it, and its calls return.  A signal, a fatal report of RKAIQ and the    *)
(* camera come in between any two steps.                                   *)
(***************************************************************************)
EXTENDS Integers, V4l2Capture, IspControl

CONSTANTS
    Numerators,     \* what the driver may report as its frame interval,
    Denominators,   \* in fractions of a second; 0 when it does not report it
    WantedFps,      \* --detect-fps
    WarmupFrames,   \* --warmup-frames
    SeqModulus      \* V4L2 sequence numbers are uint32_t: 2^32

ASSUME ToolAssumption ==
    /\ Numerators \subseteq Nat /\ Denominators \subseteq Nat
    /\ WantedFps \in 1 .. 30 /\ WarmupFrames \in Nat /\ SeqModulus \in Nat \ {0}

VARIABLES
    pc,           \* where main is
    stop,         \* g_stop
    warmed,       \* i, the warm-up frames taken so far
    cameraFps, detectFps, accumulator,
    captured, gaps, previous,
    detector,     \* "none", "live" or "gone"
    exitCode,     \* exit_code, "failure" or "success"
    sampled,      \* history: frames submitted to the detector
    last,         \* history: camera's number of the last counted frame
    missed,       \* history: frames missed between the counted ones
    late          \* history: frames counted after the end was asked for

observed     == <<last, missed, late>>
toolCounters == <<captured, gaps, previous, sampled, observed>>
toolRates    == <<cameraFps, detectFps>>
toolVars     == <<stop, warmed, toolRates, accumulator, toolCounters, detector, exitCode>>
vars         == <<pc, toolVars, captureVars, ispVars>>

Goto(from, to) == pc = from /\ pc' = to

(* rounded_camera_fps: the nearest integer, 30 when that makes no sense.   *)
Rounded(numerator, denominator) ==
    LET rounded == (denominator + numerator \div 2) \div numerator
    IN  IF numerator = 0 \/ denominator = 0 \/ rounded \notin 1 .. 60
        THEN 30 ELSE rounded

Init ==
    /\ pc = "ispCreate" /\ stop = FALSE /\ warmed = 0
    /\ cameraFps = 0 /\ detectFps = 0 /\ accumulator = 0
    /\ captured = 0 /\ gaps = 0 /\ previous = 0 /\ sampled = 0
    /\ last = 0 /\ missed = 0 /\ late = 0
    /\ detector = "none" /\ exitCode = "failure"
    /\ CaptureInit /\ IspInit

(* What an observer notes of a frame that is counted.                      *)
Observe ==
    /\ last' = frame.seq
    /\ missed' = IF captured = 0 THEN missed ELSE missed + (frame.seq - last - 1)
    /\ late' = IF stop \/ ShouldQuit THEN late + 1 ELSE late

-----------------------------------------------------------------------------
(* Mutants: what the named definition below would be with a plausible bug. *)
(* No action of the specification uses them.                               *)

(* CleanCapture: the close waits for a frame that never came back.         *)
CleanCaptureWaits ==
    /\ Goto("cleanCapture", "cleanIsp") /\ frame = NoFrame
    /\ IF stage = "ready" THEN CaptureClose ELSE UNCHANGED captureVars
    /\ UNCHANGED <<toolVars, ispVars>>

(* CleanCapture: the processor goes before the camera that feeds it.       *)
CleanIspFirst ==
    /\ Goto("cleanCapture", "cleanIsp")
    /\ IF isp # "none" THEN IspDestroy ELSE UNCHANGED ispVars
    /\ UNCHANGED <<toolVars, captureVars>>

(* Sample: the remainder is thrown away with the sample.                   *)
SampleDropsRest ==
    /\ pc = "sample"
    /\ IF accumulator + detectFps >= cameraFps
       THEN /\ accumulator' = 0 /\ sampled' = sampled + 1
            /\ pc' \in {"release", "cleanFrame"}
       ELSE /\ accumulator' = accumulator + detectFps /\ UNCHANGED sampled
            /\ pc' = "release"
    /\ UNCHANGED <<stop, warmed, toolRates, captured, gaps, previous, observed,
                   detector, exitCode, captureVars, ispVars>>

(* Count: a gap is counted with the frame that ends it.                    *)
CountOneMore ==
    LET sequence == frame.seq % SeqModulus
    IN  /\ pc = "count"
        /\ captured' = captured + 1
        /\ gaps' = IF captured > 0 /\ sequence > (previous + 1) % SeqModulus
                   THEN gaps + ((sequence - previous) % SeqModulus) ELSE gaps
        /\ previous' = sequence
        /\ Observe
        /\ pc' \in {"sample", "cleanFrame"}
        /\ UNCHANGED <<stop, warmed, toolRates, accumulator, sampled, detector,
                       exitCode, captureVars, ispVars>>

(* Loop: the loop goes on until a frame fails.                             *)
LoopOnFlagOnly ==
    /\ pc = "loop"
    /\ pc' = IF stop THEN "after" ELSE "acquire"
    /\ UNCHANGED <<toolVars, captureVars, ispVars>>

-----------------------------------------------------------------------------
(* Start-up, up to the first frame.                                        *)

Only(from, to) == Goto(from, to) /\ UNCHANGED <<toolVars, captureVars, ispVars>>
ToolAlone(from, to) == Goto(from, to) /\ UNCHANGED <<captureVars, ispVars>>

CreateIsp ==
    /\ \/ Goto("ispCreate", "ispStart") /\ IspCreate
       \/ Goto("ispCreate", "cleanFrame") /\ IspCreateFails
    /\ UNCHANGED <<toolVars, captureVars>>

StartIsp ==
    /\ \/ Goto("ispStart", "capture") /\ IspStart
       \/ Goto("ispStart", "cleanFrame") /\ IspStartFails
    /\ UNCHANGED <<toolVars, captureVars>>

(* v4l2_capture_init, and what the tool itself requires of the format.     *)
InitCapture ==
    /\ pc = "capture" /\ InitStep
    /\ UNCHANGED <<pc, toolVars, ispVars>>

CheckCapture ==
    \/ stage = "ready"  /\ (Only("capture", "warmup") \/ Only("capture", "cleanFrame"))
    \/ stage = "failed" /\ Only("capture", "cleanFrame")

(* The warm-up looks at the stop flag, not at the processor's.             *)
Warmup ==
    Only("warmup", IF warmed < WarmupFrames /\ ~stop THEN "warmAcquire" ELSE "warmed")

WarmAcquire ==
    /\ \/ Goto("warmAcquire", "warmRelease") /\ AcquireFrame
       \/ Goto("warmAcquire", "cleanFrame") /\ AcquireFails
    /\ UNCHANGED <<toolVars, ispVars>>

WarmRelease ==
    /\ \/ Goto("warmRelease", "warmup") /\ ReleaseFrame /\ warmed' = warmed + 1
       \/ Goto("warmRelease", "cleanFrame") /\ ReleaseFails /\ UNCHANGED warmed
    /\ UNCHANGED <<stop, toolRates, accumulator, toolCounters, detector, exitCode, ispVars>>

(* A signal during the warm-up is a normal end.                            *)
WarmedUp ==
    /\ ToolAlone("warmed", IF stop THEN "cleanFrame" ELSE "detector")
    /\ exitCode' = IF stop THEN "success" ELSE exitCode
    /\ UNCHANGED <<stop, warmed, toolRates, accumulator, toolCounters, detector>>

CreateDetector ==
    /\ \/ ToolAlone("detector", "rate") /\ detector' = "live"
       \/ ToolAlone("detector", "cleanFrame") /\ UNCHANGED detector
    /\ UNCHANGED <<stop, warmed, toolRates, accumulator, toolCounters, exitCode>>

(* The sampling rate; then the clock is read, which may fail.              *)
SetRate ==
    /\ ToolAlone("rate", "loop") \/ ToolAlone("rate", "cleanFrame")
    /\ \E numerator \in Numerators, denominator \in Denominators :
            cameraFps' = Rounded(numerator, denominator)
    /\ detectFps' = IF WantedFps > cameraFps' THEN cameraFps' ELSE WantedFps
    /\ accumulator' = cameraFps' - detectFps'
    /\ UNCHANGED <<stop, warmed, toolCounters, detector, exitCode>>

Start == \/ CreateIsp \/ StartIsp \/ InitCapture \/ CheckCapture \/ Warmup
         \/ WarmAcquire \/ WarmRelease \/ WarmedUp \/ CreateDetector \/ SetRate

-----------------------------------------------------------------------------
(* The capture loop.                                                       *)

Loop == Only("loop", IF stop \/ ShouldQuit THEN "after" ELSE "acquire")

(* --duration is over; or the clock fails.                                 *)
TimeUp == Only("acquire", "after") \/ Only("acquire", "cleanFrame")

(* poll and the ioctls are retried after a signal, so a failed acquire     *)
(* never reports EINTR and the tool gives up.                              *)
Acquire ==
    /\ \/ Goto("acquire", "count") /\ AcquireFrame
       \/ Goto("acquire", "cleanFrame") /\ AcquireFails
    /\ UNCHANGED <<toolVars, ispVars>>

(* The gap before the frame; a short frame ends the tool.                  *)
Count ==
    LET sequence == frame.seq % SeqModulus
    IN  /\ pc = "count"
        /\ captured' = captured + 1
        /\ gaps' = IF captured > 0 /\ sequence > (previous + 1) % SeqModulus
                   THEN gaps + ((sequence - previous - 1) % SeqModulus) ELSE gaps
        /\ previous' = sequence
        /\ Observe
        /\ pc' \in {"sample", "cleanFrame"}
        /\ UNCHANGED <<stop, warmed, toolRates, accumulator, sampled, detector,
                       exitCode, captureVars, ispVars>>

(* One sample in every cameraFps / detectFps frames, the way a line is     *)
(* drawn.  A busy detector skips it; one that fails ends the tool.         *)
Sample ==
    /\ pc = "sample"
    /\ IF accumulator + detectFps >= cameraFps
       THEN /\ accumulator' = accumulator + detectFps - cameraFps
            /\ sampled' = sampled + 1
            /\ pc' \in {"release", "cleanFrame"}
       ELSE /\ accumulator' = accumulator + detectFps /\ UNCHANGED sampled
            /\ pc' = "release"
    /\ UNCHANGED <<stop, warmed, toolRates, captured, gaps, previous, observed,
                   detector, exitCode, captureVars, ispVars>>

Release ==
    /\ \/ Goto("release", "loop") /\ ReleaseFrame
       \/ Goto("release", "cleanFrame") /\ ReleaseFails
    /\ UNCHANGED <<toolVars, ispVars>>

(* A report of the processor is a failure even when a signal came as well. *)
After ==
    /\ ToolAlone("after", "cleanFrame")
    /\ exitCode' = IF ShouldQuit THEN exitCode ELSE "success"
    /\ UNCHANGED <<stop, warmed, toolRates, accumulator, toolCounters, detector>>

Capture == Loop \/ TimeUp \/ Acquire \/ Count \/ Sample \/ Release \/ After

-----------------------------------------------------------------------------
(* cleanup:, the common end.                                               *)

(* A frame that is still held is given back; nobody asks whether it was.   *)
CleanFrame ==
    /\ Goto("cleanFrame", "cleanDetector")
    /\ \/ ReleaseFrame \/ ReleaseFails
       \/ frame = NoFrame /\ UNCHANGED captureVars
    /\ UNCHANGED <<toolVars, ispVars>>

(* live_person_detector_wait_idle and live_person_detector_destroy.        *)
CleanDetector ==
    /\ ToolAlone("cleanDetector", "cleanCapture")
    /\ detector' = IF detector = "live" THEN "gone" ELSE detector
    /\ UNCHANGED <<stop, warmed, toolRates, accumulator, toolCounters, exitCode>>

CleanCapture ==
    /\ Goto("cleanCapture", "cleanIsp")
    /\ IF stage = "ready" THEN CaptureClose ELSE UNCHANGED captureVars
    /\ UNCHANGED <<toolVars, ispVars>>

CleanIsp ==
    /\ Goto("cleanIsp", "done")
    /\ IF isp # "none" THEN IspDestroy ELSE UNCHANGED ispVars
    /\ UNCHANGED <<toolVars, captureVars>>

Clean == CleanFrame \/ CleanDetector \/ CleanCapture \/ CleanIsp

-----------------------------------------------------------------------------
Signal ==
    /\ stop' = TRUE
    /\ UNCHANGED <<pc, warmed, toolRates, accumulator, toolCounters, detector,
                   exitCode, captureVars, ispVars>>

Camera == Shoot /\ UNCHANGED <<pc, toolVars, ispVars>>
Aiq    == IspError /\ UNCHANGED <<pc, toolVars, captureVars>>

Tool == Start \/ Capture \/ Clean
Done == pc = "done" /\ UNCHANGED vars
Next == Tool \/ Signal \/ Camera \/ Aiq \/ Done

Spec == Init /\ [][Next]_vars

(* Every call returns: acquire has a timeout, the detector promises it.    *)
Fairness == WF_vars(Tool)
FairSpec == Spec /\ Fairness

-----------------------------------------------------------------------------
(* Type correctness.                                                       *)
TypeOK ==
    /\ CaptureTypeOK /\ IspTypeOK
    /\ pc \in {"ispCreate", "ispStart", "capture", "warmup", "warmAcquire",
               "warmRelease", "warmed", "detector", "rate", "loop", "acquire",
               "count", "sample", "release", "after", "cleanFrame",
               "cleanDetector", "cleanCapture", "cleanIsp", "done"}
    /\ stop \in BOOLEAN /\ warmed \in Nat
    /\ cameraFps \in 0 .. 60 /\ detectFps \in 0 .. 60 /\ accumulator \in 0 .. 60
    /\ captured \in Nat /\ gaps \in Nat /\ previous \in Nat /\ sampled \in Nat
    /\ last \in Nat /\ missed \in Nat /\ late \in Nat
    /\ detector \in {"none", "live", "gone"}
    /\ exitCode \in {"failure", "success"}

(* No buffer is with the driver twice; and whenever the tool looks at a    *)
(* frame, copies it for the detector or gives it back, nobody else writes  *)
(* the buffer it lies in (zero copy, v4l2_capture.c:391).                  *)
FrameReadable ==
    /\ BuffersOnce
    /\ pc \in {"warmRelease", "count", "sample", "release"} => Readable

(* An initialisation of the camera that fails leaves nothing behind; the   *)
(* camera streams only with its processor running, the detector lives only *)
(* with the camera; and in the end nothing is left of the three, whatever  *)
(* failed (main.c:586-626).                                                *)
TornDownInOrder ==
    /\ AllOrNothing
    /\ fd => isp = "started"
    /\ detector = "live" => stage = "ready"
    /\ pc = "done" => isp = "none" /\ ~fd /\ mapped = {} /\ detector # "live"

(* The samples are spread evenly: sample k + 1 is shown as soon as         *)
(* k * cameraFps / detectFps frames came after the first, and no sooner.   *)
SampledEvenly ==
    pc = "loop" =>
        /\ (captured - 1) * detectFps < sampled * cameraFps
        /\ (sampled - 1) * cameraFps <= (captured - 1) * detectFps

(* sequence_gaps is the number of frames missed; only a gap in which the   *)
(* 32 bit number wraps around goes unnoticed, and none is invented.        *)
GapsCounted ==
    /\ gaps <= missed
    /\ last < SeqModulus => gaps = missed

(* After a signal or a report of RKAIQ at most one more frame is counted.  *)
EndsPromptly == late <= 1

(* A signal or a report of RKAIQ ends the tool, cleanup included.          *)
ToolEnds == stop \/ ShouldQuit ~> pc = "done"
=============================================================================
