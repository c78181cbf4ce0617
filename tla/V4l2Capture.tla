----------------------------- MODULE V4l2Capture ----------------------------
(***************************************************************************)
(* The camera device (capture/v4l2_capture.c): its initialisation, which   *)
(* undoes everything when any of its steps fails, the frames it lends to   *)
(* the program one at a time, and its close.                               *)
(*                                                                         *)
(* A frame is lent without a copy: the program reads the mapped buffer     *)
(* until it gives it back.  The driver (external) fills the buffers it was *)
(* given, numbers every frame the camera takes and drops a frame for which *)
(* it has no buffer.  Bound: MaxShots.                                     *)
(***************************************************************************)
EXTENDS Naturals, Sequences, FiniteSets

CONSTANTS
    MaxBuffers,   \* V4L2_CAPTURE_MAX_BUFFERS
    MaxShots      \* bound: frames the camera takes

ASSUME CaptureAssumption ==
    MaxBuffers \in Nat /\ MaxBuffers >= 2 /\ MaxShots \in Nat \ {0}

VARIABLES
    stage,        \* where v4l2_capture_init is, or how the device was left
    fd,           \* the device is open
    streaming,    \* cap->streaming
    count,        \* cap->buffer_count
    mapped,       \* buffers whose addr is not NULL
    queued,       \* driver: empty buffers
    filled,       \* driver: frames that wait to be dequeued, in order
    frame,        \* the V4L2Frame the program holds, NoFrame when not valid
    shot          \* driver: frames taken so far

buffers     == <<mapped, queued>>
captureVars == <<stage, fd, streaming, count, mapped, queued, filled, frame, shot>>

NoFrame  == [buf |-> 0, seq |-> 0]
Frames   == [buf : 1 .. MaxBuffers, seq : 1 .. MaxShots]
FilledBuffers == {filled[i].buf : i \in DOMAIN filled}

CaptureInit ==
    /\ stage = "none" /\ fd = FALSE /\ streaming = FALSE
    /\ count = 0 /\ mapped = {} /\ queued = {} /\ filled = <<>>
    /\ frame = NoFrame /\ shot = 0

-----------------------------------------------------------------------------
(* v4l2_capture_init.  A step that fails goes to FAIL, but for the open.   *)
Stage(from, to) == stage = from /\ stage' = to

OpenDevice ==
    /\ \/ Stage("none", "format") /\ fd' = TRUE
       \/ Stage("none", "failed") /\ fd' = FALSE
    /\ UNCHANGED <<streaming, count, buffers, filled, frame, shot>>

(* QUERYCAP, S_FMT and what the driver must accept of it; S_PARM may fail. *)
SetFormat ==
    /\ Stage("format", "request") \/ Stage("format", "undo")
    /\ UNCHANGED <<fd, streaming, count, buffers, filled, frame, shot>>

(* The driver may grant fewer buffers than asked for, but not one.         *)
RequestBuffers ==
    /\ \/ Stage("request", "map") /\ count' \in 2 .. MaxBuffers
       \/ Stage("request", "undo") /\ count' = count
    /\ UNCHANGED <<fd, streaming, buffers, filled, frame, shot>>

(* QUERYBUF, mmap and QBUF of the next buffer.                             *)
MapBuffer ==
    LET next == Cardinality(mapped) + 1
    IN  /\ next <= count
        /\ \/ /\ Stage("map", "map")
              /\ mapped' = mapped \cup {next} /\ queued' = queued \cup {next}
           \/ /\ Stage("map", "undo")
              /\ mapped' \in {mapped, mapped \cup {next}} /\ queued' = queued
        /\ UNCHANGED <<fd, streaming, count, filled, frame, shot>>

StreamOn ==
    /\ Cardinality(mapped) = count
    /\ \/ Stage("map", "ready") /\ streaming' = TRUE
       \/ Stage("map", "undo") /\ streaming' = FALSE
    /\ UNCHANGED <<fd, count, buffers, filled, frame, shot>>

-----------------------------------------------------------------------------
(* Mutants: what the named definition below would be with a plausible bug. *)
(* No action of the specification uses them.                               *)

(* AcquireFrame: the buffer goes back at once, as in the legacy function   *)
(* that copies the frame first.                                            *)
AcquireGivesBack ==
    /\ stage = "ready" /\ filled # <<>>
    /\ frame' = Head(filled) /\ filled' = Tail(filled)
    /\ queued' = queued \cup {Head(filled).buf}
    /\ UNCHANGED <<stage, fd, streaming, count, mapped, shot>>

-----------------------------------------------------------------------------
(* v4l2_capture_close: whatever init reached, STREAMOFF failing or not.    *)
(* The program's V4L2Frame is not its business.                            *)
ReleaseAll ==
    /\ streaming' = FALSE /\ count' = 0 /\ fd' = FALSE
    /\ mapped' = {} /\ queued' = {} /\ filled' = <<>>
    /\ UNCHANGED <<frame, shot>>

Undo         == Stage("undo", "failed") /\ ReleaseAll
CaptureClose == Stage("ready", "closed") /\ ReleaseAll

InitStep == OpenDevice \/ SetFormat \/ RequestBuffers \/ MapBuffer \/ StreamOn \/ Undo

-----------------------------------------------------------------------------
(* v4l2_capture_acquire_frame                                              *)
AcquireFrame ==
    /\ stage = "ready" /\ filled # <<>>
    /\ frame' = Head(filled) /\ filled' = Tail(filled)
    /\ UNCHANGED <<stage, fd, streaming, count, buffers, shot>>

(* poll or DQBUF fails, or no frame comes in time; or the driver names no  *)
(* buffer of ours; or the plane makes no sense, and its buffer is given    *)
(* back, if that works.                                                    *)
AcquireFails ==
    /\ stage = "ready" /\ frame' = NoFrame
    /\ \/ UNCHANGED <<queued, filled>>
       \/ /\ filled # <<>> /\ filled' = Tail(filled)
          /\ queued' \in {queued, queued \cup {Head(filled).buf}}
    /\ UNCHANGED <<stage, fd, streaming, count, mapped, shot>>

(* v4l2_capture_release_frame; the frame stays valid when QBUF fails.      *)
ReleaseFrame ==
    /\ frame # NoFrame
    /\ queued' = queued \cup {frame.buf} /\ frame' = NoFrame
    /\ UNCHANGED <<stage, fd, streaming, count, mapped, filled, shot>>

ReleaseFails == frame # NoFrame /\ UNCHANGED captureVars

-----------------------------------------------------------------------------
(* The driver takes a frame and puts it into an empty buffer, if it has    *)
(* one and nothing goes wrong.                                             *)
Shoot ==
    /\ streaming /\ shot < MaxShots /\ shot' = shot + 1
    /\ \/ UNCHANGED <<queued, filled>>
       \/ \E b \in queued :
            /\ queued' = queued \ {b}
            /\ filled' = Append(filled, [buf |-> b, seq |-> shot'])
    /\ UNCHANGED <<stage, fd, streaming, count, mapped, frame>>

-----------------------------------------------------------------------------
(* Type correctness.                                                       *)
CaptureTypeOK ==
    /\ stage \in {"none", "format", "request", "map", "undo", "ready", "failed", "closed"}
    /\ fd \in BOOLEAN /\ streaming \in BOOLEAN
    /\ count \in 0 .. MaxBuffers
    /\ mapped \subseteq 1 .. MaxBuffers /\ queued \subseteq 1 .. MaxBuffers
    /\ filled \in Seq(Frames) /\ frame \in Frames \cup {NoFrame}
    /\ shot \in 0 .. MaxShots

(* The frame lies in a buffer that is mapped and that the driver has       *)
(* neither to fill nor to hand out.                                        *)
Readable ==
    frame # NoFrame /\ frame.buf \in mapped \ (queued \cup FilledBuffers)

(* No buffer is with the driver twice, and none that is not mapped.        *)
BuffersOnce ==
    /\ queued \cup FilledBuffers \subseteq mapped
    /\ queued \cap FilledBuffers = {}
    /\ \A i, j \in DOMAIN filled : filled[i].buf = filled[j].buf => i = j

(* Whichever step of the initialisation failed, nothing of it is left      *)
(* (FAIL, v4l2_capture.c:312-314); a device that streams has all it needs. *)
AllOrNothing ==
    /\ stage \in {"none", "failed", "closed"} =>
           ~fd /\ ~streaming /\ count = 0 /\ mapped = {}
    /\ streaming <=> stage = "ready"
    /\ streaming => fd /\ mapped = 1 .. count /\ count >= 2
=============================================================================
