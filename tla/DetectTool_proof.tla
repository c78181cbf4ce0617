-------------------------- MODULE DetectTool_proof --------------------------
(***************************************************************************)
(* The detection tool reads no buffer that the driver may write, takes     *)
(* everything down in order and samples evenly, for every number of        *)
(* buffers, every frame interval and every pair of rates.  The event       *)
(* tracker its detector uses keeps its counters and, when an exit takes at *)
(* least as many misses as the entry window is long (the default is 5 and  *)
(* 3), implements the rule on raw samples, for every such configuration.   *)
(***************************************************************************)
EXTENDS DetectTool, PersonEvent, FiniteSetTheorems, TLAPS

(* How far the device has come, stage by stage.                            *)
StageInv ==
    /\ \E k \in 0 .. count : mapped = 1 .. k
    /\ fd <=> stage \in {"format", "request", "map", "undo", "ready"}
    /\ stage = "map" => count >= 2
    /\ stage \in {"format", "request"} => count = 0
    /\ stage # "ready" => filled = <<>>

(* The frame of the program, as long as the device is open.                *)
FrameInv ==
    /\ stage = "ready" /\ frame # NoFrame => Readable
    /\ stage \notin {"ready", "closed"} => frame = NoFrame

CaptureInv ==
    CaptureTypeOK /\ BuffersOnce /\ AllOrNothing /\ StageInv /\ FrameInv

Reading  == {"warmRelease", "count", "sample", "release"}
Running  == Reading \cup {"warmup", "warmAcquire", "warmed", "detector", "rate",
                          "loop", "acquire", "after"}
Detecting == {"rate", "loop", "acquire", "count", "sample", "release", "after"}

(* What each point of the tool knows of the three components.              *)
PlaceInv ==
    /\ pc \in Running => stage = "ready" /\ isp = "started"
    /\ pc \in Reading => frame # NoFrame
    /\ pc = "capture" => isp = "started" /\ stage \notin {"closed"}
    /\ pc \in {"ispCreate", "ispStart"} => stage = "none"
    /\ stage \in {"format", "request", "map", "undo"} => pc = "capture"
    /\ stage = "closed" => pc \in {"cleanIsp", "done"}
    /\ stage = "ready" =>
           isp = "started" /\ pc \in Running \cup {"capture", "cleanFrame", "cleanDetector",
                                                  "cleanCapture"}
    /\ detector = "live" => pc \in Detecting \cup {"cleanFrame", "cleanDetector"}
                            /\ stage = "ready"
    /\ pc = "done" => isp = "none"

(* The accumulator is what the samples so far have left.                   *)
RateInv ==
    /\ pc \in Detecting \ {"rate"} =>
        /\ cameraFps \in 1 .. 60 /\ detectFps \in 1 .. cameraFps
        /\ accumulator < cameraFps
    /\ pc \in {"loop", "acquire", "count", "release"} =>
        accumulator + sampled * cameraFps = cameraFps - detectFps + captured * detectFps
    /\ pc = "sample" =>
        accumulator + detectFps + sampled * cameraFps
            = cameraFps - detectFps + captured * detectFps
    /\ pc \notin Detecting \cup {"cleanFrame", "cleanDetector", "cleanCapture",
                                "cleanIsp", "done"} => captured = 0 /\ sampled = 0
    /\ pc = "rate" => captured = 0 /\ sampled = 0

(* A frame counted late is the last one.                                   *)
LateInv ==
    /\ late <= 1
    /\ late = 1 /\ pc \in Detecting => stop \/ ShouldQuit
    /\ pc \notin {"sample", "release", "loop", "after", "cleanFrame", "cleanDetector",
                  "cleanCapture", "cleanIsp", "done"} => late = 0

(* The camera's numbers grow from frame to frame.                          *)
OrderInv ==
    /\ last <= shot
    /\ frame # NoFrame => frame.seq <= shot
    /\ pc = "count" => last < frame.seq
    /\ \A i \in DOMAIN filled :
        /\ filled[i].seq <= shot /\ last < filled[i].seq
        /\ frame # NoFrame => frame.seq < filled[i].seq
        /\ \A j \in DOMAIN filled : i < j => filled[i].seq < filled[j].seq

(* The counter of the gaps, and the number it is computed from.            *)
GapInv ==
    /\ GapsCounted
    /\ captured = 0 => last = 0 /\ gaps = 0 /\ missed = 0
    /\ captured > 0 => previous = last % SeqModulus

IInv == TypeOK /\ CaptureInv /\ PlaceInv /\ RateInv /\ LateInv /\ OrderInv /\ GapInv

-----------------------------------------------------------------------------
(* The capture device on its own.                                          *)

(* What the driver's queue gives out was in it.                            *)
LEMMA FilledFacts ==
    ASSUME filled \in Seq(Frames), filled # <<>>
    PROVE  /\ Head(filled) \in Frames /\ Head(filled) = filled[1]
           /\ Tail(filled) \in Seq(Frames)
           /\ 1 \in DOMAIN filled
           /\ \A i \in DOMAIN Tail(filled) :
                i + 1 \in DOMAIN filled /\ i + 1 # 1 /\ Tail(filled)[i] = filled[i + 1]
  OBVIOUS

LEMMA AppendFacts ==
    ASSUME filled \in Seq(Frames), NEW f \in Frames
    PROVE  /\ Append(filled, f) \in Seq(Frames)
           /\ DOMAIN Append(filled, f) = DOMAIN filled \cup {Len(filled) + 1}
           /\ Len(filled) + 1 \notin DOMAIN filled
           /\ Append(filled, f)[Len(filled) + 1] = f
           /\ \A i \in DOMAIN filled : Append(filled, f)[i] = filled[i]
  OBVIOUS

LEMMA FrameFields ==
    ASSUME NEW f \in Frames
    PROVE  f # NoFrame /\ f.buf \in 1 .. MaxBuffers
  BY CaptureAssumption DEF Frames, NoFrame

(* The mapped buffers are the first ones, so their number is the last one. *)
LEMMA MappedCount ==
    ASSUME NEW k \in Nat, mapped = 1 .. k
    PROVE  Cardinality(mapped) = k
<1>1. Cardinality(1 .. k) = IF 1 > k THEN 0 ELSE k - 1 + 1
  BY FS_Interval
<1> QED BY <1>1

LEMMA TailOnce ==
    ASSUME CaptureInv, filled # <<>>, filled' = Tail(filled)
    PROVE  /\ filled' \in Seq(Frames)
           /\ FilledBuffers' \subseteq FilledBuffers \ {Head(filled).buf}
           /\ \A i, j \in DOMAIN filled' : filled'[i].buf = filled'[j].buf => i = j
<1>1. filled \in Seq(Frames)
  BY DEF CaptureInv, CaptureTypeOK
<1>2. \A i, j \in DOMAIN filled : filled[i].buf = filled[j].buf => i = j
  BY DEF CaptureInv, BuffersOnce
<1>3. /\ Head(filled) = filled[1] /\ Tail(filled) \in Seq(Frames) /\ 1 \in DOMAIN filled
      /\ \A i \in DOMAIN Tail(filled) :
            i + 1 \in DOMAIN filled /\ i + 1 # 1 /\ Tail(filled)[i] = filled[i + 1]
  BY <1>1, FilledFacts
<1>4. FilledBuffers' \subseteq FilledBuffers \ {Head(filled).buf}
  BY <1>2, <1>3 DEF FilledBuffers
<1>5. ASSUME NEW i \in DOMAIN Tail(filled), NEW j \in DOMAIN Tail(filled),
             Tail(filled)[i].buf = Tail(filled)[j].buf
      PROVE  i = j
  <2>1. i \in Nat /\ j \in Nat
    BY <1>3
  <2>2. i + 1 = j + 1
    BY <1>2, <1>3, <1>5
  <2> QED BY <2>1, <2>2
<1> QED BY <1>3, <1>4, <1>5

LEMMA CaptureStart == ASSUME CaptureInit PROVE CaptureInv
<1>1. CaptureTypeOK
  <2>1. <<>> \in Seq(Frames)
    OBVIOUS
  <2>2. filled = <<>>
    BY DEF CaptureInit
  <2>3. filled \in Seq(Frames)
    BY <2>1, <2>2
  <2>4. stage = "none" /\ ~fd /\ ~streaming /\ fd \in BOOLEAN /\ streaming \in BOOLEAN
    BY DEF CaptureInit
  <2>5. count = 0 /\ mapped = {} /\ queued = {} /\ frame = NoFrame /\ shot = 0
    BY DEF CaptureInit
  <2>6. count \in 0 .. MaxBuffers /\ shot \in 0 .. MaxShots
    BY <2>5, CaptureAssumption
  <2> QED BY <2>3, <2>4, <2>5, <2>6 DEF CaptureTypeOK
<1>2. BuffersOnce
  BY DEF CaptureInit, BuffersOnce, FilledBuffers
<1>3. AllOrNothing
  BY DEF CaptureInit, AllOrNothing
<1>4. \E k \in 0 .. count : mapped = 1 .. k
  <2>1. 0 \in 0 .. count /\ mapped = 1 .. 0
    BY DEF CaptureInit
  <2> QED BY <2>1
<1>5. StageInv
  BY <1>4 DEF CaptureInit, StageInv
<1>6. FrameInv
  BY DEF CaptureInit, FrameInv
<1> QED BY <1>1, <1>2, <1>3, <1>5, <1>6 DEF CaptureInv

(* Closing leaves nothing, and from a device that was being opened also no *)
(* frame.                                                                  *)
LEMMA ReleaseAllInv ==
    ASSUME CaptureInv, ReleaseAll, stage' \in {"failed", "closed"},
           stage' = "failed" => frame = NoFrame
    PROVE  CaptureInv'
<1>1. CaptureTypeOK'
  <2>1. <<>> \in Seq(Frames)
    OBVIOUS
  <2>2. filled' = <<>>
    BY DEF ReleaseAll
  <2>3. filled' \in Seq(Frames)
    BY <2>1, <2>2
  <2>4. ~fd' /\ ~streaming' /\ fd' \in BOOLEAN /\ streaming' \in BOOLEAN
    BY DEF ReleaseAll
  <2>5. count' = 0 /\ mapped' = {} /\ queued' = {} /\ UNCHANGED <<frame, shot>>
    BY DEF ReleaseAll
  <2>6. count' \in 0 .. MaxBuffers
    BY <2>5, CaptureAssumption
  <2> QED BY <2>3, <2>4, <2>5, <2>6 DEF CaptureInv, CaptureTypeOK
<1>2. BuffersOnce'
  BY DEF ReleaseAll, BuffersOnce, FilledBuffers
<1>3. AllOrNothing'
  BY DEF ReleaseAll, AllOrNothing
<1>4. \E k \in 0 .. count' : mapped' = 1 .. k
  <2>1. 0 \in 0 .. count' /\ mapped' = 1 .. 0
    BY DEF ReleaseAll
  <2> QED BY <2>1
<1>5. StageInv'
  BY <1>4 DEF ReleaseAll, StageInv
<1>6. FrameInv'
  BY DEF ReleaseAll, FrameInv
<1> QED BY <1>1, <1>2, <1>3, <1>5, <1>6 DEF CaptureInv

LEMMA MapBufferInv == ASSUME CaptureInv, MapBuffer PROVE CaptureInv'
<1> DEFINE next == Cardinality(mapped) + 1
<1>1. PICK k \in 0 .. count : mapped = 1 .. k
  BY DEF CaptureInv, StageInv
<1>2. count \in 0 .. MaxBuffers /\ k \in Nat /\ MaxBuffers \in Nat
  BY <1>1, CaptureAssumption DEF CaptureInv, CaptureTypeOK
<1>3. Cardinality(mapped) = k
  BY <1>1, <1>2, MappedCount
<1>4. /\ next = k + 1 /\ k + 1 \in 1 .. count /\ k + 1 \in 1 .. MaxBuffers
      /\ k + 1 \notin mapped /\ mapped \cup {k + 1} = 1 .. (k + 1)
  <2>1. next <= count
    BY DEF MapBuffer
  <2> QED BY <1>1, <1>2, <1>3, <2>1
<1>5. /\ stage = "map" /\ stage' \in {"map", "undo"}
      /\ mapped' \in {mapped, mapped \cup {k + 1}}
      /\ \/ queued' = queued
         \/ queued' = queued \cup {k + 1} /\ mapped' = mapped \cup {k + 1}
      /\ UNCHANGED <<fd, streaming, count, filled, frame, shot>>
  BY <1>3 DEF MapBuffer, Stage, buffers
<1>6. CaptureTypeOK'
  BY <1>4, <1>5 DEF CaptureInv, CaptureTypeOK
<1>7. BuffersOnce'
  <2>1. filled = <<>> /\ FilledBuffers' = FilledBuffers
    BY <1>5 DEF CaptureInv, StageInv, FilledBuffers
  <2>2. FilledBuffers = {}
    BY <2>1 DEF FilledBuffers
  <2> QED BY <1>5, <2>1, <2>2 DEF CaptureInv, BuffersOnce
<1>8. AllOrNothing'
  BY <1>5 DEF CaptureInv, AllOrNothing
<1>9. \E m \in 0 .. count' : mapped' = 1 .. m
  <2>1. CASE mapped' = mapped
    BY <1>1, <1>5, <2>1
  <2>2. CASE mapped' = mapped \cup {k + 1}
    BY <1>2, <1>4, <1>5, <2>2
  <2> QED BY <1>5, <2>1, <2>2
<1>10. StageInv'
  BY <1>5, <1>9 DEF CaptureInv, StageInv
<1>11. FrameInv'
  BY <1>5 DEF CaptureInv, FrameInv
<1> QED BY <1>6, <1>7, <1>8, <1>10, <1>11 DEF CaptureInv

(* A step of the initialisation keeps the invariant and lends no frame.    *)
LEMMA InitStepInv == ASSUME CaptureInv, InitStep PROVE CaptureInv' /\ UNCHANGED frame
<1>1. CASE OpenDevice
  <2>1. /\ stage = "none" /\ UNCHANGED <<streaming, count, mapped, queued, filled, frame, shot>>
        /\ \/ stage' = "format" /\ fd'
           \/ stage' = "failed" /\ ~fd'
        /\ fd' \in BOOLEAN
    BY <1>1 DEF OpenDevice, Stage, buffers
  <2>2. CaptureTypeOK'
    BY <2>1 DEF CaptureInv, CaptureTypeOK
  <2>3. BuffersOnce'
    BY <2>1 DEF CaptureInv, BuffersOnce, FilledBuffers
  <2>4. AllOrNothing'
    BY <2>1 DEF CaptureInv, AllOrNothing
  <2>5. StageInv'
    BY <2>1 DEF CaptureInv, StageInv, AllOrNothing
  <2>6. FrameInv'
    BY <2>1 DEF CaptureInv, FrameInv
  <2> QED BY <2>1, <2>2, <2>3, <2>4, <2>5, <2>6 DEF CaptureInv
<1>2. CASE SetFormat
  <2>1. /\ stage = "format" /\ stage' \in {"request", "undo"}
        /\ UNCHANGED <<fd, streaming, count, mapped, queued, filled, frame, shot>>
    BY <1>2 DEF SetFormat, Stage, buffers
  <2>2. CaptureTypeOK'
    BY <2>1 DEF CaptureInv, CaptureTypeOK
  <2>3. BuffersOnce'
    BY <2>1 DEF CaptureInv, BuffersOnce, FilledBuffers
  <2>4. AllOrNothing'
    BY <2>1 DEF CaptureInv, AllOrNothing
  <2>5. StageInv'
    BY <2>1 DEF CaptureInv, StageInv
  <2>6. FrameInv'
    BY <2>1 DEF CaptureInv, FrameInv
  <2> QED BY <2>1, <2>2, <2>3, <2>4, <2>5, <2>6 DEF CaptureInv
<1>3. CASE RequestBuffers
  <2>1. /\ stage = "request" /\ UNCHANGED <<fd, streaming, mapped, queued, filled, frame, shot>>
        /\ \/ stage' = "map" /\ count' \in 2 .. MaxBuffers
           \/ stage' = "undo" /\ count' = count
    BY <1>3 DEF RequestBuffers, Stage, buffers
  <2>2. CaptureTypeOK'
    BY <2>1, CaptureAssumption DEF CaptureInv, CaptureTypeOK
  <2>3. BuffersOnce'
    BY <2>1 DEF CaptureInv, BuffersOnce, FilledBuffers
  <2>4. AllOrNothing'
    BY <2>1 DEF CaptureInv, AllOrNothing
  <2>5. \E k \in 0 .. count' : mapped' = 1 .. k
    <3>1. count = 0 /\ count' \in Nat
      BY <2>1, <2>2 DEF CaptureInv, StageInv, CaptureTypeOK
    <3>2. PICK k \in 0 .. count : mapped = 1 .. k
      BY DEF CaptureInv, StageInv
    <3>3. k \in 0 .. count' /\ mapped' = 1 .. k
      BY <2>1, <3>1, <3>2
    <3> QED BY <3>3
  <2>6. StageInv'
    BY <2>1, <2>5 DEF CaptureInv, StageInv
  <2>7. FrameInv'
    BY <2>1 DEF CaptureInv, FrameInv
  <2> QED BY <2>1, <2>2, <2>3, <2>4, <2>6, <2>7 DEF CaptureInv
<1>4. CASE MapBuffer
  BY <1>4, MapBufferInv DEF MapBuffer
<1>5. CASE StreamOn
  <2>1. /\ stage = "map" /\ UNCHANGED <<fd, count, mapped, queued, filled, frame, shot>>
        /\ \/ stage' = "ready" /\ streaming' = TRUE
           \/ stage' = "undo" /\ streaming' = FALSE
        /\ Cardinality(mapped) = count
    BY <1>5 DEF StreamOn, Stage, buffers
  <2>2. CaptureTypeOK'
    BY <2>1 DEF CaptureInv, CaptureTypeOK
  <2>3. BuffersOnce'
    BY <2>1 DEF CaptureInv, BuffersOnce, FilledBuffers
  <2>4. mapped = 1 .. count
    <3>1. PICK k \in 0 .. count : mapped = 1 .. k
      BY DEF CaptureInv, StageInv
    <3>2. k \in Nat
      BY <3>1
    <3>3. k = count
      BY <2>1, <3>1, <3>2, MappedCount
    <3> QED BY <3>1, <3>3
  <2>5. fd /\ count >= 2
    BY <2>1 DEF CaptureInv, StageInv
  <2>6. AllOrNothing'
    BY <2>1, <2>4, <2>5 DEF AllOrNothing
  <2>7. StageInv'
    BY <2>1 DEF CaptureInv, StageInv
  <2>8. FrameInv'
    BY <2>1 DEF CaptureInv, FrameInv
  <2> QED BY <2>1, <2>2, <2>3, <2>6, <2>7, <2>8 DEF CaptureInv
<1>6. CASE Undo
  <2>1. stage = "undo" /\ stage' = "failed" /\ ReleaseAll /\ UNCHANGED frame
    BY <1>6 DEF Undo, Stage, ReleaseAll
  <2>2. frame = NoFrame
    BY <2>1 DEF CaptureInv, FrameInv
  <2> QED BY <2>1, <2>2, ReleaseAllInv
<1> QED BY <1>1, <1>2, <1>3, <1>4, <1>5, <1>6 DEF InitStep

(* A frame that is dequeued is in nobody else's hands.                     *)
LEMMA AcquireFrameInv ==
    ASSUME CaptureInv, AcquireFrame
    PROVE  CaptureInv' /\ frame' # NoFrame
<1>1. /\ stage = "ready" /\ filled # <<>> /\ frame' = Head(filled) /\ filled' = Tail(filled)
      /\ UNCHANGED <<stage, fd, streaming, count, mapped, queued, shot>>
  BY DEF AcquireFrame, buffers
<1>2. /\ filled' \in Seq(Frames) /\ FilledBuffers' \subseteq FilledBuffers \ {Head(filled).buf}
      /\ \A i, j \in DOMAIN filled' : filled'[i].buf = filled'[j].buf => i = j
  BY <1>1, TailOnce
<1>3. Head(filled) \in Frames /\ Head(filled).buf \in FilledBuffers
  BY <1>1, FilledFacts DEF CaptureInv, CaptureTypeOK, FilledBuffers
<1>4. CaptureTypeOK'
  BY <1>1, <1>2, <1>3 DEF CaptureInv, CaptureTypeOK
<1>5. BuffersOnce'
  BY <1>1, <1>2 DEF CaptureInv, BuffersOnce
<1>6. AllOrNothing'
  BY <1>1 DEF CaptureInv, AllOrNothing
<1>7. StageInv'
  BY <1>1 DEF CaptureInv, StageInv
<1>8. frame' # NoFrame
  BY <1>1, <1>3, FrameFields
<1>9. Readable'
  BY <1>1, <1>2, <1>3, <1>8 DEF CaptureInv, BuffersOnce, Readable
<1>10. FrameInv'
  BY <1>1, <1>9 DEF FrameInv
<1> QED BY <1>4, <1>5, <1>6, <1>7, <1>8, <1>10 DEF CaptureInv

LEMMA AcquireFailsInv == ASSUME CaptureInv, AcquireFails PROVE CaptureInv'
<1>1. /\ stage = "ready" /\ frame' = NoFrame
      /\ UNCHANGED <<stage, fd, streaming, count, mapped, shot>>
  BY DEF AcquireFails
<1>2. AllOrNothing' /\ StageInv' /\ FrameInv'
  BY <1>1 DEF CaptureInv, AllOrNothing, StageInv, FrameInv
<1>3. CASE UNCHANGED <<queued, filled>>
  <2>1. CaptureTypeOK'
    BY <1>1, <1>3 DEF CaptureInv, CaptureTypeOK
  <2>2. BuffersOnce'
    BY <1>1, <1>3 DEF CaptureInv, BuffersOnce, FilledBuffers
  <2> QED BY <1>2, <2>1, <2>2 DEF CaptureInv
<1>4. CASE /\ filled # <<>> /\ filled' = Tail(filled)
           /\ queued' \in {queued, queued \cup {Head(filled).buf}}
  <2>1. /\ filled' \in Seq(Frames) /\ FilledBuffers' \subseteq FilledBuffers \ {Head(filled).buf}
        /\ \A i, j \in DOMAIN filled' : filled'[i].buf = filled'[j].buf => i = j
    BY <1>4, TailOnce
  <2>2. Head(filled).buf \in FilledBuffers /\ Head(filled).buf \in 1 .. MaxBuffers
    BY <1>4, FilledFacts, FrameFields DEF CaptureInv, CaptureTypeOK, FilledBuffers
  <2>3. CaptureTypeOK'
    BY <1>1, <1>4, <2>1, <2>2 DEF CaptureInv, CaptureTypeOK
  <2>4. BuffersOnce'
    BY <1>1, <1>4, <2>1, <2>2 DEF CaptureInv, BuffersOnce
  <2> QED BY <1>2, <2>3, <2>4 DEF CaptureInv
<1> QED BY <1>3, <1>4 DEF AcquireFails

(* Only a device that is still open takes its buffer back.                 *)
LEMMA ReleaseFrameInv ==
    ASSUME CaptureInv, ReleaseFrame, stage # "closed"
    PROVE  CaptureInv'
<1>1. /\ frame # NoFrame /\ queued' = queued \cup {frame.buf} /\ frame' = NoFrame
      /\ UNCHANGED <<stage, fd, streaming, count, mapped, filled, shot>>
  BY DEF ReleaseFrame
<1>2. stage = "ready" /\ frame.buf \in mapped /\ frame.buf \notin FilledBuffers
  BY <1>1 DEF CaptureInv, FrameInv, Readable
<1>3. FilledBuffers' = FilledBuffers
  BY <1>1 DEF FilledBuffers
<1>4. CaptureTypeOK'
  BY <1>1, <1>2 DEF CaptureInv, CaptureTypeOK
<1>5. BuffersOnce'
  BY <1>1, <1>2, <1>3 DEF CaptureInv, BuffersOnce
<1>6. AllOrNothing' /\ StageInv' /\ FrameInv'
  BY <1>1, <1>2 DEF CaptureInv, AllOrNothing, StageInv, FrameInv
<1> QED BY <1>4, <1>5, <1>6 DEF CaptureInv

LEMMA UnchangedInv ==
    ASSUME CaptureInv, UNCHANGED captureVars
    PROVE  CaptureInv'
<1>1. UNCHANGED <<stage, fd, streaming, count, mapped, queued, filled, frame, shot>>
  BY DEF captureVars, buffers
<1>2. FilledBuffers' = FilledBuffers
  BY <1>1 DEF FilledBuffers
<1>3. CaptureTypeOK' /\ AllOrNothing' /\ StageInv'
  BY <1>1 DEF CaptureInv, CaptureTypeOK, AllOrNothing, StageInv
<1>4. BuffersOnce' /\ FrameInv'
  BY <1>1, <1>2 DEF CaptureInv, BuffersOnce, FrameInv, Readable
<1> QED BY <1>3, <1>4 DEF CaptureInv

(* The driver fills an empty buffer, which is never the one that is read.  *)
LEMMA ShootInv == ASSUME CaptureInv, Shoot PROVE CaptureInv'
<1>1. /\ streaming /\ shot < MaxShots /\ shot' = shot + 1
      /\ UNCHANGED <<stage, fd, streaming, count, mapped, frame>>
  BY DEF Shoot
<1>2. stage = "ready" /\ shot' \in 1 .. MaxShots
  BY <1>1, CaptureAssumption DEF CaptureInv, AllOrNothing, CaptureTypeOK
<1>3. AllOrNothing' /\ StageInv'
  BY <1>1, <1>2 DEF CaptureInv, AllOrNothing, StageInv
<1>4. CASE UNCHANGED <<queued, filled>>
  <2>1. FilledBuffers' = FilledBuffers
    BY <1>4 DEF FilledBuffers
  <2>2. CaptureTypeOK'
    BY <1>1, <1>2, <1>4 DEF CaptureInv, CaptureTypeOK
  <2>3. BuffersOnce' /\ FrameInv'
    BY <1>1, <1>4, <2>1 DEF CaptureInv, BuffersOnce, FrameInv, Readable
  <2> QED BY <1>3, <2>2, <2>3 DEF CaptureInv
<1>5. ASSUME NEW b \in queued, queued' = queued \ {b},
             filled' = Append(filled, [buf |-> b, seq |-> shot'])
      PROVE  CaptureInv'
  <2> DEFINE f == [buf |-> b, seq |-> shot']
  <2>1. f \in Frames /\ f.buf = b
    BY <1>2 DEF CaptureInv, CaptureTypeOK, Frames
  <2> HIDE DEF f
  <2>2. filled \in Seq(Frames) /\ filled' = Append(filled, f)
    BY <1>5 DEF CaptureInv, CaptureTypeOK, f
  <2>3. /\ filled' \in Seq(Frames) /\ DOMAIN filled' = DOMAIN filled \cup {Len(filled) + 1}
        /\ Len(filled) + 1 \notin DOMAIN filled /\ filled'[Len(filled) + 1] = f
        /\ \A i \in DOMAIN filled : filled'[i] = filled[i]
    BY <2>1, <2>2, AppendFacts
  <2>4. FilledBuffers' = FilledBuffers \cup {b}
    BY <2>1, <2>3 DEF FilledBuffers
  <2>5. b \notin FilledBuffers /\ b \in mapped
    BY <1>5 DEF CaptureInv, BuffersOnce
  <2>6. CaptureTypeOK'
    <3>1. queued' = queued \ {b}
      BY <1>5
    <3> QED BY <1>1, <1>2, <2>3, <3>1 DEF CaptureInv, CaptureTypeOK
  <2>7. \A i, j \in DOMAIN filled' : filled'[i].buf = filled'[j].buf => i = j
    <3>1. \A i \in DOMAIN filled : filled[i].buf # b
      BY <2>5 DEF FilledBuffers
    <3>2. \A i, j \in DOMAIN filled : filled[i].buf = filled[j].buf => i = j
      BY DEF CaptureInv, BuffersOnce
    <3> QED BY <2>1, <2>3, <3>1, <3>2
  <2>8. BuffersOnce'
    BY <1>1, <1>5, <2>4, <2>5, <2>7 DEF CaptureInv, BuffersOnce
  <2>9. FrameInv'
    BY <1>1, <1>2, <1>5, <2>4 DEF CaptureInv, FrameInv, Readable
  <2> QED BY <1>3, <2>6, <2>8, <2>9 DEF CaptureInv
<1> QED BY <1>4, <1>5 DEF Shoot

(* Everything the tool or the driver may do with the device.               *)
DeviceStep ==
    \/ InitStep \/ AcquireFrame \/ AcquireFails \/ ReleaseFails \/ CaptureClose
    \/ ReleaseFrame /\ stage # "closed"
    \/ Shoot \/ UNCHANGED captureVars

LEMMA DeviceStepInv == ASSUME CaptureInv, DeviceStep PROVE CaptureInv'
<1>1. ASSUME CaptureClose PROVE CaptureInv'
  BY <1>1, ReleaseAllInv DEF CaptureClose, Stage
<1>2. ASSUME ReleaseFails PROVE CaptureInv'
  BY <1>2, UnchangedInv DEF ReleaseFails
<1> QED BY <1>1, <1>2, InitStepInv, AcquireFrameInv, AcquireFailsInv, ReleaseFrameInv,
           ShootInv, UnchangedInv DEF DeviceStep

-----------------------------------------------------------------------------
(* The tool: every step is a step of the device or leaves it alone.        *)

LEMMA Steps ==
    ASSUME [Next]_vars
    PROVE  \/ CreateIsp \/ StartIsp \/ InitCapture \/ CheckCapture \/ Warmup
           \/ WarmAcquire \/ WarmRelease \/ WarmedUp \/ CreateDetector \/ SetRate
           \/ Loop \/ TimeUp \/ Acquire \/ Count \/ Sample \/ Release \/ After
           \/ CleanFrame \/ CleanDetector \/ CleanCapture \/ CleanIsp
           \/ Signal \/ Camera \/ Aiq \/ UNCHANGED vars
  BY DEF Next, Tool, Start, Capture, Clean, Done

LEMMA ToolDevice == ASSUME IInv, [Next]_vars PROVE DeviceStep
<1>1. ASSUME ReleaseFrame, pc # "cleanIsp", pc # "done" PROVE DeviceStep
  BY <1>1 DEF IInv, PlaceInv, DeviceStep
<1> USE DEF Only, ToolAlone, Goto
<1>2. CASE InitCapture
  BY <1>2 DEF InitCapture, DeviceStep
<1>3. CASE WarmAcquire \/ Acquire
  BY <1>3 DEF WarmAcquire, Acquire, DeviceStep
<1>4. CASE WarmRelease \/ Release
  BY <1>1, <1>4 DEF WarmRelease, Release, DeviceStep
<1>5. CASE CleanFrame
  BY <1>1, <1>5 DEF CleanFrame, DeviceStep
<1>6. CASE CleanCapture
  BY <1>6 DEF CleanCapture, DeviceStep
<1>7. CASE Camera
  BY <1>7 DEF Camera, DeviceStep
<1>8. CASE CreateIsp \/ StartIsp \/ CheckCapture \/ Warmup \/ WarmedUp
  BY <1>8 DEF CreateIsp, StartIsp, CheckCapture, Warmup, WarmedUp, DeviceStep
<1>9. CASE CreateDetector \/ SetRate \/ Loop \/ TimeUp \/ Count
  BY <1>9 DEF CreateDetector, SetRate, Loop, TimeUp, Count, DeviceStep
<1>10. CASE Sample \/ After \/ CleanDetector \/ CleanIsp
  BY <1>10 DEF Sample, After, CleanDetector, CleanIsp, DeviceStep
<1>11. CASE Signal \/ Aiq \/ UNCHANGED vars
  BY <1>11 DEF Signal, Aiq, vars, DeviceStep
<1> QED BY <1>2, <1>3, <1>4, <1>5, <1>6, <1>7, <1>8, <1>9, <1>10, <1>11, Steps

LEMMA ToolCapture == ASSUME IInv, [Next]_vars PROVE CaptureInv'
  BY ToolDevice, DeviceStepInv DEF IInv

-----------------------------------------------------------------------------
(* Type correctness.                                                       *)

LEMMA RoundedType ==
    ASSUME NEW n \in Nat, NEW d \in Nat PROVE Rounded(n, d) \in 1 .. 60
  BY DEF Rounded

LEMMA Mod ==
    ASSUME NEW a \in Int, NEW m \in Nat \ {0} PROVE a % m \in Nat /\ a % m < m
  OBVIOUS

LEMMA SeqMod == \A a \in Int : a % SeqModulus \in Nat /\ a % SeqModulus < SeqModulus
  BY Mod, ToolAssumption

(* The rates that are drawn once the camera is known.                      *)
LEMMA RateFacts ==
    ASSUME SetRate
    PROVE  /\ cameraFps' \in 1 .. 60 /\ detectFps' \in 1 .. cameraFps'
           /\ accumulator' = cameraFps' - detectFps'
<1>1. PICK n \in Numerators, d \in Denominators : cameraFps' = Rounded(n, d)
  BY DEF SetRate
<1>2. cameraFps' \in 1 .. 60
  BY <1>1, RoundedType, ToolAssumption
<1>3. /\ detectFps' = IF WantedFps > cameraFps' THEN cameraFps' ELSE WantedFps
      /\ accumulator' = cameraFps' - detectFps'
  BY DEF SetRate
<1> QED BY <1>2, <1>3, ToolAssumption

LEMMA CountFacts ==
    ASSUME IInv, Count
    PROVE  /\ frame \in Frames /\ frame.seq \in Nat \ {0} /\ last < frame.seq
           /\ captured' = captured + 1 /\ previous' = frame.seq % SeqModulus
           /\ last' = frame.seq
           /\ missed' = IF captured = 0 THEN missed ELSE missed + (frame.seq - last - 1)
           /\ late' \in {late, late + 1}
<1>1. pc = "count" /\ frame # NoFrame
  BY DEF Count, IInv, PlaceInv, Reading
<1>2. frame \in Frames /\ frame.seq \in Nat \ {0}
  BY <1>1 DEF IInv, TypeOK, CaptureTypeOK, Frames
<1>3. last < frame.seq
  BY <1>1 DEF IInv, OrderInv
<1> QED BY <1>2, <1>3 DEF Count, Observe

LEMMA ToolTypes == ASSUME IInv, [Next]_vars PROVE TypeOK'
<1>1. CaptureTypeOK'
  BY ToolCapture DEF CaptureInv
<1> USE DEF Only, ToolAlone, Goto, toolVars, toolRates, toolCounters, observed
<1>2. CASE CreateIsp \/ StartIsp
  BY <1>1, <1>2 DEF CreateIsp, StartIsp, IspCreate, IspCreateFails, IspStart, IspStartFails,
                    ispVars, IInv, TypeOK, IspTypeOK
<1>3. CASE InitCapture \/ CheckCapture \/ Warmup \/ WarmAcquire \/ Loop \/ TimeUp \/ Acquire
  BY <1>1, <1>3 DEF InitCapture, CheckCapture, Warmup, WarmAcquire, Loop, TimeUp, Acquire,
                    ispVars, IInv, TypeOK, IspTypeOK
<1>4. CASE WarmRelease
  BY <1>1, <1>4 DEF WarmRelease, ispVars, IInv, TypeOK, IspTypeOK
<1>5. CASE WarmedUp \/ CreateDetector \/ Release \/ After
  BY <1>1, <1>5 DEF WarmedUp, CreateDetector, Release, After, ispVars, IInv, TypeOK, IspTypeOK
<1>6. CASE SetRate
  <2>1. cameraFps' \in 0 .. 60 /\ detectFps' \in 0 .. 60 /\ accumulator' \in 0 .. 60
    BY <1>6, RateFacts
  <2> QED BY <1>1, <1>6, <2>1 DEF SetRate, ispVars, IInv, TypeOK, IspTypeOK
<1>7. CASE Count
  <2>1. /\ captured' \in Nat /\ last' \in Nat /\ missed' \in Nat /\ late' \in Nat
    BY <1>7, CountFacts DEF IInv, TypeOK
  <2>2. frame.seq % SeqModulus \in Nat /\ previous' \in Nat
    <3>1. frame.seq \in Int /\ previous' = frame.seq % SeqModulus
      BY <1>7, CountFacts
    <3> QED BY <3>1, SeqMod
  <2>3. gaps' \in Nat
    <3>1. (frame.seq % SeqModulus) - previous - 1 \in Int
      BY <2>2 DEF IInv, TypeOK
    <3>2. ((frame.seq % SeqModulus) - previous - 1) % SeqModulus \in Nat
      BY <3>1, SeqMod
    <3>3. gaps' \in {gaps, gaps + (((frame.seq % SeqModulus) - previous - 1) % SeqModulus)}
      BY <1>7 DEF Count
    <3> QED BY <3>2, <3>3 DEF IInv, TypeOK
  <2>4. pc' \in {"sample", "cleanFrame"}
        /\ UNCHANGED <<stop, warmed, cameraFps, detectFps, accumulator, sampled, detector,
                       exitCode, isp, aiqQuit>>
    BY <1>7 DEF Count, ispVars
  <2> QED BY <1>1, <2>1, <2>2, <2>3, <2>4 DEF IInv, TypeOK, IspTypeOK
<1>8. CASE Sample
  <2>1. /\ cameraFps \in 1 .. 60 /\ detectFps \in 1 .. cameraFps
        /\ accumulator \in 0 .. 60 /\ accumulator < cameraFps
    BY <1>8 DEF Sample, IInv, RateInv, TypeOK, Detecting
  <2>2. accumulator' \in {accumulator + detectFps - cameraFps, accumulator + detectFps}
        /\ (accumulator + detectFps >= cameraFps
                => accumulator' = accumulator + detectFps - cameraFps)
    BY <1>8, <2>1 DEF Sample
  <2>3. accumulator' \in 0 .. 60
    <3>1. CASE accumulator + detectFps >= cameraFps
      BY <2>1, <2>2, <3>1
    <3>2. CASE accumulator + detectFps < cameraFps
      <4>1. accumulator' = accumulator + detectFps
        BY <1>8, <2>1, <3>2 DEF Sample
      <4> QED BY <2>1, <3>2, <4>1
    <3> QED BY <2>1, <3>1, <3>2
  <2> QED BY <1>1, <1>8, <2>3 DEF Sample, ispVars, IInv, TypeOK, IspTypeOK
<1>9. CASE CleanFrame \/ CleanDetector \/ CleanCapture
  BY <1>1, <1>9 DEF CleanFrame, CleanDetector, CleanCapture, ispVars, IInv, TypeOK, IspTypeOK
<1>10. CASE CleanIsp
  BY <1>1, <1>10 DEF CleanIsp, IspDestroy, ispVars, IInv, TypeOK, IspTypeOK
<1>11. CASE Signal \/ Camera \/ UNCHANGED vars
  BY <1>1, <1>11 DEF Signal, Camera, vars, ispVars, IInv, TypeOK, IspTypeOK
<1>12. CASE Aiq
  BY <1>1, <1>12 DEF Aiq, IspError, IInv, TypeOK, IspTypeOK
<1> QED BY <1>2, <1>3, <1>4, <1>5, <1>6, <1>7, <1>8, <1>9, <1>10, <1>11, <1>12, Steps

-----------------------------------------------------------------------------
(* Where the tool is, and what it has.                                     *)

LEMMA InitSteps ==
    ASSUME InitStep
    PROVE  stage' \in {"format", "request", "map", "undo", "ready", "failed"}
  BY DEF InitStep, OpenDevice, SetFormat, RequestBuffers, MapBuffer, StreamOn, Undo, Stage

LEMMA ToolPlaces == ASSUME IInv, [Next]_vars PROVE PlaceInv'
<1> USE DEF Only, ToolAlone, Goto, toolVars, toolCounters, captureVars, ispVars, PlaceInv,
            Running, Reading, Detecting
<1>1. PlaceInv /\ IspTypeOK
  BY DEF IInv, TypeOK
<1>2. CASE CreateIsp
  BY <1>1, <1>2 DEF CreateIsp, IspCreate, IspCreateFails
<1>3. CASE StartIsp
  BY <1>1, <1>3 DEF StartIsp, IspStart, IspStartFails
<1>4. CASE InitCapture
  <2>1. pc = "capture" /\ isp = "started" /\ detector # "live"
        /\ UNCHANGED <<pc, isp, detector>>
    BY <1>1, <1>4 DEF InitCapture
  <2>2. stage' \in {"format", "request", "map", "undo", "ready", "failed"}
    BY <1>4, InitSteps DEF InitCapture
  <2> QED BY <2>1, <2>2
<1>5. CASE CheckCapture
  BY <1>1, <1>5 DEF CheckCapture
<1>6. CASE Warmup
  BY <1>1, <1>6 DEF Warmup
<1>7. CASE WarmAcquire
  <2>1. AcquireFrame => frame' # NoFrame
    BY AcquireFrameInv DEF IInv
  <2> QED BY <1>1, <1>7, <2>1 DEF WarmAcquire, AcquireFrame, AcquireFails
<1>8. CASE WarmRelease
  BY <1>1, <1>8 DEF WarmRelease, ReleaseFrame, ReleaseFails
<1>9. CASE WarmedUp
  BY <1>1, <1>9 DEF WarmedUp
<1>10. CASE CreateDetector
  BY <1>1, <1>10 DEF CreateDetector
<1>11. CASE SetRate
  BY <1>1, <1>11 DEF SetRate
<1>12. CASE Loop
  BY <1>1, <1>12 DEF Loop
<1>13. CASE TimeUp
  BY <1>1, <1>13 DEF TimeUp
<1>14. CASE Acquire
  <2>1. AcquireFrame => frame' # NoFrame
    BY AcquireFrameInv DEF IInv
  <2> QED BY <1>1, <1>14, <2>1 DEF Acquire, AcquireFrame, AcquireFails
<1>15. CASE Count
  BY <1>1, <1>15 DEF Count
<1>16. CASE Sample
  BY <1>1, <1>16 DEF Sample
<1>17. CASE Release
  BY <1>1, <1>17 DEF Release, ReleaseFrame, ReleaseFails
<1>18. CASE After
  BY <1>1, <1>18 DEF After
<1>19. CASE CleanFrame
  BY <1>1, <1>19 DEF CleanFrame, ReleaseFrame, ReleaseFails
<1>20. CASE CleanDetector
  BY <1>1, <1>20 DEF CleanDetector
<1>21. CASE CleanCapture
  BY <1>1, <1>21 DEF CleanCapture, CaptureClose, Stage
<1>22. CASE CleanIsp
  BY <1>1, <1>22 DEF CleanIsp, IspDestroy
<1>23. CASE Signal
  BY <1>1, <1>23 DEF Signal
<1>24. CASE Camera
  <2>1. UNCHANGED <<pc, isp, detector, stage, frame>>
    BY <1>24 DEF Camera, Shoot
  <2> QED BY <1>1, <2>1
<1>25. CASE Aiq
  BY <1>1, <1>25 DEF Aiq, IspError
<1>26. CASE UNCHANGED vars
  BY <1>1, <1>26 DEF vars
<1> QED BY <1>2, <1>3, <1>4, <1>5, <1>6, <1>7, <1>8, <1>9, <1>10, <1>11, <1>12, <1>13,
           <1>14, <1>15, <1>16, <1>17, <1>18, <1>19, <1>20, <1>21, <1>22, <1>23, <1>24,
           <1>25, <1>26, Steps

-----------------------------------------------------------------------------
(* The samples.                                                            *)

LEMMA NextFrame ==
    ASSUME NEW c \in Nat, NEW r \in Nat
    PROVE  (c + 1) * r = c * r + r
  OBVIOUS

LEMMA FirstFrame ==
    \A c \in 1 .. 60 : \A d \in 1 .. c : c - d < c /\ c - d + 0 * c = c - d + 0 * d
  OBVIOUS

LEMMA ToolRates == ASSUME IInv, [Next]_vars PROVE RateInv'
<1> USE DEF Only, ToolAlone, Goto, toolVars, toolCounters, toolRates, RateInv, Detecting
<1>1. RateInv /\ captured \in Nat /\ sampled \in Nat /\ accumulator \in Nat
  BY DEF IInv, TypeOK
<1>2. CASE CreateIsp \/ StartIsp \/ CheckCapture \/ Warmup
  BY <1>1, <1>2 DEF CreateIsp, StartIsp, CheckCapture, Warmup
<1>3. CASE InitCapture \/ Camera \/ Aiq \/ Signal
  BY <1>1, <1>3 DEF InitCapture, Camera, Aiq, Signal
<1>4. CASE WarmAcquire \/ WarmRelease \/ WarmedUp \/ CreateDetector
  BY <1>1, <1>4 DEF WarmAcquire, WarmRelease, WarmedUp, CreateDetector
<1>5. CASE SetRate
  <2>1. /\ cameraFps' \in 1 .. 60 /\ detectFps' \in 1 .. cameraFps'
        /\ accumulator' = cameraFps' - detectFps'
    BY <1>5, RateFacts
  <2>2. captured' = 0 /\ sampled' = 0 /\ pc' \in {"loop", "cleanFrame"}
    BY <1>1, <1>5 DEF SetRate
  <2>3. /\ accumulator' < cameraFps'
        /\ accumulator' + sampled' * cameraFps'
                = cameraFps' - detectFps' + captured' * detectFps'
    BY <2>1, <2>2, FirstFrame
  <2> QED BY <2>1, <2>2, <2>3
<1>6. CASE Loop \/ TimeUp \/ Acquire \/ Release \/ After
  BY <1>1, <1>6 DEF Loop, TimeUp, Acquire, Release, After
<1>7. CASE Count
  <2>1. /\ pc = "count" /\ pc' \in {"sample", "cleanFrame"} /\ captured' = captured + 1
        /\ UNCHANGED <<cameraFps, detectFps, accumulator, sampled>>
    BY <1>7 DEF Count
  <2>2. cameraFps \in 1 .. 60 /\ detectFps \in 1 .. cameraFps /\ accumulator < cameraFps
    BY <1>1, <2>1
  <2>3. accumulator + sampled * cameraFps = cameraFps - detectFps + captured * detectFps
    BY <1>1, <2>1
  <2>4. captured' * detectFps = captured * detectFps + detectFps
    BY <1>1, <2>1, <2>2, NextFrame
  <2>5. sampled * cameraFps \in Int /\ captured * detectFps \in Int
    BY <1>1, <2>2
  <2>6. accumulator + detectFps + sampled * cameraFps
            = cameraFps - detectFps + captured' * detectFps
    BY <1>1, <2>2, <2>3, <2>4, <2>5
  <2> QED BY <2>1, <2>2, <2>6
<1>8. CASE Sample
  <2>1. pc = "sample" /\ UNCHANGED <<cameraFps, detectFps, captured>>
    BY <1>8 DEF Sample
  <2>2. cameraFps \in 1 .. 60 /\ detectFps \in 1 .. cameraFps /\ accumulator < cameraFps
    BY <1>1, <2>1
  <2>3. accumulator + detectFps + sampled * cameraFps
            = cameraFps - detectFps + captured * detectFps
    BY <1>1, <2>1
  <2>4. sampled * cameraFps \in Int /\ captured * detectFps \in Int
    BY <1>1, <2>2
  <2>5. CASE accumulator + detectFps >= cameraFps
    <3>1. /\ accumulator' = accumulator + detectFps - cameraFps /\ sampled' = sampled + 1
          /\ pc' \in {"release", "cleanFrame"}
      BY <1>8, <2>5 DEF Sample
    <3>2. sampled' * cameraFps = sampled * cameraFps + cameraFps
      BY <1>1, <2>2, <3>1, NextFrame
    <3>3. accumulator' + sampled' * cameraFps = cameraFps - detectFps + captured * detectFps
      BY <1>1, <2>2, <2>3, <2>4, <3>1, <3>2
    <3>4. accumulator' < cameraFps
      BY <1>1, <2>2, <3>1
    <3> QED BY <2>1, <2>2, <3>1, <3>3, <3>4
  <2>6. CASE ~(accumulator + detectFps >= cameraFps)
    <3>1. accumulator' = accumulator + detectFps /\ sampled' = sampled /\ pc' = "release"
      BY <1>8, <2>6 DEF Sample
    <3>2. accumulator' + sampled' * cameraFps = cameraFps - detectFps + captured * detectFps
      BY <2>3, <3>1
    <3>3. accumulator' < cameraFps
      BY <1>1, <2>2, <2>6, <3>1
    <3> QED BY <2>1, <2>2, <3>1, <3>2, <3>3
  <2> QED BY <2>5, <2>6
<1>9. CASE CleanFrame \/ CleanDetector \/ CleanCapture \/ CleanIsp
  BY <1>1, <1>9 DEF CleanFrame, CleanDetector, CleanCapture, CleanIsp
<1>10. CASE UNCHANGED vars
  BY <1>1, <1>10 DEF vars
<1> QED BY <1>2, <1>3, <1>4, <1>5, <1>6, <1>7, <1>8, <1>9, <1>10, Steps

-----------------------------------------------------------------------------
(* The end.                                                                *)

LEMMA ToolEndsPromptly == ASSUME IInv, [Next]_vars PROVE LateInv'
<1> USE DEF Only, ToolAlone, Goto, toolVars, toolCounters, observed, ispVars, LateInv,
            Detecting, ShouldQuit
<1>1. LateInv /\ late \in Nat
  BY DEF IInv, TypeOK
<1>2. CASE CreateIsp \/ StartIsp
  BY <1>1, <1>2 DEF CreateIsp, StartIsp
<1>3. CASE InitCapture \/ CheckCapture \/ Warmup \/ WarmAcquire
  BY <1>1, <1>3 DEF InitCapture, CheckCapture, Warmup, WarmAcquire
<1>4. CASE WarmRelease \/ WarmedUp \/ CreateDetector \/ SetRate
  BY <1>1, <1>4 DEF WarmRelease, WarmedUp, CreateDetector, SetRate
<1>5. CASE Loop \/ TimeUp \/ Acquire
  BY <1>1, <1>5 DEF Loop, TimeUp, Acquire
<1>6. CASE Count
  <2>1. /\ pc = "count" /\ pc' \in {"sample", "cleanFrame"} /\ UNCHANGED <<stop, isp, aiqQuit>>
        /\ late' = IF stop \/ ShouldQuit THEN late + 1 ELSE late
    BY <1>6 DEF Count, Observe
  <2>2. late = 0
    BY <1>1, <2>1
  <2> QED BY <2>1, <2>2
<1>7. CASE Sample \/ Release \/ After
  BY <1>1, <1>7 DEF Sample, Release, After
<1>8. CASE CleanFrame \/ CleanDetector \/ CleanCapture \/ CleanIsp
  BY <1>1, <1>8 DEF CleanFrame, CleanDetector, CleanCapture, CleanIsp
<1>9. CASE Signal \/ Camera
  BY <1>1, <1>9 DEF Signal, Camera
<1>10. CASE Aiq
  BY <1>1, <1>10 DEF Aiq, IspError
<1>11. CASE UNCHANGED vars
  BY <1>1, <1>11 DEF vars
<1> QED BY <1>2, <1>3, <1>4, <1>5, <1>6, <1>7, <1>8, <1>9, <1>10, <1>11, Steps

-----------------------------------------------------------------------------
(* The camera's numbers and the gaps between them.                         *)

LEMMA SeqNumbers ==
    ASSUME IInv
    PROVE  /\ \A i \in DOMAIN filled : filled[i] \in Frames /\ filled[i].seq \in Nat
           /\ frame # NoFrame => frame \in Frames /\ frame.seq \in Nat
           /\ last \in Nat /\ shot \in Nat /\ filled \in Seq(Frames)
<1>1. /\ filled \in Seq(Frames) /\ frame \in Frames \cup {NoFrame}
      /\ shot \in Nat /\ last \in Nat
  BY CaptureAssumption DEF IInv, TypeOK, CaptureTypeOK
<1>2. \A f \in Frames : f.seq \in Nat
  BY DEF Frames
<1> QED BY <1>1, <1>2

(* The frame in hand is older than all that wait.                          *)
LEMMA TailOrdered ==
    ASSUME IInv, filled # <<>>, filled' = Tail(filled), UNCHANGED <<last, shot>>
    PROVE  /\ Head(filled) = filled[1] /\ 1 \in DOMAIN filled
           /\ last < Head(filled).seq /\ Head(filled).seq <= shot
           /\ \A i \in DOMAIN filled' :
                /\ filled'[i].seq <= shot' /\ last' < filled'[i].seq
                /\ Head(filled).seq < filled'[i].seq
                /\ frame # NoFrame => frame.seq < filled'[i].seq
                /\ \A j \in DOMAIN filled' : i < j => filled'[i].seq < filled'[j].seq
<1>1. /\ Head(filled) = filled[1] /\ 1 \in DOMAIN filled
      /\ \A i \in DOMAIN Tail(filled) :
            /\ i \in Nat /\ i + 1 \in DOMAIN filled /\ 1 < i + 1
            /\ Tail(filled)[i] = filled[i + 1]
  BY SeqNumbers
<1>2. \A i \in DOMAIN filled :
        /\ filled[i].seq <= shot /\ last < filled[i].seq
        /\ frame # NoFrame => frame.seq < filled[i].seq
        /\ \A j \in DOMAIN filled : i < j => filled[i].seq < filled[j].seq
  BY DEF IInv, OrderInv
<1>3. ASSUME NEW i \in DOMAIN filled', NEW j \in DOMAIN filled', i < j
      PROVE  filled'[i].seq < filled'[j].seq
  <2>1. i + 1 < j + 1
    BY <1>1, <1>3
  <2> QED BY <1>1, <1>2, <2>1
<1> QED BY <1>1, <1>2, <1>3

LEMMA DeviceOrder ==
    ASSUME IInv, DeviceStep, UNCHANGED last,
           pc' = "count" => (pc = "count" /\ UNCHANGED frame) \/ AcquireFrame
    PROVE  OrderInv'
<1>1. /\ last <= shot /\ (frame # NoFrame => frame.seq <= shot)
      /\ (pc = "count" => last < frame.seq)
      /\ \A i \in DOMAIN filled :
           /\ filled[i].seq <= shot /\ last < filled[i].seq
           /\ frame # NoFrame => frame.seq < filled[i].seq
           /\ \A j \in DOMAIN filled : i < j => filled[i].seq < filled[j].seq
  BY DEF IInv, OrderInv
<1>2. CASE AcquireFrame
  <2>1. filled # <<>> /\ frame' = Head(filled) /\ filled' = Tail(filled) /\ UNCHANGED shot
    BY <1>2 DEF AcquireFrame
  <2>2. last < Head(filled).seq /\ Head(filled).seq <= shot
        /\ \A i \in DOMAIN filled' :
             /\ filled'[i].seq <= shot' /\ last' < filled'[i].seq
             /\ Head(filled).seq < filled'[i].seq
             /\ \A j \in DOMAIN filled' : i < j => filled'[i].seq < filled'[j].seq
    BY <2>1, TailOrdered
  <2> QED BY <1>1, <2>1, <2>2 DEF OrderInv
<1>3. CASE AcquireFails /\ ~AcquireFrame
  <2>1. /\ frame' = NoFrame /\ UNCHANGED shot
        /\ \/ UNCHANGED <<queued, filled>>
           \/ filled # <<>> /\ filled' = Tail(filled)
    BY <1>3 DEF AcquireFails
  <2>2. pc' # "count"
    <3>1. CASE pc = "count" /\ UNCHANGED frame
      BY <2>1, <3>1 DEF IInv, PlaceInv, Reading
    <3> QED BY <1>3, <3>1
  <2>3. CASE UNCHANGED filled
    BY <1>1, <2>1, <2>2, <2>3 DEF OrderInv
  <2>4. CASE filled # <<>> /\ filled' = Tail(filled)
    <3>1. \A i \in DOMAIN filled' :
            /\ filled'[i].seq <= shot' /\ last' < filled'[i].seq
            /\ \A j \in DOMAIN filled' : i < j => filled'[i].seq < filled'[j].seq
      BY <2>1, <2>4, TailOrdered
    <3> QED BY <1>1, <2>1, <2>2, <3>1 DEF OrderInv
  <2> QED BY <2>1, <2>3, <2>4
<1>4. CASE Shoot /\ ~AcquireFrame
  <2>1. shot' = shot + 1 /\ UNCHANGED frame /\ shot \in Nat
    BY <1>4, SeqNumbers DEF Shoot
  <2>2. pc' = "count" => pc = "count"
    BY <1>4
  <2>3. CASE UNCHANGED filled
    BY <1>1, <2>1, <2>2, <2>3, SeqNumbers DEF OrderInv
  <2>4. ASSUME NEW b \in queued, filled' = Append(filled, [buf |-> b, seq |-> shot'])
        PROVE  OrderInv'
    <3> DEFINE f == [buf |-> b, seq |-> shot']
    <3>1. f.seq = shot + 1 /\ f \in Frames
      BY <1>4, <2>1, CaptureAssumption
         DEF IInv, TypeOK, CaptureTypeOK, Frames, Shoot
    <3> HIDE DEF f
    <3>2. /\ DOMAIN filled' = DOMAIN filled \cup {Len(filled) + 1}
          /\ \A i \in DOMAIN filled : filled'[i] = filled[i] /\ i < Len(filled) + 1
          /\ filled'[Len(filled) + 1] = f
      BY <2>4, <3>1, SeqNumbers, AppendFacts DEF f
    <3>3. \A i \in DOMAIN filled : filled[i].seq < shot + 1
      BY <1>1, <2>1, SeqNumbers
    <3>4. \A i \in DOMAIN filled' :
            filled'[i].seq <= shot' /\ last' < filled'[i].seq
            /\ (frame' # NoFrame => (frame').seq < filled'[i].seq)
      BY <1>1, <2>1, <3>1, <3>2, <3>3, SeqNumbers
    <3>5. \A i, j \in DOMAIN filled' : i < j => filled'[i].seq < filled'[j].seq
      <4>1. \A i \in DOMAIN filled : ~(Len(filled) + 1 < i)
        BY SeqNumbers
      <4> QED BY <1>1, <3>1, <3>2, <3>3, <4>1
    <3>6. last' <= shot' /\ (frame' # NoFrame => (frame').seq <= shot')
          /\ (pc' = "count" => last' < (frame').seq)
      BY <1>1, <2>1, <2>2, SeqNumbers
    <3> QED BY <3>4, <3>5, <3>6 DEF OrderInv
  <2> QED BY <1>4, <2>3, <2>4 DEF Shoot
<1>5. CASE (ReleaseFrame \/ ReleaseFails \/ UNCHANGED captureVars) /\ ~AcquireFrame
  <2>1. UNCHANGED <<filled, shot>> /\ frame' \in {frame, NoFrame}
    BY <1>5 DEF ReleaseFrame, ReleaseFails, captureVars
  <2>2. pc' = "count" => pc = "count" /\ UNCHANGED frame
    BY <1>5
  <2> QED BY <1>1, <2>1, <2>2 DEF OrderInv
<1>6. CASE (InitStep \/ CaptureClose) /\ ~AcquireFrame
  <2>1. UNCHANGED <<shot, frame>> /\ (UNCHANGED filled \/ filled' = <<>>)
    BY <1>6 DEF InitStep, OpenDevice, SetFormat, RequestBuffers, MapBuffer, StreamOn, Undo,
                CaptureClose, ReleaseAll
  <2>2. pc' = "count" => pc = "count"
    BY <1>6
  <2> QED BY <1>1, <2>1, <2>2 DEF OrderInv
<1> QED BY <1>2, <1>3, <1>4, <1>5, <1>6 DEF DeviceStep

LEMMA ToolOrder == ASSUME IInv, [Next]_vars PROVE OrderInv'
<1> USE DEF Only, ToolAlone, Goto, toolVars, toolCounters, observed
<1>1. CASE Count
  <2>1. /\ last' = frame.seq /\ frame.seq \in Nat /\ last < frame.seq
        /\ frame \in Frames
    BY <1>1, CountFacts
  <2>2. UNCHANGED <<filled, shot, frame>> /\ pc' # "count"
    BY <1>1 DEF Count, captureVars
  <2>3. frame # NoFrame
    BY <2>1, FrameFields
  <2> QED BY <2>1, <2>2, <2>3 DEF IInv, OrderInv
<1>2. CASE ~Count
  <2>1. UNCHANGED last
    BY <1>2, Steps DEF CreateIsp, StartIsp, InitCapture, CheckCapture, Warmup, WarmAcquire,
        WarmRelease, WarmedUp, CreateDetector, SetRate, Loop, TimeUp, Acquire, Sample,
        Release, After, CleanFrame, CleanDetector, CleanCapture, CleanIsp, Signal, Camera,
        Aiq, vars
  <2>2. pc' = "count" => (pc = "count" /\ UNCHANGED frame) \/ AcquireFrame
    <3>1. CASE Acquire
      BY <3>1 DEF Acquire
    <3>2. CASE Signal \/ Camera \/ Aiq \/ InitCapture \/ UNCHANGED vars
      BY <3>2 DEF Signal, Camera, Aiq, vars, captureVars, Shoot, InitCapture, InitStep,
                  OpenDevice, SetFormat, RequestBuffers, MapBuffer, StreamOn, Undo, ReleaseAll
    <3>3. CASE CreateIsp \/ StartIsp \/ CheckCapture \/ Warmup \/ WarmAcquire
               \/ WarmRelease \/ WarmedUp \/ CreateDetector \/ SetRate \/ Loop
      BY <3>3 DEF CreateIsp, StartIsp, CheckCapture, Warmup, WarmAcquire,
        WarmRelease, WarmedUp, CreateDetector, SetRate, Loop
    <3>4. CASE TimeUp \/ Sample \/ Release \/ After \/ CleanFrame \/ CleanDetector
               \/ CleanCapture \/ CleanIsp
      BY <3>4 DEF TimeUp, Sample, Release, After, CleanFrame, CleanDetector, CleanCapture,
                  CleanIsp
    <3> QED BY <1>2, <3>1, <3>2, <3>3, <3>4, Steps
  <2> QED BY <2>1, <2>2, ToolDevice, DeviceOrder
<1> QED BY <1>1, <1>2

LEMMA Division ==
    ASSUME NEW a \in Nat, NEW m \in Nat \ {0}
    PROVE  a \div m \in Nat /\ a % m \in Nat /\ a % m < m /\ a = (a \div m) * m + (a % m)
  OBVIOUS

LEMMA ModSmall ==
    ASSUME NEW m \in Nat \ {0}, NEW a \in Nat, a < m PROVE a % m = a
  OBVIOUS

LEMMA ModNegative ==
    ASSUME NEW m \in Nat \ {0}, NEW a \in 1 .. m - 1 PROVE (a - m) % m = a
  OBVIOUS

(* A later number with a remainder that is not larger has a larger         *)
(* quotient.                                                               *)
LEMMA Quotients ==
    ASSUME NEW m \in Nat \ {0}, NEW p \in Nat, NEW q \in Nat,
           NEW r \in Nat, NEW t \in Nat, r < m, t < m, p * m + r < q * m + t
    PROVE  /\ p * m <= q * m
           /\ t <= r => (p + 1) * m <= q * m
<1>1. p <= q
  OBVIOUS
<1>2. t <= r => p + 1 <= q
  OBVIOUS
<1> QED BY <1>1, <1>2

(* The gap the tool counts between the frames l and s.                     *)
LEMMA GapBetween ==
    ASSUME NEW m \in Nat \ {0}, NEW l \in Nat, NEW s \in Nat, l < s,
           s % m > ((l % m) + 1) % m
    PROVE  ((s % m) - (l % m) - 1) % m <= s - l - 1
<1> DEFINE p == l \div m   q == s \div m   r == l % m   t == s % m
<1>1. p \in Nat /\ r \in Nat /\ r < m /\ l = p * m + r
  BY Division
<1>2. q \in Nat /\ t \in Nat /\ t < m /\ s = q * m + t
  BY Division
<1>3. t > (r + 1) % m
  OBVIOUS
<1> SUFFICES (t - r - 1) % m <= s - l - 1
  OBVIOUS
<1> HIDE DEF p, q, r, t
<1>4. p * m \in Nat /\ q * m \in Nat /\ (p + 1) * m = p * m + m
  BY <1>1, <1>2
<1>5. p * m <= q * m /\ (t <= r => (p + 1) * m <= q * m)
  BY <1>1, <1>2, Quotients
<1>6. CASE r + 1 < m
  <2>1. (r + 1) % m = r + 1
    BY <1>1, <1>6, ModSmall
  <2>2. (t - r - 1) % m = t - r - 1
    <3>1. t - r - 1 \in Nat /\ t - r - 1 < m
      BY <1>1, <1>2, <1>3, <2>1
    <3> QED BY <3>1, ModSmall
  <2>3. t - r - 1 <= s - l - 1
    BY <1>1, <1>2, <1>4, <1>5
  <2> QED BY <2>2, <2>3
<1>7. CASE r + 1 = m
  <2>1. (r + 1) % m = 0
    BY <1>7
  <2>2. t - r - 1 = t - m /\ t \in 1 .. m - 1
    BY <1>1, <1>2, <1>3, <1>7, <2>1
  <2>3. (t - r - 1) % m = t
    BY <1>2, <2>2, ModNegative
  <2>4. t <= s - l - 1
    BY <1>1, <1>2, <1>4, <1>5, <1>7
  <2> QED BY <2>3, <2>4
<1> QED BY <1>1, <1>6, <1>7

(* Before the number has wrapped around it is the camera's.                *)
LEMMA GapExact ==
    ASSUME NEW m \in Nat \ {0}, NEW l \in Nat, NEW s \in Nat, l < s, s < m
    PROVE  IF s % m > ((l % m) + 1) % m THEN ((s % m) - (l % m) - 1) % m = s - l - 1
                                      ELSE s = l + 1
<1>1. s % m = s /\ l % m = l /\ (l + 1 < m => (l + 1) % m = l + 1)
  BY ModSmall
<1>2. s - l - 1 \in Nat /\ s - l - 1 < m /\ (s - l - 1) % m = s - l - 1
  BY ModSmall
<1>3. l + 1 < m
  OBVIOUS
<1> QED BY <1>1, <1>2, <1>3

LEMMA ToolGaps == ASSUME IInv, [Next]_vars PROVE GapInv'
<1> USE DEF Only, ToolAlone, Goto, toolVars, toolCounters, observed
<1>1. /\ gaps \in Nat /\ missed \in Nat /\ captured \in Nat /\ last \in Nat
      /\ previous \in Nat /\ SeqModulus \in Nat \ {0}
  BY ToolAssumption DEF IInv, TypeOK
<1>2. CASE Count
  <2> DEFINE s == frame.seq
             gap == ((s % SeqModulus) - (last % SeqModulus) - 1) % SeqModulus
             seen == s % SeqModulus > ((last % SeqModulus) + 1) % SeqModulus
  <2>1. /\ s \in Nat /\ last < s /\ last' = s /\ captured' = captured + 1
        /\ previous' = s % SeqModulus
        /\ missed' = IF captured = 0 THEN missed ELSE missed + (s - last - 1)
    BY <1>2, CountFacts
  <2>2. CASE captured = 0
    <3>1. gaps' = gaps
      BY <1>2, <2>2 DEF Count
    <3>2. last = 0 /\ gaps = 0 /\ missed = 0
      BY <2>2 DEF IInv, GapInv
    <3> QED BY <2>1, <2>2, <3>1, <3>2 DEF GapInv, GapsCounted
  <2>3. CASE captured # 0
    <3>1. previous = last % SeqModulus
      BY <1>1, <2>3 DEF IInv, GapInv
    <3>2. gaps' = IF seen THEN gaps + gap ELSE gaps
      <4>1. gaps' = IF s % SeqModulus > (previous + 1) % SeqModulus
                    THEN gaps + (((s % SeqModulus) - previous - 1) % SeqModulus) ELSE gaps
        BY <1>1, <1>2, <2>3 DEF Count
      <4> QED BY <3>1, <4>1
    <3>3. seen => gap <= s - last - 1
      BY <1>1, <2>1, GapBetween
    <3>4. s < SeqModulus => IF seen THEN gap = s - last - 1 ELSE s = last + 1
      BY <1>1, <2>1, GapExact
    <3>5. gap \in Int
      BY <1>1, <2>1, Mod
    <3>6. gaps <= missed /\ (last < SeqModulus => gaps = missed)
      BY DEF IInv, GapInv, GapsCounted
    <3> HIDE DEF gap, seen, s
    <3>7. missed' = missed + (s - last - 1) /\ captured' > 0
      BY <1>1, <2>1, <2>3
    <3>8. gaps' <= missed'
      BY <1>1, <2>1, <3>2, <3>3, <3>5, <3>6, <3>7
    <3>9. last' < SeqModulus => gaps' = missed'
      BY <1>1, <2>1, <3>2, <3>4, <3>5, <3>6, <3>7
    <3>10. previous' = last' % SeqModulus
      BY <2>1
    <3> QED BY <1>1, <3>7, <3>8, <3>9, <3>10 DEF GapInv, GapsCounted
  <2> QED BY <2>2, <2>3
<1>3. CASE ~Count
  <2>1. UNCHANGED <<captured, gaps, previous, observed>>
    BY <1>3, Steps DEF CreateIsp, StartIsp, InitCapture, CheckCapture, Warmup, WarmAcquire,
        WarmRelease, WarmedUp, CreateDetector, SetRate, Loop, TimeUp, Acquire, Sample,
        Release, After, CleanFrame, CleanDetector, CleanCapture, CleanIsp, Signal, Camera,
        Aiq, vars
  <2> QED BY <2>1 DEF IInv, GapInv, GapsCounted
<1> QED BY <1>2, <1>3

-----------------------------------------------------------------------------
(* The theorems.                                                           *)

LEMMA ToolStarts == Init => IInv
<1> SUFFICES ASSUME Init PROVE IInv
  OBVIOUS
<1>1. CaptureInv
  BY CaptureStart DEF Init
<1>2. TypeOK
  <2>1. CaptureTypeOK
    BY <1>1 DEF CaptureInv
  <2>2. IspTypeOK
    BY DEF Init, IspInit, IspTypeOK
  <2>3. /\ pc = "ispCreate" /\ stop \in BOOLEAN /\ detector = "none" /\ exitCode = "failure"
    BY DEF Init
  <2>4. /\ warmed = 0 /\ cameraFps = 0 /\ detectFps = 0 /\ accumulator = 0
        /\ captured = 0 /\ gaps = 0 /\ previous = 0 /\ sampled = 0
        /\ last = 0 /\ missed = 0 /\ late = 0
    BY DEF Init
  <2> QED BY <2>1, <2>2, <2>3, <2>4 DEF TypeOK
<1>3. PlaceInv
  BY DEF Init, CaptureInit, PlaceInv, Running, Reading, Detecting
<1>4. RateInv /\ LateInv
  BY DEF Init, RateInv, LateInv, Detecting
<1>5. OrderInv
  BY DEF Init, CaptureInit, OrderInv
<1>6. GapInv
  BY DEF Init, GapInv, GapsCounted
<1> QED BY <1>1, <1>2, <1>3, <1>4, <1>5, <1>6 DEF IInv

LEMMA ToolInvariant == Spec => []IInv
<1>1. IInv /\ [Next]_vars => IInv'
  BY ToolTypes, ToolCapture, ToolPlaces, ToolRates, ToolEndsPromptly, ToolOrder, ToolGaps
     DEF IInv
<1> QED BY ToolStarts, <1>1, PTL DEF Spec

(* The state is well typed (tools/live_person_detect_test/main.c).         *)
THEOREM TypesHold == Spec => []TypeOK
<1>1. IInv => TypeOK
  BY DEF IInv
<1> QED BY ToolInvariant, <1>1, PTL

(* While the tool reads a frame the driver does not write it.              *)
THEOREM FramesReadable == Spec => []FrameReadable
<1>1. ASSUME IInv PROVE FrameReadable
  <2>1. BuffersOnce
    BY <1>1 DEF IInv, CaptureInv
  <2>2. pc \in Reading => Readable
    BY <1>1 DEF IInv, CaptureInv, PlaceInv, FrameInv, Running
  <2> QED BY <2>1, <2>2 DEF FrameReadable, Reading
<1> QED BY ToolInvariant, <1>1, PTL

(* Everything is taken down in the opposite order of its start, whichever  *)
(* step failed (main.c:586-626).                                           *)
THEOREM TearsDownInOrder == Spec => []TornDownInOrder
<1>1. ASSUME IInv PROVE TornDownInOrder
  <2>1. fd => isp = "started"
    BY <1>1 DEF IInv, CaptureInv, StageInv, PlaceInv
  <2>2. detector = "live" => stage = "ready" /\ pc # "done"
    BY <1>1 DEF IInv, PlaceInv, Detecting
  <2>3. pc = "done" => isp = "none" /\ ~fd
    <3>1. pc = "done" => stage \notin {"format", "request", "map", "undo", "ready"}
      BY <1>1 DEF IInv, PlaceInv, Running, Reading
    <3> QED BY <1>1, <3>1 DEF IInv, CaptureInv, StageInv, PlaceInv
  <2>4. ~fd => mapped = {}
    BY <1>1 DEF IInv, CaptureInv, CaptureTypeOK, StageInv, AllOrNothing
  <2>5. AllOrNothing
    BY <1>1 DEF IInv, CaptureInv
  <2> QED BY <2>1, <2>2, <2>3, <2>4, <2>5 DEF TornDownInOrder
<1> QED BY ToolInvariant, <1>1, PTL

(* The frames shown to the detector are spread evenly, for any two rates.  *)
THEOREM SamplesEvenly == Spec => []SampledEvenly
<1>1. ASSUME IInv PROVE SampledEvenly
  <2> SUFFICES ASSUME pc = "loop"
               PROVE  /\ (captured - 1) * detectFps < sampled * cameraFps
                      /\ (sampled - 1) * cameraFps <= (captured - 1) * detectFps
    BY DEF SampledEvenly
  <2>1. /\ cameraFps \in 1 .. 60 /\ detectFps \in 1 .. cameraFps /\ accumulator < cameraFps
        /\ accumulator + sampled * cameraFps = cameraFps - detectFps + captured * detectFps
    BY <1>1 DEF IInv, RateInv, Detecting
  <2>2. accumulator \in Nat /\ sampled \in Nat /\ captured \in Nat
    BY <1>1 DEF IInv, TypeOK
  <2>3. /\ (captured - 1) * detectFps = captured * detectFps - detectFps
        /\ (sampled - 1) * cameraFps = sampled * cameraFps - cameraFps
        /\ captured * detectFps \in Int /\ sampled * cameraFps \in Int
    BY <2>1, <2>2
  <2> QED BY <2>1, <2>2, <2>3
<1> QED BY ToolInvariant, <1>1, PTL

(* sequence_gaps counts the frames missed and never more, however often    *)
(* the sequence number wraps around (main.c:507-515).                      *)
THEOREM GapsAreCounted == Spec => []GapsCounted
<1>1. IInv => GapsCounted
  BY DEF IInv, GapInv
<1> QED BY ToolInvariant, <1>1, PTL

(* A signal or a report of RKAIQ lets at most one more frame be counted.   *)
THEOREM StopsPromptly == Spec => []EndsPromptly
<1>1. IInv => EndsPromptly
  BY DEF IInv, LateInv, EndsPromptly
<1> QED BY ToolInvariant, <1>1, PTL

-----------------------------------------------------------------------------
(* PersonEvent: the ring, its counters, and the rule.                      *)
Ones(ring) == {i \in Positions : ring[i] = 1}
Hits(ring) == Cardinality(Ones(ring))
Put(ring, p, v) == [ring EXCEPT ![p] = v]

(* The k-th newest entry of a ring that is written at p next.              *)
At(p, k) == IF k <= p THEN p - k ELSE p - k + Window

(* The ring holds exactly the last Window samples.                         *)
Matches(ring, p, samples) ==
    \A k \in 1 .. Window : ring[At(p, k)] = Value(samples[k])

Advance(p) == IF p + 1 >= Window THEN 0 ELSE p + 1

Inv == TrackerTypeOK /\ HitsCountRing /\ ThresholdsPending

-----------------------------------------------------------------------------
(* Writing one entry of a ring changes its number of ones by what was      *)
(* written less what was overwritten.                                      *)
LEMMA HitsPut ==
    ASSUME NEW ring \in [Positions -> {0, 1}], NEW p \in Positions,
           NEW v \in {0, 1}
    PROVE  /\ Hits(ring) \in 0 .. Window
           /\ Hits(Put(ring, p, v)) = Hits(ring) + v - ring[p]
<1>1. IsFiniteSet(Positions) /\ Cardinality(Positions) = Window
  BY FS_Interval, ConfigIsValid DEF Positions
<1>2. IsFiniteSet(Ones(ring)) /\ Hits(ring) <= Window
  <2>1. Ones(ring) \in SUBSET Positions
    BY DEF Ones
  <2> QED
    BY <1>1, <2>1, FS_Subset DEF Hits
<1>3. Hits(ring) \in 0 .. Window
  <2>1. Hits(ring) \in Nat
    BY <1>2, FS_CardinalityType DEF Hits
  <2> QED
    BY <1>2, <2>1, ConfigIsValid
<1>4. p \in Ones(ring) <=> ring[p] = 1
  BY DEF Ones
<1>5. ring[p] = 0 \/ ring[p] = 1
  OBVIOUS
<1>6. CASE v = 1
  <2>1. Ones(Put(ring, p, v)) = Ones(ring) \cup {p}
    BY <1>6 DEF Ones, Put
  <2>2. Hits(Put(ring, p, v)) = IF ring[p] = 1 THEN Hits(ring) ELSE Hits(ring) + 1
    BY <1>2, <1>4, <2>1, FS_AddElement DEF Hits
  <2> QED
    BY <1>3, <1>5, <1>6, <2>2
<1>7. CASE v = 0
  <2>1. Ones(Put(ring, p, v)) = Ones(ring) \ {p}
    BY <1>7 DEF Ones, Put
  <2>2. Hits(Put(ring, p, v)) = IF ring[p] = 1 THEN Hits(ring) - 1 ELSE Hits(ring)
    BY <1>2, <1>4, <2>1, FS_RemoveElement DEF Hits
  <2> QED
    BY <1>3, <1>5, <1>7, <2>2
<1> QED
  BY <1>3, <1>6, <1>7

LEMMA HitsEmpty == Empty \in [Positions -> {0, 1}] /\ Hits(Empty) = 0
<1>1. Ones(Empty) = {}
  BY DEF Ones, Empty
<1>2. Empty \in [Positions -> {0, 1}]
  BY DEF Empty
<1> QED
  BY <1>1, <1>2, FS_EmptySet DEF Hits

(* The number of hits HitsWith computes is that of the ring it goes with,  *)
(* and a miss never completes an entry.                                    *)
LEMMA HitsWithCounts ==
    ASSUME Inv, NEW hit \in BOOLEAN
    PROVE  /\ Put(history, pos, Value(hit)) \in [Positions -> {0, 1}]
           /\ HitsWith(hit) = Hits(Put(history, pos, Value(hit)))
           /\ HitsWith(hit) \in 0 .. Window
           /\ HitsWith(hit) >= Required => hit
<1>1. Value(hit) \in {0, 1} /\ pos \in Positions
  BY DEF Value, Inv, TrackerTypeOK
<1>2. history \in [Positions -> {0, 1}]
  BY DEF Inv, TrackerTypeOK
<1>3. Put(history, pos, Value(hit)) \in [Positions -> {0, 1}]
  BY <1>1, <1>2 DEF Put
<1>4. hits = Hits(history) /\ history[pos] \in {0, 1} /\ hits \in 0 .. Window
  BY <1>1, <1>2 DEF Inv, TrackerTypeOK, HitsCountRing, Ones, Hits
<1>5. size < Window => history[pos] = 0
  BY DEF Inv, TrackerTypeOK, HitsCountRing, Positions
<1>6. HitsWith(hit) = hits + Value(hit) - history[pos]
  <2>1. CASE size < Window
    BY <1>1, <1>4, <1>5, <2>1, ConfigIsValid DEF HitsWith
  <2>2. CASE ~(size < Window)
    BY <2>2 DEF HitsWith
  <2> QED
    BY <2>1, <2>2
<1>7. Hits(Put(history, pos, Value(hit))) = hits + Value(hit) - history[pos]
  BY <1>1, <1>2, <1>4, HitsPut
<1>8. Hits(Put(history, pos, Value(hit))) \in 0 .. Window
  BY <1>1, <1>3, HitsPut
<1>9. HitsWith(hit) >= Required => hit
  BY <1>4, <1>6, ConfigIsValid DEF Value, Inv, ThresholdsPending
<1> QED
  BY <1>3, <1>6, <1>7, <1>8, <1>9
-----------------------------------------------------------------------------
LEMMA InvInit == TrackerInit => Inv
<1> SUFFICES ASSUME TrackerInit PROVE Inv
  OBVIOUS
<1>1. TrackerTypeOK
  <2>1. history \in [Positions -> {0, 1}] /\ pos \in Positions
    BY ConfigIsValid, HitsEmpty DEF TrackerInit, Positions
  <2>2. recent \in [1 .. Rule!Depth -> BOOLEAN]
    BY DEF TrackerInit, Rule!NoSamples
  <2>3. /\ size \in 0 .. Window /\ hits \in 0 .. Window
        /\ misses \in 0 .. LeaveCount /\ eventId \in 0 .. IdModulus - 1
    BY ConfigIsValid, IdModulusAssumption DEF TrackerInit
  <2>4. active \in BOOLEAN /\ event \in Events /\ state \in States
    BY DEF TrackerInit, Events, States
  <2> QED
    BY <2>1, <2>2, <2>3, <2>4 DEF TrackerTypeOK
<1>2. HitsCountRing
  BY HitsEmpty DEF TrackerInit, HitsCountRing, Hits, Ones, Empty
<1>3. ThresholdsPending
  BY ConfigIsValid DEF TrackerInit, ThresholdsPending
<1> QED
  BY <1>1, <1>2, <1>3 DEF Inv

(* What fill_result reports is a state of the tracker.                     *)
LEMMA StateTyped ==
    ASSUME active \in BOOLEAN, misses \in Nat, hits \in Nat
    PROVE  CurrentState \in States
<1>1. CASE active
  BY <1>1 DEF CurrentState, States
<1>2. CASE ~active
  BY <1>2 DEF CurrentState, States
<1> QED
  BY <1>1, <1>2

LEMMA NewestTyped ==
    ASSUME recent \in [1 .. Rule!Depth -> BOOLEAN], NEW hit \in BOOLEAN
    PROVE  Rule!Newest(hit) \in [1 .. Rule!Depth -> BOOLEAN]
  BY ConfigIsValid DEF Rule!Newest, Rule!Depth

(* The ring is empty after each event and after a reset.                   *)
LEMMA ClearedInv ==
    ASSUME history' = Empty, pos' = 0, size' = 0, hits' = 0, misses' = 0,
           active' \in BOOLEAN, eventId' \in 0 .. IdModulus - 1,
           event' \in Events, state' = CurrentState',
           recent' \in [1 .. Rule!Depth -> BOOLEAN]
    PROVE  Inv'
<1>1. (active \in BOOLEAN)' /\ (misses \in Nat)' /\ (hits \in Nat)'
  OBVIOUS
<1>2. (CurrentState \in States)'
  BY <1>1, StateTyped, PTL
<1>3. /\ history' \in [Positions -> {0, 1}] /\ pos' \in Positions
      /\ size' \in 0 .. Window /\ hits' \in 0 .. Window
      /\ misses' \in 0 .. LeaveCount
  BY HitsEmpty, ConfigIsValid DEF Positions
<1>4. TrackerTypeOK'
  BY <1>2, <1>3 DEF TrackerTypeOK
<1>5. HitsCountRing'
  BY HitsEmpty DEF HitsCountRing, Hits, Ones, Empty
<1>6. ThresholdsPending'
  BY ConfigIsValid DEF ThresholdsPending
<1> QED
  BY <1>4, <1>5, <1>6 DEF Inv

LEMMA UpdateInv == ASSUME Inv, NEW hit \in BOOLEAN, Update(hit) PROVE Inv'
<1>1. recent' \in [1 .. Rule!Depth -> BOOLEAN]
  BY NewestTyped DEF Update, Inv, TrackerTypeOK
<1>2. CASE Gather(hit)
  <2>1. /\ history' = Put(history, pos, Value(hit))
        /\ hits' = Hits(history') /\ hits' \in 0 .. Window /\ hits' < Required
        /\ history' \in [Positions -> {0, 1}]
    BY <1>2, HitsWithCounts DEF Gather, AddEntrySample, Put
  <2>2. /\ pos' \in Positions /\ size' \in 0 .. Window
        /\ size' < Window => pos' = size'
    BY <1>2, ConfigIsValid
    DEF Gather, AddEntrySample, Inv, TrackerTypeOK, HitsCountRing, Positions
  <2>3. ASSUME NEW i \in Positions, i >= size' PROVE history'[i] = 0
    BY <1>2, <2>1, <2>3, ConfigIsValid
    DEF Gather, AddEntrySample, Put, Inv, TrackerTypeOK, HitsCountRing, Positions
  <2>4. /\ active' = active /\ misses' = misses /\ eventId' = eventId
        /\ event' = "NONE" /\ state' = CurrentState'
    BY <1>2 DEF Gather, FillResult
  <2>5. (active \in BOOLEAN)' /\ (misses \in Nat)' /\ (hits \in Nat)'
    BY <2>1, <2>4, ConfigIsValid DEF Inv, TrackerTypeOK
  <2>6. (CurrentState \in States)'
    BY <2>5, StateTyped, PTL
  <2>7. TrackerTypeOK'
    BY <1>1, <2>1, <2>2, <2>4, <2>6 DEF Inv, TrackerTypeOK, Events
  <2>8. HitsCountRing'
    BY <2>1, <2>2, <2>3 DEF HitsCountRing, Hits, Ones
  <2>9. ThresholdsPending'
    BY <2>1, <2>4 DEF Inv, ThresholdsPending
  <2> QED
    BY <2>7, <2>8, <2>9 DEF Inv
<1>3. CASE Enter(hit) \/ Leave(hit)
  <2>1. /\ history' = Empty /\ pos' = 0 /\ size' = 0 /\ hits' = 0 /\ misses' = 0
        /\ active' \in BOOLEAN
    BY <1>3 DEF Enter, Leave, ClearEntryHistory
  <2>2. eventId' \in 0 .. IdModulus - 1
    BY <1>3, IdModulusAssumption DEF Enter, Leave, NextId, Inv, TrackerTypeOK
  <2>3. event' \in Events /\ state' = CurrentState'
    BY <1>3 DEF Enter, Leave, FillResult, Events
  <2> QED
    BY <1>1, <2>1, <2>2, <2>3, ClearedInv
<1>4. CASE Confirm(hit) \/ Miss(hit)
  <2>1. UNCHANGED <<entry, active, eventId>>
    BY <1>4 DEF Confirm, Miss
  <2>2. misses' \in 0 .. LeaveCount /\ misses' < LeaveCount
    BY <1>4, ConfigIsValid DEF Confirm, Miss, Inv, TrackerTypeOK
  <2>3. event' \in Events /\ state' = CurrentState'
    BY <1>4 DEF Confirm, Miss, FillResult, Events
  <2>4. (active \in BOOLEAN)' /\ (misses \in Nat)' /\ (hits \in Nat)'
    BY <2>1, <2>2, ConfigIsValid DEF Inv, TrackerTypeOK, entry
  <2>5. (CurrentState \in States)'
    BY <2>4, StateTyped, PTL
  <2>6. TrackerTypeOK'
    BY <1>1, <2>1, <2>2, <2>3, <2>5 DEF Inv, TrackerTypeOK, entry
  <2>7. HitsCountRing' /\ ThresholdsPending'
    BY <2>1, <2>2 DEF Inv, HitsCountRing, ThresholdsPending, entry
  <2> QED
    BY <2>6, <2>7 DEF Inv
<1> QED
  BY <1>2, <1>3, <1>4 DEF Update

LEMMA ResetInv == ASSUME Inv, Reset PROVE Inv'
<1>1. /\ history' = Empty /\ pos' = 0 /\ size' = 0 /\ hits' = 0 /\ misses' = 0
      /\ active' = FALSE
  BY DEF Reset, ClearEntryHistory
<1>2. eventId' \in 0 .. IdModulus - 1
  BY IdModulusAssumption DEF Reset
<1>3. event' \in Events /\ state' = CurrentState'
  BY <1>1 DEF Reset, Events, CurrentState
<1>4. recent' \in [1 .. Rule!Depth -> BOOLEAN]
  BY DEF Reset, Rule!NoSamples
<1> QED
  BY <1>1, <1>2, <1>3, <1>4, ClearedInv

LEMMA NextInv == ASSUME Inv, [TrackerNext]_trackerVars PROVE Inv'
<1>1. CASE UNCHANGED trackerVars
  <2>1. TrackerTypeOK'
    BY <1>1 DEF Inv, TrackerTypeOK, trackerVars, tracker, entry
  <2>2. HitsCountRing' /\ ThresholdsPending'
    BY <1>1 DEF Inv, HitsCountRing, ThresholdsPending, trackerVars, tracker, entry
  <2> QED
    BY <2>1, <2>2 DEF Inv
<1> QED
  BY <1>1, UpdateInv, ResetInv DEF TrackerNext

(* Type correctness, for every valid configuration.                        *)
THEOREM TypeCorrect == TrackerSpec => []TrackerTypeOK
<1>1. Inv => TrackerTypeOK
  BY DEF Inv
<1> QED
  BY <1>1, InvInit, NextInv, PTL DEF TrackerSpec

(* The running number of hits always agrees with the ring.                 *)
THEOREM RingIsCounted == TrackerSpec => []HitsCountRing
<1>1. Inv => HitsCountRing
  BY DEF Inv
<1> QED
  BY <1>1, InvInit, NextInv, PTL DEF TrackerSpec

(* No threshold is passed without the event it stands for.                 *)
THEOREM ThresholdsAreEvents == TrackerSpec => []ThresholdsPending
<1>1. Inv => ThresholdsPending
  BY DEF Inv
<1> QED
  BY <1>1, InvInit, NextInv, PTL DEF TrackerSpec

-----------------------------------------------------------------------------
(* The tracker and the rule agree on the samples: outside a stay the ring  *)
(* holds the last Window of them, within one the misses since the last hit *)
(* are counted.                                                            *)
Agreement ==
    /\ ~active => Matches(history, pos, recent)
    /\ active => recent[misses + 1] /\ \A k \in 1 .. misses : ~recent[k]

LEMMA AtIsPosition ==
    ASSUME NEW p \in Positions, NEW k \in 1 .. Window
    PROVE  At(p, k) \in Positions
  BY ConfigIsValid DEF At, Positions

LEMMA MatchesCount ==
    ASSUME NEW ring \in [Positions -> {0, 1}], NEW p \in Positions,
           NEW samples \in [1 .. Rule!Depth -> BOOLEAN],
           Matches(ring, p, samples)
    PROVE  Cardinality({k \in 1 .. Window : samples[k]}) = Hits(ring)
<1> DEFINE S == {k \in 1 .. Window : samples[k]}
           f == [k \in S |-> At(p, k)]
<1>1. IsFiniteSet(S)
  <2>1. IsFiniteSet(1 .. Window) /\ S \in SUBSET (1 .. Window)
    BY FS_Interval, ConfigIsValid
  <2> QED
    BY <2>1, FS_Subset
<1>2. ASSUME NEW k \in S PROVE At(p, k) \in Ones(ring)
  BY AtIsPosition DEF Matches, Value, Ones
<1>3. ASSUME NEW j \in S, NEW k \in S, At(p, j) = At(p, k) PROVE j = k
  BY <1>3, ConfigIsValid DEF At, Positions
<1>4. ASSUME NEW i \in Ones(ring) PROVE \E k \in S : At(p, k) = i
  <2> DEFINE k == IF i < p THEN p - i ELSE p - i + Window
  <2>1. k \in 1 .. Window /\ At(p, k) = i
    BY ConfigIsValid DEF At, Ones, Positions
  <2>2. samples[k]
    <3>1. Value(samples[k]) = 1
      BY <2>1 DEF Matches, Ones
    <3> QED
      BY <3>1 DEF Value
  <2> QED
    BY <2>1, <2>2
<1>5. f \in Bijection(S, Ones(ring))
  <2>1. f \in [S -> Ones(ring)]
    BY <1>2
  <2>2. f \in Injection(S, Ones(ring))
    BY <1>3, <2>1 DEF Injection, IsInjective
  <2>3. f \in Surjection(S, Ones(ring))
    BY <1>4, <2>1 DEF Surjection
  <2> QED
    BY <2>2, <2>3 DEF Bijection
<1>6. ExistsBijection(S, Ones(ring))
  BY <1>5 DEF ExistsBijection
<1> QED
  BY <1>1, <1>6, FS_Bijection DEF Hits

(* Putting a sample into the ring keeps it the last Window samples.        *)
LEMMA MatchesPut ==
    ASSUME NEW ring \in [Positions -> {0, 1}], NEW p \in Positions,
           recent \in [1 .. Rule!Depth -> BOOLEAN], NEW hit \in BOOLEAN,
           Matches(ring, p, recent)
    PROVE  Matches(Put(ring, p, Value(hit)), Advance(p), Rule!Newest(hit))
<1> DEFINE new == Put(ring, p, Value(hit))
<1> SUFFICES ASSUME NEW k \in 1 .. Window
             PROVE  new[At(Advance(p), k)] = Value(Rule!Newest(hit)[k])
  BY DEF Matches
<1>1. k \in 1 .. Rule!Depth
  BY ConfigIsValid DEF Rule!Depth
<1>2. CASE k = 1
  <2>1. At(Advance(p), k) = p
    BY <1>2, ConfigIsValid DEF At, Advance, Positions
  <2>2. Rule!Newest(hit)[k] = hit
    BY <1>1, <1>2 DEF Rule!Newest
  <2> QED
    BY <2>1, <2>2 DEF Put
<1>3. CASE k # 1
  <2>1. /\ k - 1 \in 1 .. Window
        /\ At(Advance(p), k) = At(p, k - 1) /\ At(p, k - 1) # p
    BY <1>3, ConfigIsValid DEF At, Advance, Positions
  <2>2. Rule!Newest(hit)[k] = recent[k - 1]
    BY <1>1, <1>3 DEF Rule!Newest
  <2>3. At(p, k - 1) \in Positions
    BY <2>1, AtIsPosition
  <2>4. ring[At(p, k - 1)] = Value(recent[k - 1])
    BY <2>1 DEF Matches
  <2> QED
    BY <2>1, <2>2, <2>3, <2>4 DEF Put
<1> QED
  BY <1>2, <1>3

LEMMA MatchesEmpty ==
    ASSUME NEW samples, \A k \in 1 .. Window : samples[k] = FALSE
    PROVE  Matches(Empty, 0, samples)
<1> SUFFICES ASSUME NEW k \in 1 .. Window PROVE Empty[At(0, k)] = Value(samples[k])
  BY DEF Matches
<1>1. At(0, k) \in Positions
  BY AtIsPosition, ConfigIsValid DEF Positions
<1> QED
  BY <1>1 DEF Empty, Value

(* The rule's Cardinality, seen through the instance, is the library's.    *)
LEMMA SameCardinality == \A S : Rule!Cardinality(S) = Cardinality(S)
  BY DEF Rule!Cardinality, Cardinality

LEMMA AgreementInit == TrackerInit => Agreement
<1> SUFFICES ASSUME TrackerInit PROVE Agreement
  OBVIOUS
<1>1. \A k \in 1 .. Window : recent[k] = FALSE
  BY ConfigIsValid DEF TrackerInit, Rule!NoSamples, Rule!Depth
<1>2. Matches(Empty, 0, recent)
  BY <1>1, MatchesEmpty
<1> QED
  BY <1>2 DEF TrackerInit, Agreement

(* The ring decides an entry as the rule does.                             *)
LEMMA EntryDecision ==
    ASSUME Inv, Agreement, ~active, NEW hit \in BOOLEAN
    PROVE  /\ Matches(Put(history, pos, Value(hit)), Advance(pos), Rule!Newest(hit))
           /\ Rule!EnoughHits(Rule!Newest(hit)) <=> HitsWith(hit) >= Required
<1> DEFINE new == Put(history, pos, Value(hit))
<1>1. /\ history \in [Positions -> {0, 1}] /\ pos \in Positions
      /\ recent \in [1 .. Rule!Depth -> BOOLEAN]
  BY DEF Inv, TrackerTypeOK
<1>2. Matches(new, Advance(pos), Rule!Newest(hit))
  BY <1>1, MatchesPut DEF Agreement
<1>3. Advance(pos) \in Positions
  BY <1>1, ConfigIsValid DEF Advance, Positions
<1>4. Rule!Newest(hit) \in [1 .. Rule!Depth -> BOOLEAN]
  BY <1>1, NewestTyped
<1>5. Cardinality({k \in 1 .. Window : Rule!Newest(hit)[k]}) = Hits(new)
  BY <1>2, <1>3, <1>4, HitsWithCounts, MatchesCount
<1> QED
  BY <1>2, <1>5, HitsWithCounts, SameCardinality DEF Rule!EnoughHits

(* Every update is a step of the rule, and leaves the agreement intact.    *)
LEMMA UpdateRefines ==
    ASSUME Inv, Agreement, LeaveCount >= Window,
           NEW hit \in BOOLEAN, Update(hit)
    PROVE  Agreement' /\ Rule!RuleSample(hit)
<1>1. /\ recent' = Rule!Newest(hit)
      /\ recent'[1] = hit
      /\ \A k \in 2 .. LeaveCount : recent'[k] = recent[k - 1]
  BY ConfigIsValid DEF Update, Rule!Newest, Rule!Depth
<1>2. misses \in Nat /\ misses < LeaveCount
  BY ConfigIsValid DEF Inv, TrackerTypeOK, ThresholdsPending
<1>3. CASE Gather(hit)
  <2>1. ~active /\ ~active' /\ event' = "NONE" /\ HitsWith(hit) < Required
    BY <1>3 DEF Gather, FillResult, Inv, TrackerTypeOK
  <2>2. history' = Put(history, pos, Value(hit)) /\ pos' = Advance(pos)
    BY <1>3 DEF Gather, AddEntrySample, Put, Advance
  <2>3. Matches(history', pos', recent') /\ ~Rule!EnoughHits(recent')
    <3>1. HitsWith(hit) \in Nat /\ Required \in Nat
      BY HitsWithCounts, ConfigIsValid
    <3> QED
      BY <1>1, <2>1, <2>2, <3>1, EntryDecision
  <2>4. active' = FALSE
    BY <1>3, <2>1 DEF Gather, Inv, TrackerTypeOK
  <2> QED
    BY <1>1, <2>1, <2>3, <2>4 DEF Agreement, Rule!RuleSample
<1>4. CASE Enter(hit)
  <2>1. /\ ~active /\ active' = TRUE /\ event' = "ENTER" /\ misses' = 0
        /\ HitsWith(hit) >= Required
    BY <1>4 DEF Enter, FillResult
  <2>2. recent'[1] /\ Rule!EnoughHits(recent')
    BY <1>1, <2>1, HitsWithCounts, EntryDecision
  <2>3. \A k \in 1 .. misses' : ~recent'[k]
    BY <2>1
  <2>4. recent'[misses' + 1]
    BY <2>1, <2>2
  <2> QED
    BY <1>1, <2>1, <2>2, <2>3, <2>4 DEF Agreement, Rule!RuleSample
<1>5. CASE Confirm(hit)
  <2>1. active /\ active' = TRUE /\ event' = "PRESENT" /\ misses' = 0 /\ hit
    BY <1>5 DEF Confirm, FillResult, Inv, TrackerTypeOK
  <2>2. recent'[1] /\ 1 \in 1 .. LeaveCount
    BY <1>1, <2>1, ConfigIsValid
  <2>3. ~Rule!EnoughMisses(recent')
    BY <2>2 DEF Rule!EnoughMisses
  <2>4. \A k \in 1 .. misses' : ~recent'[k]
    BY <2>1
  <2>5. recent'[misses' + 1]
    BY <2>1, <2>2
  <2> QED
    BY <1>1, <2>1, <2>3, <2>4, <2>5 DEF Agreement, Rule!RuleSample
<1>6. CASE Miss(hit)
  <2>1. /\ active /\ active' = TRUE /\ event' = "PRESENT" /\ ~hit
        /\ misses' = misses + 1 /\ misses + 1 < LeaveCount
    BY <1>6 DEF Miss, FillResult, Inv, TrackerTypeOK
  <2>2. recent'[misses' + 1] /\ misses' + 1 \in 1 .. LeaveCount
    BY <1>1, <1>2, <2>1, ConfigIsValid DEF Agreement
  <2>3. ASSUME NEW k \in 1 .. misses' PROVE ~recent'[k]
    <3>1. CASE k = 1
      BY <1>1, <2>1, <3>1
    <3>2. CASE k # 1
      BY <1>1, <1>2, <2>1, <3>2, ConfigIsValid DEF Agreement
    <3> QED
      BY <3>1, <3>2
  <2>4. ~Rule!EnoughMisses(recent')
    BY <2>2 DEF Rule!EnoughMisses
  <2> QED
    BY <1>1, <2>1, <2>2, <2>3, <2>4 DEF Agreement, Rule!RuleSample
<1>7. CASE Leave(hit)
  <2>1. /\ active /\ active' = FALSE /\ event' = "LEAVE" /\ ~hit
        /\ misses + 1 = LeaveCount /\ history' = Empty /\ pos' = 0
    BY <1>2, <1>7, ConfigIsValid DEF Leave, FillResult, ClearEntryHistory
  <2>2. ASSUME NEW k \in 1 .. LeaveCount PROVE ~recent'[k]
    <3>1. CASE k = 1
      BY <1>1, <2>1, <3>1
    <3>2. CASE k # 1
      BY <1>1, <1>2, <2>1, <3>2, ConfigIsValid DEF Agreement
    <3> QED
      BY <3>1, <3>2
  <2>3. \A k \in 1 .. Window : recent'[k] = FALSE
    <3>1. recent' \in [1 .. Rule!Depth -> BOOLEAN]
      BY <1>1, NewestTyped DEF Inv, TrackerTypeOK
    <3> QED
      BY <2>2, <3>1, ConfigIsValid DEF Rule!Depth
  <2>4. Matches(history', pos', recent')
    BY <2>1, <2>3, MatchesEmpty
  <2>5. Rule!EnoughMisses(recent')
    BY <2>2 DEF Rule!EnoughMisses
  <2> QED
    BY <1>1, <2>1, <2>4, <2>5 DEF Agreement, Rule!RuleSample
<1> QED
  BY <1>3, <1>4, <1>5, <1>6, <1>7 DEF Update

LEMMA ResetRefines == ASSUME Reset PROVE Agreement' /\ Rule!RuleReset
<1>1. \A k \in 1 .. Window : recent'[k] = FALSE
  BY ConfigIsValid DEF Reset, Rule!NoSamples, Rule!Depth
<1>2. Matches(Empty, 0, recent')
  BY <1>1, MatchesEmpty
<1> QED
  BY <1>2 DEF Reset, ClearEntryHistory, Agreement, Rule!RuleReset

(* The tracker implements the rule on raw samples: forgetting the samples  *)
(* before an event never changes a decision.  With an exit shorter than    *)
(* the entry window it would: hits older than the exit could then count.   *)
THEOREM RuleImplemented == ASSUME LeaveCount >= Window PROVE TrackerSpec => ImplementsRule
<1>1. TrackerInit => Inv /\ Agreement /\ Rule!RuleInit
  BY InvInit, AgreementInit DEF TrackerInit, Rule!RuleInit
<1>2. Inv /\ Agreement /\ [TrackerNext]_trackerVars =>
          Inv' /\ Agreement' /\ [Rule!RuleNext]_(Rule!ruleVars)
  <2> SUFFICES ASSUME Inv, Agreement, [TrackerNext]_trackerVars
               PROVE  Inv' /\ Agreement' /\ [Rule!RuleNext]_(Rule!ruleVars)
    OBVIOUS
  <2>1. Inv'
    BY NextInv
  <2>2. CASE \E hit \in BOOLEAN : Update(hit)
    BY <2>1, <2>2, UpdateRefines DEF Rule!RuleNext
  <2>3. CASE Reset
    BY <2>1, <2>3, ResetRefines DEF Rule!RuleNext
  <2>4. CASE UNCHANGED trackerVars
    BY <2>1, <2>4 DEF trackerVars, tracker, entry, Agreement, Matches, Rule!ruleVars
  <2> QED
    BY <2>1, <2>2, <2>3, <2>4 DEF TrackerNext
<1> QED
  BY <1>1, <1>2, PTL DEF TrackerSpec, ImplementsRule, Rule!RuleSpec

(* An event id names one stay, wrap around of the counter included.        *)
THEOREM IdsNameStays == TrackerSpec => IdNamesStay
<1> DEFINE Step == \/ eventId' = eventId /\ event' # "ENTER"
                   \/ eventId' # eventId /\ event' = "ENTER" /\ eventId' # 0
                   \/ eventId' = 0 /\ event' = "NONE" /\ ~active'
<1>1. Inv /\ [TrackerNext]_trackerVars => [Step]_trackerVars
  <2> SUFFICES ASSUME Inv, TrackerNext PROVE Step
    OBVIOUS
  <2>1. eventId \in 0 .. IdModulus - 1
    BY DEF Inv, TrackerTypeOK
  <2>2. NextId # eventId /\ NextId # 0
    BY <2>1, IdModulusAssumption DEF NextId
  <2>3. ASSUME NEW hit \in BOOLEAN, Update(hit) PROVE Step
    BY <2>2, <2>3 DEF Update, Gather, Enter, Confirm, Miss, Leave, FillResult
  <2>4. CASE Reset
    BY <2>4 DEF Reset
  <2> QED
    BY <2>3, <2>4 DEF TrackerNext
<1> QED
  BY <1>1, InvInit, NextInv, PTL DEF TrackerSpec, IdNamesStay
=============================================================================
