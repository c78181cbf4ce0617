---------------------------- MODULE MediaPipeline ---------------------------
(***************************************************************************)
(* What the media thread of rtsp/rtsp_media.c does with the camera's       *)
(* frames: the buffers of the V4L2 queue, the encoder's pictures, the gate *)
(* that waits for a fresh IDR, the MP4 recording and the RTP stream.       *)
(*                                                                         *)
(* The camera and the encoder are external.  The driver fills queued       *)
(* buffers in order and numbers every frame it exposes, the dropped ones   *)
(* too; the encoder, configured with gop RTSP_MEDIA_GOP, makes every Gop-th*)
(* picture it takes an IDR, with or without the parameter sets.  The life  *)
(* of the thread, and when media_should_run turns false, are the subject   *)
(* of RtspMedia: here a session may end at every check.                    *)
(***************************************************************************)
EXTENDS Integers, Sequences

CONSTANTS
    Buffers,        \* capture.buffer_count
    Gop,            \* RTSP_MEDIA_GOP
    MaxSequence     \* bound: the number of the camera's last frame

ASSUME BuffersAssumption == Buffers \in Nat \ {0}
ASSUME GopAssumption == Gop \in Nat \ {0}
ASSUME MaxSequenceAssumption == MaxSequence \in Nat \ {0}

VARIABLES
    shot,           \* the sequence number of the camera's newest frame
    queued, ready,  \* buffers the driver may fill; frames it has filled
    lost,           \* buffers no longer in the queue, nor coming back to it
    hand,           \* the frame of the buffer the thread holds
    n,              \* pictures the encoder has taken, the bootstrap included
    recording,      \* media->recording_enabled
    place,          \* where media_thread is
    since,          \* shot when the session began
    drained,        \* i of drain_stale_capture_buffers
    au,             \* the access unit of this iteration
    waiting,        \* waiting_for_idr
    prepend,        \* prepend_parameter_sets
    captured, gaps, \* captured_frame_count, sequence_gap_count
    first, last,    \* first_live_sequence, last_capture_sequence
    sent, recorded  \* the pictures of the session, whole, in order

camera   == <<shot, queued, ready>>
buffers  == <<queued, ready, lost, hand>>
counters == <<captured, gaps, first, last>>
gate     == <<waiting, prepend>>
output   == <<sent, recorded>>
pipelineVars == <<shot, queued, ready, lost, hand, n, recording, place, since,
                  drained, au, waiting, prepend, captured, gaps, first, last,
                  sent, recorded>>

NoFrame   == 0      \* frames are numbered from 1
NoPicture == [seq |-> NoFrame, n |-> 0, params |-> FALSE]

IsIdr(picture) == picture.n % Gop = 0

Goto(from, to) == place = from /\ place' = to

(* rtsp_media_init has encoded one frame, for its parameter sets, and      *)
(* given its buffer back.                                                  *)
PipelineInit ==
    /\ shot = 1 /\ queued = Buffers /\ ready = <<>> /\ lost = 0 /\ hand = NoFrame
    /\ n = 1
    /\ recording \in BOOLEAN
    /\ place = "stopped" /\ since = 1 /\ drained = 0 /\ au = NoPicture
    /\ waiting = TRUE /\ prepend = FALSE
    /\ captured = 0 /\ gaps = 0 /\ first = NoFrame /\ last = NoFrame
    /\ sent = <<>> /\ recorded = <<>>

-----------------------------------------------------------------------------
(* The camera: a new frame fills the oldest queued buffer, unless there is *)
(* none or the ISP drops the frame.                                        *)
Shoot ==
    /\ shot < MaxSequence
    /\ shot' = shot + 1
    /\ \/ UNCHANGED <<queued, ready>>
       \/ queued > 0 /\ queued' = queued - 1 /\ ready' = Append(ready, shot')
    /\ UNCHANGED <<lost, hand, n, recording, place, since, drained, au, gate,
                   counters, output>>

(* VIDIOC_DQBUF and VIDIOC_QBUF, as the thread calls them.                 *)
Dequeue ==
    /\ ready # <<>>
    /\ hand' = Head(ready) /\ ready' = Tail(ready)
    /\ UNCHANGED <<queued, lost>>

Requeue ==
    /\ hand' = NoFrame /\ queued' = queued + 1
    /\ UNCHANGED <<ready, lost>>

RequeueFails ==
    /\ hand' = NoFrame /\ lost' = lost + 1
    /\ UNCHANGED <<ready, queued>>

(* The driver returns an index the program does not know, or metadata that *)
(* does not fit the mapping: the buffer is kept out, or given back.        *)
DequeueInvalid ==
    /\ ready # <<>> /\ ready' = Tail(ready)
    /\ \/ queued' = queued + 1 /\ UNCHANGED lost
       \/ lost' = lost + 1 /\ UNCHANGED queued
    /\ UNCHANGED hand

-----------------------------------------------------------------------------
(* Mutants: what the named definition below would be with a plausible bug. *)
(* No action of the specification uses them.                               *)

(* The loop over the buffers ends one short.                               *)
DrainsOneShort ==
    /\ Goto("drain", "check")
    /\ ready = <<>> \/ drained >= Buffers - 1
    /\ UNCHANGED <<shot, buffers, n, recording, since, drained, au, gate,
                   counters, output>>

(* A frame the encoder refuses is not given back.                          *)
EncodeFailsEarly ==
    /\ Goto("encode", "exit")
    /\ n' \in {n, n + 1} /\ n' <= shot
    /\ UNCHANGED <<shot, buffers, recording, since, drained, au, gate,
                   counters, output>>

(* The gap counts the frame itself.                                        *)
GapWithArrival(seq) == IF captured > 0 /\ seq > last + 1 THEN seq - last ELSE 0

(* The gate never opens for good.                                          *)
AcceptAgain ==
    /\ place = "gate"
    /\ waiting => IsIdr(au)
    /\ prepend' = waiting /\ place' = "record"
    /\ UNCHANGED waiting

-----------------------------------------------------------------------------
(* PLAY: the thread starts, with its counters and its file afresh.         *)
Start ==
    /\ Goto("stopped", "open")
    /\ since' = shot /\ drained' = 0 /\ au' = NoPicture
    /\ waiting' = TRUE /\ prepend' = FALSE
    /\ captured' = 0 /\ gaps' = 0 /\ first' = NoFrame /\ last' = NoFrame
    /\ sent' = <<>> /\ recorded' = <<>>
    /\ UNCHANGED <<shot, buffers, n, recording>>

(* The RTP socket and, if configured, the muxer.                           *)
Open ==
    /\ place = "open" /\ place' \in {"drain", "exit"}
    /\ UNCHANGED <<shot, buffers, n, recording, since, drained, au, gate,
                   counters, output>>

(* drain_stale_capture_buffers: frames are taken without waiting and given *)
(* back, as many as there are buffers at most.                             *)
DrainTake ==
    /\ Goto("drain", "drainGive")
    /\ drained < Buffers /\ drained' = drained + 1
    /\ Dequeue
    /\ UNCHANGED <<shot, n, recording, since, au, gate, counters, output>>

DrainGive ==
    /\ place = "drainGive"
    /\ \/ Requeue /\ place' = "drain"
       \/ RequeueFails /\ place' = "exit"
    /\ UNCHANGED <<shot, n, recording, since, drained, au, gate, counters,
                   output>>

DrainEnds ==
    /\ Goto("drain", "check")
    /\ ready = <<>> \/ drained >= Buffers
    /\ UNCHANGED <<shot, buffers, n, recording, since, drained, au, gate,
                   counters, output>>

DrainFails ==
    /\ Goto("drain", "exit")
    /\ drained < Buffers
    /\ DequeueInvalid \/ UNCHANGED buffers
    /\ UNCHANGED <<shot, n, recording, since, drained, au, gate, counters,
                   output>>

(* media_should_run.                                                       *)
ShouldRun ==
    /\ place = "check" /\ place' \in {"capture", "exit"}
    /\ UNCHANGED <<shot, buffers, n, recording, since, drained, au, gate,
                   counters, output>>

(* capture_and_encode, in three steps: the camera takes frames meanwhile.  *)
Capture ==
    /\ Goto("capture", "encode")
    /\ Dequeue
    /\ UNCHANGED <<shot, n, recording, since, drained, au, gate, counters,
                   output>>

(* A timeout, an error of select or DQBUF, or an invalid buffer.           *)
CaptureFails ==
    /\ Goto("capture", "exit")
    /\ DequeueInvalid \/ UNCHANGED buffers
    /\ UNCHANGED <<shot, n, recording, since, drained, au, gate, counters,
                   output>>

Encode ==
    /\ Goto("encode", "release")
    /\ n' = n + 1
    /\ \E params \in BOOLEAN :
        /\ params => n % Gop = 0
        /\ au' = [seq |-> hand, n |-> n, params |-> params]
    /\ UNCHANGED <<shot, buffers, recording, since, drained, gate, counters,
                   output>>

(* The frame is too small, or the encoder fails, before or after it has    *)
(* taken the frame.                                                        *)
EncodeFails ==
    /\ Goto("encode", "release")
    /\ n' \in {n, n + 1}
    /\ au' = NoPicture
    /\ UNCHANGED <<shot, buffers, recording, since, drained, gate, counters,
                   output>>

Release ==
    /\ place = "release"
    /\ \/ /\ Requeue
          /\ place' = IF au = NoPicture THEN "exit" ELSE "gate"
          /\ UNCHANGED au
       \/ RequeueFails /\ place' = "exit" /\ au' = NoPicture
    /\ UNCHANGED <<shot, n, recording, since, drained, gate, counters, output>>

(* The sequence numbers the camera skipped since the previous frame.       *)
Gap(seq) == IF captured > 0 /\ seq > last + 1 THEN seq - (last + 1) ELSE 0

Count ==
    /\ captured' = captured + 1
    /\ first' = IF captured = 0 THEN au.seq ELSE first
    /\ gaps' = gaps + Gap(au.seq)
    /\ last' = au.seq

(* The gate: pictures before the first IDR are dropped.                    *)
Accept ==
    /\ place = "gate"
    /\ waiting => IsIdr(au)
    /\ waiting' = FALSE /\ prepend' = waiting /\ place' = "record"

Discard ==
    /\ place = "gate"
    /\ waiting /\ ~IsIdr(au)
    /\ place' = "check" /\ prepend' = FALSE
    /\ UNCHANGED waiting

Judge ==
    /\ Accept \/ Discard
    /\ Count
    /\ UNCHANGED <<shot, buffers, n, recording, since, drained, au, output>>

(* write_mp4_access_unit: the first picture gets the parameter sets if it  *)
(* does not have them, and must be an IDR.                                 *)
Record ==
    /\ Goto("record", "send")
    /\ IF recording
       THEN /\ sent = <<>> => IsIdr(au)
            /\ recorded' = Append(recorded, [au EXCEPT !.params = @ \/ sent = <<>>])
       ELSE UNCHANGED recorded
    /\ UNCHANGED <<shot, buffers, n, recording, since, drained, au, gate,
                   counters, sent>>

RecordFails ==
    /\ Goto("record", "exit")
    /\ recording
    /\ UNCHANGED <<shot, buffers, n, recording, since, drained, au, gate,
                   counters, output>>

(* send_access_unit, with the parameter sets it puts before the picture.   *)
SentPicture == [au EXCEPT !.params = @ \/ prepend]

Send ==
    /\ Goto("send", "check")
    /\ sent' = Append(sent, SentPicture)
    /\ UNCHANGED <<shot, buffers, n, recording, since, drained, au, gate,
                   counters, recorded>>

(* More than H264_ANNEXB_MAX_NALUS units, or a send that fails: what was   *)
(* sent of the picture is not a picture.                                   *)
SendFails ==
    /\ Goto("send", "exit")
    /\ UNCHANGED <<shot, buffers, n, recording, since, drained, au, gate,
                   counters, output>>

(* The socket and the muxer are closed.                                    *)
Finish ==
    /\ Goto("exit", "stopped")
    /\ UNCHANGED <<shot, buffers, n, recording, since, drained, au, gate,
                   counters, output>>

PipelineNext ==
    \/ Shoot
    \/ Start \/ Open
    \/ DrainTake \/ DrainGive \/ DrainEnds \/ DrainFails
    \/ ShouldRun
    \/ Capture \/ CaptureFails \/ Encode \/ EncodeFails \/ Release
    \/ Judge
    \/ Record \/ RecordFails \/ Send \/ SendFails
    \/ Finish

PipelineSpec == PipelineInit /\ [][PipelineNext]_pipelineVars

-----------------------------------------------------------------------------
Places == {"stopped", "open", "drain", "drainGive", "check", "capture",
           "encode", "release", "gate", "record", "send", "exit"}

PipelineTypeOK ==
    /\ shot \in 1..MaxSequence /\ n \in Nat
    /\ queued \in 0..Buffers /\ lost \in 0..Buffers
    /\ ready \in Seq(1..MaxSequence) /\ hand \in 0..MaxSequence
    /\ recording \in BOOLEAN /\ place \in Places
    /\ since \in 1..MaxSequence /\ drained \in 0..Buffers
    /\ au \in [seq : 0..MaxSequence, n : Nat, params : BOOLEAN]
    /\ waiting \in BOOLEAN /\ prepend \in BOOLEAN
    /\ captured \in Nat /\ gaps \in Nat
    /\ first \in 0..MaxSequence /\ last \in 0..MaxSequence
    /\ sent \in Seq([seq : 0..MaxSequence, n : Nat, params : BOOLEAN])
    /\ recorded \in Seq([seq : 0..MaxSequence, n : Nat, params : BOOLEAN])

(* Every path of a session, the failing ones too, gives the buffer it took *)
(* back to the driver, and keeps none when it leaves: a buffer is in the   *)
(* queue, in the thread's hand between DQBUF and QBUF, or was lost to a    *)
(* call of the driver that failed.                                         *)
Holding == {"drainGive", "encode", "release"}

InHand == IF hand = NoFrame THEN 0 ELSE 1

BuffersConserved ==
    /\ hand # NoFrame <=> place \in Holding
    /\ queued + Len(ready) + InHand + lost = Buffers

(* The frames of a session were taken after PLAY: what the buffers held    *)
(* while the server waited is drained first (rtsp_media.c:280-284), though *)
(* the camera goes on filling the buffers that the drain gives back.       *)
Live == {"check", "capture", "encode", "release", "gate", "record", "send"}

FreshFrames ==
    place \in Live =>
        /\ \A i \in 1..Len(ready) : ready[i] > since
        /\ hand # NoFrame => hand > since
        /\ au # NoPicture => au.seq > since

(* At the end of a session, captured frames and gaps add up to the camera  *)
(* frames from the first to the last one: none is counted twice or missed, *)
(* whichever the camera or the driver dropped.                             *)
GapsCounted ==
    captured > 0 => captured + gaps = last - first + 1

(* A session waits for its IDR for less than one group of pictures,        *)
(* whatever earlier sessions, refused frames and lost packets left in the  *)
(* encoder.                                                                *)
IdrWithinGop == waiting => captured < Gop

(* The session is the stream LiveStream promises: fresh, decodable from    *)
(* its first picture on, without a hole, and recorded as it was sent.      *)
Stream == INSTANCE LiveStream

ImplementsStream == Stream!StreamSpec
=============================================================================
