# mini_rtsp_server: specifications, model checking and proofs

This directory holds TLA+ specifications of `mini_rtsp_server`, a C program for
an RV1106-class camera board that captures NV12 frames from V4L2, encodes them
with Rockchip MPP, streams H.264 over RTP/UDP to one RTSP client at a time and
records the same stream to fragmented MP4. Beside the server the repository has
a person-detection tool on the same capture code and a small event state
machine. All paths below are relative to `src/mini_rtsp_server_project/`.

## Inventory

| Part | State | Operations | Talks to |
|---|---|---|---|
| `main.c` | signal flag, self-pipe, ISP handle | parse options, install handlers, run, destroy | ISP, server, signal handler |
| `isp/isp_control.c` | context, flags `prepared`, `started`, error flag of a callback thread | create, start, stop, destroy, should_quit | RKAIQ library |
| `rtsp/rtsp_server.c` | listening and client sockets, request buffer, status | accept loop, session loop, handlers, cleanup | client, media object, self-pipe |
| `rtsp/rtsp_session.c` | ports, `playing` | init, parse transport | server, media thread |
| `rtsp/rtsp_media.c` | lock, `thread_running`, `stop_requested`, capture, encoder, sender, muxer, SPS/PPS, bootstrap frame | init, start, stop, close; thread: drain, capture, encode, record, send | everything below |
| `capture/v4l2_capture.c` | device, mapped buffers, who owns each | init, acquire, release, get_frame, close | V4L2 driver |
| `encoder/mpp_encoder.c` | MPP context, buffer group, ring packet copy | init, encode, close | MPP |
| `muxer/mp4_muxer.c` | output context, time base, frame count | init, write, close | vendor muxer |
| `rtp/`, `h264/` | sequence number, timestamp | packetise (single NAL, FU-A), Annex B scanning | UDP socket |
| `sdp/` | none | base64, SDP text | DESCRIBE |
| `event/person_event.c` | ring of the last samples, state, event id | update, reset | detection tool |
| `tools/live_person_detect_test/` | slots handed to the detector, sampling accumulator, statistics | submit, result and release callbacks, wait, destroy | ROCKIVA library threads |
| `tools/person_pet_detect_test/` | one picture, one result | detect, wait | ROCKIVA library threads |

Threads: the control thread (`main`, the RTSP server), at most one media
thread, the RKAIQ error callback and, in the detection tool, the library's
result and release callbacks. The control thread and the media thread share the
`RTSPMedia` object (partly under `media->lock`) and the `RTSPSession`, a local
variable of the accept loop. The signal handler shares a flag and a pipe with
the control thread, and the flag with the media thread.

What is hard here: the media thread may end at any moment, by itself or because
of a stop, a close or a signal, and points into the control thread's stack; a
signal must wake a thread that is about to block; initialisation fails at any
stage and is undone by the same function that ends a normal run; the encoder
and the capture queue are pipelines with stale content; the detection library
calls back from its own threads in orders the tool does not control; UDP loses
and reorders packets, TCP cuts requests anywhere; and the byte-level code (start
codes, fragments, a ring that wraps, Base64) has its own boundaries.

What makes each part correct, and where it is stated:

| Part | Correct when | Stated in |
|---|---|---|
| media object and thread | the thread never outlives what it points to, is created once and joined once; every call returns | `RtspMedia` |
| server loop | it keeps the media object's contract, leaves nothing between sessions or at return | `RtspServer` |
| program | RKAIQ outlives the camera on every path; a signal ends the program wherever it is | `Program`, `IspControl` |
| frame pipeline | a session is fresh, decodable, without holes, recorded as sent; no buffer is kept; gaps add up | `MediaPipeline`, `LiveStream` |
| encoder wrapper | a packet is copied whole wherever in the ring it lies, and everything is returned | `MppEncoder` |
| RTP | packets spell the pictures; a receiver shows only whole ones, and a loss costs no more than it must | `RtpStream`, `RtpReceiver` |
| requests, SDP, access units | answers match requests; the SDP decodes to the encoder's parameter sets; no byte of a NAL unit is lost, and a recording can be played | `RequestFraming`, `SdpBuilder`, `AccessUnit`, `ClientSession` |
| event tracker | its events are those of the rule on raw samples | `PersonEvent`, `PersonRule` |
| live detector | no slot is lost or shared with the library, callbacks stay in scope, calls do not wait for ever | `PersonDetector` |
| live detection tool | frames are read only while they are the tool's, samples are spread evenly, gaps counted, teardown in order from every point | `DetectTool`, `V4l2Capture`, `IspControl` |
| picture detector | a late callback never meets freed memory; success means an answer | `PictureDetector` |

## Modules and their correspondence to the code

```
Program = RtspServer (extends RtspMedia) + IspControl
MediaPipeline        implements LiveStream
PersonEvent          implements PersonRule, which PersonDetector uses
DetectTool           = V4l2Capture + IspControl + the tool's loop
RtpReceiver          = RtpStream + UDP and a receiver
ClientSession        = RequestFraming + SdpBuilder (extends AccessUnit)
MppEncoder, PictureDetector
```

Every module ends with its properties; a section "Mutants" holds forms of its
actions with a plausible bug, each of which breaks a property and none of which
the specification uses. `MC<module>` gives the constants of a run.

### `RtspMedia`, the media object and its thread

One control thread makes the calls of `rtsp/rtsp_media.h`; the media thread
runs beside it. A step is what the code does between two points where the other
thread can observe it. `caller` is the control thread's position inside a call
and `thread` the media thread's position in `media_thread`.

| Code | Specification |
|---|---|
| `rtsp_media_init` | `Initialize`, `InitLock`, `InitCapture`, `InitEncoder`, `InitParams`; each may fail into `close` |
| `rtsp_media_start` | `StartRefused`, `StartRunning`, `StartFresh`, `StartCreate`, `StartUndo` |
| `rtsp_media_stop` | `Stop`, `Join`, `Joined` |
| `rtsp_media_close` | `Close`, `CloseStop`, `Join`, `Joined`, `Release` |
| `media_thread` | `ThreadSender` ... `ThreadClear`; `ThreadFlag` and `ThreadLocked` are the two halves of `media_should_run` |
| `rtsp_session.c` | `BeginSession`, `Setup`, `DropSession` |

`Calls` guards each call with the contract of the interface (one initialisation
at a time, no stop without a lock, no session dropped while a thread may point
to it). `MediaSpec` is thus the abstract promise of the media object to any
well-behaved caller.

### `RtspServer`, the control thread and the signal handler

Extends `RtspMedia` and takes its steps without the guards of `Calls`: whether
the server keeps the contract is a theorem (`ImplementsMedia`). `pc` follows
`rtsp_server_run`; the client's requests arrive in any order. Two-step signal
handlers (`SignalFlag`, `SignalPipe`) interleave with everything.

### `Program`, the server program

`main.c` around the server: `InstallHandlers`, `CreateIsp`, `StartIsp`, the
server's steps while `at = "run"`, `RunReturns`, `DestroyIsp`, `ClosePipe`, with
every failing path. `IspControl` is `isp/isp_control.c` with its error callback
(`IspError`), which RKAIQ may call at any time between create and destroy. The
signal handlers exist from `InstallHandlers` on, so a signal may come while
RKAIQ starts, before the server listens, or after it returned. `--no-aiq` is
`aiq = FALSE`. The server never asks `isp_control_should_quit`, so a breakdown
of RKAIQ does not end the program and nothing here claims that it does.

### `MediaPipeline`, what the thread does with frames

One session after another, against a camera that fills queued buffers whenever
it likes and drops what it likes, and an encoder that makes every `Gop`-th
picture it takes an IDR. `RtspMedia` says when the thread runs; here
`media_should_run` answers either way at every check.

| Code | Specification |
|---|---|
| `v4l2_capture_acquire_frame`, `_release_frame` | `Dequeue`, `DequeueInvalid`, `Requeue`, `RequeueFails` |
| `drain_stale_capture_buffers` | `DrainTake`, `DrainGive`, `DrainEnds`, `DrainFails` |
| `capture_and_encode`, `mpp_encoder_encode` | `Capture`, `CaptureFails`, `Encode`, `EncodeFails`, `Release` |
| loop of `media_thread`: gaps and IDR gate | `Judge` (`Count`, then `Accept` or `Discard`) |
| `write_mp4_access_unit`, `send_access_unit` | `Record`, `RecordFails`, `Send`, `SendFails` |

The camera may take a frame between any two of these steps. `queued`, `ready`,
`hand` and `lost` say where each of the capture buffers is; `n` counts the
encoder's pictures across sessions, so that a session finds the encoder where
the last one left it. `LiveStream` is the abstract promise: `sent` and
`recorded` begin with an IDR that has its parameter sets and was taken after
PLAY, every further picture is the encoder's next, and the recording is never
more than one picture ahead. `Stream == INSTANCE LiveStream` maps each variable
to the one of the same name.

The camera's driver and the encoder are external. Taken for granted: the queue
is first in, first out; a frame number is counted for dropped frames too; the
encoder keeps the configured group length; a packet whose `encode_get_packet`
fails is gone. A send or write that fails half way counts as no picture.

### `V4l2Capture` and `DetectTool`, the live detection tool

`V4l2Capture` is `capture/v4l2_capture.c` as the tool uses it: `v4l2_capture_init`
stage by stage (`OpenDevice`, `SetFormat`, `RequestBuffers`, `MapBuffer`,
`StreamOn`) with `Undo` from each, `AcquireFrame`, `ReleaseFrame`,
`CaptureClose`. The driver numbers its frames, drops some, and writes only
buffers that are queued. `DetectTool` is
`tools/live_person_detect_test/main.c`: start-up and warm-up, the loop (`Loop`,
`Acquire`, `Count`, `Sample`, `Release`) and the one cleanup, reached from
anywhere (`CleanFrame` ... `CleanIsp`). The frame rate is computed from whatever
interval the driver reports (`Rounded`); the sampling accumulator and the
unsigned gap count are the code's. What the detector does with a submitted
frame is `PersonDetector`. `last`, `missed` and `late` are history variables.

### `PictureDetector`, one picture and its two callbacks

`rockiva_detect_nv12`: `Call` is the caller, from the allocation of the image to
the return, `DetectResult` and `FrameRelease` are the library's callbacks, both
with the address of a context on the caller's stack. Each section under
`context->mutex` is one step. The library reports and gives back a pushed
picture at most once each, in either order, perhaps never; it is trusted not to
call back after the call that releases it returned, which is what the code
relies on.

### `RtpStream` and `RtpReceiver`, the packets

`RtpStream` is `send_access_unit`, `rtp/h264_rtp.c`, `rtp_packet.c` and
`rtp_sender.c`: the parameter sets put before the first picture
(`WithParameters`), `SendSingle`, `SendFragment`, the clock (`EndAccessUnit`), a
send that fails (`Close`). A packet carries a range of the bytes of its NAL
unit, its number modulo `SeqModulus`, its time stamp and its bits. `RtpReceiver`
adds what is external: UDP, which loses, repeats and reorders, and a receiver
that orders packets by number, gives up on a missing one when it likes, starts
from the oldest packet it has (the answer to PLAY has no RTP-Info) and takes a
picture to start where parameter sets do, or behind a marker. A NAL unit of
`RTP_PAYLOAD_MAX + 1` bytes is sent as one fragment with both its start and its
end bit set (`rtp/h264_rtp.c:95`), which the RFC excludes; the receiver here
accepts it.

### `MppEncoder`, the encoder wrapper

`mpp_encoder_init` resource by resource with its undo, `mpp_encoder_encode`
(`PutFrame`, `GetPacket`, `CheckRange`, `AllocateCopy` ... `CopyOut`, `Cleanup`,
`ReturnPacket`) and `mpp_encoder_close`. The library writes packets around a
ring, may call offset 0 the end of the ring, may report an impossible place, and
may fail `encode_get_packet` with the packet still to come.

### `RequestFraming`, `AccessUnit`, `SdpBuilder` and `ClientSession`

* `RequestFraming`: the receive loop of `rtsp_server_run` and
  `rtsp/rtsp_request.c`. TCP delivers a request in pieces; a buffer that has a
  CSeq and an empty line is a request, and the bytes behind it are dropped.
* `AccessUnit`: the bytes of an access unit through `h264/h264_annexb.c`, the
  gate and the recording of `media_thread`, and the scan `muxer/mp4_muxer.c`
  makes itself. `Units` is the reference the scans are checked against.
* `SdpBuilder`: `sdp/base64.c` and `sdp/sdp_builder.c`, three bytes a step; the
  reference is a decoder (`Decode`). The wording of the SDP is its length.
* `ClientSession` composes them: clients one after the other; DESCRIBE answered
  from the parameter sets the bootstrap unit left in the media object; PLAY
  starting the thread that scans and records while further requests come in.

### `PersonEvent` and `PersonRule`, the event tracker

`PersonEvent` is `event/person_event.c`: the ring (`history`, `pos`, `count`),
the running number of `hits`, the row of `misses`, the state and the event id, with
`person_event_update` as `Update(hit)` and `person_event_reset` as `Reset`.
`PersonRule` is the rule README.md:164-174 gives, on the raw samples only: ENTER
when `Required` of the last `Window` samples are hits, LEAVE after `LeaveCount`
misses in a row. The code clears its ring at every event; that this never
changes a decision is the refinement `ImplementsRule`. It needs
`LeaveCount >= Window`, which the default configuration (3, 2, 5) satisfies and
`person_event_init` does not demand: with a shorter `LeaveCount` the samples of
the former stay still stand in the rule's window and no longer in the ring's.

### `PersonDetector`, the slots shared with RockIVA

The program's thread (`Create`, `Submit`, `WaitIdle`, `Destroy` and their parts)
and the library's two callbacks (`Result`, `Track`, `Count`; `Release`) share a
pool of slots under one mutex. A section under the mutex is one step; the copy
of the image and the push are made without it, and everything may happen
between. The tracker inside the result callback is `PersonRule`.

RockIVA is external. Taken for granted: result callbacks come one at a time; a
callback is about a frame that was pushed; none runs after the call that
releases it; the library is done with a frame before the 32-bit ids come round
to it again. Nothing is taken for granted about whether or when it answers.
`live_person_detector_get_stats` copies counters and changes nothing; it is
left out.

## Runs

| Run | Question | Bounds | Result |
|---|---|---|---|
| `media_life_cycle` | all legal call sequences against the media thread: scope, one thread, one join, every call returns | two ports; nothing else is bounded | holds |
| `program` | the server program with an arbitrary client, every failure, signals at any moment: contract, cleanup, order of teardown; sessions end, and a signal ends the program, with success if it was serving | two ports, two signals, with and without RKAIQ | holds |
| `play_after_thread_ended` | `AlreadyRunningStreams` | no signals | violated, see Findings |
| `play_destination` | `StreamGoesWherePlayed` | no signals | violated, see Findings |
| `frame_pipeline` | sessions against camera, driver, encoder and failing calls | 3 buffers, groups of 3 pictures, 8 camera frames | holds |
| `encoder_ring` | the wrapper against the library's ring and its late and impossible reports | ring of 4 bytes, packets of 1 to 3, 3 pictures | holds |
| `rtp_stream` | three access units over UDP that loses, repeats and reorders | payload 2, numbers modulo 6, clock modulo 3, 3 pictures, delay 3 | holds |
| `client_session` | what clients get: answers, SDP, access units, recording | buffer of 5 parts, 6 kinds of request, 2 requests a connection, 6 pairs of parameter sets, 3 NAL units, 2 frames | holds |
| `person_rule` | tracker against the rule, ids across the wrap | default thresholds, ids modulo 4 | holds |
| `detector_slots` | program against library callbacks | 2 slots, 5 submits, ids modulo 4, the rule 1 of 2 and 2 misses | holds |
| `detection_tool` | the tool with camera and RKAIQ, failures and signals between any two steps | 2 buffers, 6 camera frames, intervals from {0,1,2}/{1,5}, 2 samples a second, 1 warm-up frame, numbers modulo 5 | holds |
| `picture_detection` | one detection against late, early and missing callbacks | nothing is bounded | holds |

Why the bounds are enough.

* Ports are only copied and compared with zero: one to play and another to be
  confused with it. Two signals let a second handler run between the two halves
  of the first and after the pipe was drained.
* Eight camera frames hold a drain that takes every buffer while the camera
  refills them, a session that waits a full group, sends two groups' worth of
  pictures and fails, and one that finds the encoder in the middle of a group.
* The encoder's ring of 4 bytes with packets of 1 to 3 has packets that wrap,
  that end exactly at its end and that are told to begin there, with an older
  one still unreturned; three pictures let one be late and be got by the call
  after.
* The RTP run has a unit that fits a packet, one that is a byte longer, one of
  three fragments, parameter sets in and out of the access unit; numbers wrap
  within a picture, the clock every third. `2 * Delay <= SeqModulus` is what lets
  a receiver tell late from early; with 16-bit numbers the delay may be 32768
  packets.
* `client_session` has requests that just fit and one that does not, with a body
  and without a CSeq; SPS lengths of every remainder by three, too short, too
  long for their buffer, and too long with the PPS for the SDP; all start codes
  with and without trailing zeros, and more NAL units than are read. Connections
  are not bounded.
* The tracker's state is finite but for the id, which is kept modulo a small
  number so that the wrap happens. Five submits over two slots make full pools,
  reuse of a slot and of an id.
* The tool's intervals give a camera slower and one faster than the samples
  wanted, one whose rate is rounded, and the nonsense that is replaced by 30; six
  frames cross the wrap of the sequence number in a gap and out of one.

In every cfg `Recording` is TRUE; the proofs cover both values.
`CHECK_DEADLOCK FALSE` stands only where the system ends: a program that exits,
an encoder that is closed, a stream that is over.

### Fairness

Each thread is scheduled, a call that began goes on, a frame comes to an end
(the encoder answers), and a signal handler that set the flag reaches its
`write`. Nothing is assumed of the client, of `poll` or of signals. In
`PersonDetector` and `PictureDetector` the program's calls go on and their timed
waits time out, and a callback that began returns; nothing is expected of the
library, which need not answer. In `DetectTool` the tool's steps go on, because
acquire has a timeout and the detector's calls return. In `ClientSession` only
the control thread is fair. `MediaPipeline`, `MppEncoder` and the RTP modules
state safety only.

## Findings

* `rtsp_media_start` takes `thread_running` for a live thread. Only
  `rtsp_media_stop` clears it, so after the media thread ended by itself a PLAY
  is answered with 200 OK, the log says "media thread is already running", and
  nothing streams.
* `media_thread` reads the session's port when it gets to run: a SETUP handled
  between PLAY and that read redirects a stream whose destination was logged.

## Proofs

tlapm checks every theorem for all values of the constants; each `*_proof`
module extends the module it is about. The listed theorems assume the named
assumptions on the constants (a pool has a slot, a window has a sample, a
modulus is positive) and nothing else. The type invariants are theorems only:
no run spends a property on them.

* `RtspServer_proof`, on the media object, the server and the program. Types,
  scope of the thread, one thread, one join and owned outputs, for every set of
  ports: `MediaInv` strengthens `MediaTypeOK` by what each position of the caller
  says about the resources (`CallerInv`, `OpenInv`) and the thread (`RunningInv`).
  `ServerInv` adds what each `pc` says about the caller. `ImplementsMedia`
  follows because it implies the guard of `Calls` at each call the server makes;
  nothing is left between sessions or at return. The program's steps are steps of
  the server or leave it alone (`ProgramRunsServer`), so all of it holds of the
  program too; `ProgramInv` ties RKAIQ to the place of `main` and the exit status
  to the stop flag, from which `CameraWithinIsp` follows.
* `MediaPipeline_proof`: types, `BuffersConserved`, `FreshFrames`,
  `GapsCounted`, `IdrWithinGop` and the refinement of `LiveStream`, for every
  number of buffers, every group length and any number of camera frames. `Inv`
  adds that frame numbers grow along the queue (`Ordered`) and that during the
  drain at most `Buffers - drained` frames can be stale (`StaleLeft`): this is
  why draining `buffer_count` frames without waiting suffices although the
  camera refills the queue. The refinement adds `StreamInv`, the relation of the
  current picture to the newest of both streams. `IdrWithinGop` adds `Dry`: each
  picture dropped at the gate has the next remainder modulo `Gop`, and there
  are only `Gop` of them.
* `PersonDetector_proof`: the safety properties of the run for every number of
  slots, id modulus and rule. `Inv` adds what `create` has made at each of its
  places (`Progress`) and which event the callback has still to count
  (`EventPending`).
* `DetectTool_proof`: all five safety properties of the run, for every camera,
  rate and modulus. `IInv` ties the tool's place to the capture's stage
  (`CaptureInv`, `PlaceInv`), the accumulator to captured and sampled frames by
  an equation (`RateInv`), the numbers in the driver's queue to their order
  (`OrderInv`), and the unsigned difference to the true one (`GapInv`, with
  lemmas on quotients). The same module has the event tracker: the running count
  is that of the ring, thresholds are never passed silently, ids name one stay
  for every modulus, and with `LeaveCount >= Window` the tracker implements
  `PersonRule`. The invariant relates the ring to the raw samples since the last
  event.
* `PictureDetector_proof`: scope of the callbacks and honesty of the result, from
  what the call owns at each place (`HoldsInv`), whose the pending callbacks are
  (`SourceInv`, `ReportInv`) and where the result comes from (`ResultInv`).
* `RtpReceiver_proof`, on the sender and the receiver. The packets spell the
  pictures, for every payload size and modulus: `StreamInv` adds where the cursor
  stands in its unit (`CursorInv`) and how the newest packet leads to the next
  (`LinkInv`). The receiver listens only (`ReceiverListens`), so that this holds
  of the whole. `ShownWhole` and `LossContained` hold for every delay of at most
  half the modulus: a packet's number is the remainder of its position
  (`NumbersInv`), the packets on their way span at most `Delay` positions
  (`WindowInv`), hence a comparison of remainders is one of positions
  (`ArrivesAhead`, `BeginsAtOldest`, `UsesNext`, from lemmas on quotients). Along
  the wire, pictures, units and bytes only go up (`OrderInv`), so the flag
  `whole` says exactly that nothing of the current picture is missing
  (`WholeInv`: this is where the marker of the picture before comes in), what is
  put together is that picture so far (`AssemblyInv`), and the pictures shown are
  those behind the receiver from which nothing is missing (`ShownInv`). The
  assumption on the encoder is `UnitsAssumption`: parameter sets come together,
  at the head of an access unit, and an SPS only there.
* `MppEncoder_proof`: `CopiedWhole` and `NothingKept`, for every ring, packet size
  and number of pictures. `OwnedInv` and `CallInv` say what each place of a call
  owns; `RingInv`, that the cells of a packet the library still answers for were
  not written over; `OutInv` and `GivenInv`, that packets are got, copied and
  given in the order they were made; `LateInv`, that a call finds its own picture
  until an `encode_get_packet` has failed. The copy in two pieces is reduced to
  positions around the ring by `Wraps` and `RingCell`.
* `ClientSession_proof`: `AnswersMatch`, for every set of requests and every
  buffer. `LineInv` says that buffer and wire together hold the rest of bodies
  already answered for and, behind it, the request not yet answered. A CSeq and
  an empty line in the buffer are then that request's, and what a reply leaves
  behind is only body (`FramingAssumption`: behind both of them a request has
  nothing else), so `BodiesStep` bounds what can pile up.

  `UnitsSurvive` and `RecordingPlays` hold for access units of any length. The
  assumption on the encoder is `AccessUnitAssumption`: what it delivers is a row
  of NAL units without a start code inside or a zero at the end, with a picture
  among them, parameter sets that are always the same and come ahead of an IDR
  (`Delivery`); and the frame rate is at most a frame a microsecond, which the
  muxer's rising time stamps need. The bytes are laid out unit by unit (`Laid`,
  built up by `Shifted`, `LaidJoined` and `StreamLaid`); the places with a start
  code are then exactly the heads of the units (`CodeAtIs`, `ScannedIs`), so
  the scan of `h264_annexb_collect` (`Collected`), that of the muxer
  (`InspectedIs`) and the reference (`UnitsAre`) all yield the units. A scan is a
  recursive function; that it takes its value from the next start code on is
  `Computes`, whose induction over positions is the least element of a set
  (`Least`, `AllNumbers`). `UnitInv` carries it through the thread: parameter
  sets known behind the bootstrap (`PlaceInv`), the first unit through the gate
  has an IDR (`GateInv`), the muxer counts the frames of the thread (`MuxerInv`).

  `SdpDecodes` holds for parameter sets of any bytes and lengths. `SdpInv`: the
  digits written are those of the bytes read (`Coded`), while the media thread,
  which runs beside, leaves the sets alone (`StillKnown`). Four digits give
  three bytes back (`DigitsAre`, `GroupIs`, `ByteIs`), and the padding gives the
  length of the last group (`PaddingIs`).

Only model-checked: all liveness (`CallsReturn`, `FlagEndsThread`,
`SessionEnds`, `SignalEndsProgram`, `ToolEnds`, `CallReturns`, `EachAnswered`),
since the prover has no rule for fairness here. Every safety property of the
passing runs is a theorem.

## What is not modelled

* Option parsing, logging, reply texts and configuration values handed to vendor
  libraries: they keep no state a property is about. The H.264 file reader, the
  integration tests and the early prototypes are not part of the program; with
  them go `v4l2_capture_get_frame` and the RTP wrappers without a context, which
  nothing else calls.
* A client that sends its next request before the last one was answered: the
  server drops it, and no document promises otherwise.
* `send_all` to a client that never reads, and an `encode_get_packet` that never
  answers: either can hold up a shutdown. The fairness above assumes them away.
* The 32-bit frame number does not wrap in `MediaPipeline` (that takes years); in
  `DetectTool` it does. A send or write that fails half way counts as no picture
  in `MediaPipeline`; `RtpStream` has its packets.
* Late packets of an earlier session to the same port: every session starts with
  the same number, clock and SSRC, so only the ports keep them apart.
* Each PLAY opens the same recording path, so a later session overwrites the
  file; the recording of the models is that of the current session.

## Plan

1. Compose `RtspMedia` and `MediaPipeline`: the places of the thread in one are
   groups of places in the other, and `media_should_run` gets its real answer.
2. Two sessions to one receiver, with the packets of the first still on their
   way.
