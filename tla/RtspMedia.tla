----------------------------- MODULE RtspMedia -----------------------------
(***************************************************************************)
(* The life cycle of the live media object (rtsp/rtsp_media.c): the calls  *)
(* rtsp_media_init, rtsp_media_start, rtsp_media_stop and rtsp_media_close *)
(* made by ONE control thread, and the media thread that                   *)
(* rtsp_media_start creates and rtsp_media_stop joins.                     *)
(*                                                                         *)
(* A step is what the code does between two points where the other thread  *)
(* can observe it: a critical section of media->lock, the creation or the  *)
(* join of the thread, the opening or closing of a resource.  What one     *)
(* iteration does to a frame is the subject of MediaPipeline.              *)
(*                                                                         *)
(* The control thread of this module is the most general one that keeps    *)
(* the interface's contract (the guards of Calls): RtspServer takes the    *)
(* same steps without those guards and is shown to implement this module.  *)
(***************************************************************************)
EXTENDS Integers

CONSTANTS
    Ports,       \* the client RTP ports a SETUP can name
    Recording    \* media->recording_enabled: an output path was configured

NoPort == 0      \* client_rtp_port of a session without a successful SETUP

ASSUME PortsAssumption == Ports # {} /\ Ports \subseteq Nat \ {NoPort}
ASSUME RecordingAssumption == Recording \in BOOLEAN

VARIABLES
    stopFlag,       \* *external_stop_flag, set by the signal handler
    open,           \* what rtsp_media_init acquired and nobody released yet
    threadRunning,  \* media->thread_running
    stopRequested,  \* media->stop_requested
    caller,         \* where the control thread is inside an rtsp_media call
    result,         \* what the last init or start returned: 0 or -1
    live,           \* the RTSPSession object is in scope
    playing,        \* session->playing
    clientPort,     \* session->client_rtp_port
    thread,         \* program counter of the media thread
    sock,           \* media->sender.sockfd
    dest,           \* the port media->sender.remote_addr was set to
    mp4,            \* the thread's muxer is initialised
    closedStdin     \* descriptor 0 was closed by rtp_sender_close

session    == <<live, playing, clientPort>>
sender     == <<sock, dest>>
control    == <<threadRunning, stopRequested>>
mediaVars  == <<stopFlag, open, threadRunning, stopRequested, caller, result,
                live, playing, clientPort, thread, sock, dest, mp4,
                closedStdin>>

(* The resources of rtsp_media_init in the order it acquires them.         *)
(* "params" stands for the bootstrap access unit, sps and pps, and for     *)
(* media->initialized, which is set in the same step.                      *)
Resources == {"lock", "capture", "encoder", "params"}

CallerStates == {"idle",
                 "initLock", "initCapture", "initEncoder", "initParams",
                 "create", "undo", "stopJoin", "stopDone",
                 "close", "closeJoin", "closeDone", "release"}

(* The phases of media_thread; in Streaming it uses the session, the       *)
(* capture device and the encoder.                                         *)
Streaming    == {"start", "muxer", "drain", "flag", "locked", "frame",
                 "exit", "clear"}
ThreadStates == Streaming \union {"none", "exited"}

(* sock is "zero" in the zero-filled RTSPMedia, "none" for -1, "rtp" for a *)
(* socket of rtp_sender_init_ex.                                           *)
Sockets == {"zero", "none", "rtp"}

initialized == "params" \in open
locked      == "lock" \in open

Goto(from, to) == caller = from /\ caller' = to
Trans(from, to) == thread = from /\ thread' = to

MediaInit ==
    /\ stopFlag = FALSE
    /\ open = {}
    /\ threadRunning = FALSE /\ stopRequested = FALSE
    /\ caller = "idle" /\ result = 0
    /\ live = FALSE /\ playing = FALSE /\ clientPort = NoPort
    /\ thread = "none"
    /\ sock = "zero" /\ dest = NoPort
    /\ mp4 = FALSE
    /\ closedStdin = FALSE

-----------------------------------------------------------------------------
(* Mutants: what the named definition below would be with a plausible bug. *)
(* No action of the specification uses them.                               *)

(* The object is zeroed, and its descriptors stay 0.                       *)
InitializeZeroed ==
    /\ Goto("idle", "initLock")
    /\ threadRunning' = FALSE /\ stopRequested' = FALSE
    /\ sock' = "zero" /\ dest' = NoPort
    /\ UNCHANGED <<stopFlag, open, result, session, thread, mp4, closedStdin>>

(* rtsp_media_stop asks the thread to stop and does not join it.           *)
StopDetaches ==
    /\ caller = "idle"
    /\ stopRequested' = TRUE /\ playing' = FALSE /\ threadRunning' = FALSE
    /\ UNCHANGED <<stopFlag, open, caller, result, live, clientPort, thread,
                   sender, mp4, closedStdin>>

(* rtsp_media_stop joins a thread it did not ask to stop.                  *)
StopJoinsOnly ==
    /\ Goto("idle", IF threadRunning THEN "stopJoin" ELSE "idle")
    /\ UNCHANGED <<stopFlag, open, control, result, session, thread, sender,
                   mp4, closedStdin>>

(* The thread does not look at the external stop flag.                     *)
ThreadIgnoresFlag ==
    /\ Trans("flag", "locked")
    /\ UNCHANGED <<stopFlag, open, control, caller, result, session, sender,
                   mp4, closedStdin>>

(* The thread leaves its recording to nobody.                              *)
ThreadKeepsRecording ==
    /\ Trans("exit", "clear")
    /\ sock' = "none"
    /\ UNCHANGED <<stopFlag, open, control, caller, result, session, dest,
                   mp4, closedStdin>>

(* A thread that ends by itself leaves the session playing; or it declares *)
(* itself not running, and nobody joins it.                                *)
ThreadKeepsPlaying ==
    /\ Trans("clear", "exited")
    /\ UNCHANGED <<stopFlag, open, control, caller, result, session, sender,
                   mp4, closedStdin>>

ThreadClearsRunning ==
    /\ Trans("clear", "exited")
    /\ playing' = FALSE /\ threadRunning' = FALSE
    /\ UNCHANGED <<stopFlag, open, stopRequested, caller, result, live,
                   clientPort, sender, mp4, closedStdin>>

-----------------------------------------------------------------------------
(* rtsp_media_init                                                         *)

(* The object is zeroed, the descriptors are set to -1, the paths copied.  *)
Initialize ==
    /\ Goto("idle", "initLock")
    /\ threadRunning' = FALSE /\ stopRequested' = FALSE
    /\ sock' = "none" /\ dest' = NoPort
    /\ UNCHANGED <<stopFlag, open, result, session, thread, mp4, closedStdin>>

(* A bad path or a failed mutex returns -1 with nothing to undo.           *)
InitLock ==
    /\ \/ /\ Goto("initLock", "initCapture")
          /\ open' = open \union {"lock"}
          /\ UNCHANGED result
       \/ /\ Goto("initLock", "idle")
          /\ result' = -1
          /\ UNCHANGED open
    /\ UNCHANGED <<stopFlag, control, session, thread, sender, mp4, closedStdin>>

(* Each later stage acquires its resource, or goes to FAIL.  The capture   *)
(* device may be open already when its stage fails (a wrong format, a      *)
(* warmup frame that does not come).                                       *)
InitStage(stage, resource, next, kept) ==
    /\ caller = stage
    /\ \/ /\ caller' = next
          /\ open' = open \union {resource}
          /\ result' = IF next = "idle" THEN 0 ELSE result
       \/ /\ caller' = "close"
          /\ open' \in {open, open \union kept}
          /\ result' = -1
    /\ UNCHANGED <<stopFlag, control, session, thread, sender, mp4, closedStdin>>

InitCapture == InitStage("initCapture", "capture", "initEncoder", {"capture"})
InitEncoder == InitStage("initEncoder", "encoder", "initParams", {})
InitParams  == InitStage("initParams", "params", "idle", {})

-----------------------------------------------------------------------------
(* The session object, a local variable of the server's accept loop.       *)

BeginSession ==
    /\ caller = "idle"
    /\ live' = TRUE /\ playing' = FALSE /\ clientPort' = NoPort
    /\ UNCHANGED <<stopFlag, open, control, caller, result, thread, sender,
                   mp4, closedStdin>>

(* rtsp_session_parse_transport writes the port without the lock.          *)
Setup(port) ==
    /\ caller = "idle"
    /\ clientPort' = port
    /\ UNCHANGED <<stopFlag, open, control, caller, result, live, playing,
                   thread, sender, mp4, closedStdin>>

DropSession ==
    /\ caller = "idle"
    /\ live' = FALSE
    /\ UNCHANGED <<stopFlag, open, control, caller, result, playing,
                   clientPort, thread, sender, mp4, closedStdin>>

-----------------------------------------------------------------------------
(* rtsp_media_start                                                        *)

StartRefused ==
    /\ caller = "idle"
    /\ ~initialized \/ clientPort = NoPort
    /\ result' = -1
    /\ UNCHANGED <<stopFlag, open, control, caller, session, thread, sender,
                   mp4, closedStdin>>

StartRunning ==
    /\ caller = "idle" /\ initialized /\ clientPort # NoPort
    /\ threadRunning
    /\ result' = 0
    /\ UNCHANGED <<stopFlag, open, control, caller, session, thread, sender,
                   mp4, closedStdin>>

StartFresh ==
    /\ Goto("idle", "create")
    /\ initialized /\ clientPort # NoPort
    /\ ~threadRunning
    /\ stopRequested' = FALSE /\ playing' = TRUE /\ threadRunning' = TRUE
    /\ UNCHANGED <<stopFlag, open, result, live, clientPort, thread, sender,
                   mp4, closedStdin>>

Start == StartRefused \/ StartRunning \/ StartFresh

(* malloc and pthread_create, outside the lock.                            *)
StartCreate ==
    /\ \/ /\ Goto("create", "idle")
          /\ thread' = "start"
          /\ result' = 0
       \/ /\ Goto("create", "undo")
          /\ UNCHANGED <<thread, result>>
    /\ UNCHANGED <<stopFlag, open, control, session, sender, mp4, closedStdin>>

StartUndo ==
    /\ Goto("undo", "idle")
    /\ threadRunning' = FALSE /\ stopRequested' = TRUE /\ playing' = FALSE
    /\ result' = -1
    /\ UNCHANGED <<stopFlag, open, live, clientPort, thread, sender, mp4,
                   closedStdin>>

-----------------------------------------------------------------------------
(* rtsp_media_stop and rtsp_media_close                                    *)

Stop ==
    /\ Goto("idle", IF threadRunning THEN "stopJoin" ELSE "idle")
    /\ stopRequested' = TRUE /\ playing' = FALSE
    /\ UNCHANGED <<stopFlag, open, threadRunning, result, live, clientPort,
                   thread, sender, mp4, closedStdin>>

Close ==
    /\ Goto("idle", "close")
    /\ UNCHANGED <<stopFlag, open, control, result, session, thread, sender,
                   mp4, closedStdin>>

(* rtsp_media_stop(media, NULL), only when the lock exists.                *)
CloseStop ==
    /\ Goto("close", IF locked /\ threadRunning THEN "closeJoin" ELSE "release")
    /\ stopRequested' = (stopRequested \/ locked)
    /\ UNCHANGED <<stopFlag, open, threadRunning, result, session, thread,
                   sender, mp4, closedStdin>>

Join ==
    /\ Goto("stopJoin", "stopDone") \/ Goto("closeJoin", "closeDone")
    /\ Trans("exited", "none")
    /\ UNCHANGED <<stopFlag, open, control, result, session, sender, mp4,
                   closedStdin>>

Joined ==
    /\ Goto("stopDone", "idle") \/ Goto("closeDone", "release")
    /\ threadRunning' = FALSE
    /\ UNCHANGED <<stopFlag, open, stopRequested, result, session, thread,
                   sender, mp4, closedStdin>>

(* rtp_sender_close closes whatever sockfd >= 0 names: in an object that   *)
(* rtsp_media_init never reached that is descriptor 0.                     *)
Release ==
    /\ Goto("release", "idle")
    /\ open' = {}
    /\ sock' = "none"
    /\ closedStdin' = (closedStdin \/ sock = "zero")
    /\ UNCHANGED <<stopFlag, control, result, session, thread, dest, mp4>>

-----------------------------------------------------------------------------
(* media_thread                                                            *)

(* The destination is read from the session without the lock.              *)
ThreadSender ==
    /\ \/ Trans("start", "muxer") /\ sock' = "rtp" /\ dest' = clientPort
       \/ Trans("start", "exit") /\ sock' = "none" /\ UNCHANGED dest
    /\ UNCHANGED <<stopFlag, open, control, caller, result, session, mp4,
                   closedStdin>>

ThreadMuxer ==
    /\ \/ Trans("muxer", "drain") /\ mp4' = Recording
       \/ Recording /\ Trans("muxer", "exit") /\ UNCHANGED mp4
    /\ UNCHANGED <<stopFlag, open, control, caller, result, session, sender,
                   closedStdin>>

ThreadDrain ==
    /\ Trans("drain", "flag") \/ Trans("drain", "exit")
    /\ UNCHANGED <<stopFlag, open, control, caller, result, session, sender,
                   mp4, closedStdin>>

(* media_should_run: first the external flag, then the locked fields.      *)
ThreadFlag ==
    /\ Trans("flag", IF stopFlag THEN "exit" ELSE "locked")
    /\ UNCHANGED <<stopFlag, open, control, caller, result, session, sender,
                   mp4, closedStdin>>

ThreadLocked ==
    /\ Trans("locked", IF ~stopRequested /\ playing THEN "frame" ELSE "exit")
    /\ UNCHANGED <<stopFlag, open, control, caller, result, session, sender,
                   mp4, closedStdin>>

(* One frame, handled or skipped, or the first failure of the iteration.   *)
ThreadFrame ==
    /\ Trans("frame", "flag") \/ Trans("frame", "exit")
    /\ UNCHANGED <<stopFlag, open, control, caller, result, session, sender,
                   mp4, closedStdin>>

ThreadExit ==
    /\ Trans("exit", "clear")
    /\ sock' = "none" /\ mp4' = FALSE
    /\ UNCHANGED <<stopFlag, open, control, caller, result, session, dest,
                   closedStdin>>

(* The last critical section; thread_running is left to the joiner.        *)
ThreadClear ==
    /\ Trans("clear", "exited")
    /\ playing' = FALSE
    /\ UNCHANGED <<stopFlag, open, control, caller, result, live, clientPort,
                   sender, mp4, closedStdin>>

ThreadStep ==
    \/ ThreadSender \/ ThreadMuxer \/ ThreadDrain \/ ThreadFlag
    \/ ThreadLocked \/ ThreadFrame \/ ThreadExit \/ ThreadClear

-----------------------------------------------------------------------------
SetStopFlag ==
    /\ stopFlag' = TRUE
    /\ UNCHANGED <<open, control, caller, result, session, thread, sender,
                   mp4, closedStdin>>

(* The steps of a call that has begun.                                     *)
CallStep ==
    \/ InitLock \/ InitCapture \/ InitEncoder \/ InitParams
    \/ StartCreate \/ StartUndo
    \/ CloseStop \/ Join \/ Joined \/ Release

(* The calls, in any order the contract of the interface allows: one       *)
(* initialisation at a time; stop needs the lock; and the session that was *)
(* given to rtsp_media_start stays in scope until rtsp_media_stop has      *)
(* joined the thread that holds a pointer to it.                           *)
Calls ==
    \/ open = {} /\ ~threadRunning /\ Initialize
    \/ ~live /\ BeginSession
    \/ live /\ \E p \in Ports : Setup(p)
    \/ live /\ Start
    \/ live /\ locked /\ Stop
    \/ live /\ ~threadRunning /\ DropSession
    \/ Close

MediaNext == Calls \/ CallStep \/ ThreadStep \/ SetStopFlag

MediaFairness == WF_mediaVars(CallStep) /\ WF_mediaVars(ThreadStep)

MediaSpec == MediaInit /\ [][MediaNext]_mediaVars
FairMediaSpec == MediaSpec /\ MediaFairness
-----------------------------------------------------------------------------
(* Type correctness of the media object, the session and both threads.     *)
MediaTypeOK ==
    /\ stopFlag \in BOOLEAN
    /\ open \subseteq Resources
    /\ threadRunning \in BOOLEAN /\ stopRequested \in BOOLEAN
    /\ caller \in CallerStates /\ result \in {0, -1}
    /\ live \in BOOLEAN /\ playing \in BOOLEAN
    /\ clientPort \in Ports \union {NoPort}
    /\ thread \in ThreadStates
    /\ sock \in Sockets /\ dest \in Ports \union {NoPort}
    /\ mp4 \in BOOLEAN /\ closedStdin \in BOOLEAN

(* The thread holds raw pointers to the media object and to a session on   *)
(* the server's stack: as long as it may use them the session is in scope, *)
(* the lock, the capture device and the encoder exist, and thread_running  *)
(* tells rtsp_media_stop that there is something to join.                  *)
ThreadInScope ==
    thread \in Streaming => live /\ threadRunning /\ open = Resources

(* session->playing is a promise that somebody will clear it: while it is  *)
(* set, a thread is streaming or rtsp_media_start is about to create one   *)
(* or to undo what it set.                                                 *)
PlayingHasThread ==
    live /\ playing => thread \in Streaming \/ caller \in {"create", "undo"}

(* The RTP socket and the muxer belong to the thread: both are closed      *)
(* before it can be joined, so no later call meets an open one.            *)
MediaOutputsOwned ==
    /\ sock = "rtp" => thread \in {"muxer", "drain", "flag", "locked", "frame", "exit"}
    /\ mp4 => thread \in {"drain", "flag", "locked", "frame", "exit"}

(* pthread_join is called once per created thread: never for a thread      *)
(* nobody created, and a thread that exited is not forgotten.              *)
EveryThreadJoined ==
    /\ caller \in {"stopJoin", "closeJoin"} => thread # "none"
    /\ thread # "none" => threadRunning

(* A second thread is never created beside one that was not joined.        *)
NoSecondThread == [][thread' # thread /\ thread' = "start" => thread = "none"]_mediaVars

(* rtsp_media_stop and rtsp_media_close return although they wait for the  *)
(* thread, and so does every other call.                                   *)
CallsReturn == caller # "idle" ~> caller = "idle"

(* The external stop flag alone ends a streaming thread: the control       *)
(* thread need not have noticed the signal yet.                            *)
FlagEndsThread == stopFlag /\ thread \in Streaming ~> thread \notin Streaming
=============================================================================
