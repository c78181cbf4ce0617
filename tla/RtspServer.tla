----------------------------- MODULE RtspServer ----------------------------
(***************************************************************************)
(* rtsp_server_run (rtsp/rtsp_server.c): the control thread that accepts   *)
(* one client at a time, answers its requests and drives the media object  *)
(* of RtspMedia, together with the signal handler of main.c, which sets    *)
(* the stop flag and then writes to the self-pipe.                         *)
(*                                                                         *)
(* The process-directed signal may be handled by the media thread, so the  *)
(* two steps of the handler interleave with the control thread.  What the  *)
(* client sends and when is unconstrained; how a request is cut into       *)
(* segments is not modelled here (recv delivers a whole request, or        *)
(* nothing that can be answered yet).                                      *)
(***************************************************************************)
EXTENDS RtspMedia

CONSTANT MaxSignals    \* bound on the SIGINT/SIGTERM deliveries
ASSUME MaxSignalsAssumption == MaxSignals \in Nat

VARIABLES
    pc,         \* program counter of rtsp_server_run
    req,        \* the method being answered
    status,     \* what rtsp_server_run will return
    stopPipe,   \* the self-pipe holds at least one byte
    pending,    \* signal handlers that set the flag and have yet to write
    signals,    \* signals delivered so far
    playPort    \* history: client_rtp_port when the last PLAY was accepted

ownVars    == <<req, status, stopPipe, pending, signals, playPort>>
serverVars == <<mediaVars, pc, ownVars>>

Methods == {"OPTIONS", "DESCRIBE", "SETUP", "PLAY", "GET_PARAMETER",
            "TEARDOWN", "OTHER"}

Serving == {"accept", "acceptPoll", "connect", "client", "clientPoll",
            "recv", "send", "play", "teardown", "leave", "leaving"}
ServerStates == Serving \union {"socket", "bind", "init", "initWait", "after",
                                "cleanup", "cleaning", "returned"}

Jump(from, to) == pc = from /\ pc' = to

ServerInit ==
    /\ MediaInit
    /\ pc = "socket" /\ req = "OTHER" /\ status = -1
    /\ stopPipe = FALSE /\ pending = 0 /\ signals = 0
    /\ playPort = NoPort

-----------------------------------------------------------------------------
(* Mutants: what the named definition below would be with a plausible bug. *)
(* No action of the specification uses them.                               *)

(* The end of a session stops only a playing media.                        *)
LeaveIfPlaying ==
    /\ Jump("leave", "leaving")
    /\ IF playing THEN Stop ELSE UNCHANGED mediaVars
    /\ UNCHANGED ownVars

(* The handler relies on EINTR, which only its own thread sees.            *)
SignalWithoutPipe ==
    /\ pending > 0
    /\ pending' = pending - 1
    /\ UNCHANGED <<mediaVars, pc, req, status, stopPipe, signals, playPort>>

-----------------------------------------------------------------------------
(* From the configuration to a listening socket and an initialised media   *)
(* object.                                                                 *)

(* A rejected configuration or a failed socket() returns at once.          *)
ServerSocket ==
    /\ Jump("socket", "bind") \/ Jump("socket", "returned")
    /\ UNCHANGED <<mediaVars, ownVars>>

(* bind and listen.                                                        *)
ServerBind ==
    /\ Jump("bind", "init") \/ Jump("bind", "cleanup")
    /\ UNCHANGED <<mediaVars, ownVars>>

ServerInitMedia ==
    /\ Jump("init", "initWait")
    /\ Initialize
    /\ UNCHANGED ownVars

ServerInitDone ==
    /\ caller = "idle"
    /\ Jump("initWait", IF result = 0 THEN "accept" ELSE "cleanup")
    /\ UNCHANGED <<mediaVars, ownVars>>

-----------------------------------------------------------------------------
(* wait_for_socket.  The caller's own loop condition reads the stop flag   *)
(* immediately before wait_for_socket reads it again: one step.            *)

CheckFlag(at, poll, stopped) ==
    /\ Jump(at, IF stopFlag THEN stopped ELSE poll)
    /\ UNCHANGED <<mediaVars, ownVars>>

(* poll() looks at the pipe first and drains it.                           *)
PollStop(at, stopped) ==
    /\ Jump(at, stopped)
    /\ stopPipe
    /\ stopPipe' = FALSE
    /\ UNCHANGED <<mediaVars, req, status, pending, signals, playPort>>

(* POLLIN on the socket, EINTR, or an error.                               *)
PollSocket(at, ready, again, failed) ==
    /\ ~stopPipe
    /\ \/ Jump(at, ready)
       \/ signals > 0 /\ Jump(at, again)
       \/ Jump(at, failed)
    /\ UNCHANGED <<mediaVars, ownVars>>

AcceptFlag == CheckFlag("accept", "acceptPoll", "after")
AcceptStop ==
    /\ Jump("acceptPoll", "after")
    /\ stopPipe
    /\ stopPipe' = FALSE
    /\ status' = 0
    /\ UNCHANGED <<mediaVars, req, pending, signals, playPort>>
AcceptPoll == PollSocket("acceptPoll", "connect", "accept", "after")

ClientFlag == CheckFlag("client", "clientPoll", "leave")
ClientStop == PollStop("clientPoll", "leave")
ClientPoll == PollSocket("clientPoll", "recv", "client", "leave")

(* accept and rtsp_session_init.                                           *)
Accept ==
    /\ \/ Jump("connect", "client") /\ BeginSession
       \/ signals > 0 /\ Jump("connect", "accept") /\ UNCHANGED mediaVars
       \/ Jump("connect", "after") /\ UNCHANGED mediaVars
    /\ UNCHANGED ownVars

-----------------------------------------------------------------------------
(* recv and process_request up to the point where the reply is sent.       *)

(* EINTR or an incomplete request; a full buffer, an error or the end of   *)
(* the stream.                                                             *)
RecvNothing ==
    /\ Jump("recv", "client") \/ Jump("recv", "leave")
    /\ UNCHANGED <<mediaVars, ownVars>>

(* Methods whose handler changes nothing before it replies; a SETUP with   *)
(* an unsupported transport is answered with 461 and is one of them.       *)
RecvPlain(method) ==
    /\ Jump("recv", "send")
    /\ req' = method
    /\ UNCHANGED <<mediaVars, status, stopPipe, pending, signals, playPort>>

RecvSetup(port) ==
    /\ Jump("recv", "send")
    /\ Setup(port)
    /\ req' = "SETUP"
    /\ UNCHANGED <<status, stopPipe, pending, signals, playPort>>

(* PLAY before a successful SETUP, DESCRIBE whose SDP cannot be built:     *)
(* the connection is closed without a reply.                               *)
RecvRejected(method) ==
    /\ Jump("recv", "leave")
    /\ \/ method = "PLAY" /\ clientPort = NoPort
       \/ method = "DESCRIBE"
    /\ req' = method
    /\ UNCHANGED <<mediaVars, status, stopPipe, pending, signals, playPort>>

Recv ==
    \/ RecvNothing
    \/ \E method \in Methods : \/ RecvRejected(method)
                               \/ /\ method = "PLAY" => clientPort # NoPort
                                  /\ method = "DESCRIBE" => initialized
                                  /\ RecvPlain(method)
    \/ \E port \in Ports : RecvSetup(port)

-----------------------------------------------------------------------------
(* send_response, and what the handler does after it.                      *)

SendPlay ==
    /\ req = "PLAY"
    /\ Jump("send", "play")
    /\ Start
    /\ playPort' = clientPort
    /\ UNCHANGED <<req, status, stopPipe, pending, signals>>

(* TEARDOWN stops the media whether or not its reply could be sent.        *)
SendTeardown ==
    /\ req = "TEARDOWN"
    /\ Jump("send", "teardown")
    /\ Stop
    /\ UNCHANGED ownVars

SendOther ==
    /\ req \notin {"PLAY", "TEARDOWN"}
    /\ Jump("send", "client")
    /\ UNCHANGED <<mediaVars, ownVars>>

SendFailed ==
    /\ req # "TEARDOWN"
    /\ Jump("send", "leave")
    /\ UNCHANGED <<mediaVars, ownVars>>

PlayDone ==
    /\ caller = "idle"
    /\ Jump("play", IF result = 0 THEN "client" ELSE "leave")
    /\ UNCHANGED <<mediaVars, ownVars>>

TeardownDone ==
    /\ caller = "idle"
    /\ Jump("teardown", "leave")
    /\ UNCHANGED <<mediaVars, ownVars>>

-----------------------------------------------------------------------------
(* The end of a session: rtsp_media_stop, then the scope of the session.   *)

Leave ==
    /\ Jump("leave", "leaving")
    /\ Stop
    /\ UNCHANGED ownVars

CloseClient ==
    /\ Jump("leaving", "accept")
    /\ DropSession
    /\ UNCHANGED ownVars

(* The end of the server: the status, rtsp_media_close, the return.        *)

AfterLoop ==
    /\ Jump("after", "cleanup")
    /\ status' = IF stopFlag THEN 0 ELSE status
    /\ UNCHANGED <<mediaVars, req, stopPipe, pending, signals, playPort>>

Cleanup ==
    /\ Jump("cleanup", "cleaning")
    /\ Close
    /\ UNCHANGED ownVars

ServerReturn ==
    /\ caller = "idle"
    /\ Jump("cleaning", "returned")
    /\ UNCHANGED <<mediaVars, ownVars>>

-----------------------------------------------------------------------------
(* handle_stop_signal: the flag first, then the pipe.  Two signals may be  *)
(* handled at the same time, by different threads or one inside the other. *)

SignalFlag ==
    /\ signals < MaxSignals
    /\ signals' = signals + 1
    /\ pending' = pending + 1
    /\ SetStopFlag
    /\ UNCHANGED <<pc, req, status, stopPipe, playPort>>

SignalPipe ==
    /\ pending > 0
    /\ pending' = pending - 1
    /\ stopPipe' = TRUE
    /\ UNCHANGED <<mediaVars, pc, req, status, signals, playPort>>

-----------------------------------------------------------------------------
(* What the control thread does on its own, and what waits for the client. *)
ControlStep ==
    \/ ServerSocket \/ ServerBind \/ ServerInitMedia \/ ServerInitDone
    \/ AcceptFlag \/ AcceptStop \/ Accept
    \/ ClientFlag \/ ClientStop \/ Recv
    \/ SendPlay \/ SendTeardown \/ SendOther \/ SendFailed
    \/ PlayDone \/ TeardownDone
    \/ Leave \/ CloseClient \/ AfterLoop \/ Cleanup \/ ServerReturn
    \/ CallStep /\ UNCHANGED <<pc, ownVars>>

MediaThread == ThreadStep /\ UNCHANGED <<pc, ownVars>>

Finished == pc = "returned" /\ UNCHANGED serverVars

ServerNext ==
    \/ ControlStep \/ AcceptPoll \/ ClientPoll
    \/ MediaThread
    \/ SignalFlag \/ SignalPipe
    \/ Finished

ServerSpec == ServerInit /\ [][ServerNext]_serverVars

-----------------------------------------------------------------------------
(* Type correctness of the server's own state.                             *)
ServerTypeOK ==
    /\ MediaTypeOK
    /\ pc \in ServerStates /\ req \in Methods /\ status \in {0, -1}
    /\ stopPipe \in BOOLEAN /\ signals \in 0 .. MaxSignals
    /\ pending \in 0 .. signals
    /\ playPort \in Ports \union {NoPort}

(* Between two sessions nothing of the last one is left: no thread, no     *)
(* RTP socket, no open recording ("after TEARDOWN the media thread and the *)
(* RTP socket exit normally", docs/VALIDATION.md).                         *)
NothingBetweenSessions ==
    ~live => thread = "none" /\ ~threadRunning /\ sock # "rtp" /\ ~mp4

(* "rtsp_server_run() closes V4L2, MPP and the RTSP media thread before    *)
(* returning" (main.c), on every path; and a server that says it "stopped  *)
(* cleanly" never closed a descriptor it had not opened.                   *)
ReturnsClean ==
    pc = "returned" =>
        /\ open = {} /\ thread = "none" /\ sock # "rtp" /\ ~mp4
        /\ status = 0 => ~closedStdin

(* The server drives the media object within its contract: no stop without *)
(* a lock, no session that ends while a thread still points to it.         *)
ImplementsMedia == MediaSpec

(* What the log of rtsp_media_start says when it does nothing, "media      *)
(* thread is already running", is so: a PLAY answered with 200 OK finds a  *)
(* thread that streams.                                                    *)
AlreadyRunningStreams ==
    [][pc = "send" /\ pc' = "play" /\ threadRunning => thread \in Streaming]_serverVars

(* The stream goes where the log of handle_play says the accepted PLAY     *)
(* sends it, "PLAY accepted: RTP destination=...".                         *)
StreamGoesWherePlayed == sock = "rtp" => dest = playPort

(* A TEARDOWN, or any other end of a session, is completed: the join of    *)
(* the media thread returns and the next client can be accepted.           *)
SessionEnds == pc \in {"teardown", "leave"} ~> ~live
=============================================================================
