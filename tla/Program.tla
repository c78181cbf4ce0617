-------------------------------- MODULE Program ------------------------------
(***************************************************************************)
(* The server program from the parsed command line to its exit (main.c):   *)
(* the signal handlers and their pipe, RKAIQ of IspControl, and around     *)
(* the server of RtspServer whatever is taken up before it and must come   *)
(* down after it.                                                          *)
(***************************************************************************)
EXTENDS RtspServer, IspControl

VARIABLES
    at,         \* where main is
    aiq,        \* aiq_enabled: not --no-aiq
    pipe,       \* g_signal_pipe is open and the handlers are installed
    exitCode    \* what main will return

mainVars    == <<at, aiq, pipe, exitCode>>
programVars == <<serverVars, ispVars, mainVars>>

ProgramInit ==
    /\ ServerInit /\ IspInit
    /\ at = "install" /\ aiq \in BOOLEAN /\ pipe = FALSE
    /\ exitCode = "failure"

Main(from, to) == at = from /\ at' = to

-----------------------------------------------------------------------------
(* install_signal_handlers; a failure closes what there is of the pipe.    *)
InstallHandlers ==
    /\ \/ Main("install", IF aiq THEN "create" ELSE "run") /\ pipe' = TRUE
       \/ Main("install", "exited") /\ pipe' = FALSE
    /\ UNCHANGED <<serverVars, ispVars, aiq, exitCode>>

CreateIsp ==
    /\ \/ Main("create", "start") /\ IspCreate
       \/ Main("create", "close") /\ IspCreateFails
    /\ UNCHANGED <<serverVars, aiq, pipe, exitCode>>

StartIsp ==
    /\ \/ Main("start", "run") /\ IspStart
       \/ Main("start", "destroy") /\ IspStartFails
    /\ UNCHANGED <<serverVars, aiq, pipe, exitCode>>

(* rtsp_server_run, a step at a time.                                      *)
Server(step) == at = "run" /\ step /\ UNCHANGED <<ispVars, mainVars>>

RunServer == Server(ControlStep)
Poll      == Server(AcceptPoll) \/ Server(ClientPoll)
RunThread == Server(MediaThread)

RunReturns ==
    /\ Main("run", "destroy") /\ pc = "returned"
    /\ exitCode' = IF status = 0 THEN "success" ELSE "failure"
    /\ UNCHANGED <<serverVars, ispVars, aiq, pipe>>

-----------------------------------------------------------------------------
(* Mutants: what the named definition below would be with a plausible bug. *)
(* No action of the specification uses them.                               *)

(* DestroyIsp: a signal takes RKAIQ down without waiting for the server.   *)
DestroyOnSignal ==
    /\ \/ Main("destroy", "close")
       \/ at = "run" /\ stopFlag /\ UNCHANGED at
    /\ \/ IspDestroy
       \/ isp = "none" /\ UNCHANGED ispVars
    /\ UNCHANGED <<serverVars, aiq, pipe, exitCode>>

(* HandlerWrites: the handler relies on EINTR, which only its own thread   *)
(* sees.                                                                   *)
HandlerSilent ==
    /\ at # "exited" /\ SignalWithoutPipe
    /\ UNCHANGED <<ispVars, mainVars>>

-----------------------------------------------------------------------------
(* isp_control_destroy, which accepts that there is none.                  *)
DestroyIsp ==
    /\ Main("destroy", "close")
    /\ \/ IspDestroy
       \/ isp = "none" /\ UNCHANGED ispVars
    /\ UNCHANGED <<serverVars, aiq, pipe, exitCode>>

(* close_signal_pipe and the return: by now there is one thread left, and  *)
(* it runs no handler.                                                     *)
ClosePipe ==
    /\ Main("close", "exited") /\ pending = 0
    /\ pipe' = FALSE
    /\ UNCHANGED <<serverVars, ispVars, aiq, exitCode>>

MainStep == \/ InstallHandlers \/ CreateIsp \/ StartIsp \/ RunReturns
            \/ DestroyIsp \/ ClosePipe

-----------------------------------------------------------------------------
(* A signal is handled by any thread, once the handlers are there; the     *)
(* library reports a fatal condition.                                      *)
HandlerSets ==
    /\ pipe /\ SignalFlag
    /\ UNCHANGED <<ispVars, mainVars>>

HandlerWrites ==
    /\ pipe /\ SignalPipe
    /\ UNCHANGED <<ispVars, mainVars>>

Report == IspError /\ UNCHANGED <<serverVars, mainVars>>

ProgramNext ==
    \/ MainStep \/ RunServer \/ Poll \/ RunThread
    \/ HandlerSets \/ HandlerWrites \/ Report

ProgramSpec == ProgramInit /\ [][ProgramNext]_programVars

(* Every thread is scheduled, a send() and a frame come to an end, a       *)
(* signal handler that began finishes and the calls of RKAIQ return.       *)
(* Clients and signals owe nothing.                                        *)
FairProgramSpec ==
    /\ ProgramSpec
    /\ WF_programVars(MainStep)
    /\ WF_programVars(RunServer) /\ WF_programVars(RunThread)
    /\ WF_programVars(HandlerWrites)

-----------------------------------------------------------------------------
(* "RKAIQ is stopped only after the media pipeline is closed" (main.c), on *)
(* every path and whenever a signal comes; the camera is opened only with  *)
(* RKAIQ running; and the program leaves nothing behind, whichever step    *)
(* failed, and succeeds only after a signal.                               *)
CameraWithinIsp ==
    /\ aiq /\ ("capture" \in open \/ thread # "none") => isp = "started"
    /\ at = "exited" =>
        /\ open = {} /\ thread = "none" /\ sock # "rtp" /\ ~mp4
        /\ isp = "none" /\ ~pipe
        /\ exitCode = "success" => stopFlag

(* A signal ends the program wherever it is: while RKAIQ starts, before    *)
(* the server listens, between two sessions or within one, and whether or  *)
(* not RKAIQ has broken down, about which the server does not ask.  Once   *)
(* it was serving, the program ends with success, whatever the client and  *)
(* the media thread do: no poll can miss the flag written before the pipe. *)
SignalEndsProgram ==
    /\ stopFlag ~> at = "exited"
    /\ stopFlag /\ pc \in Serving ~> at = "exited" /\ exitCode = "success"
=============================================================================
