-------------------------- MODULE RtspServer_proof -------------------------
(***************************************************************************)
(* The safety of the media object's life cycle, for every set of ports and *)
(* whether or not a recording is configured; that the server keeps the     *)
(* contract of the media object (it implements RtspMedia), and what follows*)
(* for its sessions and its return; and that the program runs that server, *)
(* with RKAIQ up for as long as the camera is.                             *)
(***************************************************************************)
EXTENDS Program, TLAPS

InitCalls == {"initLock", "initCapture", "initEncoder", "initParams"}

(* What each point of a call knows.                                        *)
CallerInv ==
    /\ caller \in InitCalls \union {"release"} => ~threadRunning
    /\ caller \in {"create", "undo", "stopDone", "closeDone"} =>
           thread = "none" /\ threadRunning
    /\ caller \in {"stopJoin", "closeJoin"} => thread # "none"
    /\ caller \in {"create", "undo"} => live

(* rtsp_media_init acquires in order, so "params" comes last.              *)
OpenInv ==
    /\ caller \in {"initCapture", "initEncoder", "initParams"} => "lock" \in open
    /\ caller \in {"initEncoder", "initParams"} => "capture" \in open
    /\ caller = "initParams" => "encoder" \in open
    /\ initialized => open = Resources

(* thread_running is the joiner's view of the thread.                      *)
RunningInv ==
    /\ threadRunning => live /\ open = Resources
    /\ threadRunning =>
           thread # "none" \/ caller \in {"create", "undo", "stopDone", "closeDone"}

MediaInv ==
    /\ MediaTypeOK
    /\ CallerInv
    /\ OpenInv
    /\ RunningInv
    /\ PlayingHasThread
    /\ MediaOutputsOwned
    /\ EveryThreadJoined

-----------------------------------------------------------------------------
LEMMA MediaInitInv == MediaInit => MediaInv
  BY PortsAssumption
  DEF MediaInit, MediaInv, MediaTypeOK, CallerInv, OpenInv, RunningInv,
      PlayingHasThread, MediaOutputsOwned, EveryThreadJoined, CallerStates,
      ThreadStates, Streaming, Sockets, InitCalls, initialized, NoPort

(* A step that moves the caller alone keeps the types.                     *)
LEMMA CallerTypes ==
    ASSUME MediaTypeOK, caller' \in CallerStates, result' \in {0, -1},
           stopRequested' \in BOOLEAN, playing' \in BOOLEAN, open' \subseteq Resources,
           UNCHANGED <<stopFlag, threadRunning, live, clientPort, thread, sock,
                       dest, mp4, closedStdin>>
    PROVE  MediaTypeOK'
  BY DEF MediaTypeOK

(* The steps of the control thread that begin a call.                      *)
LEMMA CallsInv == MediaInv /\ Calls => MediaInv'
<1> SUFFICES ASSUME MediaInv, Calls PROVE MediaInv'
  OBVIOUS
<1> USE PortsAssumption, RecordingAssumption
    DEF MediaInv, MediaTypeOK, CallerInv, OpenInv, RunningInv,
        PlayingHasThread, MediaOutputsOwned, EveryThreadJoined, CallerStates,
        ThreadStates, Streaming, Sockets, InitCalls, initialized, NoPort,
        locked, session, sender, control, Goto, Resources
<1>1. CASE open = {} /\ ~threadRunning /\ Initialize
  <2>1. MediaTypeOK'
    BY <1>1 DEF Initialize
  <2>2. CallerInv' /\ OpenInv'
    BY <1>1 DEF Initialize
  <2>3. RunningInv' /\ EveryThreadJoined'
    BY <1>1 DEF Initialize
  <2>4. PlayingHasThread' /\ MediaOutputsOwned'
    BY <1>1 DEF Initialize
  <2> QED
    BY <2>1, <2>2, <2>3, <2>4
<1>2. CASE ~live /\ BeginSession
  <2>1. MediaTypeOK'
    BY <1>2 DEF BeginSession
  <2>2. CallerInv' /\ OpenInv'
    BY <1>2 DEF BeginSession
  <2>3. RunningInv' /\ EveryThreadJoined'
    BY <1>2 DEF BeginSession
  <2>4. PlayingHasThread' /\ MediaOutputsOwned'
    BY <1>2 DEF BeginSession
  <2> QED
    BY <2>1, <2>2, <2>3, <2>4
<1>3. CASE live /\ \E p \in Ports : Setup(p)
  <2>1. MediaTypeOK'
    BY <1>3 DEF Setup
  <2>2. CallerInv' /\ OpenInv'
    BY <1>3 DEF Setup
  <2>3. RunningInv' /\ EveryThreadJoined'
    BY <1>3 DEF Setup
  <2>4. PlayingHasThread' /\ MediaOutputsOwned'
    BY <1>3 DEF Setup
  <2> QED
    BY <2>1, <2>2, <2>3, <2>4
<1>4. CASE live /\ StartRefused
  <2>1. MediaTypeOK'
    BY <1>4 DEF StartRefused
  <2>2. CallerInv' /\ OpenInv'
    BY <1>4 DEF StartRefused
  <2>3. RunningInv' /\ EveryThreadJoined'
    BY <1>4 DEF StartRefused
  <2>4. PlayingHasThread' /\ MediaOutputsOwned'
    BY <1>4 DEF StartRefused
  <2> QED
    BY <2>1, <2>2, <2>3, <2>4
<1>5. CASE live /\ StartRunning
  <2>1. MediaTypeOK'
    BY <1>5 DEF StartRunning
  <2>2. CallerInv' /\ OpenInv'
    BY <1>5 DEF StartRunning
  <2>3. RunningInv' /\ EveryThreadJoined'
    BY <1>5 DEF StartRunning
  <2>4. PlayingHasThread' /\ MediaOutputsOwned'
    BY <1>5 DEF StartRunning
  <2> QED
    BY <2>1, <2>2, <2>3, <2>4
<1>6. CASE live /\ StartFresh
  <2>1. MediaTypeOK'
    BY <1>6 DEF StartFresh
  <2>2. CallerInv' /\ OpenInv'
    BY <1>6 DEF StartFresh
  <2>3. RunningInv' /\ EveryThreadJoined'
    BY <1>6 DEF StartFresh
  <2>4. PlayingHasThread' /\ MediaOutputsOwned'
    BY <1>6 DEF StartFresh
  <2> QED
    BY <2>1, <2>2, <2>3, <2>4
<1>7. CASE live /\ locked /\ Stop
  <2>1. MediaTypeOK'
    <3>1. /\ caller' \in {"stopJoin", "idle"} /\ playing' = FALSE
          /\ stopRequested' = TRUE /\ open' = open /\ result' = result
          /\ UNCHANGED <<stopFlag, threadRunning, live, clientPort, thread, sock,
                         dest, mp4, closedStdin>>
      BY <1>7 DEF Stop
    <3>2. caller' \in CallerStates
      BY <3>1
    <3> HIDE DEF MediaInv, CallerStates
    <3> QED
      BY <3>1, <3>2, CallerTypes DEF MediaInv
  <2>2. CallerInv' /\ OpenInv'
    BY <1>7 DEF Stop
  <2>3. RunningInv' /\ EveryThreadJoined'
    BY <1>7 DEF Stop
  <2>4. PlayingHasThread' /\ MediaOutputsOwned'
    BY <1>7 DEF Stop
  <2> QED
    BY <2>1, <2>2, <2>3, <2>4
<1>8. CASE live /\ ~threadRunning /\ DropSession
  <2>1. MediaTypeOK'
    BY <1>8 DEF DropSession
  <2>2. CallerInv' /\ OpenInv'
    BY <1>8 DEF DropSession
  <2>3. RunningInv' /\ EveryThreadJoined'
    BY <1>8 DEF DropSession
  <2>4. PlayingHasThread' /\ MediaOutputsOwned'
    BY <1>8 DEF DropSession
  <2> QED
    BY <2>1, <2>2, <2>3, <2>4
<1>9. CASE Close
  <2>1. MediaTypeOK'
    BY <1>9 DEF Close
  <2>2. CallerInv' /\ OpenInv'
    BY <1>9 DEF Close
  <2>3. RunningInv' /\ EveryThreadJoined'
    BY <1>9 DEF Close
  <2>4. PlayingHasThread' /\ MediaOutputsOwned'
    BY <1>9 DEF Close
  <2> QED
    BY <2>1, <2>2, <2>3, <2>4
<1> QED
  BY <1>1, <1>2, <1>3, <1>4, <1>5, <1>6, <1>7, <1>8, <1>9 DEF Calls, Start

(* The steps of the control thread inside a call.                          *)
LEMMA CallStepInv == MediaInv /\ CallStep => MediaInv'
<1> SUFFICES ASSUME MediaInv, CallStep PROVE MediaInv'
  OBVIOUS
<1> USE PortsAssumption, RecordingAssumption
    DEF MediaInv, MediaTypeOK, CallerInv, OpenInv, RunningInv,
        PlayingHasThread, MediaOutputsOwned, EveryThreadJoined, CallerStates,
        ThreadStates, Streaming, Sockets, InitCalls, initialized, NoPort,
        locked, session, sender, control, Goto, Trans, Resources
<1>1. CASE InitLock
  <2>1. MediaTypeOK'
    BY <1>1 DEF InitLock
  <2>2. CallerInv' /\ OpenInv'
    BY <1>1 DEF InitLock
  <2>3. RunningInv' /\ EveryThreadJoined'
    BY <1>1 DEF InitLock
  <2>4. PlayingHasThread' /\ MediaOutputsOwned'
    BY <1>1 DEF InitLock
  <2> QED
    BY <2>1, <2>2, <2>3, <2>4
<1>2. CASE InitCapture
  <2>1. MediaTypeOK'
    <3>1. /\ caller' \in {"initEncoder", "close"} /\ playing' = playing
          /\ stopRequested' = stopRequested /\ result' \in {0, -1}
          /\ UNCHANGED <<stopFlag, threadRunning, live, clientPort, thread, sock,
                         dest, mp4, closedStdin>>
      BY <1>2 DEF InitCapture, InitStage
    <3>2. open' \subseteq Resources
      BY <1>2 DEF InitCapture, InitStage
    <3>3. caller' \in CallerStates /\ playing' \in BOOLEAN /\ stopRequested' \in BOOLEAN
      BY <3>1
    <3> HIDE DEF MediaInv, CallerStates
    <3> QED
      BY <3>1, <3>2, <3>3, CallerTypes DEF MediaInv
  <2>2. CallerInv' /\ OpenInv'
    BY <1>2 DEF InitCapture, InitStage
  <2>3. RunningInv' /\ EveryThreadJoined'
    BY <1>2 DEF InitCapture, InitStage
  <2>4. PlayingHasThread' /\ MediaOutputsOwned'
    BY <1>2 DEF InitCapture, InitStage
  <2> QED
    BY <2>1, <2>2, <2>3, <2>4
<1>3. CASE InitEncoder
  <2>1. MediaTypeOK'
    <3>1. /\ caller' \in {"initParams", "close"} /\ playing' = playing
          /\ stopRequested' = stopRequested /\ result' \in {0, -1}
          /\ UNCHANGED <<stopFlag, threadRunning, live, clientPort, thread, sock,
                         dest, mp4, closedStdin>>
      BY <1>3 DEF InitEncoder, InitStage
    <3>2. open' \subseteq Resources
      BY <1>3 DEF InitEncoder, InitStage
    <3>3. caller' \in CallerStates /\ playing' \in BOOLEAN /\ stopRequested' \in BOOLEAN
      BY <3>1
    <3> HIDE DEF MediaInv, CallerStates
    <3> QED
      BY <3>1, <3>2, <3>3, CallerTypes DEF MediaInv
  <2>2. CallerInv' /\ OpenInv'
    BY <1>3 DEF InitEncoder, InitStage
  <2>3. RunningInv' /\ EveryThreadJoined'
    BY <1>3 DEF InitEncoder, InitStage
  <2>4. PlayingHasThread' /\ MediaOutputsOwned'
    BY <1>3 DEF InitEncoder, InitStage
  <2> QED
    BY <2>1, <2>2, <2>3, <2>4
<1>4. CASE InitParams
  <2>1. MediaTypeOK'
    <3>1. /\ caller' \in {"idle", "close"} /\ playing' = playing
          /\ stopRequested' = stopRequested /\ result' \in {0, -1}
          /\ UNCHANGED <<stopFlag, threadRunning, live, clientPort, thread, sock,
                         dest, mp4, closedStdin>>
      BY <1>4 DEF InitParams, InitStage
    <3>2. open' \subseteq Resources
      BY <1>4 DEF InitParams, InitStage
    <3>3. caller' \in CallerStates /\ playing' \in BOOLEAN /\ stopRequested' \in BOOLEAN
      BY <3>1
    <3> HIDE DEF MediaInv, CallerStates
    <3> QED
      BY <3>1, <3>2, <3>3, CallerTypes DEF MediaInv
  <2>2. CallerInv' /\ OpenInv'
    BY <1>4 DEF InitParams, InitStage
  <2>3. RunningInv' /\ EveryThreadJoined'
    BY <1>4 DEF InitParams, InitStage
  <2>4. PlayingHasThread' /\ MediaOutputsOwned'
    BY <1>4 DEF InitParams, InitStage
  <2> QED
    BY <2>1, <2>2, <2>3, <2>4
<1>5. CASE StartCreate
  <2>1. MediaTypeOK'
    BY <1>5 DEF StartCreate
  <2>2. CallerInv' /\ OpenInv'
    BY <1>5 DEF StartCreate
  <2>3. RunningInv' /\ EveryThreadJoined'
    BY <1>5 DEF StartCreate
  <2>4. PlayingHasThread' /\ MediaOutputsOwned'
    BY <1>5 DEF StartCreate
  <2> QED
    BY <2>1, <2>2, <2>3, <2>4
<1>6. CASE StartUndo
  <2>1. MediaTypeOK'
    BY <1>6 DEF StartUndo
  <2>2. CallerInv' /\ OpenInv'
    BY <1>6 DEF StartUndo
  <2>3. RunningInv' /\ EveryThreadJoined'
    BY <1>6 DEF StartUndo
  <2>4. PlayingHasThread' /\ MediaOutputsOwned'
    BY <1>6 DEF StartUndo
  <2> QED
    BY <2>1, <2>2, <2>3, <2>4
<1>7. CASE CloseStop
  <2>1. MediaTypeOK'
    BY <1>7 DEF CloseStop
  <2>2. CallerInv' /\ OpenInv'
    BY <1>7 DEF CloseStop
  <2>3. RunningInv' /\ EveryThreadJoined'
    BY <1>7 DEF CloseStop
  <2>4. PlayingHasThread' /\ MediaOutputsOwned'
    BY <1>7 DEF CloseStop
  <2> QED
    BY <2>1, <2>2, <2>3, <2>4
<1>8. CASE Join
  <2>1. MediaTypeOK'
    BY <1>8 DEF Join
  <2>2. CallerInv' /\ OpenInv'
    BY <1>8 DEF Join
  <2>3. RunningInv' /\ EveryThreadJoined'
    BY <1>8 DEF Join
  <2>4. PlayingHasThread' /\ MediaOutputsOwned'
    BY <1>8 DEF Join
  <2> QED
    BY <2>1, <2>2, <2>3, <2>4
<1>9. CASE Joined
  <2>1. MediaTypeOK'
    BY <1>9 DEF Joined
  <2>2. CallerInv' /\ OpenInv'
    BY <1>9 DEF Joined
  <2>3. RunningInv' /\ EveryThreadJoined'
    BY <1>9 DEF Joined
  <2>4. PlayingHasThread' /\ MediaOutputsOwned'
    BY <1>9 DEF Joined
  <2> QED
    BY <2>1, <2>2, <2>3, <2>4
<1>10. CASE Release
  <2>1. MediaTypeOK'
    BY <1>10 DEF Release
  <2>2. CallerInv' /\ OpenInv'
    BY <1>10 DEF Release
  <2>3. RunningInv' /\ EveryThreadJoined'
    BY <1>10 DEF Release
  <2>4. PlayingHasThread' /\ MediaOutputsOwned'
    BY <1>10 DEF Release
  <2> QED
    BY <2>1, <2>2, <2>3, <2>4
<1> QED
  BY <1>1, <1>2, <1>3, <1>4, <1>5, <1>6, <1>7, <1>8, <1>9, <1>10 DEF CallStep

(* The steps of the media thread.                                          *)
LEMMA ThreadStepInv == MediaInv /\ ThreadStep => MediaInv'
<1> SUFFICES ASSUME MediaInv, ThreadStep PROVE MediaInv'
  OBVIOUS
<1> USE PortsAssumption, RecordingAssumption
    DEF MediaInv, MediaTypeOK, CallerInv, OpenInv, RunningInv,
        PlayingHasThread, MediaOutputsOwned, EveryThreadJoined, CallerStates,
        ThreadStates, Streaming, Sockets, InitCalls, initialized, NoPort,
        session, sender, control, Trans
<1>1. CASE ThreadSender
  <2>1. MediaTypeOK'
    BY <1>1 DEF ThreadSender
  <2>2. CallerInv' /\ OpenInv'
    BY <1>1 DEF ThreadSender
  <2>3. RunningInv' /\ EveryThreadJoined'
    BY <1>1 DEF ThreadSender
  <2>4. PlayingHasThread' /\ MediaOutputsOwned'
    BY <1>1 DEF ThreadSender
  <2> QED
    BY <2>1, <2>2, <2>3, <2>4
<1>2. CASE ThreadMuxer
  <2>1. MediaTypeOK'
    BY <1>2 DEF ThreadMuxer
  <2>2. CallerInv' /\ OpenInv'
    BY <1>2 DEF ThreadMuxer
  <2>3. RunningInv' /\ EveryThreadJoined'
    BY <1>2 DEF ThreadMuxer
  <2>4. PlayingHasThread' /\ MediaOutputsOwned'
    BY <1>2 DEF ThreadMuxer
  <2> QED
    BY <2>1, <2>2, <2>3, <2>4
<1>3. CASE ThreadDrain
  <2>1. MediaTypeOK'
    BY <1>3 DEF ThreadDrain
  <2>2. CallerInv' /\ OpenInv'
    BY <1>3 DEF ThreadDrain
  <2>3. RunningInv' /\ EveryThreadJoined'
    BY <1>3 DEF ThreadDrain
  <2>4. PlayingHasThread' /\ MediaOutputsOwned'
    BY <1>3 DEF ThreadDrain
  <2> QED
    BY <2>1, <2>2, <2>3, <2>4
<1>4. CASE ThreadFlag
  <2>1. MediaTypeOK'
    BY <1>4 DEF ThreadFlag
  <2>2. CallerInv' /\ OpenInv'
    BY <1>4 DEF ThreadFlag
  <2>3. RunningInv' /\ EveryThreadJoined'
    BY <1>4 DEF ThreadFlag
  <2>4. PlayingHasThread' /\ MediaOutputsOwned'
    BY <1>4 DEF ThreadFlag
  <2> QED
    BY <2>1, <2>2, <2>3, <2>4
<1>5. CASE ThreadLocked
  <2>1. MediaTypeOK'
    BY <1>5 DEF ThreadLocked
  <2>2. CallerInv' /\ OpenInv'
    BY <1>5 DEF ThreadLocked
  <2>3. RunningInv' /\ EveryThreadJoined'
    BY <1>5 DEF ThreadLocked
  <2>4. PlayingHasThread' /\ MediaOutputsOwned'
    BY <1>5 DEF ThreadLocked
  <2> QED
    BY <2>1, <2>2, <2>3, <2>4
<1>6. CASE ThreadFrame
  <2>1. MediaTypeOK'
    BY <1>6 DEF ThreadFrame
  <2>2. CallerInv' /\ OpenInv'
    BY <1>6 DEF ThreadFrame
  <2>3. RunningInv' /\ EveryThreadJoined'
    BY <1>6 DEF ThreadFrame
  <2>4. PlayingHasThread' /\ MediaOutputsOwned'
    BY <1>6 DEF ThreadFrame
  <2> QED
    BY <2>1, <2>2, <2>3, <2>4
<1>7. CASE ThreadExit
  <2>1. MediaTypeOK'
    BY <1>7 DEF ThreadExit
  <2>2. CallerInv' /\ OpenInv'
    BY <1>7 DEF ThreadExit
  <2>3. RunningInv' /\ EveryThreadJoined'
    BY <1>7 DEF ThreadExit
  <2>4. PlayingHasThread' /\ MediaOutputsOwned'
    BY <1>7 DEF ThreadExit
  <2> QED
    BY <2>1, <2>2, <2>3, <2>4
<1>8. CASE ThreadClear
  <2>1. MediaTypeOK'
    BY <1>8 DEF ThreadClear
  <2>2. CallerInv' /\ OpenInv'
    BY <1>8 DEF ThreadClear
  <2>3. RunningInv' /\ EveryThreadJoined'
    BY <1>8 DEF ThreadClear
  <2>4. PlayingHasThread' /\ MediaOutputsOwned'
    BY <1>8 DEF ThreadClear
  <2> QED
    BY <2>1, <2>2, <2>3, <2>4
<1> QED
  BY <1>1, <1>2, <1>3, <1>4, <1>5, <1>6, <1>7, <1>8 DEF ThreadStep

LEMMA MediaNextInv == MediaInv /\ [MediaNext]_mediaVars => MediaInv'
<1>1. MediaInv /\ SetStopFlag => MediaInv'
  BY DEF SetStopFlag, MediaInv, MediaTypeOK, CallerInv, OpenInv, RunningInv,
         PlayingHasThread, MediaOutputsOwned, EveryThreadJoined, initialized,
         session, sender, control
<1>2. MediaInv /\ UNCHANGED mediaVars => MediaInv'
  BY DEF mediaVars, MediaInv, MediaTypeOK, CallerInv, OpenInv, RunningInv,
         PlayingHasThread, MediaOutputsOwned, EveryThreadJoined, initialized
<1> QED
  BY <1>1, <1>2, CallsInv, CallStepInv, ThreadStepInv DEF MediaNext

(* MediaInv holds in every state the media object can reach.               *)
THEOREM MediaInvariant == MediaSpec => []MediaInv
  BY MediaInitInv, MediaNextInv, PTL DEF MediaSpec

(* Type correctness of the media object, for every set of ports.           *)
THEOREM MediaTypeCorrect == MediaSpec => []MediaTypeOK
<1>1. MediaInv => MediaTypeOK
  BY DEF MediaInv
<1> QED
  BY <1>1, MediaInvariant, PTL

(* The media thread never outlives its session, its lock, its capture      *)
(* device or its encoder, whatever the order of calls and failures.        *)
THEOREM ThreadStaysInScope == MediaSpec => []ThreadInScope
<1>1. MediaInv => ThreadInScope
  BY DEF MediaInv, RunningInv, EveryThreadJoined, ThreadInScope, Streaming
<1> QED
  BY <1>1, MediaInvariant, PTL

(* A session marked as playing has somebody who will clear the mark.       *)
THEOREM PlayingIsServed == MediaSpec => []PlayingHasThread
<1>1. MediaInv => PlayingHasThread
  BY DEF MediaInv
<1> QED
  BY <1>1, MediaInvariant, PTL

(* The RTP socket and the muxer are open only while the thread owns them.  *)
THEOREM OutputsAreOwned == MediaSpec => []MediaOutputsOwned
<1>1. MediaInv => MediaOutputsOwned
  BY DEF MediaInv
<1> QED
  BY <1>1, MediaInvariant, PTL

(* Every created thread is joined, exactly once.                           *)
THEOREM ThreadsAreJoined == MediaSpec => []EveryThreadJoined
<1>1. MediaInv => EveryThreadJoined
  BY DEF MediaInv
<1> QED
  BY <1>1, MediaInvariant, PTL

(* No thread is created while an earlier one has not been joined.          *)
THEOREM OneThreadAtATime == MediaSpec => NoSecondThread
<1>1. MediaInv /\ [MediaNext]_mediaVars
        => [thread' # thread /\ thread' = "start" => thread = "none"]_mediaVars
  BY DEF MediaInv, CallerInv, MediaNext, Calls, CallStep, ThreadStep,
         SetStopFlag, Initialize, BeginSession, Setup, Start, StartRefused,
         StartRunning, StartFresh, Stop, DropSession, Close, InitLock,
         InitCapture, InitEncoder, InitParams, InitStage, StartCreate,
         StartUndo, CloseStop, Join, Joined, Release, ThreadSender,
         ThreadMuxer, ThreadDrain, ThreadFlag, ThreadLocked, ThreadFrame,
         ThreadExit, ThreadClear, Goto, Trans, mediaVars
<1> QED
  BY <1>1, MediaInvariant, PTL DEF MediaSpec, NoSecondThread

-----------------------------------------------------------------------------
(* The server.                                                             *)
BeforeMedia    == {"socket", "bind", "init"}
BetweenClients == {"accept", "acceptPoll", "connect", "after"}
WithClient     == {"client", "clientPoll", "recv", "send", "play", "teardown",
                   "leave", "leaving"}
Ending         == {"cleanup", "cleaning", "returned"}

(* Which call the control thread can be inside at each of its own points.  *)
WhichCall ==
    /\ pc = "initWait" => caller \in InitCalls \union {"close", "release", "idle"}
    /\ pc = "play" => caller \in {"idle", "create", "undo"}
    /\ pc \in {"teardown", "leaving"} => caller \in {"idle", "stopJoin", "stopDone"}
    /\ pc = "cleaning" => caller \in {"close", "release", "idle"}
    /\ pc \notin {"initWait", "play", "teardown", "leaving", "cleaning"} =>
           caller = "idle"

(* The scope of the session object and what is open in it.                 *)
Scopes ==
    /\ live <=> pc \in WithClient
    /\ pc \in BetweenClients \union WithClient => open = Resources
    /\ pc \in BeforeMedia \union {"returned"} => open = {}
    /\ pc = "leaving" /\ caller = "idle" => ~threadRunning
    /\ pc = "cleaning" /\ caller = "idle" => open = {}
    /\ pc = "initWait" /\ caller = "idle" /\ result = 0 => open = Resources
    /\ pc = "initWait" /\ caller \in {"close", "release"} => result = -1

(* A descriptor 0 left in the sender means that serving never began.       *)
StdinInv ==
    /\ sock = "zero" => pc \in BeforeMedia \union Ending /\ status = -1
    /\ closedStdin => pc \in Ending /\ status = -1
    /\ status = 0 => pc \in Ending \union {"after"}

OwnTypeOK ==
    /\ pc \in ServerStates /\ req \in Methods /\ status \in {0, -1}
    /\ stopPipe \in BOOLEAN /\ signals \in 0 .. MaxSignals
    /\ pending \in 0 .. signals
    /\ playPort \in Ports \union {NoPort}

OwnInv == OwnTypeOK /\ WhichCall /\ Scopes /\ StdinInv

ServerInv == MediaInv /\ OwnInv

-----------------------------------------------------------------------------
LEMMA ServerInitInv == ServerInit => ServerInv
<1>1. ServerInit => MediaInv
  BY MediaInitInv DEF ServerInit
<1>2. ServerInit => OwnTypeOK
  <2> SUFFICES ASSUME ServerInit PROVE OwnTypeOK
    OBVIOUS
  <2>1. pc \in ServerStates /\ req \in Methods /\ status \in {0, -1}
    BY DEF ServerInit, ServerStates, Methods
  <2>2. signals \in 0 .. MaxSignals /\ pending \in 0 .. signals
    BY MaxSignalsAssumption DEF ServerInit
  <2>3. stopPipe \in BOOLEAN /\ playPort \in Ports \union {NoPort}
    BY DEF ServerInit
  <2> QED
    BY <2>1, <2>2, <2>3 DEF OwnTypeOK
<1>3. ServerInit => WhichCall /\ Scopes /\ StdinInv
  BY DEF ServerInit, MediaInit, WhichCall, Scopes, StdinInv, BeforeMedia,
         BetweenClients, WithClient, Ending
<1> QED
  BY <1>1, <1>2, <1>3 DEF ServerInv, OwnInv

(* Every step of the server is a step of the media object that its         *)
(* contract allows, or leaves the media object alone.                      *)
LEMMA ServerSimulates == ServerInv /\ [ServerNext]_serverVars => [MediaNext]_mediaVars
<1> SUFFICES ASSUME ServerInv, [ServerNext]_serverVars
             PROVE  [MediaNext]_mediaVars
  OBVIOUS
<1> USE DEF ServerInv, OwnInv, WhichCall, Scopes, BeforeMedia, BetweenClients,
            WithClient, Jump
<1>1. CASE ServerInitMedia
  <2>1. open = {} /\ ~threadRunning
    BY <1>1 DEF ServerInitMedia, MediaInv, RunningInv
  <2> QED
    BY <1>1, <2>1 DEF ServerInitMedia, MediaNext, Calls
<1>2. CASE Accept
  BY <1>2 DEF Accept, MediaNext, Calls
<1>3. CASE Recv
  <2>1. CASE \E port \in Ports : RecvSetup(port)
    BY <2>1 DEF RecvSetup, MediaNext, Calls
  <2>2. CASE RecvNothing
    BY <2>2 DEF RecvNothing
  <2>3. ASSUME NEW method \in Methods, RecvRejected(method) \/ RecvPlain(method)
        PROVE  UNCHANGED mediaVars
    BY <2>3 DEF RecvRejected, RecvPlain
  <2> QED
    BY <1>3, <2>1, <2>2, <2>3 DEF Recv
<1>4. CASE SendPlay
  BY <1>4 DEF SendPlay, MediaNext, Calls
<1>5. CASE SendTeardown
  BY <1>5 DEF SendTeardown, MediaNext, Calls, locked, Resources
<1>6. CASE Leave
  BY <1>6 DEF Leave, MediaNext, Calls, locked, Resources
<1>7. CASE CloseClient
  <2>1. live /\ ~threadRunning
    BY <1>7 DEF CloseClient, DropSession
  <2> QED
    BY <1>7, <2>1 DEF CloseClient, MediaNext, Calls
<1>8. CASE Cleanup
  BY <1>8 DEF Cleanup, MediaNext, Calls
<1>9. CASE CallStep /\ UNCHANGED <<pc, ownVars>>
  BY <1>9 DEF MediaNext
<1>10. CASE MediaThread
  BY <1>10 DEF MediaThread, MediaNext
<1>11. CASE SignalFlag
  BY <1>11 DEF SignalFlag, MediaNext
<1>12. CASE \/ ServerSocket \/ ServerBind \/ ServerInitDone \/ AcceptFlag
            \/ AcceptStop \/ ClientFlag \/ ClientStop \/ SendOther
            \/ SendFailed \/ PlayDone \/ TeardownDone \/ AfterLoop
            \/ ServerReturn \/ AcceptPoll \/ ClientPoll \/ SignalPipe
            \/ Finished \/ UNCHANGED serverVars
  BY <1>12 DEF ServerSocket, ServerBind, ServerInitDone, AcceptFlag,
        AcceptStop, ClientFlag, ClientStop, SendOther, SendFailed, PlayDone,
        TeardownDone, AfterLoop, ServerReturn, AcceptPoll, ClientPoll,
        SignalPipe, Finished, CheckFlag, PollStop, PollSocket, serverVars
<1> QED
  BY <1>1, <1>2, <1>3, <1>4, <1>5, <1>6, <1>7, <1>8, <1>9, <1>10, <1>11, <1>12
  DEF ServerNext, ControlStep

(* The server's own part of the invariant.                                 *)
LEMMA ServerOwnInv ==
  ServerInv /\ MediaInv' /\ [ServerNext]_serverVars => OwnInv'
<1> SUFFICES ASSUME ServerInv, MediaInv', [ServerNext]_serverVars
             PROVE  OwnInv'
  OBVIOUS
<1> USE MaxSignalsAssumption, PortsAssumption
    DEF ServerInv, OwnInv, OwnTypeOK, WhichCall, Scopes, StdinInv, ServerStates, Serving,
        Methods, InitCalls, BeforeMedia, BetweenClients, WithClient, Ending,
        NoPort, Jump, Goto, ownVars, mediaVars, session, sender, control
<1>1. CASE ServerSocket
  BY <1>1 DEF ServerSocket
<1>2. CASE ServerBind
  BY <1>2 DEF ServerBind
<1>3. CASE ServerInitMedia
  BY <1>3 DEF ServerInitMedia, Initialize
<1>4. CASE ServerInitDone
  BY <1>4 DEF ServerInitDone
<1>5. CASE AcceptFlag
  BY <1>5 DEF AcceptFlag, CheckFlag
<1>6. CASE AcceptStop
  BY <1>6 DEF AcceptStop
<1>7. CASE Accept
  BY <1>7 DEF Accept, BeginSession
<1>8. CASE ClientFlag
  BY <1>8 DEF ClientFlag, CheckFlag
<1>9. CASE ClientStop
  BY <1>9 DEF ClientStop, PollStop
<1>10. CASE Recv
  BY <1>10 DEF Recv, RecvNothing, RecvPlain, RecvSetup, RecvRejected, Setup
<1>11. CASE SendPlay
  BY <1>11 DEF SendPlay, Start, StartRefused, StartRunning, StartFresh,
          MediaInv, MediaTypeOK
<1>12. CASE SendTeardown
  BY <1>12 DEF SendTeardown, Stop
<1>13. CASE SendOther
  BY <1>13 DEF SendOther
<1>14. CASE SendFailed
  BY <1>14 DEF SendFailed
<1>15. CASE PlayDone
  BY <1>15 DEF PlayDone
<1>16. CASE TeardownDone
  BY <1>16 DEF TeardownDone
<1>17. CASE Leave
  BY <1>17 DEF Leave, Stop
<1>18. CASE CloseClient
  BY <1>18 DEF CloseClient, DropSession
<1>19. CASE AfterLoop
  BY <1>19 DEF AfterLoop
<1>20. CASE Cleanup
  BY <1>20 DEF Cleanup, Close
<1>21. CASE ServerReturn
  BY <1>21 DEF ServerReturn
<1>22. CASE AcceptPoll
  BY <1>22 DEF AcceptPoll, PollSocket
<1>23. CASE ClientPoll
  BY <1>23 DEF ClientPoll, PollSocket
<1>24. CASE InitLock /\ UNCHANGED <<pc, ownVars>>
  BY <1>24 DEF InitLock, MediaInv, OpenInv, RunningInv, initialized, Resources, Trans
<1>25. CASE InitCapture /\ UNCHANGED <<pc, ownVars>>
  BY <1>25 DEF InitCapture, InitStage, MediaInv, OpenInv, RunningInv, initialized, Resources, Trans
<1>26. CASE InitEncoder /\ UNCHANGED <<pc, ownVars>>
  BY <1>26 DEF InitEncoder, InitStage, MediaInv, OpenInv, RunningInv, initialized, Resources, Trans
<1>27. CASE InitParams /\ UNCHANGED <<pc, ownVars>>
  BY <1>27 DEF InitParams, InitStage, MediaInv, OpenInv, RunningInv, initialized, Resources, Trans
<1>28. CASE StartCreate /\ UNCHANGED <<pc, ownVars>>
  BY <1>28 DEF StartCreate, MediaInv, OpenInv, RunningInv, initialized, Resources, Trans
<1>29. CASE StartUndo /\ UNCHANGED <<pc, ownVars>>
  BY <1>29 DEF StartUndo, MediaInv, OpenInv, RunningInv, initialized, Resources, Trans
<1>30. CASE CloseStop /\ UNCHANGED <<pc, ownVars>>
  BY <1>30 DEF CloseStop, MediaInv, OpenInv, RunningInv, initialized, Resources, Trans
<1>31. CASE Join /\ UNCHANGED <<pc, ownVars>>
  BY <1>31 DEF Join, MediaInv, OpenInv, RunningInv, initialized, Resources, Trans
<1>32. CASE Joined /\ UNCHANGED <<pc, ownVars>>
  BY <1>32 DEF Joined, MediaInv, OpenInv, RunningInv, initialized, Resources, Trans
<1>33. CASE Release /\ UNCHANGED <<pc, ownVars>>
  <2>1. /\ caller = "release" /\ caller' = "idle" /\ open' = {} /\ ~threadRunning
        /\ UNCHANGED <<pc, req, status, stopPipe, signals, pending, playPort, live,
                       result, threadRunning>>
    BY <1>33 DEF Release, MediaInv, CallerInv
  <2>2. pc \in {"initWait", "cleaning"}
    BY <2>1
  <2>3. OwnTypeOK' /\ WhichCall'
    BY <2>1, <2>2
  <2>4. Scopes'
    BY <2>1, <2>2
  <2>5. StdinInv'
    BY <1>33, <2>2 DEF Release
  <2> QED
    BY <2>3, <2>4, <2>5
<1>34. CASE MediaThread
  BY <1>34 DEF MediaThread, ThreadStep, ThreadSender, ThreadMuxer, ThreadDrain,
        ThreadFlag, ThreadLocked, ThreadFrame, ThreadExit, ThreadClear
<1>35. CASE SignalFlag
  BY <1>35 DEF SignalFlag, SetStopFlag
<1>36. CASE SignalPipe
  BY <1>36 DEF SignalPipe
<1>37. CASE Finished \/ UNCHANGED serverVars
  BY <1>37 DEF Finished, serverVars
<1> QED
  BY <1>1, <1>2, <1>3, <1>4, <1>5, <1>6, <1>7, <1>8, <1>9, <1>10, <1>11,
     <1>12, <1>13, <1>14, <1>15, <1>16, <1>17, <1>18, <1>19, <1>20, <1>21,
     <1>22, <1>23, <1>24, <1>25, <1>26, <1>27, <1>28, <1>29, <1>30, <1>31,
     <1>32, <1>33, <1>34, <1>35, <1>36, <1>37
  DEF ServerNext, ControlStep, CallStep

LEMMA ServerNextInv == ServerInv /\ [ServerNext]_serverVars => ServerInv'
  BY ServerSimulates, ServerOwnInv, MediaNextInv DEF ServerInv

THEOREM ServerInvariant == ServerSpec => []ServerInv
  BY ServerInitInv, ServerNextInv, PTL DEF ServerSpec

(* Type correctness of the server, for any ports and number of signals.    *)
THEOREM ServerTypeCorrect == ServerSpec => []ServerTypeOK
<1>1. ServerInv => ServerTypeOK
  BY DEF ServerInv, MediaInv, OwnInv, OwnTypeOK, ServerTypeOK
<1> QED
  BY <1>1, ServerInvariant, PTL

(* The server implements the media object's interface: it never leaves the *)
(* contract, so every safety property of RtspMedia holds of the server.    *)
THEOREM ServerImplementsMedia == ServerSpec => ImplementsMedia
<1>1. ServerInit => MediaInit
  BY DEF ServerInit
<1> QED
  BY <1>1, ServerSimulates, ServerInvariant, PTL
  DEF ServerSpec, ImplementsMedia, MediaSpec

(* No session leaves a thread, a socket or a recording behind.             *)
THEOREM SessionsAreSeparate == ServerSpec => []NothingBetweenSessions
<1>1. ServerInv => NothingBetweenSessions
  BY DEF ServerInv, MediaInv, RunningInv, EveryThreadJoined, MediaOutputsOwned,
         NothingBetweenSessions
<1> QED
  BY <1>1, ServerInvariant, PTL

(* Whatever made it return, the server returns with everything closed.     *)
THEOREM ServerReturnsClean == ServerSpec => []ReturnsClean
<1>1. ServerInv => ReturnsClean
  BY DEF ServerInv, MediaInv, RunningInv, EveryThreadJoined, MediaOutputsOwned,
         OwnInv, Scopes, StdinInv, ReturnsClean, BeforeMedia, WithClient
<1> QED
  BY <1>1, ServerInvariant, PTL

-----------------------------------------------------------------------------
(* The program around the server.                                          *)
BeforeServer == {"install", "create", "start"}
AfterServer  == {"destroy", "close", "exited"}

(* RKAIQ, the pipe and the server's position at each place of main.        *)
MainInv ==
    /\ at \in BeforeServer => pc = "socket"
    /\ at \in AfterServer => pc \in {"socket", "returned"}
    /\ at \in BeforeServer \union AfterServer \union {"run"}
    /\ at \in {"install", "create", "close", "exited"} => isp = "none"
    /\ at = "start" => isp = "created"
    /\ at = "run" /\ aiq => isp = "started"
    /\ at = "exited" => ~pipe

(* Success, from the server's status to the exit code, means a signal.     *)
StopInv ==
    /\ signals > 0 \/ stopPipe \/ status = 0 => stopFlag
    /\ exitCode = "success" => at \in AfterServer /\ stopFlag

ProgramInv == ServerInv /\ MainInv /\ StopInv

LEMMA ProgramInitInv == ProgramInit => ProgramInv
<1>1. ProgramInit => ServerInv
  BY ServerInitInv DEF ProgramInit
<1>2. ProgramInit => MainInv
  BY DEF ProgramInit, ServerInit, IspInit, MainInv, BeforeServer, AfterServer
<1>3. ProgramInit => StopInv
  BY DEF ProgramInit, ServerInit, StopInv
<1> QED
  BY <1>1, <1>2, <1>3 DEF ProgramInv

LEMMA ProgramSimulates == [ProgramNext]_programVars => [ServerNext]_serverVars
<1>1. MainStep \/ Report => UNCHANGED serverVars
  BY DEF MainStep, Report, InstallHandlers, CreateIsp, StartIsp, RunReturns,
         DestroyIsp, ClosePipe
<1>2. RunServer \/ Poll \/ RunThread => ServerNext
  BY DEF RunServer, Poll, RunThread, Server, ServerNext
<1>3. HandlerSets \/ HandlerWrites => ServerNext
  BY DEF HandlerSets, HandlerWrites, ServerNext
<1> QED
  BY <1>1, <1>2, <1>3 DEF ProgramNext, programVars

(* A server that has not begun, or has returned, is at rest.               *)
LEMMA ServerAtRest ==
    ASSUME ServerInv, pc \in {"socket", "returned"}
    PROVE  open = {} /\ thread = "none" /\ sock # "rtp" /\ ~mp4
  BY DEF ServerInv, MediaInv, RunningInv, EveryThreadJoined, MediaOutputsOwned,
         OwnInv, Scopes, BeforeMedia, WithClient

LEMMA MainStepInv == ASSUME ProgramInv, ProgramNext PROVE MainInv'
<1> USE DEF ProgramInv, MainInv, BeforeServer, AfterServer, Main, mainVars, ispVars
<1>1. CASE InstallHandlers
  BY <1>1 DEF InstallHandlers, serverVars
<1>2. CASE CreateIsp
  BY <1>2 DEF CreateIsp, IspCreate, IspCreateFails, serverVars
<1>3. CASE StartIsp
  BY <1>3 DEF StartIsp, IspStart, IspStartFails, serverVars
<1>4. CASE RunReturns
  BY <1>4 DEF RunReturns, serverVars
<1>5. CASE DestroyIsp
  BY <1>5 DEF DestroyIsp, IspDestroy, serverVars
<1>6. CASE ClosePipe
  BY <1>6 DEF ClosePipe, serverVars
<1>7. CASE RunServer \/ Poll \/ RunThread
  BY <1>7 DEF RunServer, Poll, RunThread, Server
<1>8. CASE HandlerSets \/ HandlerWrites
  BY <1>8 DEF HandlerSets, HandlerWrites, SignalFlag, SignalPipe
<1>9. CASE Report
  BY <1>9 DEF Report, IspError, serverVars
<1> QED
  BY <1>1, <1>2, <1>3, <1>4, <1>5, <1>6, <1>7, <1>8, <1>9 DEF ProgramNext, MainStep

(* The flag, once set, stays; and the status is 0 only by it.              *)
LEMMA FlagStays ==
    ASSUME ServerInv, StopInv, [ServerNext]_serverVars
    PROVE  /\ stopFlag => stopFlag'
           /\ (signals > 0 \/ stopPipe \/ status = 0 => stopFlag)'
<1> USE DEF StopInv, Jump, mediaVars, ownVars, session, sender, control
<1>1. CASE ServerSocket \/ ServerBind \/ ServerInitDone \/ AcceptFlag \/ ClientFlag
           \/ SendOther \/ SendFailed \/ PlayDone \/ TeardownDone \/ ServerReturn
  BY <1>1 DEF ServerSocket, ServerBind, ServerInitDone, AcceptFlag, ClientFlag, CheckFlag,
              SendOther, SendFailed, PlayDone, TeardownDone, ServerReturn
<1>2. CASE AcceptStop \/ ClientStop \/ AcceptPoll \/ ClientPoll \/ AfterLoop
  BY <1>2 DEF AcceptStop, ClientStop, PollStop, AcceptPoll, ClientPoll, PollSocket, AfterLoop
<1>3. CASE ServerInitMedia \/ Accept \/ CloseClient \/ Cleanup
  BY <1>3 DEF ServerInitMedia, Initialize, Accept, BeginSession, CloseClient, DropSession,
              Cleanup, Close
<1>4. CASE Recv
  BY <1>4 DEF Recv, RecvNothing, RecvPlain, RecvSetup, RecvRejected, Setup
<1>5. CASE SendPlay \/ SendTeardown \/ Leave
  BY <1>5 DEF SendPlay, Start, StartRefused, StartRunning, StartFresh, SendTeardown, Leave,
              Stop
<1>6. CASE CallStep /\ UNCHANGED <<pc, ownVars>>
  BY <1>6 DEF CallStep, InitLock, InitCapture, InitEncoder, InitParams, InitStage,
              StartCreate, StartUndo, CloseStop, Join, Joined, Release
<1>7. CASE MediaThread
  BY <1>7 DEF MediaThread, ThreadStep, ThreadSender, ThreadMuxer, ThreadDrain,
              ThreadFlag, ThreadLocked, ThreadFrame, ThreadExit, ThreadClear
<1>8. CASE SignalFlag
  BY <1>8 DEF SignalFlag, SetStopFlag
<1>9. CASE SignalPipe
  <2>1. signals > 0
    BY <1>9 DEF SignalPipe, ServerInv, OwnInv, OwnTypeOK
  <2> QED
    BY <1>9, <2>1 DEF SignalPipe
<1>10. CASE Finished \/ UNCHANGED serverVars
  BY <1>10 DEF Finished, serverVars
<1> QED
  BY <1>1, <1>2, <1>3, <1>4, <1>5, <1>6, <1>7, <1>8, <1>9, <1>10
  DEF ServerNext, ControlStep

LEMMA ExitInv ==
    ASSUME ProgramInv, ProgramNext, stopFlag => stopFlag'
    PROVE  (exitCode = "success" => at \in AfterServer /\ stopFlag)'
<1> USE DEF ProgramInv, StopInv, AfterServer, Main, mainVars
<1>1. CASE InstallHandlers \/ CreateIsp \/ StartIsp
  BY <1>1 DEF InstallHandlers, CreateIsp, StartIsp
<1>2. CASE RunReturns
  BY <1>2 DEF RunReturns, serverVars, mediaVars, ownVars
<1>3. CASE DestroyIsp \/ ClosePipe
  BY <1>3 DEF DestroyIsp, ClosePipe
<1>4. CASE RunServer \/ Poll \/ RunThread \/ HandlerSets \/ HandlerWrites \/ Report
  BY <1>4 DEF RunServer, Poll, RunThread, Server, HandlerSets, HandlerWrites, Report
<1> QED
  BY <1>1, <1>2, <1>3, <1>4 DEF ProgramNext, MainStep

LEMMA ProgramNextInv == ProgramInv /\ [ProgramNext]_programVars => ProgramInv'
<1> SUFFICES ASSUME ProgramInv, [ProgramNext]_programVars PROVE ProgramInv'
  OBVIOUS
<1>1. ServerInv' /\ [ServerNext]_serverVars
  BY ProgramSimulates, ServerNextInv DEF ProgramInv
<1>2. CASE UNCHANGED programVars
  BY <1>1, <1>2 DEF ProgramInv, MainInv, StopInv, programVars, serverVars, mediaVars,
                    ownVars, ispVars, mainVars
<1>3. CASE ProgramNext
  <2>1. /\ stopFlag => stopFlag'
        /\ (signals > 0 \/ stopPipe \/ status = 0 => stopFlag)'
    BY <1>1, FlagStays DEF ProgramInv
  <2> QED
    BY <1>1, <1>3, <2>1, MainStepInv, ExitInv DEF ProgramInv, StopInv
<1> QED
  BY <1>2, <1>3

THEOREM ProgramInvariant == ProgramSpec => []ProgramInv
  BY ProgramInitInv, ProgramNextInv, PTL DEF ProgramSpec

(* The server of the program is the server of RtspServer: what is proved   *)
(* of the one, the media contract included, holds in the other.            *)
THEOREM ProgramRunsServer == ProgramSpec => ServerSpec
<1>1. ProgramInit => ServerInit
  BY DEF ProgramInit
<1> QED
  BY <1>1, ProgramSimulates, PTL DEF ProgramSpec, ServerSpec

(* RKAIQ runs as long as the camera and the media thread do, whatever      *)
(* fails and whenever a signal comes; the program leaves nothing behind,   *)
(* and its exit code is a success only after a signal (main.c).            *)
THEOREM CameraStaysWithinIsp == ProgramSpec => []CameraWithinIsp
<1>1. ASSUME ProgramInv PROVE CameraWithinIsp
  <2>1. at # "run" => open = {} /\ thread = "none" /\ sock # "rtp" /\ ~mp4
    BY <1>1, ServerAtRest DEF ProgramInv, MainInv, BeforeServer, AfterServer
  <2> QED
    BY <1>1, <2>1 DEF ProgramInv, MainInv, StopInv, CameraWithinIsp
<1> QED
  BY <1>1, ProgramInvariant, PTL
=============================================================================
