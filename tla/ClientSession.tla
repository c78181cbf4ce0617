----------------------------- MODULE ClientSession ----------------------------
(***************************************************************************)
(* What one client after the other gets from the server: its requests come *)
(* in pieces (RequestFraming), DESCRIBE is answered with an SDP made of    *)
(* the parameter sets of the media object (SdpBuilder), and PLAY starts    *)
(* the media thread, which scans, records and hands on access units        *)
(* (AccessUnit) while further requests are received.  When a PLAY starts   *)
(* the thread and how it is stopped is the business of RtspServer.         *)
(***************************************************************************)
EXTENDS RequestFraming, SdpBuilder

vars == <<framingVars, unitVars, sdpVars>>

Init == FramingInit /\ UnitInit /\ SdpInit

(* rtsp_media_init comes before the first client is accepted.              *)
Prepare == Bootstrap /\ UNCHANGED <<framingVars, sdpVars>>

AcceptClient ==
    /\ place = "closed" /\ Connect
    /\ sdp' = NoSdp
    /\ UNCHANGED <<unitVars, step, next, output, text>>

(* That it left while the answer is being made shows when it is sent.      *)
Client == (Ask \/ (step = "idle" /\ Disconnect)) /\ UNCHANGED <<unitVars, sdpVars>>

-----------------------------------------------------------------------------
(* The control thread.  A request it does not know, GET_PARAMETER, SETUP   *)
(* and TEARDOWN are answered at once.                                      *)
ReceiveMore == (Receive \/ TooLarge) /\ UNCHANGED <<unitVars, sdpVars>>

BuildSdp ==
    /\ Handling /\ Asks("DESCRIBE")
    /\ Check \/ EncodeGroup \/ EncodeEnds \/ PrintSdp
    /\ UNCHANGED <<framingVars, unitVars>>

AnswerDescribe ==
    /\ \/ SdpReturns("done") /\ (Reply \/ ReplyFails)
       \/ SdpReturns("failed") /\ ReplyFails
    /\ UNCHANGED unitVars

AnswerPlay ==
    /\ Handling /\ Asks("PLAY")
    /\ \/ Reply /\ (Play \/ UNCHANGED unitVars)
       \/ ReplyFails /\ UNCHANGED unitVars
    /\ UNCHANGED sdpVars

AnswerOther ==
    /\ Handling /\ ~Asks("DESCRIBE") /\ ~Asks("PLAY")
    /\ Reply \/ ReplyFails
    /\ UNCHANGED <<unitVars, sdpVars>>

Hangup == Drop /\ UNCHANGED <<unitVars, sdpVars>>

(* rtsp_media_stop at the end of the session.                              *)
StopMedia == connection # "open" /\ StopThread /\ UNCHANGED <<framingVars, sdpVars>>

Control == ReceiveMore \/ BuildSdp \/ AnswerDescribe \/ AnswerPlay \/ AnswerOther

RunMedia == ThreadLoop /\ UNCHANGED <<framingVars, sdpVars>>

Next == Prepare \/ AcceptClient \/ Client \/ Control \/ Hangup \/ StopMedia \/ RunMedia

(* The control thread goes on with what is there; nobody else need.        *)
Spec == Init /\ [][Next]_vars /\ WF_vars(Control)
=============================================================================
