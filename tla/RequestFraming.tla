---------------------------- MODULE RequestFraming ----------------------------
(***************************************************************************)
(* How one RTSP connection becomes requests: the receive loop of           *)
(* rtsp_server_run and the two searches of rtsp/rtsp_request.c, which take *)
(* whatever the buffer holds for one request as soon as it has a CSeq      *)
(* header and an empty line.  RtspServer begins where this module ends,    *)
(* with whole requests.                                                    *)
(*                                                                         *)
(* A request is a sequence of parts, each of the same size; TCP delivers   *)
(* them in order and in pieces of any length.  The client asks again when  *)
(* it was answered.  Behind the CSeq and the empty line, whichever of them *)
(* comes last, a request has nothing but its body.                         *)
(***************************************************************************)
EXTENDS Integers, Sequences, SequencesExt

CONSTANTS
    BufferSize,     \* BUFFER_SIZE, in parts
    Requests,       \* what a client may send: [method, layout : parts]
    MaxRequests     \* bound: requests of one connection

Parts == {"method", "header", "cseq", "empty", "body"}

ASSUME FramingAssumption ==
    /\ BufferSize \in Nat \ {0} /\ MaxRequests \in Nat
    /\ \A r \in Requests :
          r.layout \in Seq(Parts) /\ r.layout # <<>> /\ r.layout[1] = "method"
    /\ \A r \in Requests : \A i, j, k \in DOMAIN r.layout :
          r.layout[i] = "cseq" /\ r.layout[j] = "empty" /\ k > i /\ k > j
              => r.layout[k] = "body"

VARIABLES
    connection,     \* "open", or why it was closed
    asked,          \* the requests of this connection, in order
    inFlight,       \* what is on its way, part by part: [of : request, part]
    buffer,         \* what rtsp_server_run has received
    replies         \* [cseq, method : the request whose line was read, 0: 405]

framingVars == <<connection, asked, inFlight, buffer, replies>>

FramingInit ==
    /\ connection = "closed"
    /\ asked = <<>> /\ inFlight = <<>> /\ buffer = <<>> /\ replies = <<>>

Connect ==
    /\ connection # "open" /\ connection' = "open"
    /\ asked' = <<>> /\ inFlight' = <<>> /\ buffer' = <<>> /\ replies' = <<>>

(* A connection ends, and the locals of its loop go; one too large stays   *)
(* to be looked at.                                                        *)
Ends(why) ==
    /\ connection = "open" /\ connection' = why
    /\ inFlight' = <<>> /\ buffer' = <<>>
    /\ asked' = IF why = "tooLarge" THEN asked ELSE <<>>
    /\ replies' = IF why = "tooLarge" THEN replies ELSE <<>>

(* The client.                                                             *)
Ask ==
    /\ connection = "open" /\ Len(asked) < MaxRequests
    /\ Len(replies) = Len(asked)
    /\ \E request \in Requests :
          /\ asked' = Append(asked, request)
          /\ inFlight' = inFlight \o [i \in DOMAIN request.layout |->
                             [of |-> Len(asked) + 1, part |-> request.layout[i]]]
    /\ UNCHANGED <<connection, buffer, replies>>

Disconnect == Ends("left")

-----------------------------------------------------------------------------
Has(data, part) == \E i \in DOMAIN data : data[i].part = part

(* Mutants: what Complete would be with a plausible bug.                   *)
CompleteWithCSeq(data) == Has(data, "cseq")
CompleteAtEnd(data)    == Has(data, "cseq") /\ Last(data).part = "empty"

(* rtsp_request_complete, rtsp_request_get_cseq and the comparisons of     *)
(* process_request with the beginning of the buffer.                       *)
Complete(data) == Has(data, "cseq") /\ Has(data, "empty")

CSeq(data)   == data[Min({i \in DOMAIN data : data[i].part = "cseq"})].of
Method(data) == IF data[1].part = "method" THEN data[1].of ELSE 0

Handling == connection = "open" /\ Complete(buffer)
Asks(method) == Method(buffer) # 0 /\ asked[Method(buffer)].method = method

-----------------------------------------------------------------------------
Receiving == connection = "open" /\ inFlight # <<>> /\ ~Complete(buffer)
Room      == BufferSize - 1 - Len(buffer)

TooLarge == Receiving /\ Room <= 0 /\ Ends("tooLarge")

(* As much as there is and fits, or less.                                  *)
Receive ==
    /\ Receiving
    /\ \E n \in 1 .. Len(inFlight) :
          /\ n <= Room
          /\ buffer' = buffer \o SubSeq(inFlight, 1, n)
          /\ inFlight' = SubSeq(inFlight, n + 1, Len(inFlight))
    /\ UNCHANGED <<connection, asked, replies>>

(* The reply, after which the whole buffer is forgotten; the connection is *)
(* closed if the request was TEARDOWN.                                     *)
Reply ==
    /\ Handling
    /\ replies' = Append(replies, [cseq |-> CSeq(buffer), method |-> Method(buffer)])
    /\ connection' = IF Asks("TEARDOWN") THEN "closed" ELSE "open"
    /\ buffer' = <<>>
    /\ UNCHANGED <<asked, inFlight>>

(* The handler or its send fails.                                          *)
ReplyFails == Handling /\ Ends("closed")

(* recv or poll fails, or the program is told to stop.                     *)
Drop == ~Complete(buffer) /\ Ends("closed")

-----------------------------------------------------------------------------
PartsOf(request, part) == {i \in DOMAIN request.layout : request.layout[i] = part}
BodyParts(k) == UNION {{j} \X PartsOf(asked[j], "body") : j \in 1 .. k}
Bodies(k)    == Cardinality(BodyParts(k))

(* However TCP cuts the connection into pieces, every request gets at most *)
(* one answer and the answers come in order with the CSeq of the request.  *)
(* It is taken for what it is unless a body came before it, whose rest the *)
(* next request is glued to; and it is too large only if it does not fit,  *)
(* with such a rest before it.                                             *)
AnswersMatch ==
    /\ Len(replies) <= Len(asked)
    /\ \A k \in DOMAIN replies :
          /\ replies[k].cseq = k
          /\ Bodies(k - 1) = 0 => replies[k].method = k
    /\ connection = "tooLarge" =>
          \E k \in DOMAIN asked : Len(asked[k].layout) + Bodies(k - 1) >= BufferSize

(* A request with a CSeq header is answered, or the connection ends, in    *)
(* how many pieces it may come and whatever follows its empty line.        *)
EachAnswered ==
    \A k \in 1 .. MaxRequests :
        (Len(asked) >= k /\ PartsOf(asked[k], "cseq") # {})
            ~> (Len(replies) >= k \/ connection # "open")
=============================================================================
