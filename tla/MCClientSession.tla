---------------------------- MODULE MCClientSession ---------------------------
(* Requests that just fit, one that does not, one with a body, and one     *)
(* that has no CSeq.  Parameter sets of every length around a multiple of  *)
(* three, one SPS too short, sets too long for their buffer or, together,  *)
(* for the SDP.  Every start code, with and without a zero behind a NAL    *)
(* unit; access units with all, some or none of the parameter sets, bytes  *)
(* that nearly are a start code, and more NAL units than are read.         *)
EXTENDS ClientSession

MCRequests == {
    [method |-> "DESCRIBE", layout |-> <<"method", "cseq", "empty">>],
    [method |-> "DESCRIBE", layout |-> <<"method", "cseq", "empty", "body">>],
    [method |-> "PLAY",     layout |-> <<"method", "cseq", "header", "empty">>],
    [method |-> "TEARDOWN", layout |-> <<"method", "cseq", "empty">>],
    [method |-> "OPTIONS",  layout |-> <<"method", "header", "empty">>],
    [method |-> "SETUP",    layout |-> <<"method", "header", "cseq", "header", "empty">>]}

MCParameterSets == {
    [sps |-> <<103, 0, 0, 3, 1>>, pps |-> <<104, 206>>],
    [sps |-> <<103, 66, 255, 63, 0, 7>>, pps |-> <<104, 206, 60>>],
    [sps |-> <<103, 66, 128>>, pps |-> <<104>>],
    [sps |-> <<103, 66, 128, 31, 218, 2, 128, 246, 128>>, pps |-> <<104>>],
    [sps |-> <<103, 66, 128, 31, 218, 2, 128, 246, 128, 109>>, pps |-> <<104>>],
    [sps |-> <<103, 66, 128, 31, 218, 2, 129>>, pps |-> <<104, 206, 60, 128, 3, 1, 9>>]}

(* Every form only with the first pair of parameter sets.                  *)
MCDeliveries(p) ==
    LET idr   == <<101, 0, 0, 2, 0, 1>>
        slice == <<65, 0, 1>>
        sei   == <<6, 5>>
        unit(nals, code, n) ==
            [i \in DOMAIN nals |-> [code |-> code[i % 2], nal |-> nals[i], zeros |-> n]]
        forms == {<<p.sps, p.pps, idr>>, <<idr>>}
        more  == {<<p.sps, idr>>, <<slice>>, <<sei, slice>>, <<p.sps, p.pps, sei, idr>>}
        codes == [0 .. 1 -> {3, 4}]
    IN  {unit(nals, code, 0) : nals \in forms, code \in {c \in codes : c[0] = c[1]}}
        \cup IF Len(p.sps) # 5 THEN {}
             ELSE {unit(nals, code, n) : nals \in forms \cup more, code \in codes, n \in {0, 1}}
=============================================================================
