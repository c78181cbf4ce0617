------------------------------- MODULE AccessUnit -----------------------------
(***************************************************************************)
(* What happens to the bytes of an access unit: the scan for start codes   *)
(* (h264/h264_annexb.c), the parameter sets kept from the bootstrap unit,  *)
(* the unit that opens a recording, the muxer wrapper with a scan of its   *)
(* own (muxer/mp4_muxer.c), and the NAL units handed to the packetizer     *)
(* (rtsp/rtsp_media.c).                                                    *)
(*                                                                         *)
(* The encoder is external: it has one pair of parameter sets, which come  *)
(* ahead of an IDR, writes each NAL unit behind a start code of three or   *)
(* four bytes, zeros may follow it, and emulation prevention keeps start   *)
(* codes out of it.  So is librkmuxer, which may fail.                     *)
(***************************************************************************)
EXTENDS Integers, Sequences, FiniteSetsExt, SequencesExt

CONSTANTS
    ParameterSets,  \* the encoder's: [sps, pps : NAL units]
    Deliveries(_),  \* its access units, with one of these: sequences of
                    \* [code : start code size, nal : bytes, zeros : number]
    MaxNalus,       \* H264_ANNEXB_MAX_NALUS, 64
    Second,         \* 1000000 us
    Fps,            \* RTSP_MEDIA_FPS, 25
    MaxFrames       \* bound: frames of one session

Idr == 5
Sps == 7
Pps == 8

NalType(nal) == nal[1] % 32

(* What the encoder makes: a NAL unit has a header, does not end with zero *)
(* and has no start code in it; an access unit has a picture.              *)
NalUnit(nal) ==
    /\ nal \in Seq(0 .. 255) /\ nal # <<>> /\ Last(nal) # 0
    /\ \A i \in 3 .. Len(nal) : <<nal[i - 2], nal[i - 1], nal[i]>> # <<0, 0, 1>>

NalUnits(us) ==
    /\ us \in Seq([code : {3, 4}, nal : Seq(0 .. 255), zeros : Nat])
    /\ \A i \in DOMAIN us : NalUnit(us[i].nal)

TypeAt(us, i) == NalType(us[i].nal)

Delivery(us, p) ==
    /\ NalUnits(us)
    /\ \E i \in DOMAIN us : TypeAt(us, i) \in 1 .. Idr
    /\ \A i \in DOMAIN us : /\ TypeAt(us, i) = Sps => us[i].nal = p.sps
                            /\ TypeAt(us, i) = Pps => us[i].nal = p.pps
    /\ \A i, j \in DOMAIN us : TypeAt(us, i) \in {Sps, Pps} /\ TypeAt(us, j) = Idr => i < j

ASSUME AccessUnitAssumption ==
    /\ MaxNalus \in Nat \ {0} /\ Fps \in Nat \ {0} /\ Second \in Nat /\ Fps <= Second
    /\ \A p \in ParameterSets :
          /\ NalUnit(p.sps) /\ NalType(p.sps) = Sps
          /\ NalUnit(p.pps) /\ NalType(p.pps) = Pps
          /\ \A us \in Deliveries(p) : Delivery(us, p)

VARIABLES
    params,         \* the encoder's parameter sets
    place,          \* where the media thread is
    sps, pps,       \* media->sps, media->pps
    recording,      \* muxer_initialized
    waiting,        \* waiting_for_idr
    first,          \* prepend_parameter_sets
    index,          \* frame_count; recording_frame_count while it records
    frames, lastPts,\* the muxer's frame_count and last_pts_us
    units,          \* the access unit at hand, as the encoder made it
    written,        \* the bytes last written to the recording
    sent            \* the NAL units last handed to the packetizer

media    == <<params, sps, pps, recording>>
gateVars == <<waiting, first, index>>
muxer    == <<frames, lastPts, written>>
unitVars == <<place, media, gateVars, muxer, units, sent>>

UnitInit ==
    /\ params \in ParameterSets
    /\ place = "init" /\ sps = <<>> /\ pps = <<>> /\ recording \in BOOLEAN
    /\ waiting = TRUE /\ first = FALSE /\ index = 0
    /\ frames = 0 /\ lastPts = -1 /\ written = <<>>
    /\ units = <<>> /\ sent = <<>>

-----------------------------------------------------------------------------
Zeros(n)     == [i \in 1 .. n |-> 0]
StartCode(n) == Append(Zeros(n - 1), 1)

Stream(us) == FlattenSeq([i \in DOMAIN us |->
                  StartCode(us[i].code) \o us[i].nal \o Zeros(us[i].zeros)])
Nals(us)   == [i \in DOMAIN us |-> us[i].nal]

(* start_code_size, find_next_start_code; offsets count from zero.         *)
CodeAt(data, offset, n) ==
    /\ offset + n <= Len(data)
    /\ SubSeq(data, offset + 1, offset + n) = StartCode(n)

StartCodeSize(data, offset) ==
    IF CodeAt(data, offset, 4) THEN 4 ELSE IF CodeAt(data, offset, 3) THEN 3 ELSE 0

NextStartCode(data, from) ==
    Min({Len(data)} \cup {i \in from .. Len(data) - 1 : StartCodeSize(data, i) # 0})

(* Mutant of Trimmed: a NAL unit ends where the next start code begins.    *)
Untrimmed(data, from, to) == SubSeq(data, from + 1, to)

(* Trailing zeros are not part of a NAL unit.                              *)
Trimmed(data, from, to) ==
    SubSeq(data, from + 1, Max({from} \cup {i \in from + 1 .. to : data[i] # 0}))

(* h264_annexb_collect; <<>> where it fails.                               *)
Collect(data) ==
    LET from[start \in 0 .. Len(data)] ==
            LET nalu == start + StartCodeSize(data, start)
                next == NextStartCode(data, nalu)
                nal  == Trimmed(data, nalu, next)
            IN  IF start = Len(data) THEN <<>>
                ELSE (IF nal = <<>> THEN <<>> ELSE <<nal>>) \o from[next]
        all == from[NextStartCode(data, 0)]
    IN  IF Len(all) > MaxNalus THEN <<>> ELSE all

Types(data) == {NalType(nal) : nal \in ToSet(Collect(data))}

(* The first of its type, for h264_annexb_copy_parameter_sets.             *)
FirstOf(data, type) ==
    LET nals == Collect(data)
        hits == {i \in DOMAIN nals : NalType(nals[i]) = type}
    IN  IF hits = {} THEN <<>> ELSE nals[Min(hits)]

(* inspect_annexb_h264 has a loop of its own and steps over the byte       *)
(* behind a start code without looking for another one in it.              *)
Inspected(data) ==
    LET from[offset \in Nat] ==
            LET header == offset + StartCodeSize(data, offset)
            IN  IF offset >= Len(data) \/ header >= Len(data) THEN {}
                ELSE IF header = offset THEN from[offset + 1]
                ELSE {data[header + 1] % 32} \cup from[header + 1]
    IN  from[0]

-----------------------------------------------------------------------------
(* prepare_bootstrap_access_unit                                           *)
Bootstrap ==
    /\ place = "init"
    /\ \E us \in Deliveries(params) :
          LET data == Stream(us)
          IN  IF Idr \in Types(data) /\ {Sps, Pps} \subseteq Types(data)
              THEN /\ place' = "closed"
                   /\ sps' = FirstOf(data, Sps) /\ pps' = FirstOf(data, Pps)
              ELSE place' = "noServer" /\ UNCHANGED <<sps, pps>>
    /\ UNCHANGED <<params, recording, gateVars, muxer, units, sent>>

(* A PLAY: the locals of media_thread, and mp4_muxer_init, begin anew.     *)
Play ==
    /\ place = "closed" /\ place' = "loop"
    /\ frames' = 0 /\ lastPts' = -1
    /\ UNCHANGED <<media, gateVars, written, units, sent>>

(* The next frame, and the gate that waits for an IDR.                     *)
Gate ==
    /\ place = "loop" /\ index < MaxFrames
    /\ units' \in Deliveries(params)
    /\ LET idr == Idr \in Types(Stream(units'))
       IN  /\ first' = (waiting /\ idr) /\ waiting' = (waiting /\ ~idr)
           /\ place' = IF waiting' THEN "next" ELSE IF recording THEN "record" ELSE "send"
    /\ UNCHANGED <<media, index, muxer, sent>>

-----------------------------------------------------------------------------
(* Mutant of StartUnit: the sets go behind the unit that lacks them.       *)
StartUnitBehind(data) ==
    IF {Sps, Pps} \subseteq Types(data) THEN data
    ELSE data \o StartCode(4) \o sps \o StartCode(4) \o pps

-----------------------------------------------------------------------------
(* build_complete_mp4_start_au                                             *)
StartUnit(data) ==
    IF {Sps, Pps} \subseteq Types(data) THEN data
    ELSE StartCode(4) \o sps \o StartCode(4) \o pps \o data

(* What mp4_muxer_write_h264 demands before it calls librkmuxer.           *)
MuxerTakes(data, pts) ==
    /\ pts >= 0 /\ (frames > 0 => pts > lastPts)
    /\ Inspected(data) \cap (1 .. Idr) # {}
    /\ frames = 0 => {Idr, Sps, Pps} \subseteq Inspected(data)

(* write_mp4_access_unit and mp4_muxer_write_h264; whatever fails here     *)
(* ends the session.                                                       *)
Record ==
    /\ place = "record"
    /\ LET data  == IF index = 0 THEN StartUnit(Stream(units)) ELSE Stream(units)
           pts   == (index * Second) \div Fps
           takes == /\ index = 0 => Idr \in Types(Stream(units))
                    /\ MuxerTakes(data, pts)
       IN  \/ /\ takes /\ place' = "send" /\ written' = data
              /\ frames' = frames + 1 /\ lastPts' = pts
           \/ /\ place' = IF takes THEN "failed" ELSE "refused"
              /\ UNCHANGED muxer
    /\ UNCHANGED <<media, gateVars, units, sent>>

(* send_access_unit, as far as the bytes go: every NAL unit is handed to   *)
(* the packetizer, the missing parameter sets ahead of the first.  A send  *)
(* that fails ends the session.                                            *)
MissingSets(types) == (IF Sps \in types THEN <<>> ELSE <<sps>>)
                      \o (IF Pps \in types THEN <<>> ELSE <<pps>>)

Send ==
    /\ place = "send"
    /\ LET nals == Collect(Stream(units))
       IN  IF nals = <<>>
           THEN place' = "unreadable" /\ UNCHANGED <<sent, index>>
           ELSE \/ /\ place' = "next" /\ index' = index + 1
                   /\ sent' = (IF first THEN MissingSets(Types(Stream(units))) ELSE <<>>)
                              \o nals
                \/ place' = "failed" /\ UNCHANGED <<sent, index>>
    /\ UNCHANGED <<media, waiting, first, muxer, units>>

(* free(h264_data); prepend_parameter_sets is a local of the iteration.    *)
NextFrame ==
    /\ place = "next" /\ place' = "loop"
    /\ first' = FALSE /\ units' = <<>> /\ sent' = <<>> /\ written' = <<>>
    /\ UNCHANGED <<media, waiting, index, frames, lastPts>>

(* The thread ends when a step failed or it is told to stop; and it is     *)
(* joined.                                                                 *)
End ==
    /\ place \in {"loop", "refused", "failed", "unreadable"} /\ place' = "ended"
    /\ waiting' = TRUE /\ first' = FALSE /\ index' = 0
    /\ units' = <<>> /\ sent' = <<>> /\ written' = <<>>
    /\ UNCHANGED <<media, frames, lastPts>>

StopThread ==
    /\ place = "ended" /\ place' = "closed"
    /\ UNCHANGED <<media, gateVars, muxer, units, sent>>

ThreadLoop == Gate \/ Record \/ Send \/ NextFrame \/ End

-----------------------------------------------------------------------------
(* The reference: three bytes make a start code, and what lies between two *)
(* of them, without the zeros at its end, is a NAL unit.                   *)
Codes(data) == {i \in 3 .. Len(data) : SubSeq(data, i - 2, i) = <<0, 0, 1>>}

WithoutTail(bytes) == SubSeq(bytes, 1, Max({0} \cup {k \in DOMAIN bytes : bytes[k] # 0}))

Units(data) ==
    LET end(i) == Min({Len(data)} \cup {j - 3 : j \in {k \in Codes(data) : k > i}})
    IN  [i \in Codes(data) |-> WithoutTail(SubSeq(data, i + 1, end(i)))]

(* Both parameter sets are ahead of the picture.                           *)
Decodable(nals) ==
    \E i, j, k \in DOMAIN nals :
        /\ nals[i] = params.sps /\ nals[j] = params.pps /\ NalType(nals[k]) = Idr
        /\ \A l \in DOMAIN nals : NalType(nals[l]) = Idr => l > i /\ l > j

(* Between the encoder and the packetizer no byte of a NAL unit is lost,   *)
(* added or moved to another, whatever start codes and zeros surround it,  *)
(* and the first picture of a session has its parameter sets ahead of it;  *)
(* only a unit of more than H264_ANNEXB_MAX_NALUS NAL units is unreadable. *)
UnitsSurvive ==
    /\ sent # <<>> =>
         LET added == IF first THEN Len(sent) - Len(units) ELSE 0
         IN  /\ SubSeq(sent, added + 1, Len(sent)) = Nals(units)
             /\ first => Decodable(sent)
    /\ place = "unreadable" => Len(units) > MaxNalus

(* The muxer finds in every access unit what the media thread found there, *)
(* with a different scan, and never turns one down: what the thread lets   *)
(* through its gate can be recorded.  The first one written can be decoded *)
(* by itself, with the parameter sets the client was told of.              *)
RecordingPlays ==
    /\ place # "refused"
    /\ written # <<>> =>
         /\ Inspected(written) = {NalType(Units(written)[i]) : i \in Codes(written)}
         /\ index = 0 => Decodable(Units(written))
=============================================================================
