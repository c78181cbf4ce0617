------------------------------- MODULE RtpStream -----------------------------
(***************************************************************************)
(* The RTP stream of one PLAY: how send_access_unit (rtsp/rtsp_media.c)    *)
(* cuts the NAL units of each access unit into packets (rtp/h264_rtp.c),   *)
(* numbers them (rtp/rtp_packet.c) and sends them (rtp/rtp_sender.c), one  *)
(* sendto at a time.                                                       *)
(*                                                                         *)
(* A NAL unit is its type, which stands for the byte of its header, and    *)
(* the bytes 1 .. size - 1 behind it; a packet carries a range of them.    *)
(* The encoder that makes the access units is external: it puts the        *)
(* parameter sets, one of each or none, at the head of one.                *)
(***************************************************************************)
EXTENDS Integers, Sequences

CONSTANTS
    PayloadMax,     \* RTP_PAYLOAD_MAX
    SeqModulus,     \* sequence numbers are uint16_t: 2^16
    FirstSeq,       \* the sequence number of the first packet, 100
    ClockModulus,   \* time stamps are uint32_t: 2^32
    ClockStep,      \* timestamp_step
    AccessUnits,    \* what the encoder may deliver: sequences of NAL units
    MaxPictures     \* bound: access units of one session

Types    == {"sps", "pps", "slice"}
NalUnits == [type : Types, size : Nat \ {0}]

Sps == [type |-> "sps", size |-> 2]
Pps == [type |-> "pps", size |-> 1]

Contains(unit, type) == \E i \in 1 .. Len(unit) : unit[i].type = type

ASSUME PacketAssumption ==
    /\ PayloadMax \in Nat \ {0}
    /\ SeqModulus \in Nat \ {0} /\ FirstSeq \in 0 .. SeqModulus - 1
    /\ ClockModulus \in Nat \ {0} /\ ClockStep \in 1 .. ClockModulus - 1
    /\ MaxPictures \in Nat

ASSUME UnitsAssumption ==
    \A unit \in AccessUnits :
        /\ unit \in Seq(NalUnits) /\ unit # <<>>
        /\ Contains(unit, "sps") \/ Contains(unit, "pps")
           => unit[1].type = "sps" /\ Contains(unit, "pps")
        /\ \A k \in 2 .. Len(unit) : unit[k].type # "sps"

VARIABLES
    place,          \* "idle", "sending" or "closed"
    pictures,       \* the access units handed to the packetizer, in order
    nal, offset,    \* which NAL unit of the last one, and which byte, is next
    seq, timestamp, \* media_thread's own
    wire            \* the packets sent, in order

streamVars == <<place, pictures, nal, offset, seq, timestamp, wire>>

Picture == pictures[Len(pictures)]
Unit    == Picture[nal]

StreamInit ==
    /\ place = "idle" /\ pictures = <<>> /\ nal = 1 /\ offset = 1
    /\ seq = FirstSeq /\ timestamp = 0
    /\ wire = <<>>

-----------------------------------------------------------------------------
(* send_access_unit sends media->sps and media->pps ahead of the session's *)
(* first access unit when it lacks them.                                   *)
Missing(unit, set) == IF Contains(unit, set.type) THEN <<>> ELSE <<set>>

WithParameters(unit) ==
    IF pictures = <<>> THEN Missing(unit, Sps) \o Missing(unit, Pps) \o unit
                       ELSE unit

SendAccessUnit ==
    /\ place = "idle" /\ Len(pictures) < MaxPictures
    /\ \E unit \in AccessUnits : pictures' = Append(pictures, WithParameters(unit))
    /\ nal' = 1 /\ offset' = 1 /\ place' = "sending"
    /\ UNCHANGED <<seq, timestamp, wire>>

-----------------------------------------------------------------------------
(* Mutants: what the named definition below would be with a plausible bug. *)
(* No action of the specification uses them.                               *)

(* Emit: the marker ends every NAL unit.                                   *)
EmitMarksUnits(fu, from, to) ==
    LET last == to = Unit.size - 1
    IN  /\ wire' = Append(wire,
              [seq |-> seq, timestamp |-> timestamp, marker |-> last,
               type |-> Unit.type, fu |-> fu, start |-> from = 1, end |-> last,
               data |-> [picture |-> Len(pictures), nal |-> nal,
                         from |-> from, to |-> to]])
        /\ seq' = (seq + 1) % SeqModulus
        /\ offset' = IF last THEN 1 ELSE to + 1
        /\ nal' = IF last THEN nal + 1 ELSE nal
        /\ UNCHANGED <<place, pictures, timestamp>>

(* EndAccessUnit: the clock stands still.                                  *)
EndSameClock ==
    /\ place = "sending" /\ nal > Len(Picture)
    /\ place' = "idle"
    /\ UNCHANGED <<pictures, nal, offset, seq, timestamp, wire>>

-----------------------------------------------------------------------------
(* One packet and one sendto that succeeds.  The marker goes on the last   *)
(* packet of the last NAL unit.                                            *)
Emit(fu, from, to) ==
    LET last == to = Unit.size - 1
    IN  /\ wire' = Append(wire,
              [seq |-> seq, timestamp |-> timestamp,
               marker |-> last /\ nal = Len(Picture),
               type |-> Unit.type, fu |-> fu, start |-> from = 1, end |-> last,
               data |-> [picture |-> Len(pictures), nal |-> nal,
                         from |-> from, to |-> to]])
        /\ seq' = (seq + 1) % SeqModulus
        /\ offset' = IF last THEN 1 ELSE to + 1
        /\ nal' = IF last THEN nal + 1 ELSE nal
        /\ UNCHANGED <<place, pictures, timestamp>>

(* A mutant of SendFragment: a fragment repeats the last byte before it.   *)
FragmentOverlaps ==
    /\ place = "sending" /\ nal <= Len(Picture) /\ Unit.size > PayloadMax
    /\ LET remain == Unit.size - offset
           begin  == IF offset = 1 THEN 1 ELSE offset - 1
       IN  Emit(TRUE, begin, IF remain > PayloadMax THEN offset + PayloadMax - 1
                                                    ELSE Unit.size - 1)

-----------------------------------------------------------------------------
(* send_single_nalu                                                        *)
SendSingle ==
    /\ place = "sending" /\ nal <= Len(Picture)
    /\ Unit.size <= PayloadMax
    /\ Emit(FALSE, 1, Unit.size - 1)

(* One turn of the loop in send_fu_a.                                      *)
SendFragment ==
    /\ place = "sending" /\ nal <= Len(Picture)
    /\ Unit.size > PayloadMax
    /\ LET remain == Unit.size - offset
       IN  Emit(TRUE, offset, IF remain > PayloadMax THEN offset + PayloadMax - 1
                                                     ELSE Unit.size - 1)

(* media_thread goes on to the next picture.                               *)
EndAccessUnit ==
    /\ place = "sending" /\ nal > Len(Picture)
    /\ timestamp' = (timestamp + ClockStep) % ClockModulus
    /\ place' = "idle"
    /\ UNCHANGED <<pictures, nal, offset, seq, wire>>

(* A sendto fails, or the session is over: the socket is closed, whatever  *)
(* is left of the access unit.                                             *)
Close ==
    /\ place # "closed" /\ place' = "closed"
    /\ UNCHANGED <<pictures, nal, offset, seq, timestamp, wire>>

StreamNext ==
    \/ SendAccessUnit \/ SendSingle \/ SendFragment \/ EndAccessUnit \/ Close

StreamSpec == StreamInit /\ [][StreamNext]_streamVars

-----------------------------------------------------------------------------
Packets ==
    [seq : 0 .. SeqModulus - 1, timestamp : 0 .. ClockModulus - 1,
     marker : BOOLEAN, type : Types, fu : BOOLEAN, start : BOOLEAN,
     end : BOOLEAN,
     data : [picture : Nat, nal : Nat, from : Nat, to : Nat]]

StreamTypeOK ==
    /\ place \in {"idle", "sending", "closed"}
    /\ pictures \in Seq(Seq(NalUnits))
    /\ nal \in Nat /\ offset \in Nat
    /\ seq \in 0 .. SeqModulus - 1 /\ timestamp \in 0 .. ClockModulus - 1
    /\ wire \in Seq(Packets)

(* Two packets in a row: q goes on where p stopped.  Within a NAL unit not *)
(* a byte is left out or repeated; a unit begins when the one before it is *)
(* complete; a picture begins behind a marker, and only there, with a new  *)
(* time stamp, and only there.                                             *)
SameUnit(p, q) ==
    /\ ~p.end /\ ~q.start /\ p.fu /\ q.fu /\ p.type = q.type
    /\ q.data.picture = p.data.picture /\ q.data.nal = p.data.nal
    /\ q.data.from = p.data.to + 1
    /\ ~p.marker /\ q.timestamp = p.timestamp

NextUnit(p, q) ==
    /\ p.end /\ q.start
    /\ q.data.picture = p.data.picture /\ q.data.nal = p.data.nal + 1
    /\ ~p.marker /\ q.timestamp = p.timestamp

NextPicture(p, q) ==
    /\ p.end /\ q.start
    /\ q.data.picture = p.data.picture + 1 /\ q.data.nal = 1
    /\ p.marker /\ q.timestamp # p.timestamp

Follows(p, q) ==
    /\ q.seq = (p.seq + 1) % SeqModulus
    /\ SameUnit(p, q) \/ NextUnit(p, q) \/ NextPicture(p, q)

(* The packets spell out the access units, byte for byte, and what a       *)
(* receiver needs to find their bounds is in the packets: a unit starts at *)
(* its first byte and ends at its last, the marker is on the last packet   *)
(* of a picture (h264_rtp.h:51-54), no packet has a payload over the       *)
(* maximum.                                                                *)
Bounded(p) ==
    LET unit == pictures[p.data.picture][p.data.nal]
    IN  /\ p.type = unit.type
        /\ p.start <=> p.data.from = 1
        /\ p.end <=> p.data.to = unit.size - 1
        /\ p.marker <=> p.end /\ p.data.nal = Len(pictures[p.data.picture])
        /\ p.fu <=> unit.size > PayloadMax
        /\ p.data.to - p.data.from < PayloadMax

SpellsPictures ==
    /\ wire # <<>> =>
        /\ wire[1].start /\ wire[1].type = "sps"
        /\ wire[1].data.picture = 1 /\ wire[1].data.nal = 1
    /\ \A i \in 1 .. Len(wire) : Bounded(wire[i])
    /\ \A i \in 1 .. Len(wire) - 1 : Follows(wire[i], wire[i + 1])
=============================================================================
