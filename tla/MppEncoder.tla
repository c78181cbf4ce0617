------------------------------ MODULE MppEncoder ------------------------------
(***************************************************************************)
(* The encoder wrapper (encoder/mpp_encoder.c) and its only caller in the  *)
(* server, capture_and_encode (rtsp/rtsp_media.c): set-up with its undo, a *)
(* picture put and a packet got, the copy of the packet out of the stream  *)
(* ring of the vendor library through a mapping made for this one copy,    *)
(* and the return of the packet.                                           *)
(*                                                                         *)
(* The library is external.  It encodes from frm_buf itself, whenever it   *)
(* gets to it, writes packets one behind the other around the ring, never  *)
(* over a packet that was not returned, and says truly where a packet lies *)
(* or something impossible; offset 0 it may also call the end of the ring. *)
(* encode_get_packet may fail with the packet still to come.               *)
(***************************************************************************)
EXTENDS Integers, Sequences

CONSTANTS
    RingSize,       \* buf_size: bytes in the library's ring
    MaxLength,      \* bound: bytes of one packet
    MaxPictures     \* bound: pictures put

ASSUME EncoderAssumption ==
    /\ RingSize \in Nat \ {0}
    /\ MaxLength \in 1 .. RingSize /\ MaxPictures \in Nat

VARIABLES
    place,          \* where the calling thread is
    owned,          \* what mpp_encoder_init_ex has made
    scratch,        \* what copy_vendor_packet has open
    packet,         \* vendor_packet
    out,            \* *out, a sequence of bytes
    input,          \* the number of the picture in frm_buf
    ring, cursor,   \* the library's ring, and where it writes next
    fed,            \* frames put and not encoded
    made,           \* what each packet shows, and its length
    ready, held,    \* packets to be got, and got but not returned
    given,          \* what the caller was given, call by call
    late, lost      \* failed calls of encode_get_packet, packets not returned

program == <<place, owned, scratch, packet, out>>
library == <<ring, cursor, fed, made, ready, held>>
history == <<given, late, lost>>
vars    == <<program, input, library, history>>

Buffers == {"frm", "pkt"}
Cells   == 0 .. RingSize - 1

(* Byte i of packet k is <<k, i>>.                                         *)
Bytes(k) == [i \in 1 .. made[k].length |-> <<k, i - 1>>]
Where(p) == {(p.start + i) % RingSize : i \in 0 .. p.length - 1}

NoPacket == [number |-> 0]

Init ==
    /\ place = "frm" /\ owned = {} /\ scratch = {}
    /\ packet = NoPacket /\ out = <<>> /\ input = 0
    /\ ring = [c \in Cells |-> <<0, 0>>] /\ cursor \in Cells
    /\ fed = 0 /\ made = <<>> /\ ready = <<>> /\ held = {}
    /\ given = <<>> /\ late = 0 /\ lost = {}

Go(from, to) == place = from /\ place' = to

-----------------------------------------------------------------------------
(* mpp_encoder_init_ex: two buffers, the context, its set-up.  A failure   *)
(* goes to mpp_encoder_close.                                              *)
Acquire(resource, next) ==
    /\ \/ Go(resource, next) /\ owned' = owned \cup {resource}
       \/ Go(resource, "close") /\ UNCHANGED owned
    /\ UNCHANGED <<scratch, packet, out, input, library, history>>

GetFrameBuffer == Acquire("frm", "pkt")
GetAuxBuffer   == Acquire("pkt", "ctx")
CreateContext  == Acquire("ctx", "configure")

Configure ==
    /\ Go("configure", "idle") \/ Go("configure", "close")
    /\ UNCHANGED <<owned, scratch, packet, out, input, library, history>>

-----------------------------------------------------------------------------
(* A picture is copied to frm_buf and put.  When the put fails, the frame  *)
(* was not taken.                                                          *)
PutFrame ==
    /\ input < MaxPictures /\ input' = input + 1
    /\ \/ Go("idle", "get") /\ fed' = fed + 1
       \/ Go("idle", "failed") /\ UNCHANGED fed
    /\ UNCHANGED <<owned, scratch, packet, out, ring, cursor, made, ready, held, history>>

GetPacket ==
    /\ Go("get", "range") /\ ready # <<>>
    /\ packet' = Head(ready) /\ ready' = Tail(ready)
    /\ held' = held \cup {Head(ready)}
    /\ UNCHANGED <<owned, scratch, out, input, ring, cursor, fed, made, history>>

GetFails ==
    /\ Go("get", "failed") /\ late' = late + 1
    /\ UNCHANGED <<owned, scratch, packet, out, input, library, given, lost>>

(* copy_vendor_packet: an impossible packet is refused, the end of the     *)
(* ring is its beginning.                                                  *)
InRange(p) == p.len \in 1 .. RingSize /\ p.offset \in 0 .. RingSize
Offset(p)  == p.offset % RingSize

CheckRange ==
    /\ Go("range", IF InRange(packet) THEN "valloc" ELSE "return")
    /\ UNCHANGED <<owned, scratch, packet, out, input, library, history>>

(* The device, the descriptor of the ring, its mapping, the memory for the *)
(* copy; each may fail.                                                    *)
Open(resource, next) ==
    /\ \/ Go(resource, next) /\ scratch' = scratch \cup {resource}
       \/ Go(resource, "cleanup") /\ UNCHANGED scratch
    /\ UNCHANGED <<owned, packet, out, input, library, history>>

OpenDevice   == Open("valloc", "dma")
GetFd        == Open("dma", "map")
MapRing      == Open("map", "alloc")
AllocateCopy == Open("alloc", "copy")

-----------------------------------------------------------------------------
(* Mutants: what the named definition below would be with a plausible bug. *)
(* No action of the specification uses them.                               *)

(* CopyOut: the packet is taken to lie in one piece.                       *)
CopyStraight ==
    /\ Go("copy", "cleanup")
    /\ out' = [i \in 1 .. packet.len |->
                  LET at == Offset(packet) + i - 1
                  IN  IF at \in Cells THEN ring[at] ELSE <<0, 0>>]
    /\ UNCHANGED <<owned, scratch, packet, input, library, history>>

(* Cleanup: a copy that failed leaves the call at once.                    *)
CleanupReturns ==
    /\ Go("cleanup", IF out = <<>> THEN "failed" ELSE "return")
    /\ scratch' = {}
    /\ UNCHANGED <<owned, packet, out, input, library, history>>

-----------------------------------------------------------------------------
(* Up to the end of the ring, and the rest from its beginning.             *)
CopyOut ==
    /\ Go("copy", "cleanup")
    /\ LET offset == Offset(packet)
           first  == RingSize - offset
       IN  out' = [i \in 1 .. packet.len |->
                      IF i <= first THEN ring[offset + i - 1] ELSE ring[i - first - 1]]
    /\ UNCHANGED <<owned, scratch, packet, input, library, history>>

Cleanup ==
    /\ Go("cleanup", "return")
    /\ scratch' = {}
    /\ UNCHANGED <<owned, packet, out, input, library, history>>

(* encode_release_packet, whatever became of the copy.  When it fails, or  *)
(* does not exist, the copy is freed, at the latest by the caller.         *)
ReturnPacket ==
    /\ Go("return", IF out = <<>> THEN "failed" ELSE "done")
    /\ held' = held \ {packet} /\ packet' = NoPacket
    /\ UNCHANGED <<owned, scratch, out, input, ring, cursor, fed, made, ready, history>>

ReturnFails ==
    /\ Go("return", "failed")
    /\ lost' = lost \cup {packet} /\ packet' = NoPacket /\ out' = <<>>
    /\ UNCHANGED <<owned, scratch, input, library, given, late>>

(* The caller uses and frees the packet, or ends the session.              *)
Encoded ==
    /\ Go("done", "idle")
    /\ given' = Append(given, [picture |-> input, data |-> out]) /\ out' = <<>>
    /\ UNCHANGED <<owned, scratch, packet, input, library, late, lost>>

EncodeFails ==
    /\ Go("failed", "idle")
    /\ UNCHANGED <<owned, scratch, packet, out, input, library, history>>

-----------------------------------------------------------------------------
(* mpp_encoder_close: the context first, with all the library knows, then  *)
(* the buffers; what is not there is skipped.                              *)
CloseContext ==
    /\ Go("idle", "closeFrm") \/ Go("close", "closeFrm")
    /\ owned' = owned \ {"ctx"} /\ ready' = <<>> /\ held' = {} /\ fed' = 0
    /\ UNCHANGED <<scratch, packet, out, input, ring, cursor, made, history>>

Put(from, buffer, next) ==
    /\ Go(from, next) /\ owned' = owned \ {buffer}
    /\ UNCHANGED <<scratch, packet, out, input, library, history>>

CloseBuffers == Put("closeFrm", "frm", "closePkt") \/ Put("closePkt", "pkt", "closed")

-----------------------------------------------------------------------------
(* The library encodes what it finds in frm_buf, where there is room.      *)
Reports(start, length) ==
    LET starts     == {start} \cup IF start = 0 THEN {RingSize} ELSE {}
        impossible == {0, RingSize + 1}
    IN  [offset : starts, len : {length} \cup impossible]
        \cup [offset : {RingSize + 1}, len : {length}]

Occupied == UNION {Where(p) : p \in held \cup {ready[i] : i \in 1 .. Len(ready)}}

Produce ==
    /\ fed > 0 /\ fed' = fed - 1
    /\ \E length \in 1 .. MaxLength : \E r \in Reports(cursor, length) :
          LET k == Len(made) + 1
              p == [number |-> k, start |-> cursor, length |-> length,
                    offset |-> r.offset, len |-> r.len]
          IN  /\ Where(p) \cap Occupied = {}
              /\ made' = Append(made, [shows |-> input, length |-> length])
              /\ ring' = [c \in Cells |->
                            IF c \in Where(p)
                            THEN <<k, (c - cursor + RingSize) % RingSize>> ELSE ring[c]]
              /\ cursor' = (cursor + length) % RingSize
              /\ ready' = Append(ready, p)
    /\ UNCHANGED <<program, input, held, history>>

Call == \/ GetFrameBuffer \/ GetAuxBuffer \/ CreateContext \/ Configure
        \/ PutFrame \/ GetPacket \/ GetFails
        \/ CheckRange \/ OpenDevice \/ GetFd \/ MapRing \/ AllocateCopy
        \/ CopyOut \/ Cleanup \/ ReturnPacket \/ ReturnFails
        \/ Encoded \/ EncodeFails \/ CloseContext \/ CloseBuffers

Next == Call \/ Produce
Spec == Init /\ [][Next]_vars

-----------------------------------------------------------------------------
(* What a successful call hands out is one whole packet, byte for byte,    *)
(* wherever in the ring it lay and however its offset was told, and no     *)
(* packet twice or before an older one; and until an encode_get_packet has *)
(* failed, it is the picture that this very call put.                      *)
CopiedWhole ==
    \A c \in 1 .. Len(given) :
        \E k \in 1 .. Len(made) :
            /\ given[c].data = Bytes(k)
            /\ late = 0 => made[k].shows = given[c].picture
            /\ \A d \in 1 .. c - 1 : given[d].data[1][1] < k

(* Whichever step fails: between two calls nothing is open, every packet   *)
(* that was got is returned, but for those the library would not take      *)
(* back; the encoder never outlives the buffer it reads its pictures from; *)
(* and after mpp_encoder_close nothing is left.                            *)
NothingKept ==
    /\ place \in {"idle", "closed"} =>
          scratch = {} /\ packet = NoPacket /\ out = <<>> /\ held \subseteq lost
    /\ fed > 0 \/ "ctx" \in owned => Buffers \subseteq owned
    /\ place = "closed" => owned = {} /\ held = {}
=============================================================================
