---------------------------- MODULE MppEncoder_proof -------------------------
(***************************************************************************)
(* Proofs about the encoder wrapper: wherever in the ring a packet lies    *)
(* and whatever fails, a call hands out that packet byte for byte, and     *)
(* nothing it opened or took stays behind.  The invariant says what each   *)
(* place of the call owns (OwnedInv, CallInv), that no packet the library  *)
(* still answers for was written over (RingInv), and that packets are got, *)
(* copied and given in the order they were made (OutInv, GivenInv).        *)
(***************************************************************************)
EXTENDS MppEncoder, TLAPS

AtPacket == {"range", "valloc", "dma", "map", "alloc", "copy", "cleanup", "return"}
Opening  == {"valloc", "dma", "map", "alloc", "copy"}
Setup    == {"frm", "pkt", "ctx", "configure", "close", "closeFrm", "closePkt", "closed"}
Places   == Setup \cup AtPacket \cup {"idle", "get", "failed", "done"}

Packets  == [number : Nat \ {0}, start : Cells, length : 1 .. MaxLength,
             offset : 0 .. RingSize + 1, len : 0 .. RingSize + 1]
Pictures == [shows : Nat, length : 1 .. MaxLength]
Copies   == Seq(Nat \X Nat)

TypeOK ==
    /\ place \in Places
    /\ owned \subseteq Buffers \cup {"ctx"}
    /\ scratch \subseteq {"valloc", "dma", "map", "alloc"}
    /\ packet \in Packets \cup {NoPacket}
    /\ out \in Copies /\ input \in Nat
    /\ ring \in [Cells -> Nat \X Nat] /\ cursor \in Cells
    /\ fed \in Nat /\ made \in Seq(Pictures)
    /\ ready \in Seq(Packets) /\ held \subseteq Packets
    /\ given \in Seq([picture : Nat, data : Copies])
    /\ late \in Nat /\ lost \subseteq Packets

(* What mpp_encoder_init_ex has made and mpp_encoder_close not yet undone;  *)
(* between the two, what the library has to do.                            *)
OwnedInv ==
    /\ place = "frm" => owned = {}
    /\ place = "pkt" => owned = {"frm"}
    /\ place = "ctx" => owned = Buffers
    /\ place = "close" /\ "ctx" \in owned => Buffers \subseteq owned
    /\ place \in {"closeFrm", "closePkt", "closed"} => "ctx" \notin owned
    /\ place \in {"closePkt", "closed"} => "frm" \notin owned
    /\ place = "closed" => "pkt" \notin owned
    /\ place \notin Setup \ {"configure"} => owned = Buffers \cup {"ctx"}
    /\ place \in Setup => fed = 0 /\ ready = <<>> /\ held = {}

(* What a call has open, and which packet it must return.                  *)
CallInv ==
    /\ place \notin {"dma", "map", "alloc", "copy", "cleanup"} => scratch = {}
    /\ place \in AtPacket => packet \in held /\ held \subseteq lost \cup {packet}
    /\ place \notin AtPacket => packet = NoPacket /\ held \subseteq lost
    /\ place \in Opening => InRange(packet)
    /\ place \notin {"cleanup", "return", "done"} => out = <<>>

(* Packets are got in the order they are made: so many were got.           *)
Got == Len(made) - Len(ready)

(* What the library says of a packet: the truth, or something impossible.  *)
Told(p) ==
    /\ p.number \in 1 .. Len(made) /\ p.length = made[p.number].length
    /\ p.len \in {p.length, 0, RingSize + 1}
    /\ \/ p.offset \in {p.start, RingSize + 1}
       \/ p.start = 0 /\ p.offset = RingSize

(* Its bytes are where they were put.                                      *)
Lies(p) ==
    \A i \in 0 .. p.length - 1 : ring[(p.start + i) % RingSize] = <<p.number, i>>

Safe(p) == Told(p) /\ Lies(p)

RingInv ==
    /\ \A p \in held : Safe(p)
    /\ \A i \in 1 .. Len(ready) : Safe(ready[i]) /\ ready[i].number = Got + i

(* The copy is the packet got last, or nothing.                            *)
OutInv ==
    /\ Got >= 0
    /\ place \in AtPacket => packet.number = Got
    /\ place \in {"cleanup", "return"} /\ out # <<>> => out = Bytes(Got)
    /\ place = "done" => Got >= 1 /\ out = Bytes(Got)

(* The number of the packet that the c-th successful call handed out.      *)
Number(c) == given[c].data[1][1]

GivenInv ==
    /\ \A c \in 1 .. Len(given) :
        /\ Number(c) \in 1 .. Got
        /\ given[c].data = Bytes(Number(c))
        /\ late = 0 => made[Number(c)].shows = given[c].picture
        /\ place \in AtPacket \cup {"done"} => Number(c) < Got
    /\ \A c, d \in 1 .. Len(given) : d < c => Number(d) < Number(c)

(* Until encode_get_packet has failed, no packet is late: a call finds the *)
(* one that shows its own picture, and none other waits.                   *)
LateInv ==
    late = 0 =>
        /\ place = "get" =>
            /\ fed + Len(ready) = 1
            /\ ready # <<>> => made[Len(made)].shows = input
        /\ place # "get" => fed = 0 /\ ready = <<>>
        /\ place \in AtPacket \cup {"done"} => made[Got].shows = input
IInv ==
    /\ TypeOK /\ OwnedInv /\ CallInv /\ RingInv
    /\ OutInv /\ GivenInv /\ LateInv

-----------------------------------------------------------------------------
(* Positions around a ring of R cells.                                     *)
LEMMA Wraps ==
    ASSUME NEW R \in Nat \ {0}, NEW x \in 0 .. 2 * R - 1
    PROVE  x % R = IF x < R THEN x ELSE x - R
<1>1. CASE x < R
    BY <1>1
<1>2. CASE x >= R
    BY <1>2
<1>3. QED
    BY <1>1, <1>2

LEMMA RingCell ==
    ASSUME NEW s \in Cells, NEW i \in 0 .. RingSize - 1
    PROVE  /\ (s + i) % RingSize = IF s + i < RingSize THEN s + i ELSE s + i - RingSize
           /\ (s + i) % RingSize \in Cells
           /\ (((s + i) % RingSize) - s + RingSize) % RingSize = i
<1>1. RingSize \in Nat \ {0} /\ s \in 0 .. RingSize - 1
    BY EncoderAssumption DEF Cells
<1>2. (s + i) % RingSize = IF s + i < RingSize THEN s + i ELSE s + i - RingSize
    <2>1. s + i \in 0 .. 2 * RingSize - 1
        BY <1>1
    <2>2. \A x \in 0 .. 2 * RingSize - 1 :
             x % RingSize = IF x < RingSize THEN x ELSE x - RingSize
        BY <1>1, Wraps
    <2>3. QED
        BY <1>1, <2>1, <2>2
<1>3. ((s + i) % RingSize) - s + RingSize = IF s + i < RingSize THEN i + RingSize ELSE i
    BY <1>1, <1>2
<1>4. i % RingSize = i /\ (i + RingSize) % RingSize = i
    <2>1. i \in 0 .. 2 * RingSize - 1 /\ i + RingSize \in 0 .. 2 * RingSize - 1
        BY <1>1
    <2>2. QED
        BY <1>1, <2>1, Wraps
<1>5. QED
    BY <1>1, <1>2, <1>3, <1>4 DEF Cells

(* What a call does not touch of the library stays true of it.             *)
LEMMA RingStays ==
    ASSUME RingInv, UNCHANGED <<ring, made, ready>>, held' \subseteq held
    PROVE  RingInv'
BY DEF RingInv, Safe, Told, Lies, Got

LEMMA GivenStays ==
    ASSUME TypeOK, GivenInv, UNCHANGED <<made, ready, given>>, late' \in Nat, late' >= late,
           place' \in AtPacket \cup {"done"} => place \in AtPacket \cup {"done"}
    PROVE  GivenInv'
<1>1. late' = 0 => late = 0
    BY DEF TypeOK
<1>2. \A k : Bytes(k)' = Bytes(k)
    BY DEF Bytes
<1>3. Got' = Got /\ \A c : Number(c)' = Number(c)
    BY DEF Got, Number
<1>4. QED
    BY <1>1, <1>2, <1>3 DEF GivenInv

LEMMA InitIInv == Init => IInv
<1> SUFFICES ASSUME Init PROVE IInv
    OBVIOUS
<1>1. out \in Copies /\ made \in Seq(Pictures) /\ ready \in Seq(Packets)
      /\ given \in Seq([picture : Nat, data : Copies])
    BY DEF Init, Copies
<1>2. ring \in [Cells -> Nat \X Nat]
    BY DEF Init
<1>3. TypeOK
    BY <1>1, <1>2 DEF Init, TypeOK, Places, Setup
<1>4. OwnedInv /\ CallInv
    BY DEF Init, OwnedInv, CallInv, AtPacket, Opening, Setup
<1>5. RingInv /\ OutInv /\ GivenInv /\ LateInv
    BY DEF Init, RingInv, OutInv, GivenInv, LateInv, AtPacket, Got, Number
<1>6. QED
    BY <1>3, <1>4, <1>5 DEF IInv

-----------------------------------------------------------------------------
(* Steps of the wrapper that neither get, copy nor give a packet.          *)
LEMMA QuietStep ==
    ASSUME IInv, TypeOK', UNCHANGED <<packet, out, input, library, history>>,
           (place \in AtPacket) <=> (place' \in AtPacket),
           place # "done" /\ place' # "done" /\ place # "get" /\ place' # "get",
           place' \in {"cleanup", "return"} /\ out # <<>> => place \in {"cleanup", "return"}
    PROVE  RingInv' /\ OutInv' /\ GivenInv' /\ LateInv'
<1>1. RingInv'
    BY RingStays DEF IInv, library
<1>2. GivenInv'
    <2>1. late' \in Nat /\ late' >= late
        BY DEF IInv, TypeOK, history
    <2>2. QED
        BY <2>1, GivenStays DEF IInv, library, history
<1>3. Got' = Got /\ Bytes(Got)' = Bytes(Got)
    BY DEF Got, Bytes, library
<1>4. OutInv'
    BY <1>3 DEF IInv, OutInv
<1>5. LateInv'
    BY <1>3 DEF IInv, LateInv, library, history
<1>6. QED
    BY <1>1, <1>2, <1>4, <1>5

LEMMA AcquireStep ==
    ASSUME IInv, GetFrameBuffer \/ GetAuxBuffer \/ CreateContext \/ Configure
    PROVE  IInv'
<1> USE DEF GetFrameBuffer, GetAuxBuffer, CreateContext, Configure, Acquire, Go
<1>1. UNCHANGED <<scratch, packet, out, input, library, history>>
    OBVIOUS
<1>2. /\ place \in {"frm", "pkt", "ctx", "configure"}
      /\ place' \in {"pkt", "ctx", "configure", "idle", "close"}
    OBVIOUS
<1>3. TypeOK'
    BY <1>1, <1>2 DEF IInv, TypeOK, Places, Setup, Buffers, library, history
<1>4. OwnedInv'
    BY <1>1, <1>2 DEF IInv, OwnedInv, Setup, Buffers, AtPacket, library, history
<1>5. CallInv'
    BY <1>1, <1>2 DEF IInv, CallInv, AtPacket, Opening, library, history
<1>6. RingInv' /\ OutInv' /\ GivenInv' /\ LateInv'
    BY <1>1, <1>2, <1>3, QuietStep DEF AtPacket
<1>7. QED
    BY <1>3, <1>4, <1>5, <1>6 DEF IInv

LEMMA OpenStep ==
    ASSUME IInv, CheckRange \/ OpenDevice \/ GetFd \/ MapRing \/ AllocateCopy
    PROVE  IInv'
<1> USE DEF CheckRange, OpenDevice, GetFd, MapRing, AllocateCopy, Open, Go
<1>1. UNCHANGED <<owned, packet, out, input, library, history>>
    OBVIOUS
<1>2. /\ place \in {"range", "valloc", "dma", "map", "alloc"}
      /\ place' \in {"valloc", "return", "dma", "map", "alloc", "copy", "cleanup"}
    OBVIOUS
<1>3. TypeOK'
    BY <1>1, <1>2 DEF IInv, TypeOK, Places, AtPacket, library, history
<1>4. OwnedInv'
    BY <1>1, <1>2 DEF IInv, OwnedInv, Setup, library, history
<1>5. CallInv'
    BY <1>1, <1>2 DEF IInv, CallInv, AtPacket, Opening, InRange, library, history
<1>6. RingInv' /\ OutInv' /\ GivenInv' /\ LateInv'
    <2>1. out = <<>>
        BY <1>2 DEF IInv, CallInv
    <2>2. QED
        BY <1>1, <1>2, <1>3, <2>1, QuietStep DEF AtPacket
<1>7. QED
    BY <1>3, <1>4, <1>5, <1>6 DEF IInv

LEMMA CleanupStep == ASSUME IInv, Cleanup PROVE IInv'
<1> USE DEF Cleanup, Go
<1>1. TypeOK'
    BY DEF IInv, TypeOK, Places, AtPacket, library, history
<1>2. OwnedInv'
    BY DEF IInv, OwnedInv, Setup, library, history
<1>3. CallInv'
    BY DEF IInv, CallInv, AtPacket, Opening, library, history
<1>4. RingInv' /\ OutInv' /\ GivenInv' /\ LateInv'
    BY <1>1, QuietStep DEF AtPacket
<1>5. QED
    BY <1>1, <1>2, <1>3, <1>4 DEF IInv

LEMMA EncodeFailsStep == ASSUME IInv, EncodeFails PROVE IInv'
<1> USE DEF EncodeFails, Go
<1>1. TypeOK'
    BY DEF IInv, TypeOK, Places, AtPacket, library, history
<1>2. OwnedInv'
    BY DEF IInv, OwnedInv, Setup, library, history
<1>3. CallInv'
    BY DEF IInv, CallInv, AtPacket, Opening, library, history
<1>4. RingInv' /\ OutInv' /\ GivenInv' /\ LateInv'
    BY <1>1, QuietStep DEF AtPacket
<1>5. QED
    BY <1>1, <1>2, <1>3, <1>4 DEF IInv

LEMMA CloseBuffersStep == ASSUME IInv, CloseBuffers PROVE IInv'
<1> USE DEF CloseBuffers, Put, Go
<1>1. TypeOK'
    BY DEF IInv, TypeOK, Places, Setup, library, history
<1>2. OwnedInv'
    BY DEF IInv, OwnedInv, TypeOK, Setup, Buffers, library, history
<1>3. CallInv'
    BY DEF IInv, CallInv, AtPacket, Opening, library, history
<1>4. RingInv' /\ OutInv' /\ GivenInv' /\ LateInv'
    BY <1>1, QuietStep DEF AtPacket
<1>5. QED
    BY <1>1, <1>2, <1>3, <1>4 DEF IInv

-----------------------------------------------------------------------------
(* A picture is put when no packet waits, unless one was late.             *)
LEMMA PutFrameStep == ASSUME IInv, PutFrame PROVE IInv'
<1> USE DEF PutFrame, Go
<1>1. TypeOK'
    BY DEF IInv, TypeOK, Places, AtPacket, history
<1>2. OwnedInv'
    BY DEF IInv, OwnedInv, Setup, Buffers, AtPacket
<1>3. CallInv'
    BY DEF IInv, CallInv, AtPacket, Opening, history
<1>4. RingInv'
    BY RingStays DEF IInv
<1>5. GivenInv'
    BY GivenStays DEF IInv, TypeOK, AtPacket, history
<1>6. Got' = Got /\ OutInv'
    BY DEF IInv, OutInv, Got, AtPacket
<1>7. LateInv'
    BY DEF IInv, TypeOK, LateInv, AtPacket, history
<1>8. QED
    BY <1>1, <1>2, <1>3, <1>4, <1>5, <1>6, <1>7 DEF IInv

LEMMA GetFailsStep == ASSUME IInv, GetFails PROVE IInv'
<1> USE DEF GetFails, Go
<1>1. TypeOK'
    BY DEF IInv, TypeOK, Places, AtPacket, library
<1>2. OwnedInv'
    BY DEF IInv, OwnedInv, Setup, library
<1>3. CallInv'
    BY DEF IInv, CallInv, AtPacket, Opening, library
<1>4. RingInv'
    BY RingStays DEF IInv, library
<1>5. GivenInv'
    BY GivenStays DEF IInv, TypeOK, AtPacket, library
<1>6. Got' = Got /\ OutInv'
    BY DEF IInv, OutInv, Got, AtPacket, library
<1>7. LateInv'
    BY DEF IInv, TypeOK, LateInv
<1>8. QED
    BY <1>1, <1>2, <1>3, <1>4, <1>5, <1>6, <1>7 DEF IInv

(* The packet got is the oldest one that waits.                            *)
LEMMA GetPacketStep == ASSUME IInv, GetPacket PROVE IInv'
<1> USE DEF GetPacket, Go
<1>1. ready \in Seq(Packets) /\ ready # <<>> /\ made \in Seq(Pictures)
    BY DEF IInv, TypeOK
<1>2. /\ Head(ready) \in Packets /\ Head(ready) = ready[1] /\ 1 \in 1 .. Len(ready)
      /\ ready' \in Seq(Packets) /\ Len(ready') = Len(ready) - 1
      /\ \A i \in 1 .. Len(ready') : ready'[i] = ready[i + 1] /\ i + 1 \in 1 .. Len(ready)
      /\ Len(ready) \in Nat /\ Len(made) \in Nat
    BY <1>1
<1>3. Got \in Int /\ Got' = Got + 1 /\ Got >= 0
    BY <1>2 DEF Got, IInv, OutInv
<1>4. Safe(ready[1]) /\ packet'.number = Got'
    BY <1>2, <1>3 DEF IInv, RingInv
<1>5. TypeOK'
    BY <1>2 DEF IInv, TypeOK, Places, AtPacket, history
<1>6. OwnedInv'
    BY DEF IInv, OwnedInv, Setup
<1>7. CallInv'
    BY DEF IInv, CallInv, AtPacket, Opening, history
<1>8. RingInv'
    <2>1. \A p : Safe(p)' <=> Safe(p)
        BY DEF Safe, Told, Lies
    <2>2. ASSUME NEW p \in held' PROVE Safe(p)'
        BY <1>2, <1>4, <2>1 DEF IInv, RingInv
    <2>3. ASSUME NEW i \in 1 .. Len(ready')
          PROVE  Safe(ready[i])' /\ ready'[i].number = Got' + i
        <3>1. i + 1 \in 1 .. Len(ready) /\ ready'[i] = ready[i + 1]
            BY <1>2
        <3>2. Safe(ready[i + 1]) /\ ready[i + 1].number = Got + (i + 1)
            BY <3>1 DEF IInv, RingInv
        <3>3. Safe(ready[i])'
            BY <3>1, <3>2 DEF Safe, Told, Lies
        <3>4. QED
            BY <1>3, <3>1, <3>2, <3>3
    <2>4. QED
        BY <2>2, <2>3 DEF RingInv
<1>9. OutInv'
    <2>1. out = <<>>
        BY DEF IInv, CallInv
    <2>2. QED
        BY <1>3, <1>4, <2>1 DEF IInv, OutInv
<1>10. GivenInv'
    <2>1. given' = given /\ made' = made /\ late' = late
        BY DEF history
    <2>2. \A k : Bytes(k)' = Bytes(k)
        BY <2>1 DEF Bytes
    <2>3. \A c : Number(c)' = Number(c)
        BY <2>1 DEF Number
    <2>4. \A c \in 1 .. Len(given) : Number(c) \in 1 .. Got' /\ Number(c) < Got'
        BY <1>3 DEF IInv, GivenInv
    <2>5. QED
        BY <2>1, <2>2, <2>3, <2>4 DEF IInv, GivenInv
<1>11. LateInv'
    <2> SUFFICES ASSUME late = 0
                 PROVE  fed' = 0 /\ ready' = <<>> /\ made'[Got'].shows = input'
        BY DEF LateInv, history
    <2>1. fed + Len(ready) = 1 /\ made[Len(made)].shows = input
        BY <1>1 DEF IInv, LateInv
    <2>2. fed = 0 /\ Len(ready) = 1
        BY <1>2, <2>1 DEF IInv, TypeOK
    <2>3. ready' = <<>>
        BY <1>2, <2>2
    <2>4. Got' = Len(made)
        BY <1>2, <1>3, <2>2 DEF Got
    <2>5. QED
        BY <2>1, <2>2, <2>3, <2>4
<1>12. QED
    BY <1>5, <1>6, <1>7, <1>8, <1>9, <1>10, <1>11 DEF IInv

-----------------------------------------------------------------------------
(* What copy_vendor_packet reads out of the ring is the packet: both its   *)
(* pieces, and no byte more.                                               *)
LEMMA Copied ==
    ASSUME IInv, CopyOut
    PROVE  out' = Bytes(Got) /\ out' \in Copies
<1>1. packet \in held /\ InRange(packet) /\ packet.number = Got
    BY DEF IInv, CallInv, OutInv, CopyOut, Go, AtPacket, Opening
<1>2. packet \in Packets /\ Told(packet) /\ Lies(packet)
    BY <1>1 DEF IInv, TypeOK, RingInv, Safe
<1> DEFINE s == packet.start
           n == packet.length
           first == RingSize - s
<1>3. RingSize \in Nat \ {0} /\ MaxLength \in 1 .. RingSize
    BY EncoderAssumption
<1>4. s \in 0 .. RingSize - 1 /\ n \in 1 .. RingSize /\ packet.len = n
    BY <1>1, <1>2, <1>3 DEF Packets, Cells, InRange, Told
<1>5. Offset(packet) = s
    <2>1. packet.offset \in {s, RingSize + 1} \/ (s = 0 /\ packet.offset = RingSize)
        BY <1>2 DEF Told
    <2>2. packet.offset = s \/ (s = 0 /\ packet.offset = RingSize)
        BY <1>1, <1>3, <2>1 DEF InRange
    <2>3. s % RingSize = s /\ RingSize % RingSize = 0
        BY <1>3, <1>4
    <2>4. QED
        BY <2>2, <2>3 DEF Offset
<1>6. out' = [i \in 1 .. n |-> IF i <= first THEN ring[s + i - 1] ELSE ring[i - first - 1]]
    BY <1>4, <1>5 DEF CopyOut
<1>7. ASSUME NEW i \in 1 .. n
      PROVE  (IF i <= first THEN ring[s + i - 1] ELSE ring[i - first - 1]) = <<Got, i - 1>>
    <2>1. i - 1 \in 0 .. RingSize - 1 /\ i - 1 \in 0 .. packet.length - 1
        BY <1>3, <1>4
    <2>2. (s + (i - 1)) % RingSize =
              IF s + (i - 1) < RingSize THEN s + (i - 1) ELSE s + (i - 1) - RingSize
        BY <1>4, <2>1, RingCell DEF Cells
    <2>3. ring[(s + (i - 1)) % RingSize] = <<Got, i - 1>>
        BY <1>1, <1>2, <2>1 DEF Lies
    <2>4. (s + (i - 1)) % RingSize = IF i <= first THEN s + i - 1 ELSE i - first - 1
        BY <1>3, <1>4, <2>2
    <2>5. QED
        BY <2>3, <2>4
<1>8. Bytes(Got) = [i \in 1 .. n |-> <<Got, i - 1>>]
    BY <1>1, <1>2 DEF Bytes, Told
<1>9. out' = Bytes(Got)
    BY <1>6, <1>7, <1>8
<1>10. Got \in Nat
    BY <1>1, <1>2 DEF Packets
<1>11. [i \in 1 .. n |-> <<Got, i - 1>>] \in Seq(Nat \X Nat)
    BY <1>4, <1>10
<1>12. QED
    BY <1>8, <1>9, <1>11 DEF Copies

LEMMA CopyOutStep == ASSUME IInv, CopyOut PROVE IInv'
<1>1. out' = Bytes(Got) /\ out' \in Copies
    BY Copied
<1>2. /\ place = "copy" /\ place' = "cleanup"
      /\ UNCHANGED <<owned, scratch, packet, input, library, history>>
    BY DEF CopyOut, Go
<1>3. TypeOK'
    BY <1>1, <1>2 DEF IInv, TypeOK, Places, AtPacket, library, history
<1>4. OwnedInv'
    BY <1>2 DEF IInv, OwnedInv, Setup, library
<1>5. CallInv'
    BY <1>2 DEF IInv, CallInv, AtPacket, Opening, library, history
<1>6. RingInv'
    BY <1>2, RingStays DEF IInv, library
<1>7. GivenInv'
    BY <1>2, GivenStays DEF IInv, TypeOK, AtPacket, library, history
<1>8. Got' = Got /\ Bytes(Got)' = Bytes(Got)
    BY <1>2 DEF Got, Bytes, library
<1>9. OutInv'
    BY <1>1, <1>2, <1>8 DEF IInv, OutInv, AtPacket
<1>10. LateInv'
    BY <1>2, <1>8 DEF IInv, LateInv, AtPacket, library, history
<1>11. QED
    BY <1>3, <1>4, <1>5, <1>6, <1>7, <1>9, <1>10 DEF IInv

-----------------------------------------------------------------------------
(* The packet goes back, or is lost to the library.                        *)
LEMMA ReturnPacketStep == ASSUME IInv, ReturnPacket PROVE IInv'
<1> USE DEF ReturnPacket, Go
<1>1. place = "return" /\ place' \in {"failed", "done"}
    OBVIOUS
<1>2. TypeOK'
    BY <1>1 DEF IInv, TypeOK, Places, history
<1>3. OwnedInv'
    BY <1>1 DEF IInv, OwnedInv, Setup, AtPacket
<1>4. CallInv'
    BY <1>1 DEF IInv, CallInv, AtPacket, Opening, history
<1>5. RingInv'
    BY RingStays DEF IInv
<1>6. Got' = Got /\ Bytes(Got)' = Bytes(Got)
    BY DEF Got, Bytes
<1>7. GivenInv'
    BY <1>1, GivenStays DEF IInv, TypeOK, AtPacket, history
<1>8. OutInv'
    <2>1. packet.number = Got /\ packet \in Packets
        BY <1>1 DEF IInv, TypeOK, CallInv, OutInv, AtPacket
    <2>2. Got >= 1
        BY <2>1 DEF Packets
    <2>3. Got \in Nat /\ (out # <<>> => out = Bytes(Got))
        BY <1>1, <2>1 DEF IInv, OutInv, Packets
    <2>4. QED
        BY <1>1, <1>6, <2>2, <2>3 DEF OutInv, AtPacket
<1>9. LateInv'
    BY <1>1, <1>6 DEF IInv, LateInv, AtPacket, history
<1>10. QED
    BY <1>2, <1>3, <1>4, <1>5, <1>7, <1>8, <1>9 DEF IInv

LEMMA ReturnFailsStep == ASSUME IInv, ReturnFails PROVE IInv'
<1> USE DEF ReturnFails, Go
<1>1. TypeOK'
    <2>1. packet \in Packets
        BY DEF IInv, TypeOK, CallInv, AtPacket
    <2>2. <<>> \in Copies
        BY DEF Copies
    <2>3. QED
        BY <2>1, <2>2 DEF IInv, TypeOK, Places, library
<1>2. OwnedInv'
    BY DEF IInv, OwnedInv, Setup, AtPacket, library
<1>3. CallInv'
    BY DEF IInv, CallInv, AtPacket, Opening, library
<1>4. RingInv'
    BY RingStays DEF IInv, library
<1>5. GivenInv'
    BY GivenStays DEF IInv, TypeOK, AtPacket, library
<1>6. OutInv'
    BY DEF IInv, OutInv, AtPacket, Got, library
<1>7. LateInv'
    BY DEF IInv, LateInv, AtPacket, library
<1>8. QED
    BY <1>1, <1>2, <1>3, <1>4, <1>5, <1>6, <1>7 DEF IInv

(* The caller has the packet got last, which no earlier call gave it.      *)
LEMMA EncodedStep == ASSUME IInv, Encoded PROVE IInv'
<1> DEFINE new == [picture |-> input, data |-> out]
<1>1. /\ place = "done" /\ place' = "idle" /\ out' = <<>> /\ given' = Append(given, new)
      /\ UNCHANGED <<owned, scratch, packet, input, library, late, lost>>
    BY DEF Encoded, Go
<1>2. /\ given \in Seq([picture : Nat, data : Copies])
      /\ new \in [picture : Nat, data : Copies] /\ <<>> \in Copies
    BY DEF IInv, TypeOK, Copies
<1>3. /\ given' \in Seq([picture : Nat, data : Copies])
      /\ Len(given') = Len(given) + 1 /\ Len(given) \in Nat
      /\ given'[Len(given) + 1] = new
      /\ \A c \in 1 .. Len(given) : given'[c] = given[c]
    BY <1>1, <1>2
<1>4. TypeOK'
    BY <1>1, <1>2, <1>3 DEF IInv, TypeOK, Places, library
<1>5. OwnedInv'
    BY <1>1 DEF IInv, OwnedInv, Setup, library
<1>6. CallInv'
    BY <1>1 DEF IInv, CallInv, AtPacket, Opening, library
<1>7. RingInv'
    BY <1>1, RingStays DEF IInv, library
<1>8. Got' = Got /\ Got >= 1 /\ out = Bytes(Got) /\ Got \in 1 .. Len(made)
    BY <1>1 DEF IInv, TypeOK, OutInv, Got, library
<1>9. OutInv'
    BY <1>1, <1>8 DEF IInv, OutInv, AtPacket
<1>10. GivenInv'
    <2>1. \A k : Bytes(k)' = Bytes(k)
        BY <1>1 DEF Bytes, library
    <2>2. \A c \in 1 .. Len(given) : Number(c)' = Number(c)
        BY <1>3 DEF Number
    <2>3. \A c : c = Len(given) + 1 => Number(c)' = Got
        <3>1. made[Got].length \in 1 .. MaxLength
            <4>1. made \in Seq(Pictures)
                BY DEF IInv, TypeOK
            <4>2. made[Got] \in Pictures
                BY <1>8, <4>1
            <4>3. QED
                BY <4>2 DEF Pictures
        <3>2. 1 \in 1 .. made[Got].length
            BY <3>1, EncoderAssumption
        <3>3. out[1] = <<Got, 0>>
            BY <1>8, <3>2 DEF Bytes
        <3>4. QED
            BY <1>3, <3>3 DEF Number
    <2>4. late = 0 => made[Got].shows = input
        BY <1>1 DEF IInv, LateInv
    <2>5. ASSUME NEW c \in 1 .. Len(given')
          PROVE  /\ Number(c)' \in 1 .. Got
                 /\ given'[c].data = Bytes(Number(c)')
                 /\ late = 0 => made[Number(c)'].shows = given'[c].picture
        <3>1. CASE c = Len(given')
            <4>1. given'[c] = new /\ Number(c)' = Got
                BY <3>1, <1>3, <2>3
            <4>2. QED
                BY <4>1, <1>8, <2>4
        <3>2. CASE c # Len(given')
            <4>1. c \in 1 .. Len(given)
                BY <3>2, <1>3
            <4>2. QED
                BY <4>1, <1>3, <2>2 DEF IInv, GivenInv
        <3>3. QED
            BY <3>1, <3>2
    <2>6. ASSUME NEW c \in 1 .. Len(given'), NEW d \in 1 .. Len(given'), d < c
          PROVE  Number(d)' < Number(c)'
        <3>1. d \in 1 .. Len(given)
            BY <2>6, <1>3
        <3>2. CASE c = Len(given')
            <4>1. Number(c)' = Got
                BY <3>2, <1>3, <2>3
            <4>2. Number(d) < Got
                BY <1>1, <3>1 DEF IInv, GivenInv
            <4>3. QED
                BY <3>1, <4>1, <4>2, <2>2
        <3>3. CASE c # Len(given')
            <4>1. c \in 1 .. Len(given)
                BY <3>3, <1>3
            <4>2. QED
                BY <2>6, <3>1, <4>1, <2>2 DEF IInv, GivenInv
        <3>4. QED
            BY <3>2, <3>3
    <2>7. UNCHANGED <<made, late>> /\ place' \notin AtPacket \cup {"done"}
        BY <1>1 DEF library, AtPacket
    <2>8. QED
        BY <1>8, <2>1, <2>5, <2>6, <2>7 DEF GivenInv
<1>11. LateInv'
    BY <1>1 DEF IInv, LateInv, AtPacket, library
<1>12. QED
    BY <1>4, <1>5, <1>6, <1>7, <1>9, <1>10, <1>11 DEF IInv

-----------------------------------------------------------------------------
(* The library forgets what it held, and what waits to be got.             *)
LEMMA CloseContextStep == ASSUME IInv, CloseContext PROVE IInv'
<1>1. /\ place \in {"idle", "close"} /\ place' = "closeFrm"
      /\ owned' = owned \ {"ctx"} /\ ready' = <<>> /\ held' = {} /\ fed' = 0
      /\ UNCHANGED <<scratch, packet, out, input, ring, cursor, made, history>>
    BY DEF CloseContext, Go
<1>2. TypeOK'
    BY <1>1 DEF IInv, TypeOK, Places, Setup, history
<1>3. OwnedInv'
    BY <1>1 DEF IInv, OwnedInv, Setup, AtPacket
<1>4. CallInv'
    BY <1>1 DEF IInv, CallInv, AtPacket, Opening, history
<1>5. RingInv'
    BY <1>1 DEF RingInv
<1>6. Got' = Len(made) /\ Got' >= Got /\ Got' \in Nat /\ Got \in Nat
    BY <1>1 DEF IInv, TypeOK, OutInv, Got
<1>7. OutInv'
    BY <1>1, <1>6 DEF OutInv, AtPacket
<1>8. GivenInv'
    <2>1. \A k : Bytes(k)' = Bytes(k)
        BY <1>1 DEF Bytes
    <2>2. UNCHANGED <<given, made, late>> /\ \A c : Number(c)' = Number(c)
        BY <1>1 DEF Number, history
    <2>3. place' \notin AtPacket \cup {"done"}
        BY <1>1 DEF AtPacket
    <2>4. \A c \in 1 .. Len(given) : Number(c) \in 1 .. Got'
        BY <1>6 DEF IInv, GivenInv
    <2>5. QED
        BY <2>1, <2>2, <2>3, <2>4 DEF IInv, GivenInv
<1>9. LateInv'
    BY <1>1 DEF LateInv, AtPacket
<1>10. QED
    BY <1>2, <1>3, <1>4, <1>5, <1>7, <1>8, <1>9 DEF IInv

-----------------------------------------------------------------------------
(* A packet more, in cells that no packet occupies.                        *)
LEMMA ReportsTold ==
    ASSUME NEW start \in Cells, NEW length \in 1 .. MaxLength,
           NEW r \in Reports(start, length)
    PROVE  /\ r.len \in {length, 0, RingSize + 1} /\ r.len \in 0 .. RingSize + 1
           /\ r.offset \in 0 .. RingSize + 1
           /\ \/ r.offset \in {start, RingSize + 1}
              \/ start = 0 /\ r.offset = RingSize
<1>1. /\ r.len \in {length, 0, RingSize + 1}
      /\ \/ r.offset \in {start, RingSize + 1}
         \/ start = 0 /\ r.offset = RingSize
    BY DEF Reports
<1>2. QED
    BY <1>1, EncoderAssumption DEF Cells

LEMMA ProduceStep == ASSUME IInv, Produce PROVE IInv'
<1> DEFINE k == Len(made) + 1
           p(n, r) == [number |-> k, start |-> cursor, length |-> n,
                       offset |-> r.offset, len |-> r.len]
           Writes(n, r) ==
               /\ Where(p(n, r)) \cap Occupied = {}
               /\ made' = Append(made, [shows |-> input, length |-> n])
               /\ ring' = [c \in Cells |->
                             IF c \in Where(p(n, r))
                             THEN <<k, (c - cursor + RingSize) % RingSize>> ELSE ring[c]]
               /\ cursor' = (cursor + n) % RingSize
               /\ ready' = Append(ready, p(n, r))
<1>0. PICK length \in 1 .. MaxLength : \E r \in Reports(cursor, length) : Writes(length, r)
    BY DEF Produce
<1>1. PICK r \in Reports(cursor, length) : Writes(length, r)
    BY <1>0
<1> DEFINE new == [shows |-> input, length |-> length]
<1>2. PICK q : q = p(length, r)
    OBVIOUS
<1>3. /\ q.number = k /\ q.start = cursor /\ q.length = length
      /\ q.offset = r.offset /\ q.len = r.len
    BY <1>2
<1>4. /\ Where(q) \cap Occupied = {} /\ made' = Append(made, new)
      /\ ring' = [c \in Cells |->
                    IF c \in Where(q)
                    THEN <<k, (c - cursor + RingSize) % RingSize>> ELSE ring[c]]
      /\ cursor' = (cursor + length) % RingSize /\ ready' = Append(ready, q)
    BY <1>1, <1>2
<1>5. fed > 0 /\ fed' = fed - 1 /\ UNCHANGED <<program, input, held, history>>
    BY DEF Produce
<1>6. /\ made \in Seq(Pictures) /\ ready \in Seq(Packets) /\ cursor \in Cells
      /\ fed \in Nat /\ input \in Nat /\ held \subseteq Packets
    BY DEF IInv, TypeOK
<1>7. RingSize \in Nat \ {0} /\ MaxLength \in 1 .. RingSize
    BY EncoderAssumption
<1>8. q \in Packets
    <2>1. p(length, r) \in Packets
        BY <1>6, ReportsTold DEF Packets
    <2>2. QED
        BY <1>2, <2>1
<1> HIDE DEF p
<1>9. /\ made' \in Seq(Pictures) /\ Len(made') = k /\ k \in Nat \ {0} /\ Len(made) \in Nat
      /\ made'[k] = new /\ \A n \in 1 .. Len(made) : made'[n] = made[n]
    <2>1. new \in Pictures
        BY <1>6 DEF Pictures
    <2>2. QED
        BY <1>4, <1>6, <2>1
<1>10. /\ ready' \in Seq(Packets) /\ Len(ready') = Len(ready) + 1 /\ Len(ready) \in Nat
       /\ ready'[Len(ready) + 1] = q
       /\ \A n \in 1 .. Len(ready) : ready'[n] = ready[n]
    BY <1>4, <1>6, <1>8
<1>11. Got' = Got /\ Got \in Int /\ Got <= Len(made)
    BY <1>9, <1>10 DEF Got
<1>12. \A n \in 1 .. Len(made) : Bytes(n)' = Bytes(n)
    BY <1>9 DEF Bytes
<1>13. fed > 0 => place \notin Setup
    BY <1>6 DEF IInv, OwnedInv
<1>14. TypeOK'
    <2>1. cursor' \in Cells
        BY <1>4, <1>6, <1>7 DEF Cells
    <2>2. ring' \in [Cells -> Nat \X Nat]
        <3>1. \A c \in Cells : (c - cursor + RingSize) % RingSize \in Nat
            BY <1>6, <1>7 DEF Cells
        <3>2. \A c \in Cells : ring[c] \in Nat \X Nat
            BY DEF IInv, TypeOK
        <3>3. QED
            BY <1>4, <1>9, <3>1, <3>2
    <2>3. fed' \in Nat
        BY <1>5, <1>6
    <2>4. UNCHANGED <<place, owned, scratch, packet, out, input, held, given, late, lost>>
        BY <1>5 DEF program, history
    <2>5. QED
        BY <1>9, <1>10, <2>1, <2>2, <2>3, <2>4 DEF IInv, TypeOK
<1>15. OwnedInv'
    BY <1>5, <1>13 DEF IInv, OwnedInv, program
<1>16. CallInv'
    BY <1>5 DEF IInv, CallInv, program, history
<1>17. RingInv'
    <2>1. ASSUME NEW o \in Packets, Safe(o),
                 o \in held \cup {ready[i] : i \in 1 .. Len(ready)}
          PROVE  Safe(o)'
        <3>1. Where(o) \subseteq Occupied
            BY <2>1 DEF Occupied
        <3>2. o.number \in 1 .. Len(made) /\ made'[o.number] = made[o.number]
            BY <2>1, <1>9 DEF Safe, Told
        <3>3. Told(o)'
            BY <2>1, <1>9, <3>2 DEF Safe, Told
        <3>4. ASSUME NEW i \in 0 .. o.length - 1
              PROVE  ring'[(o.start + i) % RingSize] = <<o.number, i>>
            <4>1. o.start \in Cells /\ o.length \in 1 .. RingSize
                BY <1>7 DEF Packets
            <4>2. (o.start + i) % RingSize \in Cells
                BY <1>7, <4>1, RingCell
            <4>3. (o.start + i) % RingSize \in Where(o)
                BY DEF Where
            <4>4. (o.start + i) % RingSize \notin Where(q)
                BY <1>4, <3>1, <4>3
            <4>5. ring[(o.start + i) % RingSize] = <<o.number, i>>
                BY <2>1 DEF Safe, Lies
            <4>6. QED
                BY <1>4, <4>2, <4>4, <4>5
        <3>5. QED
            BY <3>3, <3>4 DEF Safe, Lies
    <2>2. Told(q)'
        BY <1>3, <1>6, <1>9, ReportsTold DEF Told
    <2>3. ASSUME NEW i \in 0 .. q.length - 1
          PROVE  ring'[(q.start + i) % RingSize] = <<q.number, i>>
        <3>1. i \in 0 .. RingSize - 1
            BY <1>3, <1>7
        <3>2. /\ (cursor + i) % RingSize \in Cells
              /\ (((cursor + i) % RingSize) - cursor + RingSize) % RingSize = i
            BY <1>6, <3>1, RingCell
        <3>3. (cursor + i) % RingSize \in Where(q)
            BY <1>3 DEF Where
        <3>4. QED
            BY <1>3, <1>4, <3>2, <3>3
    <2>4. Safe(q)'
        BY <2>2, <2>3 DEF Safe, Lies
    <2>5. ASSUME NEW o \in held' PROVE Safe(o)'
        BY <1>5, <1>6, <2>1 DEF IInv, RingInv
    <2>6. ASSUME NEW i \in 1 .. Len(ready')
          PROVE  Safe(ready[i])' /\ ready'[i].number = Got' + i
        <3>1. CASE i = Len(ready) + 1
            <4>1. ready'[i] = q
                BY <3>1, <1>10
            <4>2. Safe(ready[i])'
                BY <2>4, <4>1 DEF Safe, Told, Lies
            <4>3. Got + i = k
                BY <3>1, <1>9, <1>10 DEF Got
            <4>4. QED
                BY <1>3, <1>11, <4>1, <4>2, <4>3
        <3>2. CASE i # Len(ready) + 1
            <4>1. i \in 1 .. Len(ready)
                BY <3>2, <1>10
            <4>2. ready'[i] = ready[i]
                BY <4>1, <1>10
            <4>3. Safe(ready[i]) /\ ready[i].number = Got + i
                BY <4>1 DEF IInv, RingInv
            <4>4. PICK o \in Packets : o = ready[i]
                BY <4>1, <1>6
            <4>5. Safe(o)'
                BY <2>1, <4>1, <4>3, <4>4
            <4>6. Safe(ready[i])'
                BY <4>2, <4>4, <4>5 DEF Safe, Told, Lies
            <4>7. QED
                BY <1>11, <4>2, <4>3, <4>6
        <3>3. QED
            BY <3>1, <3>2
    <2>7. QED
        BY <2>5, <2>6 DEF RingInv
<1>18. OutInv'
    <2>1. Got >= 1 => Bytes(Got)' = Bytes(Got)
        BY <1>11, <1>12 DEF Got
    <2>2. place \in AtPacket => Got >= 1
        <3>1. place \in AtPacket => packet \in Packets /\ packet.number = Got
            BY DEF IInv, TypeOK, CallInv, OutInv
        <3>2. QED
            BY <3>1, <1>11 DEF Packets
    <2>3. UNCHANGED <<place, out, packet>>
        BY <1>5 DEF program
    <2>4. QED
        BY <1>11, <2>1, <2>2, <2>3 DEF IInv, OutInv, AtPacket
<1>19. GivenInv'
    <2>1. UNCHANGED <<given, late, place>> /\ \A c : Number(c)' = Number(c)
        BY <1>5 DEF Number, history, program
    <2>2. ASSUME NEW c \in 1 .. Len(given)
          PROVE  /\ Number(c) \in 1 .. Len(made)
                 /\ made'[Number(c)] = made[Number(c)]
                 /\ Bytes(Number(c))' = Bytes(Number(c))
        <3>1. PICK n \in 1 .. Len(made) : n = Number(c)
            BY <1>9, <1>11 DEF IInv, GivenInv
        <3>2. made'[n] = made[n] /\ Bytes(n)' = Bytes(n)
            BY <1>9, <1>12
        <3>3. QED
            BY <2>1, <3>1, <3>2 DEF Bytes
    <2>3. QED
        BY <1>11, <2>1, <2>2 DEF IInv, GivenInv
<1>20. LateInv'
    <2> SUFFICES ASSUME late = 0
                 PROVE  /\ place = "get" /\ fed' + Len(ready') = 1
                        /\ made'[Len(made')].shows = input'
        BY <1>5 DEF LateInv, AtPacket, program, history
    <2>1. place = "get" /\ fed + Len(ready) = 1
        BY <1>5, <1>6 DEF IInv, LateInv
    <2>2. QED
        BY <2>1, <1>5, <1>6, <1>9, <1>10
<1>21. QED
    BY <1>14, <1>15, <1>16, <1>17, <1>18, <1>19, <1>20 DEF IInv

-----------------------------------------------------------------------------
LEMMA NextIInv == ASSUME IInv, [Next]_vars PROVE IInv'
<1>1. CASE Next
    BY <1>1, AcquireStep, OpenStep, CleanupStep, EncodeFailsStep, CloseBuffersStep,
       PutFrameStep, GetFailsStep, GetPacketStep, CopyOutStep, ReturnPacketStep,
       ReturnFailsStep, EncodedStep, CloseContextStep, ProduceStep DEF Next, Call
<1>2. CASE UNCHANGED vars
    <2>1. UNCHANGED <<place, owned, scratch, packet, out, input, ring, cursor, fed,
                      made, ready, held, given, late, lost>>
        BY <1>2 DEF vars, program, library, history
    <2>2. TypeOK' /\ OwnedInv' /\ CallInv'
        BY <2>1 DEF IInv, TypeOK, OwnedInv, CallInv
    <2>3. RingInv' /\ GivenInv'
        BY <2>1, RingStays, GivenStays DEF IInv, TypeOK
    <2>4. OutInv' /\ LateInv'
        BY <2>1 DEF IInv, OutInv, LateInv, Got, Bytes
    <2>5. QED
        BY <2>2, <2>3, <2>4 DEF IInv
<1>3. QED
    BY <1>1, <1>2

LEMMA EncoderInvariant == Spec => []IInv
BY InitIInv, NextIInv, PTL DEF Spec

(* The wrapper keeps its types, for every size of the ring and every       *)
(* length of its packets (mpp_encoder.c).                                  *)
THEOREM TypeCorrect == Spec => []TypeOK
<1>1. IInv => TypeOK
    BY DEF IInv
<1>2. QED
    BY <1>1, EncoderInvariant, PTL

(* copy_vendor_packet and its caller hand out whole packets, in order and  *)
(* never twice, and until encode_get_packet failed the picture just put:   *)
(* for a ring of any size, with packets at its end or around it.           *)
THEOREM PacketsCopiedWhole == Spec => []CopiedWhole
<1>1. ASSUME IInv PROVE CopiedWhole
    <2> SUFFICES ASSUME NEW c \in 1 .. Len(given)
                 PROVE  \E k \in 1 .. Len(made) :
                            /\ given[c].data = Bytes(k)
                            /\ late = 0 => made[k].shows = given[c].picture
                            /\ \A d \in 1 .. c - 1 : given[d].data[1][1] < k
        BY DEF CopiedWhole
    <2>1. Number(c) \in 1 .. Got /\ given[c].data = Bytes(Number(c))
        BY <1>1 DEF IInv, GivenInv
    <2>2. late = 0 => made[Number(c)].shows = given[c].picture
        BY <1>1 DEF IInv, GivenInv
    <2>3. Len(given) \in Nat /\ Number(c) \in 1 .. Len(made)
        BY <1>1, <2>1 DEF IInv, TypeOK, Got
    <2>4. ASSUME NEW d \in 1 .. c - 1 PROVE Number(d) < Number(c)
        BY <1>1, <2>3 DEF IInv, GivenInv
    <2>5. QED
        BY <2>1, <2>2, <2>3, <2>4 DEF Number
<1>2. QED
    BY <1>1, EncoderInvariant, PTL

(* Whichever step of a call, of the set-up or of the close fails, nothing  *)
(* is kept that should have been given back (mpp_encoder.c).               *)
THEOREM NothingStays == Spec => []NothingKept
<1>1. ASSUME IInv PROVE NothingKept
    <2>1. place \in {"idle", "closed"} =>
              scratch = {} /\ packet = NoPacket /\ out = <<>> /\ held \subseteq lost
        BY <1>1 DEF IInv, CallInv, AtPacket
    <2>2. fed > 0 => Buffers \subseteq owned
        BY <1>1 DEF IInv, OwnedInv, Setup
    <2>3. "ctx" \in owned => Buffers \subseteq owned
        <3>1. CASE place \in Setup \ {"configure"}
            BY <1>1, <3>1 DEF IInv, OwnedInv, Setup
        <3>2. CASE place \notin Setup \ {"configure"}
            BY <1>1, <3>2 DEF IInv, OwnedInv
        <3>3. QED
            BY <3>1, <3>2
    <2>4. place = "closed" => owned = {} /\ held = {}
        BY <1>1 DEF IInv, TypeOK, OwnedInv, Setup, Buffers
    <2>5. QED
        BY <2>1, <2>2, <2>3, <2>4 DEF NothingKept
<1>2. QED
    BY <1>1, EncoderInvariant, PTL
=============================================================================
