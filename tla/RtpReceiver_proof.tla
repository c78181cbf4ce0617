--------------------------- MODULE RtpReceiver_proof -------------------------
(***************************************************************************)
(* Proofs about the stream and about what a receiver makes of it.          *)
(*                                                                         *)
(* The sending side first: SpellsPictures speaks of packets that are on    *)
(* the wire; to add one, the invariant must know how the last of them      *)
(* relates to the variables the next one is made from (LinkInv).           *)
(***************************************************************************)
EXTENDS RtpReceiver, TLAPS

PicturesInv ==
    /\ \A i \in 1 .. Len(pictures) : pictures[i] # <<>>
    /\ pictures # <<>> => pictures[1][1].type = "sps"
    /\ \A i \in 1 .. Len(pictures) :
        \A k \in 2 .. Len(pictures[i]) : pictures[i][k].type # "sps"

CursorInv ==
    place = "sending" =>
        /\ pictures # <<>>
        /\ nal \in 1 .. Len(Picture) + 1 /\ offset >= 1
        /\ offset > 1 =>
            nal <= Len(Picture) /\ Unit.size > PayloadMax /\ offset < Unit.size

(* What the next packet will find the packet p before it to be.            *)
InUnit(p) ==
    /\ place = "sending" /\ offset > 1
    /\ ~p.end /\ ~p.marker /\ p.fu /\ p.type = Unit.type
    /\ p.timestamp = timestamp
    /\ p.data.picture = Len(pictures) /\ p.data.nal = nal
    /\ p.data.to = offset - 1

BehindUnit(p) ==
    /\ place = "sending" /\ offset = 1 /\ nal > 1
    /\ p.end /\ (p.marker <=> nal > Len(Picture))
    /\ p.timestamp = timestamp
    /\ p.data.picture = Len(pictures) /\ p.data.nal = nal - 1

BehindPicture(p) ==
    /\ p.end /\ p.marker /\ p.timestamp # timestamp
    /\ \/ place = "idle" /\ p.data.picture = Len(pictures)
       \/ /\ place = "sending" /\ offset = 1 /\ nal = 1
          /\ p.data.picture = Len(pictures) - 1

LinkInv ==
    place # "closed" =>
        /\ wire = <<>> =>
            \/ place = "idle" /\ pictures = <<>>
            \/ place = "sending" /\ Len(pictures) = 1 /\ nal = 1 /\ offset = 1
        /\ wire # <<>> =>
            LET p == wire[Len(wire)]
            IN  /\ seq = (p.seq + 1) % SeqModulus
                /\ InUnit(p) \/ BehindUnit(p) \/ BehindPicture(p)

Sound(p) ==
    /\ p.data.picture \in 1 .. Len(pictures)
    /\ p.data.nal \in 1 .. Len(pictures[p.data.picture])
    /\ Bounded(p)

PacketInv == \A i \in 1 .. Len(wire) : Sound(wire[i])

ChainInv == \A i \in 1 .. Len(wire) - 1 : Follows(wire[i], wire[i + 1])

FirstInv ==
    wire # <<>> =>
        /\ wire[1].start /\ wire[1].type = "sps"
        /\ wire[1].data.picture = 1 /\ wire[1].data.nal = 1

StreamInv ==
    /\ StreamTypeOK /\ PicturesInv /\ CursorInv /\ LinkInv
    /\ PacketInv /\ ChainInv /\ FirstInv

-----------------------------------------------------------------------------
(* A clock that moves by less than its modulus shows another time.         *)
LEMMA ClockMoves ==
    ASSUME NEW M \in Nat \ {0}, NEW t \in 0 .. M - 1, NEW s \in 1 .. M - 1
    PROVE  (t + s) % M \in 0 .. M - 1 /\ (t + s) % M # t
<1>1. CASE t + s < M
    <2>1. (t + s) % M = t + s
        BY <1>1
    <2>2. QED
        BY <1>1, <2>1
<1>2. CASE t + s >= M
    <2>1. (t + s) % M = t + s - M
        BY <1>2
    <2>2. QED
        BY <1>2, <2>1
<1>3. QED
    BY <1>1, <1>2

LEMMA InRange ==
    ASSUME NEW M \in Nat \ {0}, NEW k \in Nat
    PROVE  k % M \in 0 .. M - 1
OBVIOUS

(* The packets sent stay as they were.                                     *)
LEMMA ChainStays == ASSUME ChainInv, wire' = wire PROVE ChainInv'
<1>1. ASSUME NEW i \in 1 .. Len(wire') - 1
      PROVE  Follows(wire'[i], wire'[i + 1])
    BY <1>1 DEF ChainInv
<1>2. QED
    BY <1>1 DEF ChainInv, Follows, SameUnit, NextUnit, NextPicture

LEMMA StreamInitInv == StreamInit => StreamInv
<1> SUFFICES ASSUME StreamInit PROVE StreamInv
    OBVIOUS
<1>1. pictures \in Seq(Seq(NalUnits)) /\ wire \in Seq(Packets)
    BY DEF StreamInit
<1>2. StreamTypeOK
    BY <1>1, PacketAssumption DEF StreamInit, StreamTypeOK
<1>3. PicturesInv /\ CursorInv /\ LinkInv
    BY DEF StreamInit, PicturesInv, CursorInv, LinkInv
<1>4. PacketInv /\ ChainInv /\ FirstInv
    BY DEF StreamInit, PacketInv, ChainInv, FirstInv
<1>5. QED
    BY <1>2, <1>3, <1>4 DEF StreamInv

(* The first access unit of a session begins with a parameter set.         *)
LEMMA ParametersFirst ==
    ASSUME NEW unit \in AccessUnits
    PROVE  /\ WithParameters(unit) \in Seq(NalUnits)
           /\ WithParameters(unit) # <<>>
           /\ pictures = <<>> => WithParameters(unit)[1].type = "sps"
           /\ \A k \in 2 .. Len(WithParameters(unit)) :
                  WithParameters(unit)[k].type # "sps"
<1>1. unit \in Seq(NalUnits) /\ unit # <<>>
    BY UnitsAssumption
<1>2. Sps \in NalUnits /\ Pps \in NalUnits /\ Sps.type = "sps"
    BY DEF Sps, Pps, NalUnits, Types
<1>3. CASE Contains(unit, "sps") \/ Contains(unit, "pps")
    <2>1. unit[1].type = "sps" /\ Contains(unit, "pps")
        BY <1>3, UnitsAssumption
    <2>2. Contains(unit, "sps")
        BY <2>1, <1>1 DEF Contains
    <2>3. WithParameters(unit) = IF pictures = <<>> THEN <<>> \o <<>> \o unit
                                                    ELSE unit
        BY <2>1, <2>2 DEF WithParameters, Missing, Sps, Pps
    <2>4. <<>> \o <<>> \o unit = unit
        BY <1>1
    <2>5. \A k \in 2 .. Len(unit) : unit[k].type # "sps"
        BY UnitsAssumption
    <2>6. QED
        BY <1>1, <2>1, <2>3, <2>4, <2>5
<1>4. CASE ~Contains(unit, "sps") /\ ~Contains(unit, "pps")
    <2>1. WithParameters(unit) = IF pictures = <<>> THEN <<Sps>> \o <<Pps>> \o unit
                                                    ELSE unit
        BY <1>4 DEF WithParameters, Missing, Sps, Pps
    <2> DEFINE longer == <<Sps>> \o <<Pps>> \o unit
    <2>2. longer \in Seq(NalUnits) /\ longer[1] = Sps /\ Len(longer) = Len(unit) + 2
        BY <1>1, <1>2
    <2>3. longer # <<>>
        BY <1>1, <2>2
    <2>4. ASSUME NEW k \in 2 .. Len(longer) PROVE longer[k].type # "sps"
        <3>1. CASE k = 2
            <4>1. longer[2] = Pps
                BY <1>1, <1>2
            <4>2. QED
                BY <3>1, <4>1 DEF Pps
        <3>2. CASE k # 2
            <4>1. longer[k] = unit[k - 2] /\ k - 2 \in 1 .. Len(unit)
                BY <3>2, <1>1, <1>2, <2>2
            <4>2. QED
                BY <4>1, <1>4 DEF Contains
        <3>3. QED
            BY <3>1, <3>2
    <2>5. \A k \in 2 .. Len(unit) : unit[k].type # "sps"
        BY UnitsAssumption
    <2> HIDE DEF longer
    <2>6. WithParameters(unit) = IF pictures = <<>> THEN longer ELSE unit
        BY <2>1 DEF longer
    <2>7. CASE pictures = <<>>
        BY <1>2, <2>2, <2>3, <2>4, <2>6, <2>7
    <2>8. CASE pictures # <<>>
        BY <1>1, <2>5, <2>6, <2>8
    <2>9. QED
        BY <2>7, <2>8
<1>5. QED
    BY <1>3, <1>4

-----------------------------------------------------------------------------
(* A new access unit leaves the packets of the earlier ones what they are. *)
LEMMA SendAccessUnitStep == ASSUME StreamInv, SendAccessUnit PROVE StreamInv'
<1>1. PICK unit \in AccessUnits : pictures' = Append(pictures, WithParameters(unit))
    BY DEF SendAccessUnit
<1> DEFINE new == WithParameters(unit)
<1>2. /\ new \in Seq(NalUnits) /\ new # <<>> /\ (pictures = <<>> => new[1].type = "sps")
      /\ \A k \in 2 .. Len(new) : new[k].type # "sps"
    BY ParametersFirst
<1> HIDE DEF new
<1>3. pictures \in Seq(Seq(NalUnits)) /\ pictures' = Append(pictures, new)
    BY <1>1 DEF StreamInv, StreamTypeOK, new
<1>4. /\ pictures' \in Seq(Seq(NalUnits)) /\ Len(pictures') = Len(pictures) + 1
      /\ pictures'[Len(pictures) + 1] = new
      /\ \A i \in 1 .. Len(pictures) : pictures'[i] = pictures[i]
    BY <1>2, <1>3
<1>5. Len(pictures) \in Nat
    BY <1>3
<1>6. place = "idle" /\ place' = "sending" /\ nal' = 1 /\ offset' = 1
    BY DEF SendAccessUnit
<1>7. seq' = seq /\ timestamp' = timestamp /\ wire' = wire
    BY DEF SendAccessUnit
<1>8. StreamTypeOK'
    BY <1>4, <1>6, <1>7 DEF StreamInv, StreamTypeOK
<1>9. PicturesInv'
    <2>1. ASSUME NEW i \in 1 .. Len(pictures') PROVE pictures'[i] # <<>>
        <3>1. CASE i = Len(pictures) + 1
            BY <3>1, <1>2, <1>4
        <3>2. CASE i # Len(pictures) + 1
            <4>1. i \in 1 .. Len(pictures)
                BY <3>2, <1>4, <1>5
            <4>2. QED
                BY <4>1, <1>4 DEF StreamInv, PicturesInv
        <3>3. QED
            BY <3>1, <3>2
    <2>2. pictures'[1][1].type = "sps"
        <3>1. CASE pictures = <<>>
            BY <3>1, <1>2, <1>4
        <3>2. CASE pictures # <<>>
            <4>1. 1 \in 1 .. Len(pictures)
                BY <3>2, <1>3
            <4>2. QED
                BY <3>2, <4>1, <1>4 DEF StreamInv, PicturesInv
        <3>3. QED
            BY <3>1, <3>2
    <2>3. ASSUME NEW i \in 1 .. Len(pictures'), NEW k \in 2 .. Len(pictures'[i])
          PROVE  pictures'[i][k].type # "sps"
        <3>1. CASE i = Len(pictures) + 1
            BY <3>1, <1>2, <1>4
        <3>2. CASE i # Len(pictures) + 1
            <4>1. i \in 1 .. Len(pictures)
                BY <3>2, <1>4, <1>5
            <4>2. QED
                BY <4>1, <1>4 DEF StreamInv, PicturesInv
        <3>3. QED
            BY <3>1, <3>2
    <2>4. QED
        BY <2>1, <2>2, <2>3 DEF PicturesInv
<1>10. CursorInv'
    <2>1. pictures' # <<>> /\ Picture' = new
        BY <1>4, <1>5 DEF Picture
    <2>2. Len(new) \in Nat
        BY <1>2
    <2>3. QED
        BY <1>6, <2>1, <2>2 DEF CursorInv
<1>11. LinkInv'
    <2>1. CASE wire = <<>>
        <3>1. Len(pictures) = 0
            BY <2>1, <1>6, <1>3 DEF StreamInv, LinkInv
        <3>2. QED
            BY <2>1, <3>1, <1>4, <1>6, <1>7 DEF LinkInv
    <2>2. CASE wire # <<>>
        <3> DEFINE p == wire[Len(wire)]
        <3>1. seq = (p.seq + 1) % SeqModulus /\ BehindPicture(p)
            BY <2>2, <1>6 DEF StreamInv, LinkInv, InUnit, BehindUnit
        <3>2. BehindPicture(p)'
            BY <3>1, <1>4, <1>5, <1>6, <1>7 DEF BehindPicture
        <3>3. QED
            BY <2>2, <3>1, <3>2, <1>7 DEF LinkInv
    <2>3. QED
        BY <2>1, <2>2
<1>12. PacketInv'
    <2> SUFFICES ASSUME NEW i \in 1 .. Len(wire) PROVE Sound(wire[i])'
        BY <1>7 DEF PacketInv
    <2>1. Sound(wire[i]) /\ wire'[i] = wire[i]
        BY <1>7 DEF StreamInv, PacketInv
    <2>2. pictures'[wire[i].data.picture] = pictures[wire[i].data.picture]
        BY <2>1, <1>4 DEF Sound
    <2> DEFINE p == wire[i]
    <2>3. p.data.picture \in 1 .. Len(pictures')
        BY <2>1, <1>4, <1>5 DEF Sound
    <2>4. p.data.nal \in 1 .. Len(pictures'[p.data.picture])
        BY <2>1, <2>2 DEF Sound
    <2>5. Bounded(p)'
        BY <2>1, <2>2 DEF Sound, Bounded
    <2>6. QED
        BY <2>1, <2>3, <2>4, <2>5 DEF Sound
<1>13. ChainInv' /\ FirstInv'
    BY <1>7, ChainStays DEF StreamInv, FirstInv
<1>14. QED
    BY <1>8, <1>9, <1>10, <1>11, <1>12, <1>13 DEF StreamInv

-----------------------------------------------------------------------------
(* One packet more, made from the next bytes of the current unit.          *)
LEMMA EmitStep ==
    ASSUME StreamInv, place = "sending", nal <= Len(Picture),
           NEW fu \in BOOLEAN, fu <=> Unit.size > PayloadMax,
           NEW to \in Nat, to >= offset - 1, to <= Unit.size - 1,
           to - offset < PayloadMax, to < Unit.size - 1 => fu /\ to >= offset,
           Emit(fu, offset, to)
    PROVE  StreamInv'
<1> DEFINE n == Len(pictures)
           last == to = Unit.size - 1
           new == [seq |-> seq, timestamp |-> timestamp,
                   marker |-> last /\ nal = Len(Picture),
                   type |-> Unit.type, fu |-> fu, start |-> offset = 1,
                   end |-> last,
                   data |-> [picture |-> n, nal |-> nal,
                             from |-> offset, to |-> to]]
<1>1. /\ pictures \in Seq(Seq(NalUnits)) /\ wire \in Seq(Packets)
      /\ seq \in 0 .. SeqModulus - 1 /\ timestamp \in 0 .. ClockModulus - 1
      /\ nal \in Nat /\ offset \in Nat
    BY DEF StreamInv, StreamTypeOK
<1>2. n \in Nat /\ n >= 1 /\ nal >= 1 /\ offset >= 1
    BY <1>1 DEF StreamInv, CursorInv
<1>3. Picture \in Seq(NalUnits) /\ Picture = pictures[n]
    BY <1>1, <1>2 DEF Picture
<1>4. Unit \in NalUnits /\ Len(Picture) \in Nat
    <2>1. nal \in 1 .. Len(Picture)
        BY <1>1, <1>2, <1>3
    <2>2. QED
        BY <2>1, <1>3 DEF Unit
<1>5. Unit.size \in Nat \ {0} /\ Unit.type \in Types
    BY <1>4 DEF NalUnits
<1>6. /\ wire' = Append(wire, new) /\ seq' = (seq + 1) % SeqModulus
      /\ offset' = IF last THEN 1 ELSE to + 1
      /\ nal' = IF last THEN nal + 1 ELSE nal
      /\ place' = place /\ pictures' = pictures /\ timestamp' = timestamp
    BY DEF Emit
<1>7. PICK q \in Packets : q = new
    <2>1. new \in Packets
        BY <1>1, <1>2, <1>5 DEF Packets
    <2>2. QED
        BY <2>1
<1>8. /\ q.seq = seq /\ q.timestamp = timestamp
      /\ q.marker <=> last /\ nal = Len(Picture)
      /\ q.type = Unit.type
      /\ q.fu <=> fu
      /\ q.start <=> offset = 1
      /\ q.end <=> last
      /\ q.data.picture = n /\ q.data.nal = nal
      /\ q.data.from = offset /\ q.data.to = to
      /\ q.data = [picture |-> n, nal |-> nal, from |-> offset, to |-> to]
    BY <1>7
<1>9. /\ wire' \in Seq(Packets) /\ Len(wire') = Len(wire) + 1
      /\ wire'[Len(wire) + 1] = q /\ Len(wire) \in Nat
      /\ \A i \in 1 .. Len(wire) : wire'[i] = wire[i]
    BY <1>1, <1>6, <1>7
<1>10. Picture' = Picture
    BY <1>6 DEF Picture
<1>11. StreamTypeOK'
    <2>1. seq' \in 0 .. SeqModulus - 1
        BY <1>1, <1>6, InRange, PacketAssumption
    <2>2. nal' \in Nat /\ offset' \in Nat
        BY <1>1, <1>6
    <2>3. QED
        BY <2>1, <2>2, <1>6, <1>9 DEF StreamInv, StreamTypeOK
<1>12. PicturesInv'
    BY <1>6 DEF StreamInv, PicturesInv
<1>13. CursorInv'
    <2>1. CASE last
        BY <2>1, <1>1, <1>2, <1>4, <1>6, <1>10 DEF StreamInv, CursorInv
    <2>2. CASE ~last
        <3>1. Unit' = Unit /\ nal' = nal /\ offset' = to + 1
            BY <2>2, <1>6, <1>10 DEF Unit
        <3>2. to < Unit.size - 1 /\ Unit.size > PayloadMax
            BY <2>2, <1>5
        <3>3. nal' \in 1 .. Len(Picture') + 1 /\ nal' <= Len(Picture')
            BY <3>1, <1>1, <1>2, <1>4, <1>10
        <3>4. offset' >= 1 /\ offset' < Unit'.size /\ Unit'.size > PayloadMax
            BY <3>1, <3>2, <1>5
        <3>5. pictures' # <<>>
            BY <1>6, <1>2, <1>1
        <3>6. QED
            BY <3>3, <3>4, <3>5 DEF CursorInv
    <2>3. QED
        BY <2>1, <2>2
<1>14. LinkInv'
    <2>1. wire' # <<>> /\ wire'[Len(wire')] = q
        BY <1>9
    <2>2. CASE last
        <3>1. BehindUnit(q)'
            <4>1. nal' = nal + 1 /\ offset' = 1
                BY <2>2, <1>6
            <4>2. q.marker <=> nal' > Len(Picture)
                BY <2>2, <1>1, <1>4, <1>8, <4>1
            <4>3. nal' > 1 /\ q.data.nal = nal' - 1
                BY <1>1, <1>2, <1>8, <4>1
            <4>4. QED
                BY <2>2, <4>1, <4>2, <4>3, <1>6, <1>8, <1>10 DEF BehindUnit
        <3>2. QED
            BY <2>1, <3>1, <1>6, <1>8 DEF LinkInv
    <2>3. CASE ~last
        <3>1. InUnit(q)'
            <4>1. nal' = nal /\ offset' = to + 1 /\ Unit' = Unit
                BY <2>3, <1>6, <1>10 DEF Unit
            <4>2. to < Unit.size - 1
                BY <2>3, <1>5
            <4>3. fu /\ offset' > 1 /\ to = offset' - 1
                BY <4>1, <4>2, <1>1, <1>2
            <4>4. QED
                BY <2>3, <4>1, <4>3, <1>6, <1>8 DEF InUnit
        <3>2. QED
            BY <2>1, <3>1, <1>6, <1>8 DEF LinkInv
    <2>4. QED
        BY <2>2, <2>3
<1>15. PacketInv'
    <2>1. Sound(q)
        <3>1. pictures[q.data.picture][q.data.nal] = Unit
            BY <1>3, <1>8 DEF Unit
        <3>2. q.data.to - q.data.from < PayloadMax
            BY <1>8
        <3>3. Bounded(q)
            BY <3>1, <3>2, <1>3, <1>8 DEF Bounded
        <3>4. QED
            BY <3>3, <1>1, <1>2, <1>3, <1>4, <1>8 DEF Sound
    <2>2. \A i \in 1 .. Len(wire) : Sound(wire[i])
        BY DEF StreamInv, PacketInv
    <2>3. \A i \in 1 .. Len(wire') : Sound(wire'[i])
        BY <2>1, <2>2, <1>9
    <2>4. ASSUME NEW i \in 1 .. Len(wire') PROVE Sound(wire[i])'
        <3> DEFINE p == wire'[i]
        <3>1. Sound(p)
            BY <2>3
        <3>2. p.data.picture \in 1 .. Len(pictures')
              /\ p.data.nal \in 1 .. Len(pictures'[p.data.picture])
            BY <3>1, <1>6 DEF Sound
        <3>3. Bounded(p) /\ pictures' = pictures
            BY <3>1, <1>6 DEF Sound
        <3>4. Bounded(wire[i])'
            BY <3>3 DEF Bounded
        <3>5. QED
            BY <3>2, <3>4 DEF Sound
    <2>5. QED
        BY <2>4 DEF PacketInv
<1>16. ChainInv'
    <2>1. ASSUME wire # <<>>
          PROVE  Follows(wire[Len(wire)], q)
        <3> DEFINE p == wire[Len(wire)]
        <3>1. /\ seq = (p.seq + 1) % SeqModulus
              /\ InUnit(p) \/ BehindUnit(p) \/ BehindPicture(p)
            BY <2>1 DEF StreamInv, LinkInv
        <3>0. q.seq = (p.seq + 1) % SeqModulus
            BY <3>1, <1>8
        <3>2. Len(wire) \in 1 .. Len(wire) /\ p \in Packets
            BY <2>1, <1>1
        <3>3. Sound(p)
            BY <3>2 DEF StreamInv, PacketInv
        <3> HIDE DEF p
        <3>4. CASE InUnit(p)
            <4>1. /\ p.data.picture = n /\ p.data.nal = nal
                  /\ p.data.to + 1 = offset
                BY <3>4, <1>1, <3>2 DEF InUnit, Packets
            <4>2. /\ q.data.picture = p.data.picture /\ q.data.nal = p.data.nal
                  /\ q.data.from = p.data.to + 1
                BY <4>1, <1>8
            <4>3. Unit.size > PayloadMax
                BY <3>4, <1>1 DEF StreamInv, CursorInv, InUnit
            <4>4. SameUnit(p, q)
                BY <3>4, <4>2, <4>3, <1>1, <1>8 DEF InUnit, SameUnit
            <4>5. QED
                BY <3>0, <4>4 DEF Follows, p
        <3>5. CASE BehindUnit(p)
            <4>1. NextUnit(p, q)
                <5>1. ~p.marker
                    BY <3>5, <1>1, <1>4 DEF BehindUnit
                <5>2. q.data.nal = p.data.nal + 1 /\ q.start
                    BY <3>5, <1>1, <1>8 DEF BehindUnit
                <5>3. QED
                    BY <3>5, <5>1, <5>2, <1>8 DEF BehindUnit, NextUnit
            <4>2. QED
                BY <3>0, <4>1 DEF Follows, p
        <3>6. CASE BehindPicture(p)
            <4>1. NextPicture(p, q)
                BY <3>6, <1>2, <1>8 DEF BehindPicture, NextPicture
            <4>2. QED
                BY <3>0, <4>1 DEF Follows, p
        <3>7. QED
            BY <3>1, <3>4, <3>5, <3>6 DEF p
    <2>2. ASSUME NEW i \in 1 .. Len(wire') - 1
          PROVE  Follows(wire'[i], wire'[i + 1])
        <3>1. CASE i = Len(wire)
            <4>1. wire # <<>> /\ wire'[i] = wire[i] /\ wire'[i + 1] = q
                BY <3>1, <1>1, <1>9
            <4>2. QED
                BY <3>1, <4>1, <2>1
        <3>2. CASE i # Len(wire)
            <4>1. i \in 1 .. Len(wire) - 1
                BY <3>2, <1>9
            <4>2. wire'[i] = wire[i] /\ wire'[i + 1] = wire[i + 1]
                BY <4>1, <1>9
            <4>3. QED
                BY <4>1, <4>2 DEF StreamInv, ChainInv
        <3>3. QED
            BY <3>1, <3>2
    <2>3. QED
        BY <2>2 DEF ChainInv, Follows, SameUnit, NextUnit, NextPicture
<1>17. FirstInv'
    <2>1. CASE wire = <<>>
        <3>1. n = 1 /\ nal = 1 /\ offset = 1
            BY <2>1 DEF StreamInv, LinkInv
        <3>2. Unit = pictures[1][1]
            BY <3>1, <1>3 DEF Unit
        <3>3. wire'[1] = q
            BY <2>1, <1>9
        <3>4. QED
            <4>1. pictures[1][1].type = "sps"
                BY <1>1, <1>2 DEF StreamInv, PicturesInv
            <4>2. q.start /\ q.type = "sps" /\ q.data.picture = 1 /\ q.data.nal = 1
                BY <3>1, <3>2, <4>1, <1>8
            <4>3. QED
                BY <3>3, <4>2 DEF FirstInv
    <2>2. CASE wire # <<>>
        <3>1. wire'[1] = wire[1]
            BY <2>2, <1>1, <1>9
        <3>2. QED
            BY <2>2, <3>1 DEF StreamInv, FirstInv
    <2>3. QED
        BY <2>1, <2>2
<1>18. QED
    BY <1>11, <1>12, <1>13, <1>14, <1>15, <1>16, <1>17 DEF StreamInv

(* Both ways to send give Emit the bytes it needs.                         *)
LEMMA SendStep == ASSUME StreamInv, SendSingle \/ SendFragment PROVE StreamInv'
<1>1. /\ pictures \in Seq(Seq(NalUnits)) /\ nal \in Nat /\ offset \in Nat
      /\ PayloadMax \in Nat \ {0}
    BY PacketAssumption DEF StreamInv, StreamTypeOK
<1>2. place = "sending" /\ nal <= Len(Picture)
    BY DEF SendSingle, SendFragment
<1>3. /\ pictures # <<>> /\ nal >= 1 /\ offset >= 1
      /\ offset > 1 => Unit.size > PayloadMax /\ offset < Unit.size
    BY <1>1, <1>2 DEF StreamInv, CursorInv
<1>4. Picture \in Seq(NalUnits)
    BY <1>1, <1>3 DEF Picture
<1>5. Unit \in NalUnits
    BY <1>1, <1>2, <1>3, <1>4 DEF Unit
<1>6. Unit.size \in Nat \ {0}
    BY <1>5 DEF NalUnits
<1>7. CASE SendSingle
    <2>1. Unit.size <= PayloadMax /\ Emit(FALSE, 1, Unit.size - 1)
        BY <1>7 DEF SendSingle
    <2>2. offset = 1
        BY <2>1, <1>1, <1>3, <1>6
    <2> DEFINE to == Unit.size - 1
    <2>3. to \in Nat /\ to >= offset - 1 /\ to <= Unit.size - 1
          /\ to - offset < PayloadMax /\ ~(to < Unit.size - 1)
        BY <2>1, <2>2, <1>1, <1>6
    <2>4. FALSE \in BOOLEAN /\ (FALSE <=> Unit.size > PayloadMax)
        BY <2>1, <1>1, <1>6
    <2>5. Emit(FALSE, offset, to)
        BY <2>1, <2>2
    <2> HIDE DEF to
    <2>6. QED
        BY <2>3, <2>4, <2>5, <1>2, EmitStep
<1>8. CASE SendFragment
    <2> DEFINE remain == Unit.size - offset
               to == IF remain > PayloadMax THEN offset + PayloadMax - 1
                                            ELSE Unit.size - 1
    <2>1. Unit.size > PayloadMax /\ Emit(TRUE, offset, to)
        BY <1>8 DEF SendFragment
    <2>2. offset < Unit.size
        BY <2>1, <1>1, <1>3, <1>6
    <2>3. to \in Nat /\ to >= offset - 1 /\ to <= Unit.size - 1
          /\ to - offset < PayloadMax /\ to >= offset
        <3>1. CASE remain > PayloadMax
            <4>1. to = offset + PayloadMax - 1
                BY <3>1
            <4>2. QED
                BY <3>1, <4>1, <2>2, <1>1, <1>3, <1>6
        <3>2. CASE ~(remain > PayloadMax)
            <4>1. to = Unit.size - 1
                BY <3>2
            <4>2. QED
                BY <3>2, <4>1, <2>2, <1>1, <1>3, <1>6
        <3>3. QED
            BY <3>1, <3>2
    <2>4. TRUE \in BOOLEAN /\ (TRUE <=> Unit.size > PayloadMax)
        BY <2>1
    <2> HIDE DEF to
    <2>5. QED
        BY <2>1, <2>3, <2>4, <1>2, EmitStep
<1>9. QED
    BY <1>7, <1>8

(* The clock moves on, so that the next picture has a time of its own.     *)
LEMMA EndAccessUnitStep == ASSUME StreamInv, EndAccessUnit PROVE StreamInv'
<1>1. /\ place = "sending" /\ nal > Len(Picture) /\ place' = "idle"
      /\ timestamp' = (timestamp + ClockStep) % ClockModulus
      /\ pictures' = pictures /\ nal' = nal /\ offset' = offset
      /\ seq' = seq /\ wire' = wire
    BY DEF EndAccessUnit
<1>2. timestamp' \in 0 .. ClockModulus - 1 /\ timestamp' # timestamp
    BY <1>1, ClockMoves, PacketAssumption DEF StreamInv, StreamTypeOK
<1>3. StreamTypeOK'
    BY <1>1, <1>2 DEF StreamInv, StreamTypeOK
<1>4. PicturesInv' /\ CursorInv'
    BY <1>1 DEF StreamInv, PicturesInv, CursorInv
<1>5. LinkInv'
    <2>1. /\ pictures \in Seq(Seq(NalUnits)) /\ pictures # <<>>
          /\ nal \in Nat /\ offset \in Nat
        BY <1>1 DEF StreamInv, StreamTypeOK, CursorInv
    <2>2. Len(Picture) \in Nat
        BY <2>1 DEF Picture
    <2>3. Picture # <<>> /\ Picture \in Seq(NalUnits)
        BY <2>1 DEF StreamInv, PicturesInv, Picture
    <2>4. nal > 1
        BY <1>1, <2>1, <2>3
    <2>5. wire # <<>>
        BY <1>1, <2>1, <2>4 DEF StreamInv, LinkInv
    <2> DEFINE p == wire[Len(wire)]
    <2>6. /\ seq = (p.seq + 1) % SeqModulus
          /\ InUnit(p) \/ BehindUnit(p) \/ BehindPicture(p)
        BY <1>1, <2>5 DEF StreamInv, LinkInv
    <2>7. ~InUnit(p) /\ ~BehindPicture(p)
        BY <1>1, <2>1, <2>2, <2>4 DEF StreamInv, CursorInv, InUnit, BehindPicture
    <2>8. BehindPicture(p)'
        BY <1>1, <1>2, <2>6, <2>7 DEF BehindUnit, BehindPicture
    <2>9. QED
        BY <1>1, <2>5, <2>6, <2>8 DEF LinkInv
<1>6. PacketInv' /\ FirstInv'
    BY <1>1 DEF StreamInv, PacketInv, Sound, Bounded, FirstInv
<1>7. ChainInv'
    BY <1>1, ChainStays DEF StreamInv
<1>8. QED
    BY <1>3, <1>4, <1>5, <1>6, <1>7 DEF StreamInv

LEMMA CloseStep == ASSUME StreamInv, Close PROVE StreamInv'
<1>1. /\ place' = "closed" /\ timestamp' = timestamp
      /\ pictures' = pictures /\ nal' = nal /\ offset' = offset
      /\ seq' = seq /\ wire' = wire
    BY DEF Close
<1>2. StreamTypeOK' /\ PicturesInv' /\ CursorInv' /\ LinkInv'
    BY <1>1 DEF StreamInv, StreamTypeOK, PicturesInv, CursorInv, LinkInv
<1>3. PacketInv' /\ FirstInv'
    BY <1>1 DEF StreamInv, PacketInv, Sound, Bounded, FirstInv
<1>4. ChainInv'
    BY <1>1, ChainStays DEF StreamInv
<1>5. QED
    BY <1>2, <1>3, <1>4 DEF StreamInv

LEMMA StreamStutter == ASSUME StreamInv, UNCHANGED streamVars PROVE StreamInv'
<1>1. /\ place' = place /\ timestamp' = timestamp
      /\ pictures' = pictures /\ nal' = nal /\ offset' = offset
      /\ seq' = seq /\ wire' = wire
    BY DEF streamVars
<1>2. StreamTypeOK' /\ PicturesInv'
    BY <1>1 DEF StreamInv, StreamTypeOK, PicturesInv
<1>3. CursorInv' /\ LinkInv'
    BY <1>1 DEF StreamInv, CursorInv, LinkInv, Picture, Unit, InUnit, BehindUnit,
                BehindPicture
<1>4. PacketInv' /\ FirstInv'
    BY <1>1 DEF StreamInv, PacketInv, Sound, Bounded, FirstInv
<1>5. ChainInv'
    BY <1>1, ChainStays DEF StreamInv
<1>6. QED
    BY <1>2, <1>3, <1>4, <1>5 DEF StreamInv

-----------------------------------------------------------------------------
LEMMA StreamStep ==
    ASSUME StreamInv, [StreamNext]_streamVars PROVE StreamInv'
BY SendAccessUnitStep, SendStep, EndAccessUnitStep, CloseStep, StreamStutter
DEF StreamNext

THEOREM StreamInvHolds == StreamSpec => []StreamInv
BY StreamInitInv, StreamStep, PTL DEF StreamSpec

(* The sender keeps its types, for every size of payload and every modulus *)
(* of sequence number and clock.                                           *)
THEOREM TypesHold == StreamSpec => []StreamTypeOK
<1>1. StreamInv => StreamTypeOK
    BY DEF StreamInv
<1>2. QED
    BY StreamInvHolds, <1>1, PTL

(* The packets spell out the access units, byte for byte and with bounds a *)
(* receiver can see, for every sequence of access units and every size of  *)
(* their NAL units (h264_rtp.c, send_access_unit).                         *)
THEOREM PicturesSpelt == StreamSpec => []SpellsPictures
<1>1. StreamInv => SpellsPictures
    BY DEF StreamInv, PacketInv, Sound, ChainInv, FirstInv, SpellsPictures
<1>2. QED
    BY StreamInvHolds, <1>1, PTL

-----------------------------------------------------------------------------
(* Sequence numbers: how far apart two positions are, told from their      *)
(* remainders.                                                             *)
LEMMA Division ==
    ASSUME NEW m \in Nat \ {0}, NEW a \in Nat
    PROVE  a \div m \in Nat /\ a % m \in 0 .. m - 1 /\ a = (a \div m) * m + (a % m)
OBVIOUS

LEMMA Remainder ==
    ASSUME NEW m \in Nat \ {0}, NEW a \in Nat, NEW q \in Nat, NEW r \in 0 .. m - 1,
           a = q * m + r
    PROVE  a % m = r
<1> DEFINE p == a \div m
           t == a % m
<1>1. p \in Nat /\ t \in 0 .. m - 1 /\ p * m + t = q * m + r
    BY Division
<1> HIDE DEF p, t
<1>2. p <= q /\ q <= p
    BY <1>1
<1>3. t = r
    BY <1>1, <1>2
<1>4. QED
    BY <1>3 DEF t

LEMMA Successor ==
    ASSUME NEW m \in Nat \ {0}, NEW a \in Nat
    PROVE  ((a % m) + 1) % m = (a + 1) % m
<1> DEFINE p == a \div m
           t == a % m
<1>1. p \in Nat /\ t \in 0 .. m - 1 /\ a = p * m + t
    BY Division
<1> HIDE DEF p, t
<1>2. CASE t + 1 < m
    <2>1. a + 1 = p * m + (t + 1) /\ t + 1 \in 0 .. m - 1
        BY <1>1, <1>2
    <2>2. (a + 1) % m = t + 1
        BY <1>1, <2>1, Remainder
    <2>3. (t + 1) % m = t + 1
        BY <2>1
    <2>4. QED
        BY <2>2, <2>3 DEF t
<1>3. CASE t + 1 = m
    <2>1. /\ a + 1 \in Nat /\ p + 1 \in Nat /\ 0 \in 0 .. m - 1
          /\ a + 1 = (p + 1) * m + 0
        BY <1>1, <1>3
    <2>2. (a + 1) % m = 0
        BY <2>1, Remainder
    <2>3. (t + 1) % m = 0
        BY <1>3
    <2>4. QED
        BY <2>2, <2>3 DEF t
<1>4. QED
    BY <1>1, <1>2, <1>3

LEMMA Apart ==
    ASSUME NEW m \in Nat \ {0}, NEW a \in Nat, NEW b \in Nat, a - b < m, b - a <= m
    PROVE  ((a % m) - (b % m)) % m = IF a >= b THEN a - b ELSE a - b + m
<1> DEFINE p == a \div m
           r == a % m
           q == b \div m
           t == b % m
<1>1. /\ p \in Nat /\ r \in 0 .. m - 1 /\ a = p * m + r
      /\ q \in Nat /\ t \in 0 .. m - 1 /\ b = q * m + t
    BY Division
<1> SUFFICES (r - t) % m = IF a >= b THEN a - b ELSE a - b + m
    OBVIOUS
<1> HIDE DEF p, q, r, t
<1>2. p * m + r < q * m + t + m /\ q * m + t <= p * m + r + m
    BY <1>1
<1>3. p * m < (q + 2) * m /\ q * m < (p + 2) * m
    BY <1>1, <1>2
<1>4. p < q + 2 /\ q < p + 2
    BY <1>1, <1>3
<1>5. CASE p = q
    BY <1>1, <1>2, <1>5
<1>6. CASE p = q + 1
    BY <1>1, <1>2, <1>6
<1>7. CASE q = p + 1
    BY <1>1, <1>2, <1>7
<1>8. QED
    BY <1>1, <1>4, <1>5, <1>6, <1>7

-----------------------------------------------------------------------------
(* The order of the packets on the wire, and their numbers.                *)
Before(d, e) ==
    \/ d.picture < e.picture
    \/ d.picture = e.picture /\ d.nal < e.nal
    \/ d.picture = e.picture /\ d.nal = e.nal /\ d.to < e.to

NumbersInv ==
    /\ seq = (FirstSeq + Len(wire)) % SeqModulus
    /\ \A i \in 1 .. Len(wire) : wire[i].seq = (FirstSeq + i - 1) % SeqModulus

FilledInv ==
    \A i \in 1 .. Len(wire) : wire[i].fu => wire[i].data.from <= wire[i].data.to

OrderInv ==
    \A i, j \in 1 .. Len(wire) :
        i < j => /\ Before(wire[i].data, wire[j].data)
                 /\ wire[i].marker => wire[i].data.picture < wire[j].data.picture

(* What a step of the sender does to the wire.                             *)
LEMMA WireStep ==
    ASSUME StreamInv, [StreamNext]_streamVars
    PROVE  \/ UNCHANGED <<wire, seq>>
           \/ /\ UNCHANGED pictures /\ seq' = (seq + 1) % SeqModulus
              /\ \E e \in Packets :
                    /\ wire' = Append(wire, e) /\ e.seq = seq
                    /\ e.fu => e.data.from <= e.data.to
<1>1. CASE SendAccessUnit \/ EndAccessUnit \/ Close \/ UNCHANGED streamVars
    BY <1>1 DEF SendAccessUnit, EndAccessUnit, Close, streamVars
<1>2. CASE SendSingle \/ SendFragment
    <2>1. wire \in Seq(Packets) /\ StreamTypeOK'
        BY <1>2, SendStep DEF StreamInv, StreamTypeOK
    <2>2. /\ nal \in Nat /\ offset \in Nat /\ PayloadMax \in Nat \ {0}
          /\ pictures \in Seq(Seq(NalUnits)) /\ wire' \in Seq(Packets)
        BY <2>1, PacketAssumption DEF StreamInv, StreamTypeOK
    <2>0. place = "sending" /\ nal <= Len(Picture)
        BY <1>2 DEF SendSingle, SendFragment
    <2>3. /\ nal <= Len(Picture) /\ pictures # <<>> /\ nal >= 1 /\ offset >= 1
          /\ offset > 1 => offset < Unit.size
        BY <2>0, <2>2 DEF StreamInv, CursorInv
    <2>4. Unit.size \in Nat
        <3>1. Picture \in Seq(NalUnits)
            BY <2>2, <2>3 DEF Picture
        <3>2. Unit \in NalUnits
            BY <2>2, <2>3, <3>1 DEF Unit
        <3>3. QED
            BY <3>2 DEF NalUnits
    <2>5. PICK fu, from, to :
              fu \in BOOLEAN /\ Emit(fu, from, to) /\ (fu => from <= to)
        <3>1. CASE SendSingle
            BY <3>1 DEF SendSingle
        <3>2. CASE SendFragment
            <4> DEFINE remain == Unit.size - offset
                       to == IF remain > PayloadMax THEN offset + PayloadMax - 1
                                                    ELSE Unit.size - 1
            <4>1. Unit.size > PayloadMax /\ Emit(TRUE, offset, to)
                BY <3>2 DEF SendFragment
            <4>2. offset < Unit.size
                BY <2>2, <2>3, <2>4, <4>1
            <4>3. offset <= to
                BY <2>2, <2>4, <4>2
            <4> HIDE DEF to
            <4>4. QED
                BY <4>1, <4>3
        <3>3. QED
            BY <1>2, <3>1, <3>2
    <2> DEFINE last == to = Unit.size - 1
               new == [seq |-> seq, timestamp |-> timestamp,
                       marker |-> last /\ nal = Len(Picture),
                       type |-> Unit.type, fu |-> fu, start |-> from = 1,
                       end |-> last,
                       data |-> [picture |-> Len(pictures), nal |-> nal,
                                 from |-> from, to |-> to]]
    <2>6. wire' = Append(wire, new) /\ seq' = (seq + 1) % SeqModulus /\ UNCHANGED pictures
        BY <2>5 DEF Emit
    <2>7. PICK e : e = new
        OBVIOUS
    <2>8. e.seq = seq /\ (e.fu <=> fu) /\ e.data.from = from /\ e.data.to = to
        BY <2>7
    <2>9. e \in Packets
        <3>1. Len(wire) + 1 \in 1 .. Len(wire') /\ wire'[Len(wire) + 1] = e
            BY <2>1, <2>6, <2>7
        <3>2. QED
            BY <2>2, <3>1
    <2>10. QED
        BY <2>5, <2>6, <2>7, <2>8, <2>9
<1>3. QED
    BY <1>1, <1>2 DEF StreamNext

(* What is on the wire stays, and so do the pictures.                      *)
LEMMA Grows ==
    ASSUME StreamInv, [StreamNext]_streamVars
    PROVE  /\ wire \in Seq(Packets) /\ Len(wire) \in Nat
           /\ Len(wire') \in {Len(wire), Len(wire) + 1}
           /\ \A i \in 1 .. Len(wire) : wire'[i] = wire[i]
           /\ Len(pictures') \in Nat /\ Len(pictures') >= Len(pictures)
           /\ \A n \in 1 .. Len(pictures) : pictures'[n] = pictures[n]
<1>1. wire \in Seq(Packets) /\ pictures \in Seq(Seq(NalUnits))
    BY DEF StreamInv, StreamTypeOK
<1>2. /\ Len(wire') \in {Len(wire), Len(wire) + 1}
      /\ \A i \in 1 .. Len(wire) : wire'[i] = wire[i]
    <2>1. CASE wire' = wire
        BY <1>1, <2>1
    <2>2. CASE \E e \in Packets : wire' = Append(wire, e)
        BY <1>1, <2>2
    <2>3. QED
        BY <2>1, <2>2, WireStep
<1>3. /\ Len(pictures') \in Nat /\ Len(pictures') >= Len(pictures)
      /\ \A n \in 1 .. Len(pictures) : pictures'[n] = pictures[n]
    <2>1. CASE SendAccessUnit
        <3>1. PICK unit \in AccessUnits : pictures' = Append(pictures, WithParameters(unit))
            BY <2>1 DEF SendAccessUnit
        <3>2. PICK new \in Seq(NalUnits) : pictures' = Append(pictures, new)
            BY <3>1, ParametersFirst
        <3>3. QED
            BY <1>1, <3>2
    <2>2. CASE ~SendAccessUnit
        <3>1. pictures' = pictures
            BY <2>2 DEF StreamNext, SendSingle, SendFragment, Emit, EndAccessUnit, Close,
                        streamVars
        <3>2. QED
            BY <1>1, <3>1
    <2>3. QED
        BY <2>1, <2>2
<1>4. QED
    BY <1>1, <1>2, <1>3

LEMMA InitOrder == StreamInit => NumbersInv /\ FilledInv /\ OrderInv
<1>1. FirstSeq % SeqModulus = FirstSeq
    BY PacketAssumption
<1>2. QED
    BY <1>1, PacketAssumption DEF StreamInit, NumbersInv, FilledInv, OrderInv

LEMMA OrderStep ==
    ASSUME StreamInv, StreamInv', NumbersInv, FilledInv, OrderInv, [StreamNext]_streamVars
    PROVE  NumbersInv' /\ FilledInv' /\ OrderInv'
<1>1. CASE UNCHANGED <<wire, seq>>
    BY <1>1 DEF NumbersInv, FilledInv, OrderInv
<1>2. ASSUME NEW e \in Packets, wire' = Append(wire, e), e.seq = seq,
             e.fu => e.data.from <= e.data.to, seq' = (seq + 1) % SeqModulus
      PROVE  NumbersInv' /\ FilledInv' /\ OrderInv'
    <2>1. wire \in Seq(Packets) /\ wire' \in Seq(Packets)
        BY <1>2 DEF StreamInv, StreamTypeOK
    <2> DEFINE L == Len(wire)
    <2>2. /\ L \in Nat /\ Len(wire') = L + 1 /\ wire'[L + 1] = e
          /\ \A i \in 1 .. L : wire'[i] = wire[i]
        BY <1>2, <2>1
    <2>3. /\ SeqModulus \in Nat \ {0} /\ FirstSeq \in Nat
        BY PacketAssumption
    <2> HIDE DEF L
    <2>4. NumbersInv'
        <3> DEFINE a == FirstSeq + L
        <3>1. a \in Nat /\ seq = a % SeqModulus
            BY <2>2, <2>3 DEF NumbersInv, L
        <3>2. seq' = (a + 1) % SeqModulus
            <4> HIDE DEF a
            <4>1. QED
                BY <1>2, <2>3, <3>1, Successor
        <3>3. a + 1 = FirstSeq + Len(wire') /\ a = FirstSeq + (L + 1) - 1
            BY <2>2, <2>3
        <3>4. ASSUME NEW i \in 1 .. Len(wire')
              PROVE  wire'[i].seq = (FirstSeq + i - 1) % SeqModulus
            <4>1. CASE i = L + 1
                BY <1>2, <2>2, <3>1, <3>3, <4>1
            <4>2. CASE i # L + 1
                <5>1. i \in 1 .. L
                    BY <2>2, <4>2
                <5>2. QED
                    BY <2>2, <5>1 DEF NumbersInv, L
            <4>3. QED
                BY <4>1, <4>2
        <3>5. QED
            BY <3>2, <3>3, <3>4 DEF NumbersInv
    <2>5. FilledInv'
        BY <1>2, <2>2 DEF FilledInv, L
    <2>6. ASSUME NEW i \in 1 .. L
          PROVE  /\ Before(wire[i].data, e.data)
                 /\ wire[i].marker => wire[i].data.picture < e.data.picture
        <3> DEFINE q == wire[L]
        <3>1. L \in 1 .. L /\ q \in Packets /\ wire[i] \in Packets
            BY <2>1, <2>2 DEF L
        <3>2. Follows(q, e)
            <4>1. L \in 1 .. Len(wire') - 1
                BY <2>2, <3>1
            <4>2. Follows(wire'[L], wire'[L + 1])
                BY <4>1 DEF StreamInv, ChainInv, Follows, SameUnit, NextUnit, NextPicture
            <4>3. QED
                BY <2>2, <3>1, <4>2
        <3>3. q.fu => q.data.from <= q.data.to
            BY <3>1 DEF FilledInv, L
        <3>4. i # L => /\ Before(wire[i].data, q.data)
                       /\ wire[i].marker => wire[i].data.picture < q.data.picture
            BY <2>2, <3>1 DEF OrderInv, L
        <3> HIDE DEF q
        <3>5. /\ Before(q.data, e.data) /\ q.data.picture <= e.data.picture
              /\ q.marker => q.data.picture < e.data.picture
            <4>1. /\ q.data.picture \in Nat /\ q.data.nal \in Nat /\ q.data.to \in Nat
                  /\ e.data.picture \in Nat /\ e.data.from \in Nat /\ e.data.to \in Nat
                BY <1>2, <3>1 DEF Packets
            <4>2. CASE SameUnit(q, e)
                BY <1>2, <4>1, <4>2 DEF SameUnit, Before
            <4>3. CASE NextUnit(q, e)
                BY <4>1, <4>3 DEF NextUnit, Before
            <4>4. CASE NextPicture(q, e)
                BY <4>1, <4>4 DEF NextPicture, Before
            <4>5. QED
                BY <3>2, <4>2, <4>3, <4>4 DEF Follows
        <3>6. CASE i = L
            BY <3>5, <3>6 DEF q
        <3>7. CASE i # L
            <4> DEFINE o == wire[i]
            <4>1. /\ o.data.picture \in Nat /\ o.data.nal \in Nat /\ o.data.to \in Nat
                  /\ q.data.picture \in Nat /\ q.data.nal \in Nat /\ q.data.to \in Nat
                  /\ e.data.picture \in Nat /\ e.data.nal \in Nat /\ e.data.to \in Nat
                BY <1>2, <3>1 DEF Packets
            <4> HIDE DEF o
            <4>2. Before(o.data, q.data) /\ (o.marker => o.data.picture < q.data.picture)
                BY <3>4, <3>7 DEF o
            <4>3. Before(o.data, e.data) /\ (o.marker => o.data.picture < e.data.picture)
                BY <3>5, <4>1, <4>2 DEF Before
            <4>4. QED
                BY <4>3 DEF o
        <3>8. QED
            BY <3>6, <3>7
    <2>7. ASSUME NEW i \in 1 .. Len(wire'), NEW j \in 1 .. Len(wire'), i < j
          PROVE  /\ Before(wire'[i].data, wire'[j].data)
                 /\ wire'[i].marker => wire'[i].data.picture < wire'[j].data.picture
        <3>1. i \in 1 .. L
            BY <2>2, <2>7
        <3>2. CASE j = L + 1
            BY <2>2, <2>6, <3>1, <3>2
        <3>3. CASE j # L + 1
            <4>1. j \in 1 .. L
                BY <2>2, <3>3
            <4>2. QED
                BY <2>2, <2>7, <3>1, <4>1 DEF OrderInv, L
        <3>4. QED
            BY <3>2, <3>3
    <2>8. OrderInv'
        BY <2>7 DEF OrderInv, Before
    <2>9. QED
        BY <2>4, <2>5, <2>8
<1>3. QED
    BY <1>1, <1>2, WireStep

-----------------------------------------------------------------------------
(* The receiver's window: the packets it keeps lie in the Delay positions  *)
(* before it, so that a number tells a position.                           *)
Fragments == [picture : Nat, nal : Nat, from : Nat, to : Nat]
Units     == [type : Types \cup {"none"}, parts : Seq(Fragments)]

ReceiverTypeOK ==
    /\ buffer \subseteq Packets /\ begun \in BOOLEAN /\ expected \in Nat
    /\ position \in Nat /\ missed \subseteq Nat
    /\ whole \in BOOLEAN /\ units \in Seq(Units) /\ open \in Units
    /\ clock \in Int /\ shown \in Seq(Seq(Units))

WindowInv ==
    /\ position <= Len(wire) /\ Len(wire) <= position + Delay
    /\ \A p \in buffer : \E i \in position + 1 .. Len(wire) : p = wire[i]
    /\ begun => expected = (FirstSeq + position) % SeqModulus
    /\ missed \subseteq 1 .. position
    /\ ~begun => missed = 1 .. position /\ ~whole /\ shown = <<>>

(* Everything the receiver's steps rely on.                                *)
WireInv == StreamInv /\ NumbersInv /\ FilledInv /\ OrderInv

LEMMA WireTypes ==
    ASSUME StreamInv
    PROVE  /\ wire \in Seq(Packets) /\ Len(wire) \in Nat
           /\ SeqModulus \in Nat \ {0} /\ FirstSeq \in Nat
           /\ Delay \in Nat \ {0} /\ 2 * Delay <= SeqModulus
           /\ SeqModulus \div 2 \in Nat /\ 2 * (SeqModulus \div 2) <= SeqModulus
<1>1. SeqModulus \in Nat \ {0} /\ FirstSeq \in Nat /\ Delay \in Nat \ {0} /\ 2 * Delay <= SeqModulus
    BY PacketAssumption, DelayAssumption
<1>2. SeqModulus \div 2 \in Nat /\ 2 * (SeqModulus \div 2) <= SeqModulus
    BY <1>1
<1>3. QED
    BY <1>1, <1>2 DEF StreamInv, StreamTypeOK

(* A late or repeated packet is not ahead.                                 *)
LEMMA ArrivesAhead ==
    ASSUME WireInv, ReceiverTypeOK, WindowInv, begun,
           NEW i \in UnderWay, Ahead(wire[i].seq, expected)
    PROVE  i \in position + 1 .. Len(wire)
<1>1. /\ SeqModulus \in Nat \ {0} /\ FirstSeq \in Nat
      /\ Delay \in Nat \ {0} /\ 2 * Delay <= SeqModulus
      /\ SeqModulus \div 2 \in Nat /\ 2 * (SeqModulus \div 2) <= SeqModulus
      /\ Len(wire) \in Nat /\ position \in Nat
    BY WireTypes DEF WireInv, ReceiverTypeOK
<1>2. /\ i \in 1 .. Len(wire) /\ i + Delay > Len(wire)
      /\ position <= Len(wire) /\ Len(wire) <= position + Delay
    BY DEF UnderWay, WindowInv
<1> DEFINE a == FirstSeq + i - 1
           b == FirstSeq + position
<1>3. wire[i].seq = a % SeqModulus /\ expected = b % SeqModulus
    BY <1>2 DEF WireInv, NumbersInv, WindowInv
<1>4. a \in Nat /\ b \in Nat /\ a - b < SeqModulus /\ b - a <= SeqModulus
    BY <1>1, <1>2
<1>5. (a < b => a - b + SeqModulus >= SeqModulus \div 2)
    BY <1>1, <1>2
<1>6. ~(a >= b) => i <= position
    BY <1>1, <1>2
<1>7. a >= b => i > position
    BY <1>1, <1>2
<1> HIDE DEF a, b
<1>8. ((a % SeqModulus) - (b % SeqModulus)) % SeqModulus
          = IF a >= b THEN a - b ELSE a - b + SeqModulus
    BY <1>1, <1>4, Apart
<1>9. (IF a >= b THEN a - b ELSE a - b + SeqModulus) < SeqModulus \div 2
    BY <1>3, <1>8 DEF Ahead
<1>10. a >= b
    BY <1>1, <1>4, <1>5, <1>9
<1>11. QED
    BY <1>1, <1>2, <1>7, <1>10

(* The oldest packet by its number is the oldest by its position.          *)
LEMMA BeginsAtOldest ==
    ASSUME WireInv, ReceiverTypeOK, WindowInv,
           NEW i \in 1 .. Len(wire), wire[i] \in buffer,
           \A p \in buffer : Ahead(p.seq, wire[i].seq)
    PROVE  /\ i > position
           /\ \A p \in buffer : \E j \in i .. Len(wire) : p = wire[j]
<1>1. /\ SeqModulus \in Nat \ {0} /\ FirstSeq \in Nat
      /\ Delay \in Nat \ {0} /\ 2 * Delay <= SeqModulus
      /\ SeqModulus \div 2 \in Nat /\ 2 * (SeqModulus \div 2) <= SeqModulus
      /\ wire \in Seq(Packets) /\ Len(wire) \in Nat /\ position \in Nat
    BY WireTypes DEF WireInv, ReceiverTypeOK
<1>2. position <= Len(wire) /\ Len(wire) <= position + Delay
    BY DEF WindowInv
<1>3. i > position
    <2>1. PICK j \in position + 1 .. Len(wire) : wire[i] = wire[j]
        BY DEF WindowInv
    <2>2. wire[i] \in Packets /\ j \in 1 .. Len(wire)
        BY <1>1
    <2>3. ~Before(wire[i].data, wire[i].data)
        BY <2>2 DEF Before, Packets
    <2>4. ~(i < j) /\ ~(j < i)
        BY <2>1, <2>2, <2>3 DEF WireInv, OrderInv
    <2>5. QED
        BY <1>1, <2>1, <2>2, <2>4
<1>4. ASSUME NEW p \in buffer PROVE \E j \in i .. Len(wire) : p = wire[j]
    <2>1. PICK j \in position + 1 .. Len(wire) : p = wire[j]
        BY DEF WindowInv
    <2>2. j \in 1 .. Len(wire)
        BY <1>1
    <2> DEFINE a == FirstSeq + j - 1
               b == FirstSeq + i - 1
    <2>3. p.seq = a % SeqModulus /\ wire[i].seq = b % SeqModulus
        BY <2>1, <2>2 DEF WireInv, NumbersInv
    <2>4. a \in Nat /\ b \in Nat /\ a - b < SeqModulus /\ b - a <= SeqModulus
        BY <1>1, <1>2, <1>3, <2>2
    <2>5. a < b => a - b + SeqModulus >= SeqModulus \div 2
        BY <1>1, <1>2, <1>3, <2>2
    <2>6. a >= b => j >= i
        BY <1>1, <2>2
    <2> HIDE DEF a, b
    <2>7. ((a % SeqModulus) - (b % SeqModulus)) % SeqModulus
              = IF a >= b THEN a - b ELSE a - b + SeqModulus
        BY <1>1, <2>4, Apart
    <2>8. (IF a >= b THEN a - b ELSE a - b + SeqModulus) < SeqModulus \div 2
        BY <2>3, <2>7 DEF Ahead
    <2>9. a >= b
        BY <1>1, <2>4, <2>5, <2>8
    <2>10. QED
        BY <1>1, <2>1, <2>2, <2>6, <2>9
<1>5. QED
    BY <1>3, <1>4

(* The packet with the number it needs is the next one on the wire.        *)
LEMMA UsesNext ==
    ASSUME WireInv, ReceiverTypeOK, WindowInv, begun,
           NEW p \in buffer, p.seq = expected
    PROVE  /\ position + 1 \in 1 .. Len(wire) /\ p = wire[position + 1]
           /\ \A q \in buffer \ {p} : \E j \in position + 2 .. Len(wire) : q = wire[j]
<1>1. /\ SeqModulus \in Nat \ {0} /\ FirstSeq \in Nat
      /\ Delay \in Nat \ {0} /\ 2 * Delay <= SeqModulus
      /\ Len(wire) \in Nat /\ position \in Nat
    BY WireTypes DEF WireInv, ReceiverTypeOK
<1>2. position <= Len(wire) /\ Len(wire) <= position + Delay
    BY DEF WindowInv
<1>3. PICK j \in position + 1 .. Len(wire) : p = wire[j]
    BY DEF WindowInv
<1>4. j \in 1 .. Len(wire)
    BY <1>1
<1> DEFINE a == FirstSeq + j - 1
           b == FirstSeq + position
<1>5. p.seq = a % SeqModulus /\ p.seq = b % SeqModulus
    BY <1>3, <1>4 DEF WireInv, NumbersInv, WindowInv
<1>6. a \in Nat /\ b \in Nat /\ a - b < SeqModulus /\ b - a <= SeqModulus /\ a >= b
    BY <1>1, <1>2, <1>4
<1>7. a = b => j = position + 1
    BY <1>1, <1>4
<1> HIDE DEF a, b
<1>8. ((a % SeqModulus) - (b % SeqModulus)) % SeqModulus = a - b
    BY <1>1, <1>6, Apart
<1>9. (a % SeqModulus) - (b % SeqModulus) = 0
    <2>1. a % SeqModulus \in Nat
        BY <1>1, <1>6
    <2>2. QED
        BY <1>5, <2>1
<1>10. j = position + 1
    BY <1>1, <1>6, <1>7, <1>8, <1>9
<1>11. ASSUME NEW q \in buffer \ {p} PROVE \E k \in position + 2 .. Len(wire) : q = wire[k]
    <2>1. PICK k \in position + 1 .. Len(wire) : q = wire[k]
        BY DEF WindowInv
    <2>2. k # position + 1
        BY <1>3, <1>10, <2>1
    <2>3. QED
        BY <1>1, <2>1, <2>2
<1>12. QED
    BY <1>1, <1>3, <1>4, <1>10, <1>11

-----------------------------------------------------------------------------
(* What the receiver has put together, and which pictures that costs.      *)

(* Nothing that picture n needs is missing.                                *)
Clean(n) ==
    /\ PacketsOf(n) \cap missed = {}
    /\ \/ pictures[n][1].type = "sps"
       \/ PacketsOf(n - 1) # {} /\ \A i \in PacketsOf(n - 1) \cap missed : ~wire[i].marker

WholeInv ==
    /\ position = 0 => ~whole
    /\ position > 0 =>
        LET p == wire[position]
        IN  whole <=> IF p.marker THEN position \notin missed ELSE Clean(p.data.picture)

(* Fragments of unit k of picture n, from its beginning and without a gap. *)
Continues(parts, n, k) ==
    /\ parts # <<>> /\ parts[1].from = 1
    /\ \A i \in 1 .. Len(parts) : parts[i].picture = n /\ parts[i].nal = k
    /\ \A i \in 1 .. Len(parts) - 1 : parts[i + 1].from = parts[i].to + 1

(* A unit as far as packet p brings it.                                    *)
Partial(unit, p) ==
    /\ unit.type = p.type
    /\ Continues(unit.parts, p.data.picture, p.data.nal)
    /\ unit.parts[Len(unit.parts)].to = p.data.to

Complete(unit, n, k) == Spells(unit, n, k) /\ unit.parts # <<>>

AssemblyInv ==
    /\ ~whole => Empty
    /\ whole =>
        LET p == wire[position]
        IN  /\ clock = p.timestamp
            /\ p.marker => Empty
            /\ ~p.marker =>
                /\ \A k \in 1 .. Len(units) : Complete(units[k], p.data.picture, k)
                /\ p.end => open = NoUnit /\ Len(units) = p.data.nal
                /\ ~p.end => Len(units) = p.data.nal - 1 /\ Partial(open, p)

(* A whole picture that is behind the receiver and lacks nothing.          *)
Shows(picture) ==
    LET n == NumberOf(picture)
    IN  /\ Passed(n) /\ Clean(n)
        /\ Len(picture) = Len(pictures[n])
        /\ \A k \in 1 .. Len(picture) : Spells(picture[k], n, k)

ShownInv ==
    /\ \A i \in 1 .. Len(shown) : Shows(shown[i])
    /\ \A i, j \in 1 .. Len(shown) :
        i < j => NumberOf(shown[i]) < NumberOf(shown[j])
    /\ \A n \in 1 .. Len(pictures) :
        Passed(n) /\ Clean(n) => \E i \in 1 .. Len(shown) : NumberOf(shown[i]) = n

IInv ==
    /\ WireInv /\ ReceiverTypeOK /\ WindowInv
    /\ WholeInv /\ AssemblyInv /\ ShownInv

-----------------------------------------------------------------------------
(* A packet of the wire, and the one before it.                            *)
LEMMA PacketAt ==
    ASSUME WireInv, NEW i \in 1 .. Len(wire)
    PROVE  /\ wire[i] \in Packets /\ wire[i].data \in Fragments
           /\ wire[i].data.picture \in 1 .. Len(pictures)
           /\ pictures[wire[i].data.picture] \in Seq(NalUnits)
           /\ wire[i].data.nal \in 1 .. Len(pictures[wire[i].data.picture])
           /\ Bounded(wire[i])
<1>1. Sound(wire[i]) /\ wire \in Seq(Packets) /\ pictures \in Seq(Seq(NalUnits))
    BY DEF WireInv, StreamInv, StreamTypeOK, PacketInv
<1>2. wire[i] \in Packets
    BY <1>1
<1>3. wire[i].data \in Fragments
    BY <1>2 DEF Packets, Fragments
<1>4. /\ wire[i].data.picture \in 1 .. Len(pictures) /\ Bounded(wire[i])
      /\ wire[i].data.nal \in 1 .. Len(pictures[wire[i].data.picture])
    BY <1>1 DEF Sound
<1>5. QED
    BY <1>1, <1>2, <1>3, <1>4

LEMMA PacketBehind ==
    ASSUME WireInv, NEW i \in 1 .. Len(wire), NEW j \in 1 .. Len(wire), j = i + 1
    PROVE  Follows(wire[i], wire[j])
<1>1. i \in 1 .. Len(wire) - 1
    BY WireTypes DEF WireInv
<1>2. QED
    BY <1>1 DEF WireInv, StreamInv, ChainInv

(* Only the first unit of a picture can be a sequence parameter set.       *)
LEMMA OpensAt ==
    ASSUME WireInv, NEW i \in 1 .. Len(wire)
    PROVE  Opens(wire[i]) <=> /\ wire[i].start /\ wire[i].data.nal = 1
                              /\ pictures[wire[i].data.picture][1].type = "sps"
<1> DEFINE d == wire[i].data
<1>1. /\ d.picture \in 1 .. Len(pictures) /\ d.nal \in 1 .. Len(pictures[d.picture])
      /\ wire[i].type = pictures[d.picture][d.nal].type
    BY PacketAt DEF Bounded
<1>2. pictures[d.picture] \in Seq(NalUnits)
    BY PacketAt
<1>3. d.nal # 1 => d.nal \in 2 .. Len(pictures[d.picture])
    BY <1>1, <1>2
<1>4. d.nal # 1 => pictures[d.picture][d.nal].type # "sps"
    BY <1>1, <1>3 DEF WireInv, StreamInv, PicturesInv
<1>5. QED
    BY <1>1, <1>4 DEF Opens

LEMMA FirstPacket ==
    ASSUME WireInv, 1 \in 1 .. Len(wire)
    PROVE  wire[1].data.picture = 1 /\ wire[1].data.nal = 1 /\ Opens(wire[1])
<1>1. wire # <<>>
    BY WireTypes DEF WireInv
<1>2. QED
    BY <1>1 DEF WireInv, StreamInv, FirstInv, Opens

(* Behind a marker is nothing more of its picture.                         *)
LEMMA PassedBefore ==
    ASSUME WireInv, NEW m, Passed(m), position \in Nat,
           NEW i \in 1 .. Len(wire), i > position
    PROVE  m \in 1 .. Len(pictures) /\ m < wire[i].data.picture
<1>1. PICK k \in PacketsOf(m) : wire[k].marker /\ k <= position
    BY DEF Passed
<1>2. k \in 1 .. Len(wire) /\ wire[k].data.picture = m
    BY <1>1 DEF PacketsOf
<1>3. k < i
    BY <1>1, <1>2
<1>4. QED
    BY <1>1, <1>2, <1>3, PacketAt DEF WireInv, OrderInv

-----------------------------------------------------------------------------
(* The next packet begins or goes on with a picture from which nothing is  *)
(* missing, or with one that is lost.                                      *)
LEMMA StartsClean ==
    ASSUME WireInv, ReceiverTypeOK, WindowInv, WholeInv,
           NEW p, position + 1 \in 1 .. Len(wire), p = wire[position + 1]
    PROVE  whole \/ Opens(p) <=> Clean(p.data.picture)
<1> DEFINE n == p.data.picture
           t == position
           q == wire[t]
<1>1. /\ p \in Packets /\ n \in 1 .. Len(pictures) /\ p.data.nal \in Nat
      /\ Opens(p) <=> p.start /\ p.data.nal = 1 /\ pictures[n][1].type = "sps"
    BY PacketAt, OpensAt DEF Fragments
<1>2. t \in Nat /\ Len(wire) \in Nat /\ missed \subseteq 1 .. t
    BY WireTypes DEF ReceiverTypeOK, WindowInv, WireInv
<1>3. CASE t = 0
    <2>1. ~whole /\ Opens(p) /\ n = 1
        BY <1>3, FirstPacket DEF WholeInv
    <2>2. missed = {}
        BY <1>2, <1>3
    <2>3. QED
        BY <1>1, <2>1, <2>2 DEF Clean
<1>4. CASE t > 0
    <2>1. t \in 1 .. Len(wire)
        BY <1>2, <1>4
    <2>2. Follows(q, p)
        BY <2>1, PacketBehind
    <2>3. q.data.picture \in Nat /\ q.data.nal \in 1 .. Len(pictures[q.data.picture])
          /\ pictures[q.data.picture] \in Seq(NalUnits)
        BY <2>1, PacketAt DEF Fragments
    <2>4. whole <=> IF q.marker THEN t \notin missed ELSE Clean(q.data.picture)
        BY <1>4 DEF WholeInv
    <2>5. CASE SameUnit(q, p) \/ NextUnit(q, p)
        <3>1. q.data.picture = n /\ ~q.marker
            BY <2>5 DEF SameUnit, NextUnit
        <3>2. ~Opens(p)
            <4>1. CASE SameUnit(q, p)
                BY <1>1, <4>1 DEF SameUnit
            <4>2. CASE NextUnit(q, p)
                BY <1>1, <2>3, <4>2 DEF NextUnit
            <4>3. QED
                BY <2>5, <4>1, <4>2
        <3>3. QED
            BY <2>4, <3>1, <3>2
    <2>6. CASE NextPicture(q, p)
        <3>1. /\ n = q.data.picture + 1 /\ q.marker /\ p.start /\ p.data.nal = 1
              /\ whole <=> t \notin missed
            BY <2>4, <2>6 DEF NextPicture
        <3>2. n - 1 = q.data.picture
            BY <2>3, <3>1
        <3>3. t \in PacketsOf(n - 1)
            BY <2>1, <3>2 DEF PacketsOf
        <3>4. PacketsOf(n) \cap missed = {}
            <4> SUFFICES ASSUME NEW i \in PacketsOf(n), i \in missed PROVE FALSE
                OBVIOUS
            <4>1. i \in 1 .. Len(wire) /\ i <= t /\ wire[i].data.picture = n
                BY <1>2 DEF PacketsOf
            <4>2. i = t \/ i < t
                BY <1>2, <4>1
            <4>3. i # t
                BY <2>3, <3>1, <4>1
            <4>4. wire[i].data.picture <= q.data.picture
                <5>1. Before(wire[i].data, q.data)
                    BY <2>1, <4>1, <4>2, <4>3 DEF WireInv, OrderInv
                <5>2. wire[i].data.picture \in Nat
                    BY <4>1, PacketAt DEF Fragments
                <5>3. QED
                    BY <2>3, <5>1, <5>2 DEF Before
            <4>5. QED
                BY <2>3, <3>1, <4>1, <4>4
        <3>5. ASSUME NEW i \in PacketsOf(n - 1), wire[i].marker PROVE i = t
            <4>1. i \in 1 .. Len(wire) /\ wire[i].data.picture = q.data.picture
                BY <3>2 DEF PacketsOf
            <4>2. ~(i < t) /\ ~(t < i)
                BY <2>1, <2>3, <3>1, <3>5, <4>1 DEF WireInv, OrderInv
            <4>3. QED
                BY <1>2, <4>1, <4>2
        <3>6. (\A i \in PacketsOf(n - 1) \cap missed : ~wire[i].marker) <=> t \notin missed
            BY <3>1, <3>3, <3>5
        <3>7. Clean(n) <=> (pictures[n][1].type = "sps" \/ t \notin missed)
            BY <3>3, <3>4, <3>6 DEF Clean
        <3>8. QED
            BY <1>1, <3>1, <3>7
    <2>7. QED
        BY <2>2, <2>5, <2>6 DEF Follows
<1>5. QED
    BY <1>2, <1>3, <1>4

(* A picture without a gap goes on with whatever comes next on the wire.   *)
LEMMA FitsWhole ==
    ASSUME WireInv, ReceiverTypeOK, WholeInv, AssemblyInv,
           NEW p, position + 1 \in 1 .. Len(wire), p = wire[position + 1]
    PROVE  Fits(p) <=> whole
<1> DEFINE q == wire[position]
<1> SUFFICES ASSUME whole PROVE Fits(p)
    BY DEF Fits
<1>1. position \in 1 .. Len(wire)
    BY WireTypes DEF ReceiverTypeOK, WholeInv, WireInv
<1>2. Follows(q, p)
    BY <1>1, PacketBehind
<1>3. /\ q \in Packets /\ q.data.nal \in Nat /\ q.data.nal >= 1 /\ p \in Packets
      /\ q.type \in Types
    BY <1>1, PacketAt DEF Packets, Fragments
<1>4. /\ clock = q.timestamp /\ (q.marker => Empty)
      /\ ~q.marker =>
            /\ q.end => open = NoUnit /\ Len(units) = q.data.nal
            /\ ~q.end => Partial(open, q)
    BY DEF AssemblyInv
<1> HIDE DEF q
<1>5. CASE SameUnit(q, p)
    <2>1. open.type = p.type /\ p.fu /\ ~p.start /\ p.timestamp = clock
        BY <1>4, <1>5 DEF SameUnit, Partial
    <2>2. open # NoUnit
        BY <1>3, <1>5, <2>1 DEF SameUnit, NoUnit, Types
    <2>3. QED
        BY <2>1, <2>2 DEF Fits, Empty
<1>6. CASE NextUnit(q, p)
    <2>1. open = NoUnit /\ p.start /\ p.timestamp = clock /\ Len(units) # 0
        BY <1>3, <1>4, <1>6 DEF NextUnit
    <2>2. units # <<>>
        BY <2>1
    <2>3. QED
        BY <2>1, <2>2 DEF Fits, Empty
<1>7. CASE NextPicture(q, p)
    BY <1>4, <1>7 DEF NextPicture, Fits, Empty
<1>8. QED
    BY <1>2, <1>5, <1>6, <1>7 DEF Follows

LEMMA Appended ==
    ASSUME NEW parts \in Seq(Fragments), NEW d \in Fragments, NEW n, NEW k,
           d.picture = n, d.nal = k,
           Continues(parts, n, k), d.from = parts[Len(parts)].to + 1
    PROVE  /\ parts \o <<d>> \in Seq(Fragments) /\ Continues(parts \o <<d>>, n, k)
           /\ (parts \o <<d>>)[Len(parts \o <<d>>)] = d
<1> DEFINE L == Len(parts)
           more == parts \o <<d>>
<1>1. /\ more \in Seq(Fragments) /\ Len(more) = L + 1 /\ more[L + 1] = d /\ L \in Nat
      /\ \A i \in 1 .. L : more[i] = parts[i]
    OBVIOUS
<1>2. L >= 1
    BY DEF Continues
<1> HIDE DEF L, more
<1>3. more[1].from = 1 /\ more # <<>>
    BY <1>1, <1>2 DEF Continues, L
<1>4. ASSUME NEW i \in 1 .. Len(more) PROVE more[i].picture = n /\ more[i].nal = k
    <2>1. CASE i = L + 1
        BY <1>1, <2>1
    <2>2. CASE i # L + 1
        <3>1. i \in 1 .. L
            BY <1>1, <2>2
        <3>2. QED
            BY <1>1, <3>1 DEF Continues, L
    <2>3. QED
        BY <2>1, <2>2
<1>5. ASSUME NEW i \in 1 .. Len(more) - 1 PROVE more[i + 1].from = more[i].to + 1
    <2>1. CASE i = L
        BY <1>1, <1>2, <2>1 DEF L
    <2>2. CASE i # L
        <3>1. i \in 1 .. L - 1 /\ i \in 1 .. L /\ i + 1 \in 1 .. L
            BY <1>1, <2>2
        <3>2. QED
            BY <1>1, <3>1 DEF Continues, L
    <2>3. QED
        BY <2>1, <2>2
<1>6. QED
    BY <1>1, <1>3, <1>4, <1>5 DEF Continues, more

(* The units before the packet's are complete, and its own is as far as    *)
(* the packet brings it.                                                   *)
LEMMA Joins ==
    ASSUME WireInv, ReceiverTypeOK, WholeInv, AssemblyInv,
           NEW p, position + 1 \in 1 .. Len(wire), p = wire[position + 1],
           whole \/ Opens(p)
    PROVE  /\ Len(units) = p.data.nal - 1
           /\ \A k \in 1 .. Len(units) : Complete(units[k], p.data.picture, k)
           /\ Joined(p) \in Units /\ Partial(Joined(p), p)
<1> DEFINE d == p.data
           q == wire[position]
<1>1. /\ p \in Packets /\ d \in Fragments /\ Bounded(p) /\ p.type \in Types
      /\ open \in Units /\ units \in Seq(Units)
    BY PacketAt DEF Packets, ReceiverTypeOK
<1>2. d.picture \in Nat /\ d.nal \in Nat /\ d.from \in Nat /\ d.to \in Nat
    BY <1>1 DEF Fragments
<1> HIDE DEF d
<1>3. p.start => Joined(p) \in Units /\ Partial(Joined(p), p)
    <2> SUFFICES ASSUME p.start PROVE Joined(p) \in Units /\ Partial(Joined(p), p)
        OBVIOUS
    <2>1. Joined(p) = [type |-> p.type, parts |-> <<d>>]
        BY DEF Joined, d
    <2>2. <<d>> \in Seq(Fragments) /\ <<d>> # <<>> /\ Len(<<d>>) = 1 /\ <<d>>[1] = d
        BY <1>1 DEF d
    <2>3. d.from = 1
        BY <1>1 DEF Bounded, d
    <2>4. Continues(<<d>>, d.picture, d.nal)
        BY <2>2, <2>3 DEF Continues
    <2>5. QED
        BY <1>1, <2>1, <2>2, <2>4 DEF Units, Partial, d
<1>4. CASE ~whole
    <2>1. p.start /\ p.data.nal = 1 /\ units = <<>>
        BY <1>4, OpensAt DEF AssemblyInv, Empty
    <2>2. QED
        BY <1>3, <2>1
<1>5. CASE whole
    <2>1. position \in 1 .. Len(wire)
        BY <1>5, WireTypes DEF ReceiverTypeOK, WholeInv, WireInv
    <2>2. Follows(q, p) /\ q.data.nal \in Nat
        BY <2>1, PacketBehind, PacketAt DEF Fragments
    <2>3. /\ q.marker => Empty
          /\ ~q.marker =>
                /\ \A k \in 1 .. Len(units) : Complete(units[k], q.data.picture, k)
                /\ q.end => open = NoUnit /\ Len(units) = q.data.nal
                /\ ~q.end => Len(units) = q.data.nal - 1 /\ Partial(open, q)
        BY <1>5 DEF AssemblyInv
    <2> HIDE DEF q
    <2>4. CASE SameUnit(q, p)
        <3>1. /\ ~q.marker /\ ~q.end /\ ~p.start /\ q.type = p.type
              /\ d.picture = q.data.picture /\ d.nal = q.data.nal
              /\ d.from = q.data.to + 1
            BY <2>4 DEF SameUnit, d
        <3>2. /\ open.parts \in Seq(Fragments) /\ open.type = p.type
              /\ Continues(open.parts, d.picture, d.nal)
              /\ open.parts[Len(open.parts)].to = q.data.to
            BY <1>1, <2>3, <3>1 DEF Units, Partial
        <3> DEFINE more == open.parts \o <<d>>
        <3>3. more \in Seq(Fragments) /\ Continues(more, d.picture, d.nal) /\ more[Len(more)] = d
            BY <1>1, <3>1, <3>2, Appended DEF d
        <3>4. Joined(p) = [type |-> p.type, parts |-> more]
            BY <3>1 DEF Joined, d
        <3> HIDE DEF more
        <3>5. Joined(p) \in Units /\ Partial(Joined(p), p)
            BY <1>1, <3>3, <3>4 DEF Units, Partial, d
        <3>6. QED
            BY <2>3, <3>1, <3>5 DEF d
    <2>5. CASE NextUnit(q, p)
        <3>1. /\ ~q.marker /\ q.end /\ p.start
              /\ d.picture = q.data.picture /\ d.nal = q.data.nal + 1
            BY <2>5 DEF NextUnit, d
        <3>2. QED
            BY <1>3, <2>2, <2>3, <3>1 DEF d
    <2>6. CASE NextPicture(q, p)
        <3>1. q.marker /\ p.start /\ d.nal = 1 /\ units = <<>>
            BY <2>3, <2>6 DEF NextPicture, Empty, d
        <3>2. QED
            BY <1>3, <3>1 DEF d
    <2>7. QED
        BY <2>2, <2>4, <2>5, <2>6 DEF Follows
<1>6. QED
    BY <1>4, <1>5

(* A unit that ends is the unit that was sent.                             *)
LEMMA EndsComplete ==
    ASSUME NEW p, NEW unit, p.end, Bounded(p), Partial(unit, p)
    PROVE  Complete(unit, p.data.picture, p.data.nal)
BY DEF Bounded, Partial, Continues, Complete, Spells

-----------------------------------------------------------------------------
LEMMA WireStays == ASSUME WireInv, UNCHANGED streamVars PROVE WireInv'
BY StreamStutter, OrderStep DEF WireInv

(* What has been said of packets and units stays true while nothing is     *)
(* sent.                                                                   *)
LEMMA SameWire ==
    ASSUME UNCHANGED streamVars
    PROVE  /\ UNCHANGED <<wire, pictures>>
           /\ \A m : PacketsOf(m)' = PacketsOf(m)
           /\ \A u, m, k : /\ Spells(u, m, k)' <=> Spells(u, m, k)
                           /\ Complete(u, m, k)' <=> Complete(u, m, k)
           /\ missed' = missed => \A m : Clean(m)' <=> Clean(m)
BY DEF streamVars, PacketsOf, Spells, Complete, Clean

(* The effect of a packet, told by whether the picture is still whole.     *)
LEMMA AssembleEffect ==
    ASSUME WireInv, ReceiverTypeOK, WholeInv, AssemblyInv,
           NEW p, position + 1 \in 1 .. Len(wire), p = wire[position + 1],
           Assemble(p)
    PROVE  /\ clock' = p.timestamp
           /\ ~(whole \/ Opens(p)) => Restart(p.marker) /\ UNCHANGED shown
           /\ whole \/ Opens(p) =>
                 \/ /\ ~p.end /\ open' = Joined(p) /\ units' = units
                    /\ whole' = TRUE /\ UNCHANGED shown
                 \/ /\ p.end /\ ~p.marker
                    /\ open' = NoUnit /\ units' = Append(units, Joined(p))
                    /\ whole' = TRUE /\ UNCHANGED shown
                 \/ /\ p.end /\ p.marker /\ Restart(TRUE)
                    /\ shown' = Append(shown, Append(units, Joined(p)))
<1>1. Fits(p) <=> whole
    BY FitsWhole
<1>2. (IF Opens(p) /\ ~Fits(p) THEN <<>> ELSE units) = units
    BY <1>1 DEF AssemblyInv, Empty
<1>3. QED
    BY <1>1, <1>2 DEF Assemble

LEMMA UseWindow ==
    ASSUME IInv, Use
    PROVE  /\ position + 1 \in 1 .. Len(wire) /\ position' = position + 1
           /\ Assemble(wire[position + 1]) /\ buffer' \subseteq buffer
           /\ expected' \in Nat /\ WindowInv'
<1>1. PICK p \in buffer : p.seq = expected /\ buffer' = buffer \ {p} /\ Assemble(p)
    BY DEF Use
<1>2. /\ begun /\ expected' = (expected + 1) % SeqModulus /\ position' = position + 1
      /\ UNCHANGED <<streamVars, begun, missed>>
    BY DEF Use
<1>3. /\ position + 1 \in 1 .. Len(wire) /\ p = wire[position + 1]
      /\ \A q \in buffer \ {p} : \E j \in position + 2 .. Len(wire) : q = wire[j]
    BY <1>1, <1>2, UsesNext DEF IInv
<1>4. /\ SeqModulus \in Nat \ {0} /\ FirstSeq \in Nat /\ Delay \in Nat
      /\ Len(wire) \in Nat /\ position \in Nat /\ expected \in Nat
    BY WireTypes DEF IInv, WireInv, ReceiverTypeOK
<1>5. expected' = (FirstSeq + position') % SeqModulus /\ expected' \in Nat
    <2> DEFINE a == FirstSeq + position
    <2>1. a \in Nat /\ expected = a % SeqModulus /\ FirstSeq + position' = a + 1
        BY <1>2, <1>4 DEF IInv, WindowInv
    <2> HIDE DEF a
    <2>2. expected' = (a + 1) % SeqModulus
        BY <1>2, <1>4, <2>1, Successor
    <2>3. QED
        BY <1>4, <2>1, <2>2
<1>6. wire' = wire
    BY <1>2 DEF streamVars
<1>7. WindowInv'
    <2>1. position' <= Len(wire') /\ Len(wire') <= position' + Delay
        BY <1>2, <1>3, <1>4, <1>6 DEF IInv, WindowInv
    <2>2. \A q \in buffer' : \E j \in position' + 1 .. Len(wire') : q = wire'[j]
        BY <1>1, <1>2, <1>3, <1>4, <1>6
    <2>3. missed' \subseteq 1 .. position'
        BY <1>2, <1>4 DEF IInv, WindowInv
    <2>4. QED
        BY <1>2, <1>5, <2>1, <2>2, <2>3 DEF WindowInv
<1>8. QED
    BY <1>1, <1>2, <1>3, <1>5, <1>7

LEMMA UseTypes == ASSUME IInv, Use PROVE ReceiverTypeOK'
<1> DEFINE p == wire[position + 1]
<1>1. /\ position + 1 \in 1 .. Len(wire) /\ position' = position + 1
      /\ Assemble(p) /\ buffer' \subseteq buffer /\ expected' \in Nat
    BY UseWindow
<1>2. UNCHANGED <<begun, missed>>
    BY DEF Use
<1>3. p \in Packets /\ p.timestamp \in Int /\ p.marker \in BOOLEAN
    BY <1>1, PacketAt, PacketAssumption DEF IInv, Packets
<1> HIDE DEF p
<1>4. NoUnit \in Units /\ <<>> \in Seq(Units)
    BY DEF NoUnit, Units
<1>5. whole \/ Opens(p) => Joined(p) \in Units
    BY <1>1, Joins DEF IInv, p
<1>6. /\ clock' \in Int /\ whole' \in BOOLEAN /\ units' \in Seq(Units) /\ open' \in Units
      /\ shown' \in Seq(Seq(Units))
    <2>1. clock' = p.timestamp
        BY <1>1, AssembleEffect DEF IInv, p
    <2>2. CASE ~(whole \/ Opens(p))
        <3>1. Restart(p.marker) /\ UNCHANGED shown
            BY <1>1, <2>2, AssembleEffect DEF IInv, p
        <3>2. QED
            BY <1>3, <1>4, <2>1, <3>1 DEF Restart, IInv, ReceiverTypeOK
    <2>3. CASE whole \/ Opens(p)
        <3>1. \/ /\ open' = Joined(p) /\ units' = units /\ whole' = TRUE /\ UNCHANGED shown
              \/ /\ open' = NoUnit /\ units' = Append(units, Joined(p))
                 /\ whole' = TRUE /\ UNCHANGED shown
              \/ Restart(TRUE) /\ shown' = Append(shown, Append(units, Joined(p)))
            BY <1>1, <2>3, AssembleEffect DEF IInv, p
        <3>2. Joined(p) \in Units /\ units \in Seq(Units) /\ shown \in Seq(Seq(Units))
              /\ open \in Units
            BY <1>5, <2>3 DEF IInv, ReceiverTypeOK
        <3>3. Append(units, Joined(p)) \in Seq(Units)
            BY <3>2
        <3>4. Append(shown, Append(units, Joined(p))) \in Seq(Seq(Units))
            BY <3>2, <3>3
        <3>5. CASE Restart(TRUE) /\ shown' = Append(shown, Append(units, Joined(p)))
            BY <1>3, <1>4, <2>1, <3>4, <3>5 DEF Restart
        <3>6. CASE whole' = TRUE /\ UNCHANGED shown
            BY <1>3, <1>4, <2>1, <3>1, <3>2, <3>3, <3>6 DEF Restart
        <3>7. QED
            BY <3>1, <3>5, <3>6
    <2>4. QED
        BY <2>2, <2>3
<1>7. QED
    BY <1>1, <1>2, <1>6 DEF IInv, ReceiverTypeOK

LEMMA UseWhole == ASSUME IInv, Use PROVE WholeInv'
<1>1. PICK p : p = wire[position + 1]
    OBVIOUS
<1>2. /\ position + 1 \in 1 .. Len(wire) /\ position' = position + 1 /\ Assemble(p)
    BY <1>1, UseWindow
<1>3. UNCHANGED <<streamVars, missed>> /\ position \in Nat
    BY DEF Use, IInv, ReceiverTypeOK
<1>4. whole \/ Opens(p) <=> Clean(p.data.picture)
    BY <1>1, <1>2, StartsClean DEF IInv
<1>5. wire'[position'] = p /\ position' > 0
    BY <1>1, <1>2, <1>3 DEF streamVars
<1>6. ~p.marker => (whole' <=> Clean(p.data.picture))
    BY <1>1, <1>2, <1>4, AssembleEffect DEF IInv, Restart
<1>7. p.marker => whole' /\ position' \notin missed'
    <2>1. position' \notin missed'
        BY <1>2, <1>3 DEF IInv, WindowInv
    <2>2. p.marker => p.end
        BY <1>1, <1>2, PacketAt DEF IInv, Bounded
    <2>3. p.marker => whole'
        BY <1>1, <1>2, <2>2, AssembleEffect DEF IInv, Restart
    <2>4. QED
        BY <2>1, <2>3
<1>8. Clean(p.data.picture)' <=> Clean(p.data.picture)
    BY <1>3, SameWire
<1>9. QED
    BY <1>1, <1>3, <1>5, <1>6, <1>7, <1>8 DEF WholeInv, Clean, PacketsOf

LEMMA UseAssembly == ASSUME IInv, Use PROVE AssemblyInv'
<1>1. PICK p : p = wire[position + 1]
    OBVIOUS
<1> DEFINE n == p.data.picture
<1>2. /\ position + 1 \in 1 .. Len(wire) /\ position' = position + 1 /\ Assemble(p)
    BY <1>1, UseWindow
<1>3. UNCHANGED <<streamVars, missed>> /\ wire'[position'] = p
    BY <1>1, <1>2 DEF Use, streamVars
<1>4. clock' = p.timestamp
    BY <1>1, <1>2, AssembleEffect DEF IInv
<1>5. Bounded(p) /\ (p.marker => p.end)
    BY <1>1, <1>2, PacketAt DEF IInv, Bounded
<1>6. \A u, m, k : Complete(u, m, k)' <=> Complete(u, m, k)
    BY <1>3, SameWire
<1>7. CASE ~(whole \/ Opens(p))
    <2>1. Restart(p.marker)
        BY <1>1, <1>2, <1>7, AssembleEffect DEF IInv
    <2>2. Empty' /\ (whole' <=> p.marker)
        BY <2>1 DEF Restart, Empty
    <2>3. QED
        BY <1>3, <1>4, <2>2 DEF AssemblyInv
<1>8. CASE whole \/ Opens(p)
    <2>1. /\ Len(units) = p.data.nal - 1 /\ Partial(Joined(p), p) /\ Joined(p) \in Units
          /\ \A k \in 1 .. Len(units) : Complete(units[k], n, k)
        BY <1>1, <1>2, <1>8, Joins DEF IInv
    <2>2. CASE ~p.end /\ open' = Joined(p) /\ units' = units /\ whole' = TRUE
        <3>1. \A k \in 1 .. Len(units') : Complete(units[k], n, k)'
            BY <1>3, <2>1, <2>2 DEF Complete, Spells, streamVars
        <3>2. Partial(open, p)'
            BY <2>1, <2>2 DEF Partial, Continues
        <3>3. QED
            BY <1>3, <1>4, <1>5, <2>1, <2>2, <3>1, <3>2 DEF AssemblyInv, Partial, Complete, Spells
    <2>3. CASE /\ p.end /\ ~p.marker /\ open' = NoUnit /\ units' = Append(units, Joined(p))
               /\ whole' = TRUE
        <3>1. units \in Seq(Units) /\ p.data.nal \in Nat
            BY <1>1, <1>2, PacketAt DEF IInv, ReceiverTypeOK, Fragments
        <3>2. /\ Len(units') = p.data.nal /\ units'[p.data.nal] = Joined(p)
              /\ \A k \in 1 .. p.data.nal - 1 : units'[k] = units[k]
            BY <2>1, <2>3, <3>1
        <3>3. Complete(Joined(p), n, p.data.nal)
            BY <1>5, <2>1, <2>3, EndsComplete
        <3>4. ASSUME NEW k \in 1 .. p.data.nal PROVE Complete(units'[k], n, k)
            BY <2>1, <3>1, <3>2, <3>3
        <3>5. ASSUME NEW k \in 1 .. Len(units') PROVE Complete(units[k], n, k)'
            <4>1. Complete(units'[k], n, k)
                BY <3>2, <3>4
            <4>2. QED
                BY <1>3, <4>1 DEF Complete, Spells, streamVars
        <3>6. QED
            BY <1>3, <1>4, <2>3, <3>2, <3>5 DEF AssemblyInv, Complete, Spells
    <2>4. CASE p.end /\ p.marker /\ Restart(TRUE)
        BY <1>3, <1>4, <2>4 DEF Restart, AssemblyInv, Empty
    <2>5. QED
        BY <1>1, <1>2, <1>8, <2>2, <2>3, <2>4, AssembleEffect DEF IInv
<1>9. QED
    BY <1>7, <1>8

(* A marker shows the picture it ends if nothing of it is missing.         *)
LEMMA UseShown == ASSUME IInv, Use PROVE ShownInv'
<1>1. PICK p : p = wire[position + 1]
    OBVIOUS
<1> DEFINE n == p.data.picture
           t == position + 1
<1>2. /\ t \in 1 .. Len(wire) /\ position' = t /\ Assemble(p) /\ position \in Nat
      /\ Len(wire) \in Nat
    BY <1>1, UseWindow, WireTypes DEF IInv, ReceiverTypeOK, WireInv
<1>3. UNCHANGED <<streamVars, missed>> /\ UNCHANGED <<wire, pictures>>
    BY DEF Use, streamVars
<1>4. whole \/ Opens(p) <=> Clean(n)
    BY <1>1, <1>2, StartsClean DEF IInv
<1>5. /\ \A m : Clean(m)' <=> Clean(m)
      /\ \A m : PacketsOf(m)' = PacketsOf(m)
      /\ \A u, m, k : Spells(u, m, k)' <=> Spells(u, m, k)
    BY <1>3, SameWire
<1>6. /\ p.data.nal \in Nat /\ n \in 1 .. Len(pictures)
      /\ p.marker <=> p.end /\ p.data.nal = Len(pictures[n])
      /\ pictures[n] \in Seq(NalUnits) /\ p.data.nal \in 1 .. Len(pictures[n])
      /\ Bounded(p)
    BY <1>1, <1>2, PacketAt DEF IInv, Bounded, Fragments
<1>7. ASSUME NEW m, Passed(m) PROVE Passed(m)'
    <2>1. PICK k \in PacketsOf(m) : wire[k].marker /\ k <= position
        BY <1>7 DEF Passed
    <2>2. k \in PacketsOf(m)' /\ wire'[k].marker /\ k \in Nat
        BY <1>2, <1>3, <1>5, <2>1 DEF PacketsOf
    <2>3. k <= position'
        BY <1>2, <2>1, <2>2
    <2>4. QED
        BY <2>2, <2>3 DEF Passed
<1>8. p.marker => Passed(n)'
    BY <1>1, <1>2, <1>3, <1>5 DEF Passed, PacketsOf
<1>9. ASSUME NEW m, Passed(m)' PROVE Passed(m) \/ (p.marker /\ m = n)
    <2>1. PICK k \in PacketsOf(m) : wire[k].marker /\ k <= t
        BY <1>2, <1>3, <1>5, <1>9 DEF Passed
    <2>2. k \in 1 .. Len(wire) /\ wire[k].data.picture = m
        BY <2>1 DEF PacketsOf
    <2>3. CASE k = t
        BY <1>1, <2>1, <2>2, <2>3
    <2>4. CASE k # t
        BY <1>2, <2>1, <2>2, <2>4 DEF Passed
    <2>5. QED
        BY <2>3, <2>4
<1>10. ASSUME NEW picture, Shows(picture) PROVE Shows(picture)'
    BY <1>3, <1>5, <1>7, <1>10 DEF Shows
<1>11. CASE p.marker /\ Clean(n)
    <2> DEFINE L == Len(shown)
    <2>0. PICK e : e = Append(units, Joined(p))
        OBVIOUS
    <2>1. shown' = Append(shown, e)
        BY <1>1, <1>2, <1>4, <1>6, <1>11, <2>0, AssembleEffect DEF IInv
    <2>2. /\ Len(units) = p.data.nal - 1 /\ Partial(Joined(p), p) /\ Joined(p) \in Units
          /\ \A k \in 1 .. Len(units) : Complete(units[k], n, k)
          /\ units \in Seq(Units) /\ shown \in Seq(Seq(Units))
        BY <1>1, <1>2, <1>4, <1>11, Joins DEF IInv, ReceiverTypeOK
    <2>3. /\ e \in Seq(Units) /\ Len(e) = p.data.nal /\ e[p.data.nal] = Joined(p)
          /\ \A k \in 1 .. p.data.nal - 1 : e[k] = units[k]
        <3>1. /\ p.data.nal \in Nat /\ Len(units) = p.data.nal - 1
              /\ units \in Seq(Units) /\ Joined(p) \in Units
            BY <1>6, <2>2
        <3>2. PICK u \in Units : u = Joined(p)
            BY <3>1
        <3>3. e = Append(units, u)
            BY <2>0, <3>2
        <3>4. QED
            BY <3>1, <3>2, <3>3
    <2>4. Complete(Joined(p), n, p.data.nal)
        BY <1>6, <1>11, <2>2, EndsComplete
    <2>5. \A k \in 1 .. p.data.nal : Complete(e[k], n, k)
        BY <1>6, <2>2, <2>3, <2>4
    <2>6. NumberOf(e) = n
        <3>1. Complete(e[1], n, 1) /\ e[1] \in Units
            BY <1>6, <2>3, <2>5
        <3>2. e[1].parts \in Seq(Fragments) /\ e[1].parts # <<>>
            BY <3>1 DEF Units, Complete
        <3>3. 1 \in 1 .. Len(e[1].parts)
            BY <3>2
        <3>4. QED
            BY <3>1, <3>3 DEF NumberOf, Complete, Spells
    <2>7. Shows(e)'
        <3>1. PICK m : m = n
            OBVIOUS
        <3>2. Passed(m)' /\ Clean(m)'
            BY <1>5, <1>8, <1>11, <3>1 DEF Passed, PacketsOf
        <3>3. Len(e) = Len(pictures'[m])
            BY <1>3, <1>6, <1>11, <2>3, <3>1
        <3>4. \A k \in 1 .. Len(e) : Spells(e[k], m, k)'
            BY <1>5, <2>3, <2>5, <3>1 DEF Complete
        <3>5. NumberOf(e) = m
            BY <2>6, <3>1
        <3>6. QED
            BY <3>2, <3>3, <3>4, <3>5 DEF Shows
    <2>8. /\ Len(shown') = L + 1 /\ shown'[L + 1] = e /\ L \in Nat
          /\ \A i \in 1 .. L : shown'[i] = shown[i]
        BY <2>1, <2>2, <2>3
    <2>9. \A i \in 1 .. L : Shows(shown[i]) /\ NumberOf(shown[i]) < n
        <3> SUFFICES ASSUME NEW i \in 1 .. L PROVE Shows(shown[i]) /\ NumberOf(shown[i]) < n
            OBVIOUS
        <3>1. Shows(shown[i])
            BY DEF IInv, ShownInv
        <3>2. Passed(NumberOf(shown[i]))
            BY <3>1 DEF Shows
        <3>3. t > position
            BY <1>2
        <3>4. QED
            BY <1>1, <1>2, <3>1, <3>2, <3>3, PassedBefore DEF IInv
    <2> HIDE DEF L
    <2>10. ASSUME NEW i \in 1 .. Len(shown') PROVE Shows(shown[i])'
        <3>1. PICK x : x = shown'[i]
            OBVIOUS
        <3>2. Shows(x)'
            <4>1. CASE i = L + 1
                BY <2>7, <2>8, <3>1, <4>1
            <4>2. CASE i # L + 1
                <5>1. i \in 1 .. L
                    BY <2>8, <4>2
                <5>2. Shows(x)
                    BY <2>8, <2>9, <3>1, <5>1
                <5>3. QED
                    BY <1>10, <5>2
            <4>3. QED
                BY <4>1, <4>2
        <3>3. QED
            BY <3>1, <3>2 DEF Shows
    <2>11. ASSUME NEW i \in 1 .. Len(shown'), NEW j \in 1 .. Len(shown'), i < j
           PROVE  NumberOf(shown'[i]) < NumberOf(shown'[j])
        <3>1. i \in 1 .. L
            BY <2>8, <2>11
        <3>2. CASE j = L + 1
            BY <2>6, <2>8, <2>9, <3>1, <3>2
        <3>3. CASE j # L + 1
            <4>1. j \in 1 .. L
                BY <2>8, <3>3
            <4>2. QED
                BY <2>8, <2>11, <3>1, <4>1 DEF IInv, ShownInv, L
        <3>4. QED
            BY <3>2, <3>3
    <2>12. ASSUME NEW m \in 1 .. Len(pictures), Passed(m)', Clean(m)'
           PROVE  \E i \in 1 .. Len(shown') : NumberOf(shown'[i]) = m
        <3>1. CASE m = n
            BY <2>6, <2>8, <3>1
        <3>2. CASE m # n
            <4>1. Passed(m) /\ Clean(m)
                BY <1>5, <1>9, <2>12, <3>2
            <4>2. PICK i \in 1 .. L : NumberOf(shown[i]) = m
                BY <4>1 DEF IInv, ShownInv, L
            <4>3. QED
                BY <2>8, <4>2
        <3>3. QED
            BY <3>1, <3>2
    <2>13. QED
        BY <1>3, <2>10, <2>11, <2>12 DEF ShownInv
<1>12. CASE ~(p.marker /\ Clean(n))
    <2>1. shown' = shown
        <3>1. CASE Clean(n)
            BY <1>1, <1>2, <1>4, <1>12, <3>1, AssembleEffect DEF IInv
        <3>2. CASE ~Clean(n)
            BY <1>1, <1>2, <1>4, <3>2, AssembleEffect DEF IInv
        <3>3. QED
            BY <3>1, <3>2
    <2>2. ASSUME NEW i \in 1 .. Len(shown) PROVE Shows(shown[i])'
        <3>1. PICK x : x = shown[i]
            OBVIOUS
        <3>2. Shows(x)'
            BY <1>10, <3>1 DEF IInv, ShownInv
        <3>3. QED
            BY <2>1, <3>1, <3>2 DEF Shows
    <2>3. ASSUME NEW m \in 1 .. Len(pictures), Passed(m)', Clean(m)' PROVE Passed(m) /\ Clean(m)
        BY <1>5, <1>9, <1>12, <2>3
    <2>4. QED
        BY <1>3, <2>1, <2>2, <2>3 DEF IInv, ShownInv
<1>13. QED
    BY <1>11, <1>12

LEMMA UseStep == ASSUME IInv, Use PROVE IInv'
<1>1. WireInv'
    BY WireStays DEF IInv, Use
<1>2. QED
    BY <1>1, UseWindow, UseTypes, UseWhole, UseAssembly, UseShown DEF IInv

-----------------------------------------------------------------------------
LEMMA AssemblyStays ==
    ASSUME WholeInv, AssemblyInv,
           UNCHANGED <<streamVars, position, missed, whole, units, open, clock>>
    PROVE  WholeInv' /\ AssemblyInv'
<1>1. PICK p : p = wire[position]
    OBVIOUS
<1>2. wire'[position'] = p /\ UNCHANGED <<position, missed, whole, units, open, clock>>
    BY <1>1 DEF streamVars
<1>3. PICK n : n = p.data.picture
    OBVIOUS
<1>4. WholeInv'
    <2>1. Clean(n)' <=> Clean(n)
        BY SameWire
    <2>2. position > 0 => (whole <=> IF p.marker THEN position \notin missed ELSE Clean(n))
        BY <1>1, <1>3 DEF WholeInv
    <2>3. position' > 0
              => (whole' <=> IF p.marker THEN position' \notin missed' ELSE Clean(n)')
        BY <1>2, <2>1, <2>2
    <2>4. QED
        BY <1>2, <1>3, <2>3 DEF WholeInv, Clean, PacketsOf
<1>5. AssemblyInv'
    <2>1. whole /\ ~p.marker => \A k \in 1 .. Len(units) : Complete(units[k], n, k)
        BY <1>1, <1>3 DEF AssemblyInv
    <2>2. whole' /\ ~p.marker => \A k \in 1 .. Len(units') : Complete(units[k], n, k)'
        BY <1>2, <2>1 DEF Complete, Spells, streamVars
    <2>3. QED
        BY <1>1, <1>2, <1>3, <2>2 DEF AssemblyInv, Empty, Complete, Spells
<1>6. QED
    BY <1>4, <1>5

LEMMA ShownStays ==
    ASSUME ShownInv, UNCHANGED <<streamVars, position, missed, shown>>
    PROVE  ShownInv'
<1>1. /\ UNCHANGED <<wire, pictures>>
      /\ \A m : Clean(m)' <=> Clean(m)
      /\ \A m : PacketsOf(m)' = PacketsOf(m)
      /\ \A u, m, k : Spells(u, m, k)' <=> Spells(u, m, k)
    BY SameWire
<1>2. \A m : Passed(m)' <=> Passed(m)
    BY <1>1 DEF Passed
<1>3. ASSUME NEW i \in 1 .. Len(shown) PROVE Shows(shown[i])'
    <2>1. PICK x : x = shown[i]
        OBVIOUS
    <2>2. Shows(x)
        BY <2>1 DEF ShownInv
    <2>3. Shows(x)'
        BY <1>1, <1>2, <2>2 DEF Shows
    <2>4. QED
        BY <2>1, <2>3 DEF Shows
<1>4. QED
    BY <1>1, <1>2, <1>3 DEF ShownInv

(* What comes is ahead of the receiver, so nothing behind it changes.      *)
LEMMA ArriveStep == ASSUME IInv, Arrive PROVE IInv'
<1>1. PICK i \in UnderWay :
          /\ ~begun => i > position
          /\ ~begun \/ Ahead(wire[i].seq, expected)
          /\ buffer' = buffer \cup {wire[i]}
    BY DEF Arrive
<1>2. UNCHANGED <<streamVars, begun, expected, position, missed, assembly>>
    BY DEF Arrive
<1>3. UNCHANGED <<wire, pictures>> /\ position \in Nat /\ Len(wire) \in Nat
    BY <1>2, WireTypes DEF streamVars, IInv, WireInv, ReceiverTypeOK
<1>4. i \in position + 1 .. Len(wire) /\ i \in 1 .. Len(wire)
    <2>1. i \in 1 .. Len(wire)
        BY DEF UnderWay
    <2>2. CASE begun
        BY <1>1, <1>3, <2>1, <2>2, ArrivesAhead DEF IInv
    <2>3. CASE ~begun
        BY <1>1, <1>3, <2>1, <2>3
    <2>4. QED
        BY <2>1, <2>2, <2>3
<1>5. wire[i] \in Packets
    BY <1>4, PacketAt DEF IInv
<1>6. ReceiverTypeOK'
    BY <1>1, <1>2, <1>5 DEF IInv, ReceiverTypeOK, assembly
<1>7. WindowInv'
    <2>1. \A p \in buffer' : \E j \in position' + 1 .. Len(wire') : p = wire'[j]
        BY <1>1, <1>2, <1>3, <1>4 DEF IInv, WindowInv
    <2>2. QED
        BY <1>2, <1>3, <2>1 DEF IInv, WindowInv, assembly
<1>8. WireInv'
    BY <1>2, WireStays DEF IInv
<1>9. WholeInv' /\ AssemblyInv'
    BY <1>2, AssemblyStays DEF IInv, assembly
<1>10. ShownInv'
    BY <1>2, ShownStays DEF IInv, assembly
<1>11. QED
    BY <1>6, <1>7, <1>8, <1>9, <1>10 DEF IInv

(* It begins behind packets that are all missed, so that no picture of     *)
(* theirs can be shown.                                                    *)
LEMMA BeginStep == ASSUME IInv, Begin PROVE IInv'
<1>1. PICK i \in 1 .. Len(wire) :
          /\ wire[i] \in buffer
          /\ \A p \in buffer : Ahead(p.seq, wire[i].seq)
          /\ expected' = wire[i].seq
          /\ position' = i - 1 /\ missed' = 1 .. i - 1
    BY DEF Begin
<1>2. ~begun /\ begun' = TRUE /\ UNCHANGED <<streamVars, buffer, assembly>>
    BY DEF Begin
<1>3. /\ UNCHANGED <<wire, pictures>> /\ position \in Nat /\ Len(wire) \in Nat
      /\ FirstSeq \in Nat
    BY <1>2, WireTypes DEF streamVars, IInv, WireInv, ReceiverTypeOK
<1>4. i > position /\ \A p \in buffer : \E j \in i .. Len(wire) : p = wire[j]
    BY <1>1, BeginsAtOldest DEF IInv
<1>5. ~whole /\ shown = <<>> /\ UNCHANGED <<whole, units, open, clock, shown>>
    BY <1>2 DEF IInv, WindowInv, assembly
<1>6. wire[i] \in Packets /\ wire[i].seq \in Nat
    BY <1>1, PacketAt, PacketAssumption DEF IInv, Packets
<1>7. ReceiverTypeOK'
    BY <1>1, <1>2, <1>3, <1>5, <1>6 DEF IInv, ReceiverTypeOK
<1>8. WindowInv'
    <2>1. wire[i].seq = (FirstSeq + i - 1) % SeqModulus
        BY <1>1 DEF IInv, WireInv, NumbersInv
    <2>2. FirstSeq + i - 1 = FirstSeq + position'
        BY <1>1, <1>3
    <2>3. expected' = (FirstSeq + position') % SeqModulus
        BY <1>1, <2>1, <2>2
    <2>4. position' <= Len(wire') /\ Len(wire') <= position' + Delay
        BY <1>1, <1>3, <1>4, DelayAssumption DEF IInv, WindowInv
    <2>5. \A p \in buffer' : \E j \in position' + 1 .. Len(wire') : p = wire'[j]
        BY <1>1, <1>2, <1>3, <1>4
    <2>6. QED
        BY <1>1, <1>2, <2>3, <2>4, <2>5 DEF WindowInv
<1>9. WireInv'
    BY <1>2, WireStays DEF IInv
<1>10. \A m : PacketsOf(m)' = PacketsOf(m)
    BY <1>2, SameWire
<1>11. WholeInv'
    <2>1. PICK q : q = wire[i - 1]
        OBVIOUS
    <2>2. CASE i - 1 > 0
        <3>1. i - 1 \in PacketsOf(q.data.picture)
            BY <1>3, <2>1, <2>2 DEF PacketsOf
        <3>2. i - 1 \in missed'
            BY <1>1, <2>2
        <3>3. ~Clean(q.data.picture)'
            BY <1>10, <3>1, <3>2 DEF Clean
        <3>4. QED
            BY <1>1, <1>3, <1>5, <2>1, <2>2, <3>2, <3>3 DEF WholeInv, Clean, PacketsOf
    <2>3. CASE ~(i - 1 > 0)
        BY <1>1, <1>3, <1>5, <2>3 DEF WholeInv
    <2>4. QED
        BY <2>2, <2>3
<1>12. AssemblyInv'
    BY <1>5 DEF IInv, AssemblyInv, Empty
<1>13. ShownInv'
    <2>1. ASSUME NEW m, Passed(m)' PROVE ~Clean(m)'
        <3>1. PICK k \in PacketsOf(m) : k <= i - 1
            BY <1>1, <1>3, <1>10, <2>1 DEF Passed
        <3>2. k \in missed'
            BY <1>1, <1>3, <3>1 DEF PacketsOf
        <3>3. QED
            BY <1>10, <3>1, <3>2 DEF Clean
    <2>2. Len(shown') = 0
        BY <1>5
    <2>3. QED
        BY <2>1, <2>2 DEF ShownInv
<1>14. QED
    BY <1>7, <1>8, <1>9, <1>11, <1>12, <1>13 DEF IInv

(* A packet given up takes its picture along; the pictures before it have  *)
(* been shown or not, and stay so.                                         *)
LEMMA GiveUpStep == ASSUME IInv, GiveUp PROVE IInv'
<1> DEFINE t == position + 1
<1>1. PICK p : p = wire[t]
    OBVIOUS
<1> DEFINE n == p.data.picture
<1>2. /\ position' = t /\ missed' = missed \cup {t} /\ whole' = FALSE
      /\ units' = <<>> /\ open' = NoUnit
      /\ UNCHANGED <<streamVars, buffer, begun, clock, shown>>
      /\ position < Len(wire)
    BY DEF GiveUp, Restart
<1>3. /\ UNCHANGED <<wire, pictures>> /\ position \in Nat /\ Len(wire) \in Nat
      /\ FirstSeq \in Nat /\ SeqModulus \in Nat \ {0} /\ t \in 1 .. Len(wire) /\ t > position
    BY <1>2, WireTypes DEF streamVars, IInv, WireInv, ReceiverTypeOK
<1>4. \/ /\ begun /\ \A q \in buffer : q.seq # expected
         /\ expected' = (expected + 1) % SeqModulus
      \/ ~begun /\ buffer = {} /\ UNCHANGED expected
    BY DEF GiveUp
<1>5. expected' \in Nat /\ (begun => expected' = (FirstSeq + position') % SeqModulus)
    <2>1. CASE begun
        <3> DEFINE a == FirstSeq + position
        <3>1. a \in Nat /\ expected = a % SeqModulus /\ FirstSeq + position' = a + 1
            BY <1>2, <1>3, <2>1 DEF IInv, WindowInv
        <3> HIDE DEF a
        <3>2. expected' = (a + 1) % SeqModulus
            BY <1>3, <1>4, <2>1, <3>1, Successor
        <3>3. QED
            BY <1>3, <3>1, <3>2
    <2>2. CASE ~begun
        BY <1>4, <2>2 DEF IInv, ReceiverTypeOK
    <2>3. QED
        BY <2>1, <2>2
<1>6. ReceiverTypeOK'
    <2>1. NoUnit \in Units /\ <<>> \in Seq(Units)
        BY DEF NoUnit, Units
    <2>2. position' \in Nat /\ missed' \subseteq Nat /\ shown' \in Seq(Seq(Units))
        BY <1>2, <1>3 DEF IInv, ReceiverTypeOK
    <2>3. buffer' \subseteq Packets /\ begun' \in BOOLEAN /\ clock' \in Int
        BY <1>2 DEF IInv, ReceiverTypeOK
    <2>4. whole' \in BOOLEAN /\ units' \in Seq(Units) /\ open' \in Units
        BY <1>2, <2>1
    <2>5. QED
        BY <1>5, <2>2, <2>3, <2>4 DEF ReceiverTypeOK
<1>7. WindowInv'
    <2>1. ASSUME NEW q \in buffer PROVE \E j \in t + 1 .. Len(wire) : q = wire[j]
        <3>1. PICK j \in t .. Len(wire) : q = wire[j]
            BY DEF IInv, WindowInv
        <3>2. j # t
            <4>1. begun /\ q.seq # expected
                BY <1>4
            <4>2. expected = (FirstSeq + position) % SeqModulus
                BY <4>1 DEF IInv, WindowInv
            <4>3. wire[t].seq = (FirstSeq + t - 1) % SeqModulus
                BY <1>3 DEF IInv, WireInv, NumbersInv
            <4>4. FirstSeq + t - 1 = FirstSeq + position
                BY <1>3
            <4>5. QED
                BY <3>1, <4>1, <4>2, <4>3, <4>4
        <3>3. QED
            BY <1>3, <3>1, <3>2
    <2>2. \A q \in buffer' : \E j \in position' + 1 .. Len(wire') : q = wire'[j]
        BY <1>2, <1>3, <2>1
    <2>3. position' <= Len(wire') /\ Len(wire') <= position' + Delay
        BY <1>2, <1>3, DelayAssumption DEF IInv, WindowInv
    <2>4. missed' \subseteq 1 .. position'
        BY <1>2, <1>3 DEF IInv, WindowInv
    <2>5. ~begun => missed' = 1 .. position'
        BY <1>2, <1>3 DEF IInv, WindowInv
    <2>6. ~begun => shown' = <<>>
        BY <1>2 DEF IInv, WindowInv
    <2>7. QED
        BY <1>2, <1>5, <2>2, <2>3, <2>4, <2>5, <2>6 DEF WindowInv
<1>8. WireInv'
    BY <1>2, WireStays DEF IInv
<1>9. /\ \A m : PacketsOf(m)' = PacketsOf(m)
      /\ \A u, m, k : Spells(u, m, k)' <=> Spells(u, m, k)
    BY <1>2, SameWire
<1>10. t \in PacketsOf(n)
    BY <1>1, <1>3 DEF PacketsOf
<1>11. ~Clean(n)'
    BY <1>2, <1>9, <1>10 DEF Clean
<1>12. WholeInv'
    BY <1>1, <1>2, <1>3, <1>11 DEF WholeInv, Clean, PacketsOf
<1>13. AssemblyInv'
    BY <1>2 DEF AssemblyInv, Empty
<1>14. ASSUME NEW m, Passed(m)', Clean(m)' PROVE Passed(m) /\ Clean(m)
    <2>1. PICK k \in PacketsOf(m) : wire[k].marker /\ k <= t
        BY <1>2, <1>3, <1>9, <1>14 DEF Passed
    <2>2. k \in 1 .. Len(wire) /\ wire[k].data.picture = m
        BY <2>1 DEF PacketsOf
    <2>3. k # t
        BY <1>1, <1>11, <1>14, <2>2 DEF Clean, PacketsOf
    <2>4. k <= position
        BY <1>3, <2>1, <2>2, <2>3
    <2>5. Passed(m)
        BY <2>1, <2>4 DEF Passed
    <2>6. Clean(m)
        BY <1>2, <1>3, <1>9, <1>14 DEF Clean
    <2>7. QED
        BY <2>5, <2>6
<1>15. ASSUME NEW x, Shows(x) PROVE Shows(x)'
    <2>1. PICK m : m = NumberOf(x)
        OBVIOUS
    <2>2. Passed(m) /\ Clean(m)
        BY <1>15, <2>1 DEF Shows
    <2>3. m \in 1 .. Len(pictures) /\ m < n
        BY <1>1, <1>3, <2>2, PassedBefore DEF IInv
    <2>4. n \in Nat /\ n # m /\ n # m - 1
        BY <1>1, <1>3, <2>3, PacketAt DEF IInv, Fragments
    <2>5. t \notin PacketsOf(m) /\ t \notin PacketsOf(m - 1)
        BY <1>1, <2>4 DEF PacketsOf
    <2>6. Clean(m)'
        <3>1. PacketsOf(m)' \cap missed' = {}
            BY <1>2, <1>9, <2>2, <2>5 DEF Clean
        <3>2. PacketsOf(m - 1)' \cap missed' = PacketsOf(m - 1) \cap missed
            BY <1>2, <1>9, <2>5
        <3>3. QED
            BY <1>3, <1>9, <2>2, <3>1, <3>2 DEF Clean
    <2>7. Passed(m)'
        <3>1. PICK k \in PacketsOf(m) : wire[k].marker /\ k <= position
            BY <2>2 DEF Passed
        <3>2. k \in PacketsOf(m)' /\ wire'[k].marker /\ k \in Nat
            BY <1>3, <1>9, <3>1 DEF PacketsOf
        <3>3. k <= position'
            BY <1>2, <1>3, <3>1, <3>2
        <3>4. QED
            BY <3>2, <3>3 DEF Passed
    <2>8. /\ Len(x) = Len(pictures'[m])
          /\ \A k \in 1 .. Len(x) : Spells(x[k], m, k)'
        BY <1>3, <1>9, <1>15, <2>1 DEF Shows
    <2>9. QED
        BY <2>1, <2>6, <2>7, <2>8 DEF Shows
<1>16. ShownInv'
    <2>1. ASSUME NEW j \in 1 .. Len(shown) PROVE Shows(shown[j])'
        <3>1. PICK x : x = shown[j]
            OBVIOUS
        <3>2. Shows(x)'
            BY <1>15, <3>1 DEF IInv, ShownInv
        <3>3. QED
            BY <1>2, <3>1, <3>2 DEF Shows
    <2>2. QED
        BY <1>2, <1>3, <1>14, <2>1 DEF IInv, ShownInv
<1>17. QED
    BY <1>6, <1>7, <1>8, <1>12, <1>13, <1>16 DEF IInv

-----------------------------------------------------------------------------
(* What is sent lies ahead of the receiver: nothing behind it changes.     *)
LEMMA SenderStep == ASSUME IInv, Send PROVE IInv'
<1>1. /\ StreamNext /\ Len(wire') <= position + Delay
      /\ UNCHANGED <<receiver, assembly>>
    BY DEF Send
<1>2. WireInv'
    BY <1>1, StreamStep, OrderStep DEF IInv, WireInv
<1> DEFINE L == Len(wire)
<1>3. /\ L \in Nat /\ Len(wire') \in {L, L + 1}
      /\ \A i \in 1 .. L : wire'[i] = wire[i]
      /\ Len(pictures') \in Nat /\ Len(pictures') >= Len(pictures)
      /\ \A n \in 1 .. Len(pictures) : pictures'[n] = pictures[n]
    BY <1>1, Grows DEF IInv, WireInv
<1>4. /\ UNCHANGED <<buffer, begun, expected, position, missed>>
      /\ UNCHANGED <<whole, units, open, clock, shown>>
    BY <1>1 DEF receiver, assembly
<1>5. position \in Nat /\ position <= L /\ missed \subseteq 1 .. position
    BY DEF IInv, ReceiverTypeOK, WindowInv
<1> HIDE DEF L
<1>6. ReceiverTypeOK'
    BY <1>4 DEF IInv, ReceiverTypeOK
<1>7. WindowInv'
    <2>1. ASSUME NEW q \in buffer PROVE \E j \in position + 1 .. Len(wire') : q = wire'[j]
        <3>1. PICK j \in position + 1 .. L : q = wire[j]
            BY DEF IInv, WindowInv, L
        <3>2. j \in 1 .. L /\ j \in position + 1 .. Len(wire')
            BY <1>3, <1>5
        <3>3. QED
            BY <1>3, <3>1, <3>2
    <2>2. position <= Len(wire')
        BY <1>3, <1>5
    <2>3. QED
        BY <1>1, <1>4, <2>1, <2>2 DEF IInv, WindowInv
<1>8. \A m : PacketsOf(m)' \cap missed' = PacketsOf(m) \cap missed
    BY <1>3, <1>4, <1>5 DEF PacketsOf, L
<1>9. \A m : PacketsOf(m) \subseteq PacketsOf(m)'
    BY <1>3 DEF PacketsOf, L
<1>10. ASSUME NEW m PROVE Passed(m)' <=> Passed(m)
    <2>1. ASSUME NEW k \in 1 .. L
          PROVE  /\ k \in PacketsOf(m)' <=> k \in PacketsOf(m)
                 /\ wire'[k].marker <=> wire[k].marker
        BY <1>3, <2>1 DEF PacketsOf, L
    <2>2. ASSUME Passed(m) PROVE Passed(m)'
        <3>1. PICK k \in PacketsOf(m) : wire[k].marker /\ k <= position
            BY <2>2 DEF Passed
        <3>2. k \in 1 .. L
            BY <3>1 DEF PacketsOf, L
        <3>3. QED
            BY <1>4, <2>1, <3>1, <3>2 DEF Passed
    <2>3. ASSUME Passed(m)' PROVE Passed(m)
        <3>1. PICK k \in PacketsOf(m)' : wire'[k].marker /\ k <= position
            BY <1>4, <2>3 DEF Passed
        <3>2. k \in 1 .. Len(wire')
            BY <3>1 DEF PacketsOf
        <3>3. k \in 1 .. L
            BY <1>3, <1>5, <3>1, <3>2
        <3>4. QED
            BY <2>1, <3>1, <3>3 DEF Passed
    <2>4. QED
        BY <2>2, <2>3
<1>11. ASSUME NEW i \in 1 .. L
       PROVE  /\ wire[i].data.picture \in 1 .. Len(pictures)
              /\ pictures'[wire[i].data.picture] = pictures[wire[i].data.picture]
    BY <1>3, PacketAt DEF IInv, L
<1>12. ASSUME NEW i \in 1 .. L, NEW m, m = wire[i].data.picture
       PROVE  Clean(m)' <=> Clean(m)
    <2>1. m \in Nat /\ pictures'[m] = pictures[m]
        BY <1>11, <1>12, PacketAt DEF IInv, Fragments, L
    <2>2. ASSUME NEW j \in PacketsOf(m - 1)' PROVE j \in PacketsOf(m - 1)
        <3>1. j \in 1 .. Len(wire') /\ wire'[j].data.picture = m - 1
            BY DEF PacketsOf
        <3>2. j \in 1 .. L
            <4> SUFFICES ASSUME j \notin 1 .. L PROVE FALSE
                OBVIOUS
            <4>1. i < j /\ i \in 1 .. Len(wire')
                BY <1>3, <3>1
            <4>2. Before(wire'[i].data, wire'[j].data)
                BY <1>2, <3>1, <4>1 DEF WireInv, OrderInv, Before
            <4>3. wire'[i].data.picture = m
                BY <1>3, <1>12
            <4>4. QED
                BY <2>1, <3>1, <4>2, <4>3 DEF Before
        <3>3. QED
            BY <1>3, <3>1, <3>2 DEF PacketsOf, L
    <2>3. PacketsOf(m - 1)' = PacketsOf(m - 1)
        BY <1>9, <2>2
    <2>4. (\A j \in PacketsOf(m - 1)' \cap missed' : ~wire'[j].marker)
              <=> \A j \in PacketsOf(m - 1) \cap missed : ~wire[j].marker
        BY <1>3, <1>8 DEF PacketsOf, L
    <2>5. QED
        BY <1>8, <2>1, <2>3, <2>4 DEF Clean
<1>13. WholeInv'
    <2>1. CASE position = 0
        BY <1>4, <1>5, <2>1 DEF IInv, WholeInv
    <2>2. CASE position > 0
        <3>1. position \in 1 .. L /\ wire'[position] = wire[position]
            BY <1>3, <1>5, <2>2
        <3>2. PICK p : p = wire[position]
            OBVIOUS
        <3>3. whole <=> IF p.marker THEN position \notin missed ELSE Clean(p.data.picture)
            BY <2>2, <3>2 DEF IInv, WholeInv
        <3>4. PICK m : m = p.data.picture
            OBVIOUS
        <3>5. Clean(m)' <=> Clean(m)
            BY <1>12, <3>1, <3>2, <3>4
        <3>6. whole' <=> IF p.marker THEN position' \notin missed' ELSE Clean(m)'
            BY <1>4, <3>3, <3>4, <3>5
        <3>7. wire'[position'] = p
            BY <1>4, <3>1, <3>2
        <3>8. QED
            BY <1>4, <2>2, <3>4, <3>6, <3>7 DEF WholeInv, Clean, PacketsOf
    <2>3. QED
        BY <1>5, <2>1, <2>2
<1>14. AssemblyInv'
    <2>1. CASE ~whole
        BY <1>4, <2>1 DEF IInv, AssemblyInv, Empty
    <2>2. CASE whole
        <3>1. position \in 1 .. L /\ wire'[position'] = wire[position]
            BY <1>3, <1>4, <1>5, <2>2 DEF IInv, WholeInv
        <3>2. PICK n : n = wire[position].data.picture
            OBVIOUS
        <3>3. pictures'[n] = pictures[n]
            BY <1>11, <3>1, <3>2
        <3>4. \A u, k : Complete(u, n, k)' <=> Complete(u, n, k)
            BY <3>3 DEF Complete, Spells
        <3>5. ~wire[position].marker => \A k \in 1 .. Len(units) : Complete(units[k], n, k)
            BY <2>2, <3>2 DEF IInv, AssemblyInv
        <3>6. ~wire[position].marker => \A k \in 1 .. Len(units') : Complete(units[k], n, k)'
            <4> SUFFICES ASSUME ~wire[position].marker, NEW k \in 1 .. Len(units')
                         PROVE  Complete(units[k], n, k)'
                OBVIOUS
            <4>1. PICK u : u = units[k]
                OBVIOUS
            <4>2. Complete(u, n, k)'
                BY <1>4, <3>4, <3>5, <4>1
            <4>3. QED
                BY <1>4, <4>1, <4>2 DEF Complete, Spells
        <3>7. QED
            <4>1. PICK p : p = wire[position]
                OBVIOUS
            <4>2. /\ clock = p.timestamp /\ (p.marker => Empty)
                  /\ ~p.marker =>
                        /\ p.end => open = NoUnit /\ Len(units) = p.data.nal
                        /\ ~p.end => Len(units) = p.data.nal - 1 /\ Partial(open, p)
                BY <2>2, <4>1 DEF IInv, AssemblyInv
            <4>3. /\ clock' = p.timestamp /\ (p.marker => Empty')
                  /\ ~p.marker =>
                        /\ p.end => open' = NoUnit /\ Len(units') = p.data.nal
                        /\ ~p.end => Len(units') = p.data.nal - 1 /\ Partial(open', p)
                BY <1>4, <4>2 DEF Empty
            <4>4. wire'[position'] = p /\ whole'
                BY <1>4, <2>2, <3>1, <4>1
            <4>5. QED
                BY <3>2, <3>6, <4>1, <4>3, <4>4 DEF AssemblyInv, Complete, Spells
    <2>3. QED
        BY <2>1, <2>2
<1>15. ASSUME NEW x, Shows(x) PROVE Shows(x)'
    <2>1. PICK m : m = NumberOf(x)
        OBVIOUS
    <2>2. Passed(m) /\ Clean(m)
        BY <1>15, <2>1 DEF Shows
    <2>3. PICK i \in 1 .. L : wire[i].data.picture = m
        BY <2>2 DEF Passed, PacketsOf, L
    <2>4. Passed(m)' /\ Clean(m)' /\ pictures'[m] = pictures[m]
        BY <1>10, <1>11, <1>12, <2>2, <2>3
    <2>5. Len(x) = Len(pictures'[m]) /\ \A k \in 1 .. Len(x) : Spells(x[k], m, k)'
        BY <1>15, <2>1, <2>4 DEF Shows, Spells
    <2>6. QED
        BY <2>1, <2>4, <2>5 DEF Shows
<1>16. ShownInv'
    <2>1. ASSUME NEW j \in 1 .. Len(shown) PROVE Shows(shown[j])'
        <3>1. PICK x : x = shown[j]
            OBVIOUS
        <3>2. Shows(x)'
            BY <1>15, <3>1 DEF IInv, ShownInv
        <3>3. QED
            BY <1>4, <3>1, <3>2 DEF Shows
    <2>2. ASSUME NEW n, Passed(n)', Clean(n)'
          PROVE  n \in 1 .. Len(pictures) /\ Passed(n) /\ Clean(n)
        <3>1. Passed(n)
            BY <1>10, <2>2
        <3>2. PICK i \in 1 .. L : wire[i].data.picture = n
            BY <3>1 DEF Passed, PacketsOf, L
        <3>3. QED
            BY <1>11, <1>12, <2>2, <3>1, <3>2
    <2>3. QED
        BY <1>4, <2>1, <2>2 DEF IInv, ShownInv
<1>17. QED
    BY <1>2, <1>6, <1>7, <1>13, <1>14, <1>16 DEF IInv

LEMMA IdleStep == ASSUME IInv, UNCHANGED vars PROVE IInv'
<1>1. UNCHANGED <<streamVars, receiver, assembly>>
    BY DEF vars
<1>2. WireInv'
    BY <1>1, WireStays DEF IInv
<1>3. /\ UNCHANGED <<wire, pictures>>
      /\ UNCHANGED <<buffer, begun, expected, position, missed>>
      /\ UNCHANGED <<whole, units, open, clock, shown>>
    BY <1>1 DEF streamVars, receiver, assembly
<1>4. ReceiverTypeOK' /\ WindowInv'
    BY <1>3 DEF IInv, ReceiverTypeOK, WindowInv
<1>5. WholeInv' /\ AssemblyInv'
    BY <1>1, <1>3, AssemblyStays DEF IInv
<1>6. ShownInv'
    BY <1>1, <1>3, ShownStays DEF IInv
<1>7. QED
    BY <1>2, <1>4, <1>5, <1>6 DEF IInv

-----------------------------------------------------------------------------
LEMMA Begins == Init => IInv
<1> SUFFICES ASSUME Init PROVE IInv
    OBVIOUS
<1>1. WireInv /\ wire = <<>> /\ Len(wire) = 0
    BY StreamInitInv, InitOrder DEF Init, StreamInit, WireInv
<1>2. NoUnit \in Units /\ <<>> \in Seq(Units) /\ <<>> \in Seq(Seq(Units))
    BY DEF NoUnit, Units
<1>3. ReceiverTypeOK
    <2>1. /\ buffer \subseteq Packets /\ expected \in Nat /\ position \in Nat
          /\ missed \subseteq Nat /\ clock \in Int
        BY DEF Init
    <2>2. begun \in BOOLEAN /\ whole \in BOOLEAN
        BY DEF Init
    <2>3. units \in Seq(Units) /\ open \in Units /\ shown \in Seq(Seq(Units))
        BY <1>2 DEF Init
    <2>4. QED
        BY <2>1, <2>2, <2>3 DEF ReceiverTypeOK
<1>4. WindowInv
    BY <1>1, DelayAssumption DEF Init, WindowInv
<1>5. WholeInv /\ AssemblyInv
    BY DEF Init, WholeInv, AssemblyInv, Empty
<1>6. ShownInv
    BY <1>1 DEF Init, ShownInv, Passed, PacketsOf
<1>7. QED
    BY <1>1, <1>3, <1>4, <1>5, <1>6 DEF IInv

LEMMA ReceiverInvariant == Spec => []IInv
<1>1. ASSUME IInv, [Next]_vars PROVE IInv'
    BY <1>1, SenderStep, ArriveStep, BeginStep, UseStep, GiveUpStep, IdleStep DEF Next
<1>2. QED
    BY Begins, <1>1, PTL DEF Spec

(* The sender and the receiver keep their types, for every size of payload,*)
(* every modulus of the sequence numbers and every delay under half of it. *)
THEOREM ReceiverTypesHold == Spec => [](StreamTypeOK /\ ReceiverTypeOK)
<1>1. IInv => StreamTypeOK /\ ReceiverTypeOK
    BY DEF IInv, WireInv, StreamInv
<1>2. QED
    BY ReceiverInvariant, <1>1, PTL

(* However UDP loses, repeats and reorders the packets of send_access_unit,*)
(* a picture shown is one that was sent, with all its units and all their  *)
(* bytes, and none is shown twice or before an earlier one.                *)
THEOREM WholePicturesShown == Spec => []ShownWhole
<1>1. ASSUME IInv PROVE ShownWhole
    <2>1. \A i \in 1 .. Len(shown) : Shows(shown[i])
        BY <1>1 DEF IInv, ShownInv
    <2>2. Len(shown) \in Nat
        BY <1>1 DEF IInv, ReceiverTypeOK
    <2>3. \A i \in 1 .. Len(shown) - 1 : NumberOf(shown[i]) < NumberOf(shown[i + 1])
        BY <1>1, <2>2 DEF IInv, ShownInv
    <2>4. QED
        BY <2>1, <2>3 DEF ShownWhole, Shows
<1>2. QED
    BY ReceiverInvariant, <1>1, PTL

(* A packet that does not come costs its own picture, and the next one if  *)
(* it was the packet with the marker and the next picture does not open    *)
(* with a sequence parameter set; every other picture behind the receiver  *)
(* is shown.                                                               *)
THEOREM LossStaysContained == Spec => []LossContained
<1>1. ASSUME IInv PROVE LossContained
    <2>1. ASSUME NEW n PROVE Unharmed(n) <=> Passed(n) /\ Clean(n)
        BY DEF Unharmed, Clean
    <2>2. ASSUME NEW n, Passed(n) PROVE n \in 1 .. Len(pictures)
        BY <1>1, <2>2, PacketAt DEF IInv, Passed, PacketsOf
    <2>3. ASSUME NEW i \in 1 .. Len(shown)
          PROVE  NumberOf(shown[i]) \in 1 .. Len(pictures) /\ Unharmed(NumberOf(shown[i]))
        <3>1. Shows(shown[i])
            BY <1>1 DEF IInv, ShownInv
        <3>2. Passed(NumberOf(shown[i])) /\ Clean(NumberOf(shown[i]))
            BY <3>1 DEF Shows
        <3>3. QED
            BY <2>1, <2>2, <3>2
    <2>4. ASSUME NEW n \in 1 .. Len(pictures), Unharmed(n)
          PROVE  \E i \in 1 .. Len(shown) : NumberOf(shown[i]) = n
        BY <1>1, <2>1, <2>4 DEF IInv, ShownInv
    <2>5. QED
        BY <2>3, <2>4 DEF LossContained
<1>2. QED
    BY ReceiverInvariant, <1>1, PTL

(* The receiver only listens: what the sender does on its way is what      *)
(* media_thread does by itself, so that its theorems hold here as well.    *)
THEOREM ReceiverListens == Spec => StreamSpec
<1>1. Init => StreamInit
    BY DEF Init
<1>2. [Next]_vars => [StreamNext]_streamVars
    BY DEF Next, Send, Arrive, Begin, Use, GiveUp, vars
<1>3. QED
    BY <1>1, <1>2, PTL DEF Spec, StreamSpec
=============================================================================
