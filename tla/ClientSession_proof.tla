--------------------------- MODULE ClientSession_proof ------------------------
(***************************************************************************)
(* What a client gets: its requests are answered in order, in whatever     *)
(* pieces TCP delivers them (FramingInv); every NAL unit of the encoder    *)
(* reaches the packetizer and the recording whole and in order, wherever   *)
(* start codes and zeros lie (UnitInv); and from the SDP it decodes the    *)
(* encoder's parameter sets (SdpInv).                                      *)
(*                                                                         *)
(* The part on the access units is first about the bytes (Laid), then      *)
(* about where the scan finds its start codes (Scanned), and last about    *)
(* the media thread.                                                       *)
(***************************************************************************)
EXTENDS ClientSession, FiniteSetTheorems, SequenceTheorems, WellFoundedInduction, TLAPS

(* Every set of natural numbers with an element has a least one.           *)
LEMMA Least ==
    ASSUME NEW S, S \subseteq Nat, S # {}
    PROVE  Min(S) \in S /\ \A y \in S : Min(S) <= y
<1>1. PICK x \in S : \A y \in S : ~(<<y, x>> \in OpToRel(<, Nat))
    BY NatLessThanWellFounded, WFMin
<1>2. \A y \in S : ~(y < x)
    BY <1>1 DEF OpToRel
<1>3. \A y \in S : x <= y
    BY <1>2
<1>4. QED
    BY <1>1, <1>3 DEF Min

(* Two sequences of the same kind, one behind the other.                   *)
LEMMA JoinedUp ==
    ASSUME NEW D, NEW s \in Seq(D), NEW t \in Seq(D), NEW st, st = s \o t
    PROVE  /\ st \in Seq(D) /\ Len(st) = Len(s) + Len(t)
           /\ \A i \in 1 .. Len(s) : st[i] = s[i]
           /\ \A i \in 1 .. Len(t) : st[Len(s) + i] = t[i]
<1>1. st \in Seq(D) /\ Len(st) = Len(s) + Len(t)
    OBVIOUS
<1>2. Len(s) \in Nat /\ Len(t) \in Nat
    OBVIOUS
<1>3. \A i \in 1 .. Len(s) : st[i] = s[i]
    OBVIOUS
<1>4. ASSUME NEW i \in 1 .. Len(t) PROVE st[Len(s) + i] = t[i]
    <2>1. Len(s) + i \in 1 .. Len(s) + Len(t) /\ ~(Len(s) + i <= Len(s))
        BY <1>2
    <2>2. st[Len(s) + i] = t[Len(s) + i - Len(s)]
        BY <2>1
    <2>3. Len(s) + i - Len(s) = i
        BY <1>2
    <2>4. QED
        BY <2>2, <2>3
<1>5. QED
    BY <1>1, <1>3, <1>4

-----------------------------------------------------------------------------
(* ClientSession: the requests of one connection and their answers.        *)
(* However TCP cuts the connection into pieces, the parts on their way and *)
(* in the buffer are at any time the rest of bodies already answered for,  *)
(* and behind it the request not yet answered (LineInv).                   *)
Items == [of : Nat, part : Parts]

FramingTypeOK ==
    /\ connection \in {"open", "closed", "left", "tooLarge"}
    /\ asked \in Seq(Requests)
    /\ inFlight \in Seq(Items) /\ buffer \in Seq(Items)
    /\ replies \in Seq([cseq : Nat, method : Nat])

(* What is received and what is still to come, one behind the other.       *)
Length == Len(buffer) + Len(inFlight)
At(i)  == IF i <= Len(buffer) THEN buffer[i] ELSE inFlight[i - Len(buffer)]

Layout == asked[Len(asked)].layout
Rest   == Length - Len(Layout)

LineInv ==
    connection = "open" =>
        /\ Len(asked) \in {Len(replies), Len(replies) + 1}
        /\ Len(asked) = Len(replies) =>
            /\ Length <= Bodies(Len(asked))
            /\ \A i \in 1 .. Length : At(i).part = "body"
        /\ Len(asked) = Len(replies) + 1 =>
            /\ Rest \in 0 .. Bodies(Len(replies))
            /\ \A i \in 1 .. Rest : At(i).part = "body"
            /\ \A i \in 1 .. Len(Layout) :
                  At(Rest + i) = [of |-> Len(asked), part |-> Layout[i]]

FramingInv == FramingTypeOK /\ LineInv /\ AnswersMatch

-----------------------------------------------------------------------------
LEMMA LayoutTypes ==
    ASSUME asked \in Seq(Requests), NEW k \in 1 .. Len(asked)
    PROVE  /\ asked[k] \in Requests /\ asked[k].layout \in Seq(Parts)
           /\ Len(asked[k].layout) \in Nat \ {0} /\ asked[k].layout[1] = "method"
<1>1. asked[k] \in Requests
    OBVIOUS
<1>2. QED
    BY <1>1, FramingAssumption

LEMMA BodiesFinite ==
    ASSUME asked \in Seq(Requests), NEW k \in 0 .. Len(asked)
    PROVE  IsFiniteSet(BodyParts(k)) /\ Bodies(k) \in Nat
<1> DEFINE B(j) == {j} \X PartsOf(asked[j], "body")
           f    == [j \in 1 .. k |-> B(j)]
           S    == {B(j) : j \in 1 .. k}
<1>1. ASSUME NEW j \in 1 .. k PROVE IsFiniteSet(B(j))
    <2>1. j \in 1 .. Len(asked)
        OBVIOUS
    <2>2. asked[j].layout \in Seq(Parts)
        BY <2>1, LayoutTypes
    <2>3. PartsOf(asked[j], "body") \in SUBSET (1 .. Len(asked[j].layout))
        BY <2>2 DEF PartsOf
    <2>4. IsFiniteSet(1 .. Len(asked[j].layout))
        <3>1. Len(asked[j].layout) \in Int /\ 1 \in Int
            BY <2>2
        <3>2. QED
            BY <3>1, FS_Interval
    <2>5. IsFiniteSet(PartsOf(asked[j], "body"))
        BY <2>3, <2>4, FS_Subset
    <2>6. IsFiniteSet({j})
        BY FS_Singleton
    <2>7. QED
        BY <2>5, <2>6, FS_Product
<1>2. f \in Surjection(1 .. k, S)
    BY DEF Surjection
<1>3. IsFiniteSet(1 .. k)
    BY FS_Interval
<1>4. IsFiniteSet(S)
    BY <1>2, <1>3, FS_Surjection
<1>5. \A T \in S : IsFiniteSet(T)
    BY <1>1
<1>6. IsFiniteSet(UNION S)
    BY <1>4, <1>5, FS_UNION
<1>7. BodyParts(k) = UNION S
    BY DEF BodyParts
<1>8. QED
    BY <1>6, <1>7, FS_CardinalityType DEF Bodies

LEMMA BodiesStay ==
    ASSUME NEW k, \A j \in 1 .. k : asked'[j] = asked[j]
    PROVE  Bodies(k)' = Bodies(k)
<1>1. BodyParts(k)' = BodyParts(k)
    BY DEF BodyParts, PartsOf
<1>2. QED
    BY <1>1 DEF Bodies

(* The last parts of a request, when they are all of its body.             *)
LEMMA TailOfBodies ==
    ASSUME asked \in Seq(Requests), NEW k \in 1 .. Len(asked),
           NEW from \in 0 .. Len(asked[k].layout),
           \A i \in from + 1 .. Len(asked[k].layout) : asked[k].layout[i] = "body"
    PROVE  Len(asked[k].layout) - from <= Bodies(k)
<1> DEFINE l == Len(asked[k].layout)
           T == {k} \X (from + 1 .. l)
<1>1. l \in Nat /\ DOMAIN asked[k].layout = 1 .. l
    BY LayoutTypes
<1>2. T \in SUBSET BodyParts(k)
    BY <1>1 DEF BodyParts, PartsOf
<1>3. IsFiniteSet(BodyParts(k))
    BY BodiesFinite
<1>4. IsFiniteSet(T) /\ Cardinality(T) <= Bodies(k)
    BY <1>2, <1>3, FS_Subset DEF Bodies
<1> HIDE DEF l
<1>5. IsFiniteSet(from + 1 .. l) /\ Cardinality(from + 1 .. l) = l - from
    <2>1. from + 1 \in Int /\ l \in Int /\ from \in Int /\ from <= l
        BY <1>1 DEF l
    <2>2. /\ IsFiniteSet(from + 1 .. l)
          /\ Cardinality(from + 1 .. l) = IF from + 1 > l THEN 0 ELSE l - (from + 1) + 1
        BY <2>1, FS_Interval
    <2>3. QED
        BY <2>1, <2>2
<1>6. Cardinality({k}) = 1 /\ IsFiniteSet({k})
    BY FS_Singleton
<1>7. Cardinality(T) = l - from
    <2>1. Cardinality(T) = Cardinality({k}) * Cardinality(from + 1 .. l)
        BY <1>5, <1>6, FS_Product
    <2>2. 1 * (l - from) = l - from
        BY <1>1 DEF l
    <2>3. QED
        BY <1>5, <1>6, <2>1, <2>2
<1>8. QED
    BY <1>1, <1>4, <1>7 DEF l

LEMMA NoBodies == Bodies(0) = 0
<1>1. BodyParts(0) = {}
    BY DEF BodyParts
<1>2. QED
    BY <1>1, FS_EmptySet DEF Bodies

LEMMA BodiesStep ==
    ASSUME asked \in Seq(Requests), NEW k \in 1 .. Len(asked)
    PROVE  Bodies(k) <= Bodies(k - 1) + Len(asked[k].layout)
<1> DEFINE l == Len(asked[k].layout)
           S == BodyParts(k - 1)
           T == {k} \X (1 .. l)
<1>1. l \in Nat /\ DOMAIN asked[k].layout = 1 .. l /\ k - 1 \in 0 .. Len(asked)
    BY LayoutTypes
<1>2. BodyParts(k) \in SUBSET (S \cup T)
    <2>1. ASSUME NEW x \in BodyParts(k), x \notin S PROVE x \in T
        <3>1. PICK j \in 1 .. k : x \in {j} \X PartsOf(asked[j], "body")
            BY DEF BodyParts
        <3>2. ~(j \in 1 .. k - 1)
            BY <2>1, <3>1 DEF BodyParts
        <3>3. j = k
            BY <3>2
        <3>4. QED
            BY <1>1, <3>1, <3>3 DEF PartsOf
    <2>2. QED
        BY <2>1
<1>3. IsFiniteSet(S) /\ Bodies(k - 1) \in Nat
    BY <1>1, BodiesFinite
<1> HIDE DEF l
<1>4. IsFiniteSet(1 .. l) /\ Cardinality(1 .. l) = l
    <2>1. 1 \in Int /\ l \in Int
        BY <1>1 DEF l
    <2>2. IsFiniteSet(1 .. l) /\ Cardinality(1 .. l) = IF 1 > l THEN 0 ELSE l - 1 + 1
        BY <2>1, FS_Interval
    <2>3. QED
        BY <1>1, <2>2 DEF l
<1>5. Cardinality({k}) = 1 /\ IsFiniteSet({k})
    BY FS_Singleton
<1>6. Cardinality(T) = l /\ IsFiniteSet(T)
    <2>1. Cardinality(T) = Cardinality({k}) * Cardinality(1 .. l) /\ IsFiniteSet(T)
        BY <1>4, <1>5, FS_Product
    <2>2. 1 * l = l
        BY <1>1 DEF l
    <2>3. QED
        BY <1>4, <1>5, <2>1, <2>2
<1> HIDE DEF T, S
<1>7. /\ IsFiniteSet(S \cup T)
      /\ Cardinality(S \cup T) = Cardinality(S) + Cardinality(T) - Cardinality(S \cap T)
    BY <1>3, <1>6, FS_Union
<1>8. Cardinality(S \cap T) \in Nat
    BY <1>3, FS_Intersection, FS_CardinalityType
<1>9. Bodies(k) <= Cardinality(S \cup T) /\ Bodies(k) \in Nat
    BY <1>2, <1>7, FS_Subset, FS_CardinalityType DEF Bodies
<1>10. QED
    BY <1>1, <1>3, <1>6, <1>7, <1>8, <1>9 DEF Bodies, S, l

-----------------------------------------------------------------------------
LEMMA FramingBegins == FramingInit => FramingInv
<1> SUFFICES ASSUME FramingInit PROVE FramingInv
    OBVIOUS
<1>1. FramingTypeOK
    BY DEF FramingInit, FramingTypeOK
<1>2. LineInv /\ AnswersMatch
    BY DEF FramingInit, LineInv, AnswersMatch
<1>3. QED
    BY <1>1, <1>2 DEF FramingInv

LEMMA ConnectStep == ASSUME FramingInv, Connect PROVE FramingInv'
<1>1. /\ connection' = "open" /\ asked' = <<>> /\ inFlight' = <<>> /\ buffer' = <<>>
      /\ replies' = <<>>
    BY DEF Connect
<1>2. FramingTypeOK'
    BY <1>1 DEF FramingTypeOK
<1>3. Bodies(0)' = 0
    BY NoBodies, BodiesStay
<1>4. LineInv'
    BY <1>1, <1>3 DEF LineInv, Length
<1>5. AnswersMatch'
    BY <1>1 DEF AnswersMatch
<1>6. QED
    BY <1>2, <1>4, <1>5 DEF FramingInv

(* A connection that ends for another reason than its buffer leaves        *)
(* nothing behind.                                                         *)
LEMMA EndsStep ==
    ASSUME FramingInv, NEW why \in {"closed", "left"}, Ends(why)
    PROVE  FramingInv'
<1>1. /\ connection' = why /\ asked' = <<>> /\ inFlight' = <<>> /\ buffer' = <<>>
      /\ replies' = <<>>
    BY DEF Ends
<1>2. FramingTypeOK'
    BY <1>1 DEF FramingTypeOK
<1>3. LineInv' /\ AnswersMatch'
    BY <1>1 DEF LineInv, AnswersMatch
<1>4. QED
    BY <1>2, <1>3 DEF FramingInv

LEMMA TooLargeStep == ASSUME FramingInv, TooLarge PROVE FramingInv'
<1>1. /\ connection = "open" /\ connection' = "tooLarge" /\ inFlight # <<>>
      /\ inFlight' = <<>> /\ buffer' = <<>> /\ asked' = asked /\ replies' = replies
      /\ BufferSize - 1 - Len(buffer) <= 0
    BY DEF TooLarge, Receiving, Room, Ends
<1>2. FramingTypeOK'
    BY <1>1 DEF FramingInv, FramingTypeOK
<1>3. LineInv'
    BY <1>1 DEF LineInv
<1> DEFINE a == Len(asked)
<1>4. /\ asked \in Seq(Requests) /\ a \in Nat /\ Len(replies) \in Nat
      /\ Len(buffer) \in Nat /\ Len(inFlight) \in Nat \ {0} /\ BufferSize \in Nat
    BY <1>1, FramingAssumption DEF FramingInv, FramingTypeOK
<1>5. Length >= BufferSize /\ Length \in Nat \ {0}
    BY <1>1, <1>4 DEF Length
<1>6. \E k \in 1 .. a : Len(asked[k].layout) + Bodies(k - 1) >= BufferSize
    <2>1. CASE a = Len(replies)
        <3>1. Length <= Bodies(a) /\ Bodies(a) \in Nat
            BY <1>1, <1>4, <2>1, BodiesFinite DEF FramingInv, LineInv
        <3>2. a # 0
            BY <1>5, <3>1, NoBodies
        <3>3. a \in 1 .. a /\ a - 1 \in 0 .. a
            BY <1>4, <3>2
        <3>4. /\ Bodies(a) <= Bodies(a - 1) + Len(asked[a].layout)
              /\ Bodies(a - 1) \in Nat /\ Len(asked[a].layout) \in Nat
            BY <1>4, <3>3, BodiesStep, BodiesFinite, LayoutTypes
        <3> HIDE DEF a
        <3>5. Len(asked[a].layout) + Bodies(a - 1) >= BufferSize
            BY <1>4, <1>5, <3>1, <3>4
        <3>6. QED
            BY <3>3, <3>5
    <2>2. CASE a = Len(replies) + 1
        <3>1. Rest \in 0 .. Bodies(Len(replies)) /\ Len(replies) = a - 1
            BY <1>1, <1>4, <2>2 DEF FramingInv, LineInv
        <3>2. a \in 1 .. a /\ a - 1 \in 0 .. a
            BY <1>4, <2>2
        <3>3. Bodies(a - 1) \in Nat /\ Len(asked[a].layout) \in Nat
            BY <1>4, <3>2, BodiesFinite, LayoutTypes
        <3>4. Len(asked[a].layout) + Bodies(a - 1) >= BufferSize
            BY <1>4, <1>5, <3>1, <3>3 DEF Rest, Layout
        <3> HIDE DEF a
        <3>5. QED
            BY <3>2, <3>4
    <2>3. QED
        BY <1>1, <2>1, <2>2 DEF FramingInv, LineInv
<1>7. \A k \in 0 .. a : Bodies(k)' = Bodies(k)
    BY <1>1, BodiesStay
<1>8. AnswersMatch'
    <2>1. \E k \in DOMAIN asked' : Len(asked'[k].layout) + Bodies(k - 1)' >= BufferSize
        <3>1. PICK k \in 1 .. a : Len(asked[k].layout) + Bodies(k - 1) >= BufferSize
            BY <1>6
        <3>2. k \in DOMAIN asked' /\ k - 1 \in 0 .. a
            BY <1>1, <1>4
        <3>3. QED
            BY <1>1, <1>7, <3>1, <3>2
    <2>2. /\ Len(replies') <= Len(asked')
          /\ \A k \in DOMAIN replies' :
                /\ replies'[k].cseq = k
                /\ Bodies(k - 1)' = 0 => replies'[k].method = k
        <3>1. Len(replies) <= a /\ DOMAIN replies = 1 .. Len(replies)
            BY <1>4 DEF FramingInv, AnswersMatch, FramingTypeOK
        <3>2. ASSUME NEW k \in DOMAIN replies PROVE Bodies(k - 1)' = Bodies(k - 1)
            BY <1>4, <1>7, <3>1
        <3>3. QED
            BY <1>1, <3>1, <3>2 DEF FramingInv, AnswersMatch
    <2>3. QED
        BY <2>1, <2>2 DEF AnswersMatch
<1>9. QED
    BY <1>2, <1>3, <1>8 DEF FramingInv

(* The new request lies behind all that is left of earlier ones.           *)
LEMMA AskStep == ASSUME FramingInv, Ask PROVE FramingInv'
<1>a. PICK a : a = Len(asked)
    OBVIOUS
<1>n. PICK n : n = Length
    OBVIOUS
<1>1. PICK request \in Requests :
          /\ asked' = Append(asked, request)
          /\ inFlight' = inFlight \o [i \in DOMAIN request.layout |->
                             [of |-> a + 1, part |-> request.layout[i]]]
    BY <1>a DEF Ask
<1>2. connection = "open" /\ a = Len(replies) /\ UNCHANGED <<connection, buffer, replies>>
    BY <1>a DEF Ask
<1>l. PICK l : l = request.layout
    OBVIOUS
<1>w. PICK new : new = [i \in DOMAIN l |-> [of |-> a + 1, part |-> l[i]]]
    OBVIOUS
<1>3. /\ asked \in Seq(Requests) /\ inFlight \in Seq(Items) /\ buffer \in Seq(Items)
      /\ a \in Nat /\ l \in Seq(Parts) /\ Len(l) \in Nat /\ n \in Nat
      /\ Len(buffer) \in Nat /\ Len(inFlight) \in Nat /\ n = Len(buffer) + Len(inFlight)
    BY <1>a, <1>l, <1>n, FramingAssumption DEF FramingInv, FramingTypeOK, Length
<1>4. /\ new \in Seq(Items) /\ Len(new) = Len(l)
      /\ \A i \in 1 .. Len(l) : new[i] = [of |-> a + 1, part |-> l[i]]
    <2>1. a + 1 \in Nat /\ DOMAIN l = 1 .. Len(l) /\ \A i \in 1 .. Len(l) : l[i] \in Parts
        BY <1>3
    <2>2. new \in [1 .. Len(l) -> Items]
        BY <1>w, <2>1 DEF Items
    <2>3. QED
        BY <1>3, <1>w, <2>1, <2>2
<1>5. /\ inFlight' \in Seq(Items) /\ Len(inFlight') = Len(inFlight) + Len(l)
      /\ \A i \in 1 .. Len(inFlight) : inFlight'[i] = inFlight[i]
      /\ \A i \in 1 .. Len(l) : inFlight'[Len(inFlight) + i] = new[i]
    <2>1. inFlight' = inFlight \o new
        BY <1>1, <1>l, <1>w
    <2>2. PICK s, st : s = inFlight /\ st = inFlight'
        OBVIOUS
    <2>3. s \in Seq(Items) /\ new \in Seq(Items) /\ st = s \o new
        BY <1>3, <1>4, <2>1, <2>2
    <2>4. /\ st \in Seq(Items) /\ Len(st) = Len(s) + Len(new)
          /\ \A i \in 1 .. Len(s) : st[i] = s[i]
          /\ \A i \in 1 .. Len(new) : st[Len(s) + i] = new[i]
        BY <2>3, JoinedUp
    <2>5. QED
        BY <1>4, <2>2, <2>4
<1>6. /\ asked' \in Seq(Requests) /\ Len(asked') = a + 1 /\ asked'[a + 1] = request
      /\ \A j \in 1 .. a : asked'[j] = asked[j]
    BY <1>1, <1>3, <1>a
<1>7. FramingTypeOK'
    BY <1>2, <1>5, <1>6 DEF FramingInv, FramingTypeOK
<1>8. ASSUME NEW k \in 0 .. a PROVE Bodies(k)' = Bodies(k)
    BY <1>3, <1>6, BodiesStay
<1>9. /\ Layout' = l /\ Length' = n + Len(l) /\ Rest' = n
    <2>1. Layout' = l
        BY <1>6, <1>l DEF Layout
    <2>2. Length' = Len(buffer) + (Len(inFlight) + Len(l))
        BY <1>2, <1>5 DEF Length
    <2>3. Length' = n + Len(l)
        BY <1>3, <2>2
    <2>4. Rest' = n + Len(l) - Len(l)
        <3>1. PICK t : t = Length'
            OBVIOUS
        <3>2. Rest' = t - Len(Layout')
            BY <3>1 DEF Rest
        <3>3. QED
            BY <1>3, <2>1, <2>3, <3>1, <3>2
    <2>5. n + Len(l) - Len(l) = n
        BY <1>3
    <2>6. QED
        BY <2>1, <2>3, <2>4, <2>5
<1>10. ASSUME NEW i \in 1 .. n PROVE At(i)' = At(i)
    <2>1. CASE i <= Len(buffer)
        BY <1>2, <2>1 DEF At
    <2>2. CASE ~(i <= Len(buffer))
        <3>1. i - Len(buffer) \in 1 .. Len(inFlight)
            BY <1>3, <2>2
        <3>2. QED
            BY <1>2, <1>5, <2>2, <3>1 DEF At
    <2>3. QED
        BY <2>1, <2>2
<1>11. ASSUME NEW i \in 1 .. Len(l) PROVE At(n + i)' = [of |-> a + 1, part |-> l[i]]
    <2>1. ~(n + i <= Len(buffer)) /\ n + i - Len(buffer) = Len(inFlight) + i
        BY <1>3
    <2>2. At(n + i)' = inFlight'[n + i - Len(buffer)]
        <3>1. PICK j : j = n + i
            OBVIOUS
        <3>2. ~(j <= Len(buffer')) /\ buffer' = buffer
            BY <1>2, <2>1, <3>1
        <3>3. At(j)' = inFlight'[j - Len(buffer)]
            BY <3>2 DEF At
        <3>4. At(n + i)' = At(j)'
            BY <3>1 DEF At
        <3>5. QED
            BY <1>3, <3>1, <3>3, <3>4
    <2>3. QED
        BY <1>4, <1>5, <2>1, <2>2
<1>12. LineInv'
    <2>1. n <= Bodies(a) /\ \A i \in 1 .. n : At(i).part = "body"
        BY <1>2, <1>3, <1>a, <1>n DEF FramingInv, LineInv
    <2>2. Bodies(a) \in Nat /\ a \in 0 .. a
        BY <1>3, <1>a, BodiesFinite
    <2>3. Rest' \in 0 .. Bodies(a)'
        BY <1>3, <1>8, <1>9, <2>1, <2>2
    <2>4. \A i \in 1 .. n : At(i)'.part = "body"
        BY <1>10, <2>1
    <2>5. Len(asked') = a + 1 /\ Len(replies') = a /\ a + 1 # a
        BY <1>2, <1>3, <1>6
    <2>6. QED
        BY <1>9, <1>11, <2>3, <2>4, <2>5 DEF LineInv, At
<1>13. AnswersMatch'
    <2>1. Len(replies) \in Nat /\ DOMAIN replies = 1 .. Len(replies)
        BY DEF FramingInv, FramingTypeOK
    <2>2. \A k \in DOMAIN replies :
              /\ replies[k].cseq = k
              /\ Bodies(k - 1)' = 0 => replies[k].method = k
        <3>1. ASSUME NEW k \in DOMAIN replies PROVE Bodies(k - 1)' = Bodies(k - 1)
            <4>1. k - 1 \in 0 .. a
                BY <1>2, <2>1
            <4>2. QED
                BY <1>8, <4>1
        <3>2. QED
            BY <3>1 DEF FramingInv, AnswersMatch
    <2>3. QED
        BY <1>2, <1>3, <1>6, <2>1, <2>2 DEF AnswersMatch
<1>14. QED
    BY <1>7, <1>12, <1>13 DEF FramingInv

(* What is received only goes from one side of the line to the other.      *)
LEMMA ReceiveStep == ASSUME FramingInv, Receive PROVE FramingInv'
<1>1. PICK n \in 1 .. Len(inFlight) :
          /\ buffer' = buffer \o SubSeq(inFlight, 1, n)
          /\ inFlight' = SubSeq(inFlight, n + 1, Len(inFlight))
    BY DEF Receive
<1>2. connection = "open" /\ UNCHANGED <<connection, asked, replies>>
    BY DEF Receive, Receiving
<1>3. /\ inFlight \in Seq(Items) /\ buffer \in Seq(Items)
      /\ Len(buffer) \in Nat /\ Len(inFlight) \in Nat
    BY DEF FramingInv, FramingTypeOK
<1>4. /\ buffer' \in Seq(Items) /\ inFlight' \in Seq(Items)
      /\ Len(buffer') = Len(buffer) + n /\ Len(inFlight') = Len(inFlight) - n
      /\ \A i \in 1 .. Len(buffer) : buffer'[i] = buffer[i]
      /\ \A i \in 1 .. n : buffer'[Len(buffer) + i] = inFlight[i]
      /\ \A i \in 1 .. Len(inFlight) - n : inFlight'[i] = inFlight[n + i]
    <2> DEFINE piece == SubSeq(inFlight, 1, n)
    <2>1. /\ piece \in Seq(Items) /\ Len(piece) = n
          /\ \A i \in 1 .. n : piece[i] = inFlight[i]
        BY <1>3
    <2>2. /\ inFlight' \in Seq(Items) /\ Len(inFlight') = Len(inFlight) - n
          /\ \A i \in 1 .. Len(inFlight) - n : inFlight'[i] = inFlight[n + i]
        BY <1>1, <1>3
    <2> HIDE DEF piece
    <2>3. buffer' = buffer \o piece
        BY <1>1 DEF piece
    <2>4. PICK s, t, st : s = buffer /\ t = piece /\ st = buffer'
        OBVIOUS
    <2>5. s \in Seq(Items) /\ t \in Seq(Items) /\ st = s \o t
        BY <1>3, <2>1, <2>3, <2>4
    <2>6. /\ st \in Seq(Items) /\ Len(st) = Len(s) + Len(t)
          /\ \A i \in 1 .. Len(s) : st[i] = s[i]
          /\ \A i \in 1 .. Len(t) : st[Len(s) + i] = t[i]
        BY <2>5, JoinedUp
    <2>7. QED
        BY <2>1, <2>2, <2>4, <2>6
<1>5. FramingTypeOK'
    BY <1>2, <1>4 DEF FramingInv, FramingTypeOK
<1>6. Length' = Length /\ Length \in Nat /\ Rest' = Rest /\ Layout' = Layout
    BY <1>2, <1>3, <1>4 DEF Length, Rest, Layout
<1>7. ASSUME NEW i \in 1 .. Length PROVE At(i)' = At(i)
    <2>1. CASE i <= Len(buffer)
        <3>1. i \in 1 .. Len(buffer) /\ i <= Len(buffer')
            BY <1>3, <1>4, <2>1
        <3>2. QED
            BY <1>4, <3>1 DEF At
    <2>2. CASE ~(i <= Len(buffer)) /\ i <= Len(buffer) + n
        <3>1. i - Len(buffer) \in 1 .. n /\ i = Len(buffer) + (i - Len(buffer))
            BY <1>3, <2>2
        <3>2. buffer'[i] = inFlight[i - Len(buffer)]
            BY <1>4, <3>1
        <3>3. QED
            BY <1>4, <2>2, <3>2 DEF At
    <2>3. CASE ~(i <= Len(buffer) + n)
        <3>1. /\ i - (Len(buffer) + n) \in 1 .. Len(inFlight) - n
              /\ n + (i - (Len(buffer) + n)) = i - Len(buffer) /\ ~(i <= Len(buffer))
            BY <1>3, <1>6, <2>3 DEF Length
        <3>2. inFlight'[i - (Len(buffer) + n)] = inFlight[i - Len(buffer)]
            BY <1>4, <3>1
        <3>3. QED
            BY <1>4, <2>3, <3>1, <3>2 DEF At
    <2>4. QED
        BY <2>1, <2>2, <2>3
<1>8. \A k : Bodies(k)' = Bodies(k)
    BY <1>2, BodiesStay
<1>9. LineInv'
    <2>1. CASE Len(asked) = Len(replies)
        <3>1. Length <= Bodies(Len(asked)) /\ \A i \in 1 .. Length : At(i).part = "body"
            BY <1>2, <2>1 DEF FramingInv, LineInv
        <3>2. \A i \in 1 .. Length : At(i)'.part = "body"
            BY <1>7, <3>1
        <3>3. Len(asked) # Len(replies) + 1
            BY <2>1 DEF FramingInv, FramingTypeOK
        <3>4. QED
            BY <1>2, <1>6, <1>8, <2>1, <3>1, <3>2, <3>3 DEF LineInv, At
    <2>2. CASE Len(asked) = Len(replies) + 1
        <3>1. /\ Rest \in 0 .. Bodies(Len(replies))
              /\ \A i \in 1 .. Rest : At(i).part = "body"
              /\ \A i \in 1 .. Len(Layout) :
                    At(Rest + i) = [of |-> Len(asked), part |-> Layout[i]]
            BY <1>2, <2>2 DEF FramingInv, LineInv
        <3>2. Rest + Len(Layout) = Length /\ Len(Layout) \in Nat /\ Rest \in Nat
            <4>1. Len(asked) \in 1 .. Len(asked) /\ asked \in Seq(Requests)
                BY <2>2 DEF FramingInv, FramingTypeOK
            <4>2. Len(Layout) \in Nat
                BY <4>1, LayoutTypes DEF Layout
            <4>3. QED
                BY <1>6, <3>1, <4>2 DEF Rest
        <3>3. \A i \in 1 .. Rest : At(i)'.part = "body"
            BY <1>6, <1>7, <3>1, <3>2
        <3>4. \A i \in 1 .. Len(Layout) :
                  At(Rest + i)' = [of |-> Len(asked), part |-> Layout[i]]
            <4> SUFFICES ASSUME NEW i \in 1 .. Len(Layout)
                         PROVE  At(Rest + i)' = [of |-> Len(asked), part |-> Layout[i]]
                OBVIOUS
            <4>1. PICK j \in 1 .. Length : j = Rest + i
                BY <1>6, <3>2
            <4>2. At(j)' = [of |-> Len(asked), part |-> Layout[i]]
                BY <1>7, <3>1, <4>1
            <4>3. QED
                BY <1>6, <4>1, <4>2 DEF At
        <3>5. Len(asked) # Len(replies)
            BY <2>2 DEF FramingInv, FramingTypeOK
        <3>6. QED
            BY <1>2, <1>6, <1>8, <2>2, <3>1, <3>3, <3>4, <3>5 DEF LineInv, At
    <2>3. QED
        BY <1>2, <2>1, <2>2 DEF FramingInv, LineInv
<1>10. AnswersMatch'
    BY <1>2, <1>8 DEF FramingInv, AnswersMatch
<1>11. QED
    BY <1>5, <1>9, <1>10 DEF FramingInv

(* The answer goes to the request that was not yet answered: the CSeq and  *)
(* the empty line the buffer has can only be its own, and behind them      *)
(* there is only its body.                                                 *)
LEMMA ReplyStep == ASSUME FramingInv, Reply PROVE FramingInv'
<1>1. /\ connection = "open" /\ connection' \in {"open", "closed"} /\ buffer' = <<>>
      /\ asked' = asked /\ inFlight' = inFlight
      /\ replies' = Append(replies, [cseq |-> CSeq(buffer), method |-> Method(buffer)])
    BY DEF Reply, Handling
<1>a. PICK a : a = Len(asked)
    OBVIOUS
<1>l. PICK l : l = Layout
    OBVIOUS
<1>r. PICK r : r = Rest
    OBVIOUS
<1>2. /\ asked \in Seq(Requests) /\ inFlight \in Seq(Items) /\ buffer \in Seq(Items)
      /\ a \in Nat /\ Len(replies) \in Nat /\ Len(buffer) \in Nat /\ Len(inFlight) \in Nat
      /\ DOMAIN buffer = 1 .. Len(buffer) /\ Length = Len(buffer) + Len(inFlight)
      /\ replies \in Seq([cseq : Nat, method : Nat])
    BY <1>a DEF FramingInv, FramingTypeOK, Length
<1>3. /\ \E i \in 1 .. Len(buffer) : buffer[i].part = "cseq"
      /\ \E i \in 1 .. Len(buffer) : buffer[i].part = "empty"
    BY <1>2 DEF Reply, Handling, Complete, Has
<1>4. \A i \in 1 .. Len(buffer) : At(i) = buffer[i] /\ i \in 1 .. Length
    BY <1>2 DEF At
<1>5. a = Len(replies) + 1
    <2>1. SUFFICES ASSUME a = Len(replies) PROVE FALSE
        BY <1>1, <1>a DEF FramingInv, LineInv
    <2>2. \A i \in 1 .. Length : At(i).part = "body"
        BY <1>1, <1>a, <2>1 DEF FramingInv, LineInv
    <2>3. PICK i \in 1 .. Len(buffer) : buffer[i].part = "cseq"
        BY <1>3
    <2>4. At(i).part = "body" /\ At(i) = buffer[i]
        BY <1>4, <2>2
    <2>5. QED
        BY <2>3, <2>4
<1>6. a \in 1 .. a /\ a - 1 \in 0 .. a /\ a - 1 = Len(replies)
    BY <1>2, <1>5
<1>7. /\ l = asked[a].layout /\ l \in Seq(Parts) /\ Len(l) \in Nat \ {0}
      /\ l[1] = "method" /\ asked[a] \in Requests /\ DOMAIN l = 1 .. Len(l)
    BY <1>2, <1>6, <1>a, <1>l, LayoutTypes DEF Layout
<1>8. Bodies(a - 1) \in Nat /\ Bodies(a) \in Nat
    BY <1>2, <1>6, <1>a, BodiesFinite
<1>9. /\ r \in 0 .. Bodies(a - 1) /\ \A i \in 1 .. r : At(i).part = "body"
      /\ \A i \in 1 .. Len(l) : At(r + i) = [of |-> a, part |-> l[i]]
    BY <1>1, <1>5, <1>6, <1>a, <1>l, <1>r DEF FramingInv, LineInv
<1>10. r \in Nat /\ r + Len(l) = Len(buffer) + Len(inFlight)
    BY <1>2, <1>7, <1>8, <1>9, <1>l, <1>r DEF Rest
<1>11. ASSUME NEW i \in 1 .. Len(buffer), buffer[i].part # "body"
       PROVE  /\ i > r /\ i - r \in 1 .. Len(l)
              /\ buffer[i].of = a /\ buffer[i].part = l[i - r]
    <2>1. At(i) = buffer[i]
        BY <1>4
    <2>2. ~(i \in 1 .. r)
        BY <1>9, <1>11, <2>1
    <2>3. i > r /\ i - r \in 1 .. Len(l) /\ r + (i - r) = i
        <3>1. /\ Len(buffer) \in Nat /\ Len(inFlight) \in Nat /\ Len(l) \in Nat
              /\ r \in Nat /\ r + Len(l) = Len(buffer) + Len(inFlight)
            BY <1>2, <1>7, <1>10
        <3>2. i > r /\ i <= Len(buffer)
            BY <2>2, <3>1
        <3>3. QED
            BY <3>1, <3>2
    <2>4. At(r + (i - r)) = [of |-> a, part |-> l[i - r]]
        BY <1>9, <2>3
    <2>5. buffer[i] = [of |-> a, part |-> l[i - r]]
        BY <2>1, <2>3, <2>4
    <2>6. QED
        BY <2>3, <2>5
<1>12. CSeq(buffer) = a
    <2> DEFINE S == {i \in DOMAIN buffer : buffer[i].part = "cseq"}
    <2>1. S # {} /\ S \subseteq Nat
        BY <1>2, <1>3
    <2>2. Min(S) \in S
        BY <2>1, Least
    <2>3. PICK m \in 1 .. Len(buffer) : m = Min(S) /\ buffer[m].part = "cseq"
        BY <1>2, <2>2
    <2>4. buffer[m].part # "body"
        BY <2>3
    <2>5. buffer[m].of = a
        BY <1>11, <2>4
    <2>6. QED
        BY <2>3, <2>5 DEF CSeq
<1>13. 1 \in 1 .. Len(buffer)
    BY <1>2, <1>3
<1>14. Method(buffer) \in Nat
    <2>1. buffer[1] \in Items
        BY <1>2, <1>13
    <2>2. buffer[1].of \in Nat
        BY <2>1 DEF Items
    <2>3. QED
        BY <2>2 DEF Method
<1>15. Bodies(a - 1) = 0 => Method(buffer) = a
    <2> SUFFICES ASSUME Bodies(a - 1) = 0 PROVE Method(buffer) = a
        OBVIOUS
    <2>1. r = 0 /\ 1 \in 1 .. Len(l) /\ r + 1 = 1
        BY <1>7, <1>9
    <2>2. At(1) = [of |-> a, part |-> "method"]
        BY <1>7, <1>9, <2>1
    <2>3. buffer[1] = [of |-> a, part |-> "method"]
        BY <1>4, <1>13, <2>2
    <2>4. QED
        BY <2>3 DEF Method
<1>16. FramingTypeOK'
    BY <1>1, <1>2, <1>12, <1>14 DEF FramingInv, FramingTypeOK
<1>17. /\ Len(replies') = a /\ DOMAIN replies' = 1 .. a
       /\ replies'[a] = [cseq |-> CSeq(buffer), method |-> Method(buffer)]
       /\ \A k \in DOMAIN replies : replies'[k] = replies[k]
       /\ DOMAIN replies = 1 .. a - 1
    BY <1>1, <1>2, <1>6
<1>18. \A k : Bodies(k)' = Bodies(k)
    BY <1>1, BodiesStay
<1>19. PICK from : from = Len(buffer) - r
    OBVIOUS
<1>20. /\ from \in 0 .. Len(l) /\ Len(l) - from = Len(inFlight)
       /\ \A i \in from + 1 .. Len(l) : l[i] = "body"
    <2>1. PICK p \in 1 .. Len(buffer) : buffer[p].part = "cseq"
        BY <1>3
    <2>2. PICK q \in 1 .. Len(buffer) : buffer[q].part = "empty"
        BY <1>3
    <2>3. p > r /\ p - r \in 1 .. Len(l) /\ l[p - r] = "cseq"
        <3>1. buffer[p].part # "body"
            BY <2>1
        <3>2. QED
            BY <1>11, <2>1, <3>1
    <2>4. q > r /\ q - r \in 1 .. Len(l) /\ l[q - r] = "empty"
        <3>1. buffer[q].part # "body"
            BY <2>2
        <3>2. QED
            BY <1>11, <2>2, <3>1
    <2>5. from \in 0 .. Len(l) /\ Len(l) - from = Len(inFlight)
        BY SMTT(30), <1>2, <1>7, <1>10, <1>19, <2>3
    <2>6. ASSUME NEW i \in from + 1 .. Len(l) PROVE l[i] = "body"
        <3>1. i > p - r /\ i > q - r /\ i \in 1 .. Len(l)
            BY <1>2, <1>7, <1>10, <1>19, <2>5
        <3>2. QED
            BY <1>7, <2>3, <2>4, <3>1, FramingAssumption
    <2>7. QED
        BY <2>5, <2>6
<1>21. Len(inFlight) <= Bodies(a)
    <2>1. Len(l) - from <= Bodies(a)
        BY <1>2, <1>6, <1>7, <1>20, <1>a, TailOfBodies
    <2>2. QED
        BY <1>20, <2>1
<1>22. ASSUME NEW i \in 1 .. Len(inFlight) PROVE inFlight[i].part = "body"
    <2>1. PICK j : j = from + i
        OBVIOUS
    <2>2. j \in from + 1 .. Len(l) /\ j \in 1 .. Len(l) /\ r + j = Len(buffer) + i
        BY <1>2, <1>7, <1>10, <1>19, <1>20, <2>1
    <2>3. At(r + j).part = "body"
        <3>1. At(r + j) = [of |-> a, part |-> l[j]] /\ l[j] = "body"
            BY <1>9, <1>20, <2>2
        <3>2. QED
            BY <3>1
    <2>4. At(Len(buffer) + i) = inFlight[i]
        BY <1>2 DEF At
    <2>5. QED
        BY <2>2, <2>3, <2>4
<1>23. LineInv'
    <2>1. Len(asked') = a /\ Len(replies') = a /\ a # a + 1
        BY <1>1, <1>2, <1>17, <1>a
    <2>2. Len(buffer') = 0 /\ inFlight' = inFlight
        BY <1>1
    <2>3. Length' = Len(inFlight)
        BY <1>2, <2>2 DEF Length
    <2>4. \A i \in 1 .. Len(inFlight) : At(i)' = inFlight[i]
        <3> SUFFICES ASSUME NEW i \in 1 .. Len(inFlight) PROVE At(i)' = inFlight[i]
            OBVIOUS
        <3>1. ~(i <= Len(buffer')) /\ i - Len(buffer') = i
            BY <2>2
        <3>2. QED
            BY <2>2, <3>1 DEF At
    <2>5. \A i \in 1 .. Length' : At(i)'.part = "body"
        BY <1>22, <2>3, <2>4
    <2>6. Length' <= Bodies(a)'
        BY <1>18, <1>21, <2>3
    <2>7. QED
        BY <2>1, <2>5, <2>6 DEF LineInv, At
<1>24. AnswersMatch'
    <2>1. ASSUME NEW k \in 1 .. a
          PROVE  replies'[k].cseq = k /\ (Bodies(k - 1)' = 0 => replies'[k].method = k)
        <3>1. CASE k = a
            BY <1>12, <1>15, <1>17, <1>18, <3>1
        <3>2. CASE k # a
            <4>1. k \in DOMAIN replies
                BY <1>2, <1>17, <3>2
            <4>2. QED
                BY <1>17, <1>18, <4>1 DEF FramingInv, AnswersMatch
        <3>3. QED
            BY <3>1, <3>2
    <2>2. Len(replies') <= Len(asked') /\ connection' # "tooLarge"
        BY <1>1, <1>2, <1>17, <1>a
    <2>3. QED
        BY <1>17, <2>1, <2>2 DEF AnswersMatch
<1>25. QED
    BY <1>16, <1>23, <1>24 DEF FramingInv

-----------------------------------------------------------------------------
(* Of what happens to a session, only this is about its     *)
(* requests.                                                               *)
FramingStep ==
    Connect \/ Ask \/ Disconnect \/ Receive \/ TooLarge \/ Reply \/ ReplyFails \/ Drop

LEMMA SessionStep ==
    ASSUME [Next]_vars PROVE FramingStep \/ UNCHANGED framingVars
<1>1. CASE Prepare
    BY <1>1 DEF Prepare
<1>2. CASE AcceptClient
    BY <1>2 DEF AcceptClient, FramingStep
<1>3. CASE Client
    BY <1>3 DEF Client, FramingStep
<1>4. CASE Control
    <2>1. CASE ReceiveMore
        BY <2>1 DEF ReceiveMore, FramingStep
    <2>2. CASE BuildSdp
        BY <2>2 DEF BuildSdp
    <2>3. CASE AnswerDescribe
        BY <2>3 DEF AnswerDescribe, FramingStep
    <2>4. CASE AnswerPlay
        BY <2>4 DEF AnswerPlay, FramingStep
    <2>5. CASE AnswerOther
        BY <2>5 DEF AnswerOther, FramingStep
    <2>6. QED
        BY <1>4, <2>1, <2>2, <2>3, <2>4, <2>5 DEF Control
<1>5. CASE Hangup
    BY <1>5 DEF Hangup, FramingStep
<1>6. CASE StopMedia
    BY <1>6 DEF StopMedia
<1>7. CASE RunMedia
    BY <1>7 DEF RunMedia
<1>8. CASE UNCHANGED vars
    BY <1>8 DEF vars
<1>9. QED
    BY <1>1, <1>2, <1>3, <1>4, <1>5, <1>6, <1>7, <1>8 DEF Next

LEMMA FramingStays == ASSUME FramingInv, UNCHANGED framingVars PROVE FramingInv'
<1>1. UNCHANGED <<connection, asked, inFlight, buffer, replies>>
    BY DEF framingVars
<1>2. FramingTypeOK'
    BY <1>1 DEF FramingInv, FramingTypeOK
<1>3. \A k : Bodies(k)' = Bodies(k)
    BY <1>1, BodiesStay
<1>4. Length' = Length /\ Layout' = Layout
    BY <1>1 DEF Length, Layout
<1>5. Rest' = Rest
    BY <1>4 DEF Rest
<1>6. \A i : At(i)' = At(i)
    BY <1>1 DEF At
<1>7. LineInv'
    BY <1>1, <1>3, <1>4, <1>5, <1>6 DEF FramingInv, LineInv, At
<1>8. AnswersMatch'
    BY <1>1, <1>3 DEF FramingInv, AnswersMatch
<1>9. QED
    BY <1>2, <1>7, <1>8 DEF FramingInv

(* What lies between client and server is always the rest of bodies and    *)
(* the request not yet answered, whatever else the session does.           *)
THEOREM RequestsInLine == Spec => []FramingInv
<1>1. Init => FramingInv
    BY FramingBegins DEF Init
<1>2. FramingInv /\ [Next]_vars => FramingInv'
    <2> SUFFICES ASSUME FramingInv, [Next]_vars PROVE FramingInv'
        OBVIOUS
    <2>1. CASE Connect
        BY <2>1, ConnectStep
    <2>2. CASE Ask
        BY <2>2, AskStep
    <2>3. CASE Disconnect
        <3>1. Ends("left") /\ "left" \in {"closed", "left"}
            BY <2>3 DEF Disconnect
        <3>2. QED
            BY <3>1, EndsStep
    <2>4. CASE Receive
        BY <2>4, ReceiveStep
    <2>5. CASE TooLarge
        BY <2>5, TooLargeStep
    <2>6. CASE Reply
        BY <2>6, ReplyStep
    <2>7. CASE ReplyFails \/ Drop
        <3>1. Ends("closed") /\ "closed" \in {"closed", "left"}
            BY <2>7 DEF ReplyFails, Drop
        <3>2. QED
            BY <3>1, EndsStep
    <2>8. CASE UNCHANGED framingVars
        BY <2>8, FramingStays
    <2>9. QED
        BY <2>1, <2>2, <2>3, <2>4, <2>5, <2>6, <2>7, <2>8, SessionStep DEF FramingStep
<1>3. QED
    BY <1>1, <1>2, PTL DEF Spec

(* However a connection is cut into pieces, every request gets at most one *)
(* answer, in order and with its CSeq, and is taken for the method it is   *)
(* when no body came before it; the buffer overflows only if the request   *)
(* does not fit behind such a body.                                        *)
THEOREM RequestsAnswered == Spec => []AnswersMatch
<1>1. FramingInv => AnswersMatch
    BY DEF FramingInv
<1>2. QED
    BY <1>1, RequestsInLine, PTL

(* A set of natural numbers with 0 and with every successor is all of them.*)
LEMMA AllNumbers ==
    ASSUME NEW S, 0 \in S, \A k \in Nat : k \in S => k + 1 \in S
    PROVE  \A k \in Nat : k \in S
<1> SUFFICES ASSUME Nat \ S # {} PROVE FALSE
    OBVIOUS
<1>1. PICK m : m = Min(Nat \ S)
    OBVIOUS
<1>2. m \in Nat \ S /\ \A y \in Nat \ S : m <= y
    <2> DEFINE T == Nat \ S
    <2>1. T \subseteq Nat /\ T # {}
        OBVIOUS
    <2> HIDE DEF T
    <2>2. Min(T) \in T /\ \A y \in T : Min(T) <= y
        BY <2>1, Least
    <2>3. QED
        BY <1>1, <2>2 DEF T
<1>3. m # 0 /\ m - 1 \in Nat /\ m - 1 + 1 = m
    BY <1>2
<1>4. m - 1 \in S
    BY <1>2, <1>3
<1>5. QED
    BY <1>2, <1>3, <1>4

LEMMA MinIs ==
    ASSUME NEW S, NEW x \in S, S \subseteq Int, \A y \in S : x <= y
    PROVE  Min(S) = x
<1>1. Min(S) \in S /\ \A y \in S : Min(S) <= y
    BY DEF Min
<1>2. PICK m : m = Min(S)
    OBVIOUS
<1>3. m \in Int /\ x \in Int /\ m <= x /\ x <= m
    BY <1>1, <1>2
<1>4. QED
    BY <1>2, <1>3

LEMMA MaxIs ==
    ASSUME NEW S, NEW x \in S, S \subseteq Int, \A y \in S : x >= y
    PROVE  Max(S) = x
<1>1. Max(S) \in S /\ \A y \in S : Max(S) >= y
    BY DEF Max
<1>2. PICK m : m = Max(S)
    OBVIOUS
<1>3. m \in Int /\ x \in Int /\ m <= x /\ x <= m
    BY <1>1, <1>2
<1>4. QED
    BY <1>2, <1>3

(* Whoever only ever goes forward reaches the end: a function that is      *)
(* defined by its own value further on exists.                             *)
Advances(V, m, base, G, ahead) ==
    /\ m \in Nat /\ base \in V
    /\ \A x \in 0 .. m - 1 : ahead[x] \in Nat /\ ahead[x] > x
    /\ \A x \in 0 .. m - 1 : \A v \in V : G[x][v] \in V

Computes(f, V, m, base, G, ahead) ==
    /\ f \in [Nat -> V]
    /\ \A x \in Nat : f[x] = IF x >= m THEN base ELSE G[x][f[ahead[x]]]

LEMMA Descent ==
    ASSUME NEW V, NEW m, NEW base, NEW G, NEW ahead, Advances(V, m, base, G, ahead)
    PROVE  \E f : Computes(f, V, m, base, G, ahead)
<1>0. /\ m \in Nat /\ base \in V
      /\ \A x \in 0 .. m - 1 : ahead[x] \in Nat /\ ahead[x] > x
      /\ \A x \in 0 .. m - 1 : \A v \in V : G[x][v] \in V
    BY DEF Advances
<1> DEFINE Good(f, from) == \A x \in Nat : x >= from =>
               f[x] = IF x >= m THEN base ELSE G[x][f[ahead[x]]]
           S == {k \in Nat : \E f \in [Nat -> V] : Good(f, m - k)}
<1>1. 0 \in S
    <2>1. [x \in Nat |-> base] \in [Nat -> V]
        BY <1>0
    <2>2. Good([x \in Nat |-> base], m - 0)
        BY <1>0
    <2>3. QED
        BY <2>1, <2>2
<1>2. ASSUME NEW k \in Nat, k \in S PROVE k + 1 \in S
    <2>1. PICK f \in [Nat -> V] : Good(f, m - k)
        BY <1>2
    <2>2. CASE m - k <= 0
        <3>1. Good(f, m - (k + 1))
            BY <1>0, <2>1, <2>2
        <3>2. QED
            BY <3>1
    <2>3. CASE m - k > 0
        <3>1. PICK z : z = m - (k + 1)
            OBVIOUS
        <3>2. z \in 0 .. m - 1 /\ z + 1 = m - k /\ z \in Nat
            BY <1>0, <2>3, <3>1
        <3>3. PICK g : g = [f EXCEPT ![z] = G[z][f[ahead[z]]]]
            OBVIOUS
        <3>4. f[ahead[z]] \in V
            BY <1>0, <3>2
        <3>5. g \in [Nat -> V] /\ g[z] = G[z][f[ahead[z]]] /\ \A x \in Nat : x # z => g[x] = f[x]
            BY <1>0, <3>2, <3>3, <3>4
        <3>6. ASSUME NEW x \in Nat, x >= z
              PROVE  g[x] = IF x >= m THEN base ELSE G[x][g[ahead[x]]]
            <4>1. CASE x = z
                <5>1. ahead[z] \in Nat /\ ahead[z] # z /\ ~(z >= m)
                    BY <1>0, <3>2
                <5>2. g[ahead[z]] = f[ahead[z]]
                    BY <3>5, <5>1
                <5>3. QED
                    BY <3>5, <4>1, <5>1, <5>2
            <4>2. CASE x # z
                <5>1. x >= m - k
                    BY <1>0, <3>2, <3>6, <4>2
                <5>2. f[x] = IF x >= m THEN base ELSE G[x][f[ahead[x]]]
                    BY <2>1, <5>1
                <5>3. ~(x >= m) => ahead[x] \in Nat /\ ahead[x] # z
                    BY <1>0, <3>2, <3>6
                <5>4. ~(x >= m) => g[ahead[x]] = f[ahead[x]]
                    BY <3>5, <5>3
                <5>5. g[x] = f[x]
                    BY <3>5, <4>2
                <5>6. QED
                    BY <5>2, <5>4, <5>5
            <4>3. QED
                BY <4>1, <4>2
        <3>7. Good(g, m - (k + 1))
            BY <3>1, <3>6
        <3>8. QED
            BY <3>5, <3>7
    <2>4. QED
        BY <1>0, <2>2, <2>3
<1> HIDE DEF S
<1>3. m \in S
    BY <1>0, <1>1, <1>2, AllNumbers
<1>4. PICK f \in [Nat -> V] : Good(f, m - m)
    BY <1>3 DEF S
<1>5. \A x \in Nat : f[x] = IF x >= m THEN base ELSE G[x][f[ahead[x]]]
    <2> SUFFICES ASSUME NEW x \in Nat
                 PROVE  f[x] = IF x >= m THEN base ELSE G[x][f[ahead[x]]]
        OBVIOUS
    <2>1. x >= m - m
        BY <1>0
    <2>2. QED
        BY <1>4, <2>1
<1>6. QED
    BY <1>5 DEF Computes

-----------------------------------------------------------------------------
(* AccessUnit: where the NAL units of an access unit lie in its bytes.     *)
Octets == 0 .. 255
Entries == [code : {3, 4}, nal : Seq(Octets), zeros : Nat]

Piece(u) == StartCode(u.code) \o u.nal \o Zeros(u.zeros)
Size(u)  == u.code + Len(u.nal) + u.zeros

(* Entry k of us takes the bytes behind B[k] up to B[k + 1].               *)
LaidAt(data, u, at) ==
    /\ \A j \in 1 .. u.code - 1 : data[at + j] = 0
    /\ data[at + u.code] = 1
    /\ \A j \in 1 .. Len(u.nal) : data[at + u.code + j] = u.nal[j]
    /\ \A j \in 1 .. u.zeros : data[at + u.code + Len(u.nal) + j] = 0

Laid(data, us, B) ==
    /\ data \in Seq(Octets) /\ us \in Seq(Entries)
    /\ B \in [1 .. Len(us) + 1 -> Nat] /\ B[1] = 0 /\ B[Len(us) + 1] = Len(data)
    /\ \A k \in 1 .. Len(us) : B[k + 1] = B[k] + Size(us[k]) /\ LaidAt(data, us[k], B[k])

LEMMA EntryTypes ==
    ASSUME NEW u \in Entries
    PROVE  /\ u.code \in {3, 4} /\ u.nal \in Seq(Octets) /\ Len(u.nal) \in Nat
           /\ u.zeros \in Nat /\ Size(u) \in Nat /\ u.code \in Nat
<1>1. u.code \in {3, 4} /\ u.nal \in Seq(Octets) /\ u.zeros \in Nat
    BY DEF Entries
<1>2. Len(u.nal) \in Nat
    BY <1>1
<1>3. u.code \in Nat
    BY <1>1
<1>4. Size(u) \in Nat
    BY <1>1, <1>2, <1>3 DEF Size
<1>5. QED
    BY <1>1, <1>2, <1>3, <1>4

(* So many zeros.                                                          *)
LEMMA ZerosAre ==
    ASSUME NEW n \in Nat, NEW z, z = Zeros(n)
    PROVE  z \in Seq(Octets) /\ Len(z) = n /\ \A j \in 1 .. n : z[j] = 0
<1>1. z \in [1 .. n -> Octets] /\ \A j \in 1 .. n : z[j] = 0
    BY DEF Zeros, Octets
<1>2. QED
    BY <1>1

LEMMA PieceLaid ==
    ASSUME NEW u \in Entries, NEW data, data = Piece(u)
    PROVE  data \in Seq(Octets) /\ Len(data) = Size(u) /\ LaidAt(data, u, 0)
<1>1. /\ u.code \in {3, 4} /\ u.nal \in Seq(Octets) /\ Len(u.nal) \in Nat
      /\ u.zeros \in Nat /\ u.code \in Nat
    BY EntryTypes
<1>2. PICK z : z = Zeros(u.code - 1)
    OBVIOUS
<1>3. z \in Seq(Octets) /\ Len(z) = u.code - 1 /\ \A j \in 1 .. u.code - 1 : z[j] = 0
    <2>1. u.code - 1 \in Nat
        BY <1>1
    <2>2. QED
        BY <1>2, <2>1, ZerosAre
<1>4. PICK s : s = StartCode(u.code)
    OBVIOUS
<1>5. /\ s \in Seq(Octets) /\ Len(s) = u.code /\ s[u.code] = 1
      /\ \A j \in 1 .. u.code - 1 : s[j] = 0
    <2>1. s = Append(z, 1) /\ 1 \in Octets
        BY <1>2, <1>4 DEF StartCode, Octets
    <2>2. s \in Seq(Octets) /\ Len(s) = Len(z) + 1
        BY <1>3, <2>1
    <2>3. Len(s) = u.code
        BY <1>1, <1>3, <2>2
    <2>4. s[Len(z) + 1] = 1 /\ \A j \in 1 .. Len(z) : s[j] = z[j]
        BY <1>3, <2>1
    <2>5. QED
        BY <1>1, <1>3, <2>2, <2>3, <2>4
<1>6. PICK t : t = Zeros(u.zeros)
    OBVIOUS
<1>7. t \in Seq(Octets) /\ Len(t) = u.zeros /\ \A j \in 1 .. u.zeros : t[j] = 0
    BY <1>1, <1>6, ZerosAre
<1>8. PICK sn : sn = s \o u.nal
    OBVIOUS
<1>9. /\ sn \in Seq(Octets) /\ Len(sn) = u.code + Len(u.nal)
      /\ \A i \in 1 .. u.code : sn[i] = s[i]
      /\ \A i \in 1 .. Len(u.nal) : sn[u.code + i] = u.nal[i]
    <2>1. PICK nal \in Seq(Octets) : nal = u.nal
        BY <1>1
    <2>2. s \in Seq(Octets) /\ sn = s \o nal
        BY <1>5, <1>8, <2>1
    <2>3. /\ sn \in Seq(Octets) /\ Len(sn) = Len(s) + Len(nal)
          /\ \A i \in 1 .. Len(s) : sn[i] = s[i]
          /\ \A i \in 1 .. Len(nal) : sn[Len(s) + i] = nal[i]
        BY <2>2, JoinedUp
    <2>4. QED
        BY <1>5, <2>1, <2>3
<1>10. data = sn \o t
    BY <1>4, <1>6, <1>8 DEF Piece
<1>11. /\ data \in Seq(Octets) /\ Len(data) = Len(sn) + Len(t)
       /\ \A i \in 1 .. Len(sn) : data[i] = sn[i]
       /\ \A i \in 1 .. Len(t) : data[Len(sn) + i] = t[i]
    BY <1>7, <1>9, <1>10, JoinedUp
<1>12. Len(data) = Size(u)
    BY <1>1, <1>7, <1>9, <1>11 DEF Size
<1>13. \A j \in 1 .. u.code : data[j] = s[j]
    BY <1>1, <1>9, <1>11
<1>14. \A j \in 1 .. u.code - 1 : data[0 + j] = 0
    BY <1>1, <1>5, <1>13
<1>15. data[0 + u.code] = 1
    BY <1>1, <1>5, <1>13
<1>16. \A j \in 1 .. Len(u.nal) : data[0 + u.code + j] = u.nal[j]
    <2> SUFFICES ASSUME NEW j \in 1 .. Len(u.nal) PROVE data[0 + u.code + j] = u.nal[j]
        OBVIOUS
    <2>1. u.code + j \in 1 .. Len(sn) /\ 0 + u.code + j = u.code + j
        BY <1>1, <1>9
    <2>2. QED
        BY <1>9, <1>11, <2>1
<1>17. \A j \in 1 .. u.zeros : data[0 + u.code + Len(u.nal) + j] = 0
    <2> SUFFICES ASSUME NEW j \in 1 .. u.zeros
                 PROVE  data[0 + u.code + Len(u.nal) + j] = 0
        OBVIOUS
    <2>1. 0 + u.code + Len(u.nal) + j = Len(sn) + j
        BY <1>1, <1>9
    <2>2. QED
        BY <1>7, <1>11, <2>1
<1>18. QED
    BY <1>11, <1>12, <1>14, <1>15, <1>16, <1>17 DEF LaidAt

(* The places are in order, and within the bytes.                          *)
LEMMA LaidInOrder ==
    ASSUME NEW data, NEW us, NEW B, Laid(data, us, B),
           NEW j \in 1 .. Len(us) + 1, NEW k \in 1 .. Len(us) + 1, j <= k
    PROVE  B[j] <= B[k]
<1>1. PICK n : n = Len(us)
    OBVIOUS
<1>2. n \in Nat /\ us \in Seq(Entries) /\ B \in [1 .. n + 1 -> Nat]
    BY <1>1 DEF Laid
<1> DEFINE S == {d \in Nat : j + d <= n + 1 => B[j] <= B[j + d]}
<1>3. 0 \in S
    <2>1. j + 0 = j /\ B[j] \in Nat
        BY <1>1, <1>2
    <2>2. QED
        BY <2>1
<1>4. ASSUME NEW d \in Nat, d \in S PROVE d + 1 \in S
    <2> SUFFICES ASSUME j + (d + 1) <= n + 1 PROVE B[j] <= B[j + (d + 1)]
        OBVIOUS
    <2>1. j + d \in 1 .. n /\ j + (d + 1) = j + d + 1 /\ j + d \in 1 .. n + 1
        BY <1>1, <1>2
    <2>2. B[j] <= B[j + d]
        BY <1>4, <2>1
    <2>3. B[j + d + 1] = B[j + d] + Size(us[j + d])
        BY <1>1, <2>1 DEF Laid
    <2>4. Size(us[j + d]) \in Nat
        <3>1. us[j + d] \in Entries
            BY <1>1, <1>2, <2>1
        <3>2. QED
            BY <3>1, EntryTypes
    <2>5. B[j] \in Nat /\ B[j + d] \in Nat
        BY <1>1, <1>2, <2>1
    <2>6. QED
        BY <2>1, <2>2, <2>3, <2>4, <2>5
<1> HIDE DEF S
<1>5. \A d \in Nat : d \in S
    BY <1>3, <1>4, AllNumbers
<1>6. k - j \in Nat /\ j + (k - j) = k /\ k <= n + 1
    BY <1>1, <1>2
<1>7. k - j \in S
    BY <1>5, <1>6
<1>8. QED
    BY <1>6, <1>7 DEF S

LEMMA LaidInside ==
    ASSUME NEW data, NEW us, NEW B, Laid(data, us, B), NEW k \in 1 .. Len(us) + 1
    PROVE  B[k] \in Nat /\ B[k] <= Len(data)
<1>1. Len(us) \in Nat /\ B \in [1 .. Len(us) + 1 -> Nat] /\ B[Len(us) + 1] = Len(data)
    BY DEF Laid
<1>2. Len(us) + 1 \in 1 .. Len(us) + 1 /\ k <= Len(us) + 1
    BY <1>1
<1>3. B[k] <= B[Len(us) + 1]
    BY <1>2, LaidInOrder
<1>4. QED
    BY <1>1, <1>3

(* What is laid out stays so when the bytes are copied elsewhere.          *)
LEMMA Shifted ==
    ASSUME NEW u \in Entries, NEW from, NEW to, NEW at \in Nat, NEW by \in Nat,
           LaidAt(from, u, at),
           \A i \in at + 1 .. at + Size(u) : to[by + i] = from[i]
    PROVE  LaidAt(to, u, by + at)
<1>1. /\ u.code \in {3, 4} /\ u.nal \in Seq(Octets) /\ Len(u.nal) \in Nat
      /\ u.zeros \in Nat /\ u.code \in Nat /\ Size(u) \in Nat
    BY EntryTypes
<1>2. PICK c \in Nat, l \in Nat, z \in Nat : c = u.code /\ l = Len(u.nal) /\ z = u.zeros
    BY <1>1
<1>3. Size(u) = c + l + z /\ c >= 3
    BY <1>1, <1>2 DEF Size
<1>4. ASSUME NEW j \in 1 .. c + l + z PROVE to[by + at + j] = from[at + j]
    <2>1. at + j \in at + 1 .. at + Size(u) /\ by + (at + j) = by + at + j
        BY <1>3
    <2>2. QED
        BY <2>1
<1>5. \A j \in 1 .. c - 1 : to[by + at + j] = 0
    <2> SUFFICES ASSUME NEW j \in 1 .. c - 1 PROVE to[by + at + j] = 0
        OBVIOUS
    <2>1. j \in 1 .. c + l + z
        BY <1>3
    <2>2. QED
        BY <1>2, <1>4, <2>1 DEF LaidAt
<1>6. to[by + at + c] = 1
    <2>1. c \in 1 .. c + l + z
        BY <1>3
    <2>2. QED
        BY <1>2, <1>4, <2>1 DEF LaidAt
<1>7. \A j \in 1 .. l : to[by + at + c + j] = u.nal[j]
    <2> SUFFICES ASSUME NEW j \in 1 .. l PROVE to[by + at + c + j] = u.nal[j]
        OBVIOUS
    <2>1. /\ c + j \in 1 .. c + l + z /\ by + at + (c + j) = by + at + c + j
          /\ at + (c + j) = at + c + j
        OBVIOUS
    <2>2. from[at + c + j] = u.nal[j]
        BY <1>2 DEF LaidAt
    <2>3. QED
        BY <1>4, <2>1, <2>2
<1>8. \A j \in 1 .. z : to[by + at + c + l + j] = 0
    <2> SUFFICES ASSUME NEW j \in 1 .. z PROVE to[by + at + c + l + j] = 0
        OBVIOUS
    <2>1. /\ c + l + j \in 1 .. c + l + z /\ by + at + (c + l + j) = by + at + c + l + j
          /\ at + (c + l + j) = at + c + l + j
        OBVIOUS
    <2>2. from[at + c + l + j] = 0
        BY <1>2 DEF LaidAt
    <2>3. QED
        BY <1>4, <2>1, <2>2
<1>9. QED
    BY <1>2, <1>5, <1>6, <1>7, <1>8 DEF LaidAt

LEMMA LaidJoined ==
    ASSUME NEW us, NEW vs, NEW data, NEW more, NEW B, NEW C,
           Laid(data, us, B), Laid(more, vs, C)
    PROVE  \E D : /\ Laid(data \o more, us \o vs, D)
                  /\ \A k \in 1 .. Len(us) + 1 : D[k] = B[k]
                  /\ \A k \in 1 .. Len(vs) + 1 : D[Len(us) + k] = Len(data) + C[k]
<1>1. PICK n, m, l : n = Len(us) /\ m = Len(vs) /\ l = Len(data)
    OBVIOUS
<1>2. /\ n \in Nat /\ m \in Nat /\ l \in Nat /\ data \in Seq(Octets)
      /\ more \in Seq(Octets) /\ us \in Seq(Entries) /\ vs \in Seq(Entries)
      /\ Len(more) \in Nat
      /\ B \in [1 .. n + 1 -> Nat] /\ C \in [1 .. m + 1 -> Nat]
      /\ B[1] = 0 /\ C[1] = 0 /\ B[n + 1] = l /\ C[m + 1] = Len(more)
    BY <1>1 DEF Laid
<1>3. PICK both : both = data \o more
    OBVIOUS
<1>4. /\ both \in Seq(Octets) /\ Len(both) = l + Len(more)
      /\ \A i \in 1 .. l : both[i] = data[i]
      /\ \A i \in 1 .. Len(more) : both[l + i] = more[i]
    BY <1>1, <1>2, <1>3, JoinedUp
<1>5. PICK ws : ws = us \o vs
    OBVIOUS
<1>6. /\ ws \in Seq(Entries) /\ Len(ws) = n + m
      /\ \A i \in 1 .. n : ws[i] = us[i]
      /\ \A i \in 1 .. m : ws[n + i] = vs[i]
    BY <1>1, <1>2, <1>5, JoinedUp
<1>7. PICK D : D = [k \in 1 .. n + m + 1 |-> IF k <= n + 1 THEN B[k] ELSE l + C[k - n]]
    OBVIOUS
<1>8. \A k \in 1 .. n + 1 : D[k] = B[k]
    BY <1>2, <1>7
<1>9. ASSUME NEW k \in 1 .. m + 1 PROVE D[n + k] = l + C[k]
    <2>1. CASE k = 1
        <3>1. n + 1 \in 1 .. n + 1 /\ n + k = n + 1
            BY <1>2, <2>1
        <3>2. QED
            BY <1>2, <1>8, <2>1, <3>1
    <2>2. CASE k # 1
        <3>1. PICK j : j = n + k
            OBVIOUS
        <3>2. ~(j <= n + 1) /\ j \in 1 .. n + m + 1 /\ j - n = k
            BY <1>2, <2>2, <3>1
        <3>3. D[j] = l + C[j - n]
            BY <1>7, <3>2
        <3>4. QED
            BY <3>1, <3>2, <3>3
    <2>3. QED
        BY <2>1, <2>2
<1>10. D \in [1 .. n + m + 1 -> Nat]
    <2>1. ASSUME NEW k \in 1 .. n + m + 1
          PROVE  (IF k <= n + 1 THEN B[k] ELSE l + C[k - n]) \in Nat
        <3>1. CASE k <= n + 1
            <4>1. k \in 1 .. n + 1
                BY <1>2, <3>1
            <4>2. QED
                BY <1>2, <3>1, <4>1
        <3>2. CASE ~(k <= n + 1)
            <4>1. k - n \in 1 .. m + 1
                BY <1>2, <3>2
            <4>2. C[k - n] \in Nat
                BY <1>2, <4>1
            <4>3. QED
                BY <1>2, <3>2, <4>2
        <3>3. QED
            BY <3>1, <3>2
    <2>2. QED
        BY <1>7, <2>1
<1>11. D[1] = 0 /\ D[n + m + 1] = Len(both)
    <2>1. 1 \in 1 .. n + 1 /\ m + 1 \in 1 .. m + 1 /\ n + (m + 1) = n + m + 1
        BY <1>2
    <2>2. D[n + (m + 1)] = l + C[m + 1]
        BY <1>9, <2>1
    <2>3. QED
        BY <1>2, <1>4, <1>8, <2>1, <2>2
<1>12. ASSUME NEW k \in 1 .. n
       PROVE  D[k + 1] = D[k] + Size(ws[k]) /\ LaidAt(both, ws[k], D[k])
    <2>1. k \in 1 .. n + 1 /\ k + 1 \in 1 .. n + 1
        BY <1>2
    <2>2. B[k + 1] = B[k] + Size(us[k]) /\ LaidAt(data, us[k], B[k])
        BY <1>1 DEF Laid
    <2>3. us[k] \in Entries
        BY <1>1, <1>2
    <2>4. B[k] \in Nat /\ B[k + 1] \in Nat /\ Size(us[k]) \in Nat
        BY <1>2, <2>1, <2>3, EntryTypes
    <2>5. B[k + 1] <= l
        BY <1>1, <2>1, LaidInside
    <2>6. \A i \in B[k] + 1 .. B[k] + Size(us[k]) : both[0 + i] = data[i]
        <3> SUFFICES ASSUME NEW i \in B[k] + 1 .. B[k] + Size(us[k])
                     PROVE  both[0 + i] = data[i]
            OBVIOUS
        <3>1. i \in 1 .. l /\ 0 + i = i
            BY <1>2, <2>2, <2>4, <2>5
        <3>2. QED
            BY <1>4, <3>1
    <2>7. LaidAt(both, us[k], 0 + B[k])
        BY <2>2, <2>3, <2>4, <2>6, Shifted
    <2>8. 0 + B[k] = B[k]
        BY <2>4
    <2>9. QED
        BY <1>6, <1>8, <2>1, <2>2, <2>7, <2>8
<1>13. ASSUME NEW k \in 1 .. m
       PROVE  /\ D[n + k + 1] = D[n + k] + Size(ws[n + k])
              /\ LaidAt(both, ws[n + k], D[n + k])
    <2>1. k \in 1 .. m + 1 /\ k + 1 \in 1 .. m + 1 /\ n + (k + 1) = n + k + 1
        BY <1>2
    <2>2. C[k + 1] = C[k] + Size(vs[k]) /\ LaidAt(more, vs[k], C[k])
        BY <1>1 DEF Laid
    <2>3. vs[k] \in Entries
        BY <1>1, <1>2
    <2>4. C[k] \in Nat /\ C[k + 1] \in Nat /\ Size(vs[k]) \in Nat
        BY <1>2, <2>1, <2>3, EntryTypes
    <2>5. C[k + 1] <= Len(more)
        BY <1>1, <2>1, LaidInside
    <2>6. \A i \in C[k] + 1 .. C[k] + Size(vs[k]) : both[l + i] = more[i]
        <3> SUFFICES ASSUME NEW i \in C[k] + 1 .. C[k] + Size(vs[k])
                     PROVE  both[l + i] = more[i]
            OBVIOUS
        <3>1. i \in 1 .. Len(more)
            BY <1>2, <2>2, <2>4, <2>5
        <3>2. QED
            BY <1>4, <3>1
    <2>7. LaidAt(both, vs[k], l + C[k])
        BY <1>2, <2>2, <2>3, <2>4, <2>6, Shifted
    <2>8. D[n + k] = l + C[k] /\ D[n + k + 1] = l + C[k + 1] /\ ws[n + k] = vs[k]
        BY <1>6, <1>9, <2>1
    <2>9. l + C[k + 1] = l + C[k] + Size(vs[k])
        BY <1>2, <2>2, <2>4
    <2>10. QED
        BY <2>7, <2>8, <2>9
<1>14. ASSUME NEW k \in 1 .. n + m
       PROVE  D[k + 1] = D[k] + Size(ws[k]) /\ LaidAt(both, ws[k], D[k])
    <2>1. CASE k <= n
        <3>1. k \in 1 .. n
            BY <1>2, <2>1
        <3>2. QED
            BY <1>12, <3>1
    <2>2. CASE ~(k <= n)
        <3>1. PICK j \in 1 .. m : k = n + j
            <4>1. k - n \in 1 .. m /\ k = n + (k - n)
                BY <1>2, <2>2
            <4>2. QED
                BY <4>1
        <3>2. QED
            BY <1>13, <3>1
    <2>3. QED
        BY <2>1, <2>2
<1>15. Laid(both, ws, D)
    BY <1>4, <1>6, <1>10, <1>11, <1>14 DEF Laid
<1>16. QED
    BY <1>1, <1>3, <1>5, <1>8, <1>9, <1>15

(* FlattenSeq is what its definition says, a prefix longer at each step.   *)
Flattens(f, seqs, n, D) ==
    /\ f \in [1 .. n -> Seq(D)] /\ f[1] = seqs[1] /\ FlattenSeq(seqs) = f[n]
    /\ \A i \in 1 .. n - 1 : f[i + 1] = f[i] \o seqs[i + 1]

LEMMA FlattenSteps ==
    ASSUME NEW D, NEW seqs \in Seq(Seq(D)), NEW n \in Nat \ {0}, n = Len(seqs)
    PROVE  \E f : Flattens(f, seqs, n, D)
<1> DEFINE Step(g, i) == IF i = 1 THEN seqs[i] ELSE g[i - 1] \o seqs[i]
           IsFlat(g)  == g = [i \in 1 .. Len(seqs) |-> Step(g, i)]
<1>1. \A i \in 1 .. n : seqs[i] \in Seq(D)
    OBVIOUS
<1>2. PICK g \in [1 .. n -> Seq(D)] : IsFlat(g)
    <2>1. PICK V, m, base, ahead, G :
              /\ V = Seq(D) /\ m = n - 1 /\ base = seqs[1]
              /\ ahead = [x \in 0 .. n - 2 |-> x + 1]
              /\ G = [x \in 0 .. n - 2 |-> [v \in Seq(D) |-> v \o seqs[n - x]]]
        OBVIOUS
    <2>2. m \in Nat /\ base \in V /\ m - 1 = n - 2
        BY <1>1, <2>1
    <2>3. \A x \in 0 .. m - 1 : ahead[x] \in Nat /\ ahead[x] > x
        BY <2>1, <2>2
    <2>4. \A x \in 0 .. m - 1 : \A v \in V : G[x][v] = v \o seqs[n - x] /\ G[x][v] \in V
        <3> SUFFICES ASSUME NEW x \in 0 .. m - 1, NEW v \in V
                     PROVE  G[x][v] = v \o seqs[n - x] /\ G[x][v] \in V
            OBVIOUS
        <3>1. n - x \in 1 .. n /\ x \in 0 .. n - 2
            BY <2>1, <2>2
        <3>2. G[x][v] = v \o seqs[n - x]
            BY <2>1, <3>1
        <3>3. v \in Seq(D) /\ seqs[n - x] \in Seq(D)
            BY <1>1, <2>1, <3>1
        <3>4. QED
            BY SMTT(30), <2>1, <3>2, <3>3
    <2>5. PICK F \in [Nat -> V] :
              \A x \in Nat : F[x] = IF x >= m THEN base ELSE G[x][F[ahead[x]]]
        <3>1. Advances(V, m, base, G, ahead)
            BY <2>2, <2>3, <2>4 DEF Advances
        <3>2. PICK F : Computes(F, V, m, base, G, ahead)
            BY <3>1, Descent
        <3>3. QED
            BY <3>2 DEF Computes
    <2>6. PICK g : g = [i \in 1 .. n |-> F[n - i]]
        OBVIOUS
    <2>7. \A i \in 1 .. n : n - i \in Nat /\ g[i] = F[n - i] /\ g[i] \in Seq(D)
        BY <2>1, <2>5, <2>6
    <2>8. ASSUME NEW i \in 1 .. n PROVE g[i] = Step(g, i)
        <3>1. CASE i = 1
            <4>1. n - i \in Nat /\ n - i >= m
                BY <2>1, <3>1
            <4>2. F[n - i] = base
                BY <2>5, <4>1
            <4>3. QED
                BY <2>1, <2>7, <3>1, <4>2
        <3>2. CASE i # 1
            <4>1. /\ n - i \in Nat /\ ~(n - i >= m) /\ n - i \in 0 .. m - 1
                  /\ n - i + 1 = n - (i - 1) /\ n - (n - i) = i /\ i - 1 \in 1 .. n
                BY <2>1, <3>2
            <4>2. ahead[n - i] = n - (i - 1)
                BY <2>1, <2>2, <4>1
            <4>3. F[n - i] = G[n - i][F[n - (i - 1)]]
                BY <2>5, <4>1, <4>2
            <4>4. F[n - (i - 1)] = g[i - 1] /\ g[i - 1] \in V
                BY <2>1, <2>7, <4>1
            <4>5. F[n - i] = g[i - 1] \o seqs[i]
                BY <2>4, <4>1, <4>3, <4>4
            <4>6. QED
                BY <2>7, <3>2, <4>5
        <3>3. QED
            BY <3>1, <3>2
    <2>9. g \in [1 .. n -> Seq(D)]
        BY <2>6, <2>7
    <2>10. IsFlat(g)
        BY <2>6, <2>8
    <2>11. QED
        BY <2>9, <2>10
<1>3. PICK f : f = CHOOSE h : IsFlat(h)
    OBVIOUS
<1>4. IsFlat(f)
    BY <1>2, <1>3
<1>5. FlattenSeq(seqs) = f[n]
    BY <1>3 DEF FlattenSeq
<1>6. \A i \in 1 .. n : f[i] = Step(f, i)
    <2> SUFFICES ASSUME NEW i \in 1 .. n PROVE f[i] = Step(f, i)
        OBVIOUS
    <2>1. f = [j \in 1 .. n |-> Step(f, j)]
        BY <1>4
    <2> HIDE DEF Step, IsFlat
    <2>2. [j \in 1 .. n |-> Step(f, j)][i] = Step(f, i)
        OBVIOUS
    <2>3. QED
        BY <2>1, <2>2
<1>7. f[1] = seqs[1]
    BY <1>6
<1>8. \A i \in 1 .. n - 1 : f[i + 1] = f[i] \o seqs[i + 1]
    <2> SUFFICES ASSUME NEW i \in 1 .. n - 1 PROVE f[i + 1] = f[i] \o seqs[i + 1]
        OBVIOUS
    <2>1. PICK j \in 1 .. n : j = i + 1 /\ j # 1 /\ j - 1 = i
        OBVIOUS
    <2>2. f[j] = f[j - 1] \o seqs[j]
        BY <1>6, <2>1
    <2>3. QED
        BY <2>1, <2>2
<1>9. \A i \in 1 .. n : f[i] \in Seq(D)
    <2> DEFINE S == {k \in Nat : k + 1 <= n => f[k + 1] \in Seq(D)}
    <2>1. 0 \in S
        BY <1>1, <1>7
    <2>2. ASSUME NEW k \in Nat, k \in S PROVE k + 1 \in S
        <3> SUFFICES ASSUME k + 1 + 1 <= n PROVE f[k + 1 + 1] \in Seq(D)
            OBVIOUS
        <3>1. k + 1 \in 1 .. n - 1 /\ k + 1 + 1 \in 1 .. n
            OBVIOUS
        <3>2. f[k + 1] \in Seq(D) /\ seqs[k + 1 + 1] \in Seq(D)
            BY <1>1, <2>2, <3>1
        <3>3. f[k + 1 + 1] = f[k + 1] \o seqs[k + 1 + 1]
            BY <1>8, <3>1
        <3>4. QED
            BY <3>2, <3>3
    <2> HIDE DEF S
    <2>3. \A k \in Nat : k \in S
        BY <2>1, <2>2, AllNumbers
    <2> SUFFICES ASSUME NEW i \in 1 .. n PROVE f[i] \in Seq(D)
        OBVIOUS
    <2>4. i - 1 \in Nat /\ i - 1 + 1 = i /\ i <= n
        OBVIOUS
    <2>5. QED
        BY <2>3, <2>4 DEF S
<1>10. f \in [1 .. n -> Seq(D)]
    <2>1. f = [i \in 1 .. n |-> Step(f, i)]
        BY <1>4
    <2>2. DOMAIN f = 1 .. n /\ f = [i \in DOMAIN f |-> f[i]]
        BY <2>1
    <2>3. QED
        BY <1>9, <2>2
<1>11. QED
    BY <1>5, <1>7, <1>8, <1>10 DEF Flattens

LEMMA Longer ==
    ASSUME NEW D, NEW s \in Seq(D), NEW i \in 1 .. Len(s) - 1
    PROVE  SubSeq(s, 1, i + 1) = SubSeq(s, 1, i) \o <<s[i + 1]>>
<1>1. PICK t, p, q : t = SubSeq(s, 1, i) /\ q = <<s[i + 1]>> /\ p = SubSeq(s, 1, i + 1)
    OBVIOUS
<1>2. s[i + 1] \in D /\ i + 1 \in 1 .. Len(s) /\ i \in Nat
    OBVIOUS
<1>3. t \in Seq(D) /\ Len(t) = i /\ \A k \in 1 .. i : t[k] = s[k]
    BY <1>1
<1>4. q \in Seq(D) /\ Len(q) = 1 /\ q[1] = s[i + 1]
    BY <1>1, <1>2
<1>5. p \in Seq(D) /\ Len(p) = i + 1 /\ \A k \in 1 .. i + 1 : p[k] = s[k]
    BY <1>1, <1>2
<1>6. PICK tq : tq = t \o q
    OBVIOUS
<1>7. /\ tq \in Seq(D) /\ Len(tq) = i + 1
      /\ \A k \in 1 .. Len(t) : tq[k] = t[k]
      /\ \A k \in 1 .. Len(q) : tq[Len(t) + k] = q[k]
    <2>1. t \in Seq(D) /\ q \in Seq(D) /\ tq = t \o q
        BY <1>3, <1>4, <1>6
    <2>2. /\ tq \in Seq(D) /\ Len(tq) = Len(t) + Len(q)
          /\ \A k \in 1 .. Len(t) : tq[k] = t[k]
          /\ \A k \in 1 .. Len(q) : tq[Len(t) + k] = q[k]
        BY <2>1, JoinedUp
    <2>3. QED
        BY <1>3, <1>4, <2>2
<1>8. \A k \in 1 .. i + 1 : tq[k] = p[k]
    <2> SUFFICES ASSUME NEW k \in 1 .. i + 1 PROVE tq[k] = p[k]
        OBVIOUS
    <2>1. CASE k = i + 1
        <3>1. tq[i + 1] = s[i + 1]
            BY <1>2, <1>3, <1>4, <1>7
        <3>2. QED
            BY <1>5, <2>1, <3>1
    <2>2. CASE k # i + 1
        <3>1. k \in 1 .. i
            BY <1>2, <2>2
        <3>2. QED
            BY <1>3, <1>5, <1>7, <3>1
    <2>3. QED
        BY <2>1, <2>2
<1>9. tq = p
    BY <1>2, <1>5, <1>7, <1>8
<1>10. QED
    BY <1>1, <1>6, <1>9

LEMMA OneLaid ==
    ASSUME NEW u \in Entries
    PROVE  Laid(Piece(u), <<u>>, <<0, Size(u)>>)
<1>1. PICK data, B, us : data = Piece(u) /\ B = <<0, Size(u)>> /\ us = <<u>>
    OBVIOUS
<1>2. data \in Seq(Octets) /\ Len(data) = Size(u) /\ LaidAt(data, u, 0)
    BY <1>1, PieceLaid
<1>3. Size(u) \in Nat
    BY EntryTypes
<1>4. us \in Seq(Entries) /\ Len(us) = 1 /\ us[1] = u
    BY <1>1
<1>5. B \in [1 .. 2 -> Nat] /\ B[1] = 0 /\ B[2] = Size(u)
    BY <1>1, <1>3
<1>6. B[1 + 1] = B[1] + Size(u)
    BY <1>3, <1>5
<1>7. Laid(data, us, B)
    BY <1>2, <1>4, <1>5, <1>6 DEF Laid
<1>8. QED
    BY <1>1, <1>7

(* The bytes of an access unit are its entries, one behind the other.      *)
LEMMA StreamLaid ==
    ASSUME NEW us \in Seq(Entries), us # <<>>
    PROVE  \E B : Laid(Stream(us), us, B)
<1>1. PICK n \in Nat \ {0} : n = Len(us)
    OBVIOUS
<1>2. PICK seqs : seqs = [i \in DOMAIN us |-> Piece(us[i])]
    OBVIOUS
<1>3. \A i \in 1 .. n : us[i] \in Entries /\ seqs[i] = Piece(us[i]) /\ seqs[i] \in Seq(Octets)
    <2> SUFFICES ASSUME NEW i \in 1 .. n
                 PROVE  us[i] \in Entries /\ seqs[i] = Piece(us[i]) /\ seqs[i] \in Seq(Octets)
        OBVIOUS
    <2>1. us[i] \in Entries /\ seqs[i] = Piece(us[i])
        BY <1>1, <1>2
    <2>2. QED
        BY <2>1, PieceLaid
<1>4. seqs \in Seq(Seq(Octets)) /\ Len(seqs) = n
    <2>1. DOMAIN seqs = 1 .. n /\ seqs = [i \in 1 .. n |-> seqs[i]]
        BY <1>1, <1>2
    <2>2. seqs \in [1 .. n -> Seq(Octets)]
        BY <1>3, <2>1
    <2>3. QED
        BY <2>2
<1>5. PICK f \in [1 .. n -> Seq(Octets)] :
          /\ f[1] = seqs[1] /\ FlattenSeq(seqs) = f[n]
          /\ \A i \in 1 .. n - 1 : f[i + 1] = f[i] \o seqs[i + 1]
    <2>1. n = Len(seqs) /\ seqs \in Seq(Seq(Octets))
        BY <1>4
    <2>2. PICK f : Flattens(f, seqs, n, Octets)
        BY <2>1, FlattenSteps
    <2>3. QED
        BY <2>2 DEF Flattens
<1>6. Stream(us) = f[n]
    BY <1>2, <1>5 DEF Stream, Piece
<1> DEFINE Lead(k) == SubSeq(us, 1, k)
           S == {k \in Nat : k + 1 <= n => \E B : Laid(f[k + 1], Lead(k + 1), B)}
<1>7. 0 \in S
    <2>1. Lead(1) = <<us[1]>>
        <3>1. PICK h, q : h = Lead(1) /\ q = <<us[1]>>
            OBVIOUS
        <3>2. h \in Seq(Entries) /\ Len(h) = 1 /\ h[1] = us[1]
            BY <1>1, <3>1
        <3>3. q \in Seq(Entries) /\ Len(q) = 1 /\ q[1] = us[1]
            BY <1>1, <1>3, <3>1
        <3>4. h = q
            BY <3>2, <3>3
        <3>5. QED
            BY <3>1, <3>4
    <2>2. us[1] \in Entries /\ f[1] = Piece(us[1])
        BY <1>1, <1>3, <1>5
    <2>3. Laid(f[1], Lead(1), <<0, Size(us[1])>>)
        BY <2>1, <2>2, OneLaid
    <2> HIDE DEF Lead
    <2>4. QED
        BY <2>3
<1>8. ASSUME NEW k \in Nat, k \in S PROVE k + 1 \in S
    <2> SUFFICES ASSUME k + 1 + 1 <= n PROVE \E B : Laid(f[k + 1 + 1], Lead(k + 1 + 1), B)
        OBVIOUS
    <2>1. PICK i \in 1 .. n - 1, j \in 1 .. n : i = k + 1 /\ j = i + 1
        BY <1>1
    <2>2. PICK B : Laid(f[i], Lead(i), B)
        <3>1. k + 1 <= n
            BY <1>1, <2>1
        <3>2. QED
            BY <1>8, <2>1, <3>1
    <2>3. us[j] \in Entries /\ f[j] = f[i] \o Piece(us[j])
        BY <1>3, <1>5, <2>1
    <2>4. Laid(Piece(us[j]), <<us[j]>>, <<0, Size(us[j])>>)
        BY <2>3, OneLaid
    <2>5. Lead(j) = Lead(i) \o <<us[j]>>
        <3>1. i \in 1 .. Len(us) - 1 /\ j = i + 1 /\ us \in Seq(Entries)
            BY <1>1, <2>1
        <3>2. QED
            BY <3>1, Longer
    <2> HIDE DEF Lead, S
    <2>6. \E D : Laid(f[i] \o Piece(us[j]), Lead(i) \o <<us[j]>>, D)
        BY <2>2, <2>4, LaidJoined
    <2>7. QED
        BY <2>1, <2>3, <2>5, <2>6
<1> HIDE DEF S
<1>9. n - 1 \in S
    <2>1. \A k \in Nat : k \in S
        BY <1>7, <1>8, AllNumbers
    <2>2. QED
        BY <2>1
<1>10. PICK B : Laid(f[n - 1 + 1], Lead(n - 1 + 1), B)
    BY <1>9 DEF S
<1>11. n - 1 + 1 = n /\ Lead(n) = us
    BY <1>1
<1>12. QED
    BY <1>6, <1>10, <1>11

(* Entry k: the byte its NAL unit begins behind, and the one it ends with. *)
HeadOf(us, B, k) == B[k] + us[k].code
TailOf(us, B, k) == B[k] + us[k].code + Len(us[k].nal)

LEMMA LaidTypes ==
    ASSUME NEW data, NEW us, NEW B, Laid(data, us, B), NalUnits(us), NEW k \in 1 .. Len(us)
    PROVE  /\ us[k] \in Entries /\ us[k].code \in {3, 4} /\ us[k].nal \in Seq(Octets)
           /\ Len(us[k].nal) \in Nat \ {0} /\ us[k].zeros \in Nat
           /\ us[k].nal[Len(us[k].nal)] # 0
           /\ B[k] \in Nat /\ B[k + 1] \in Nat /\ B[k + 1] <= Len(data)
           /\ HeadOf(us, B, k) \in Nat /\ TailOf(us, B, k) \in Nat
           /\ B[k] + 3 <= HeadOf(us, B, k)
           /\ HeadOf(us, B, k) < TailOf(us, B, k)
           /\ TailOf(us, B, k) + us[k].zeros = B[k + 1]
<1>1. us \in Seq(Entries) /\ k \in 1 .. Len(us) + 1 /\ k + 1 \in 1 .. Len(us) + 1
    BY DEF Laid
<1>2. us[k] \in Entries
    BY <1>1
<1>3. us[k].code \in {3, 4} /\ us[k].nal \in Seq(Octets) /\ us[k].zeros \in Nat
    BY <1>2, EntryTypes
<1>4. NalUnit(us[k].nal)
    BY DEF NalUnits
<1>5. PICK nal \in Seq(Octets) : nal = us[k].nal
    BY <1>3
<1>6. nal # <<>> /\ nal[Len(nal)] # 0
    BY <1>4, <1>5 DEF NalUnit, Last
<1>7. Len(nal) \in Nat \ {0}
    BY <1>6
<1>8. B[k] \in Nat /\ B[k + 1] \in Nat /\ B[k + 1] <= Len(data)
    BY <1>1, LaidInside
<1>9. B[k + 1] = B[k] + Size(us[k])
    BY DEF Laid
<1>10. PICK c \in {3, 4}, l \in Nat \ {0}, z \in Nat, b \in Nat :
           c = us[k].code /\ l = Len(us[k].nal) /\ z = us[k].zeros /\ b = B[k]
    BY <1>3, <1>5, <1>7, <1>8
<1>11. HeadOf(us, B, k) = b + c /\ TailOf(us, B, k) = b + c + l
    BY <1>10 DEF HeadOf, TailOf
<1>12. Size(us[k]) = c + l + z
    BY <1>10 DEF Size
<1>13. B[k + 1] = b + c + l + z
    <2>1. B[k + 1] = b + (c + l + z)
        BY <1>9, <1>10, <1>12
    <2>2. b + (c + l + z) = b + c + l + z
        OBVIOUS
    <2>3. QED
        BY <2>1, <2>2
<1>14. /\ b + 3 <= b + c /\ b + c < b + c + l /\ b + c \in Nat /\ b + c + l \in Nat
    OBVIOUS
<1>15. /\ HeadOf(us, B, k) \in Nat /\ TailOf(us, B, k) \in Nat
       /\ B[k] + 3 <= HeadOf(us, B, k)
       /\ HeadOf(us, B, k) < TailOf(us, B, k)
       /\ TailOf(us, B, k) + us[k].zeros = B[k + 1]
    BY <1>10, <1>11, <1>13, <1>14
<1>16. Len(us[k].nal) \in Nat \ {0} /\ us[k].nal[Len(us[k].nal)] # 0
    BY <1>5, <1>6, <1>7
<1>17. QED
    BY <1>2, <1>3, <1>8, <1>15, <1>16

(* Every byte belongs to one entry.                                        *)
LEMMA BytesBelong ==
    ASSUME NEW data, NEW us, NEW B, Laid(data, us, B), NEW i \in 1 .. Len(data)
    PROVE  \E k \in 1 .. Len(us) : B[k] < i /\ i <= B[k + 1]
<1>1. PICK n \in Nat : n = Len(us)
    BY DEF Laid
<1> DEFINE T == {k \in 1 .. n + 1 : i <= B[k]}
<1>2. B \in [1 .. n + 1 -> Nat] /\ B[1] = 0 /\ B[n + 1] = Len(data)
    BY <1>1 DEF Laid
<1>3. T \subseteq Nat /\ T # {}
    <2>1. n + 1 \in 1 .. n + 1 /\ i <= B[n + 1]
        BY <1>2
    <2>2. QED
        BY <2>1
<1> HIDE DEF T
<1>4. PICK m : m = Min(T)
    OBVIOUS
<1>5. m \in T /\ \A y \in T : m <= y
    <2>1. Min(T) \in T /\ \A y \in T : Min(T) <= y
        BY <1>3, Least
    <2>2. QED
        BY <1>4, <2>1
<1>6. m \in 1 .. n + 1 /\ i <= B[m] /\ m # 1
    BY <1>2, <1>5 DEF T
<1>7. PICK k \in 1 .. n : k = m - 1 /\ k + 1 = m
    BY <1>6
<1>8. ~(m <= k) /\ k \in 1 .. n + 1 /\ B[k] \in Nat
    BY <1>2, <1>7
<1>9. k \notin T
    BY <1>5, <1>8
<1>10. B[k] < i
    BY <1>8, <1>9 DEF T
<1>11. QED
    BY <1>1, <1>6, <1>7, <1>10

LEMMA Three ==
    ASSUME NEW data \in Seq(Octets), NEW i \in 3 .. Len(data)
    PROVE  SubSeq(data, i - 2, i) = <<0, 0, 1>>
               <=> data[i - 2] = 0 /\ data[i - 1] = 0 /\ data[i] = 1
<1>1. PICK s : s = SubSeq(data, i - 2, i)
    OBVIOUS
<1>2. PICK t : t = <<0, 0, 1>>
    OBVIOUS
<1>3. i - 2 \in 1 .. Len(data) /\ i \in 1 .. Len(data)
    OBVIOUS
<1>4. s \in Seq(Octets) /\ Len(s) = 3 /\ \A j \in 1 .. 3 : s[j] = data[i - 2 + j - 1]
    BY <1>1, <1>3
<1>5. s[1] = data[i - 2] /\ s[2] = data[i - 1] /\ s[3] = data[i]
    <2>1. i - 2 + 1 - 1 = i - 2 /\ i - 2 + 2 - 1 = i - 1 /\ i - 2 + 3 - 1 = i
        OBVIOUS
    <2>2. QED
        BY <1>4, <2>1
<1>6. t \in Seq(Octets) /\ Len(t) = 3 /\ t[1] = 0 /\ t[2] = 0 /\ t[3] = 1
    BY <1>2 DEF Octets
<1>7. s = t <=> s[1] = t[1] /\ s[2] = t[2] /\ s[3] = t[3]
    <2>1. ASSUME s[1] = t[1] /\ s[2] = t[2] /\ s[3] = t[3] PROVE s = t
        <3>1. \A j \in 1 .. 3 : s[j] = t[j]
            BY <2>1
        <3>2. QED
            BY <1>4, <1>6, <3>1
    <2>2. QED
        BY <2>1
<1>8. QED
    BY <1>1, <1>2, <1>5, <1>6, <1>7


(* What lies behind a NAL unit, up to the end of the next start code, is   *)
(* zeros.                                                                  *)
LEMMA ZerosBehind ==
    ASSUME NEW data, NEW us, NEW B, Laid(data, us, B), NalUnits(us), NEW k \in 1 .. Len(us),
           NEW i \in Nat, TailOf(us, B, k) < i
    PROVE  /\ i <= B[k + 1] => data[i] = 0
           /\ k < Len(us) /\ i < HeadOf(us, B, k + 1) => data[i] = 0
<1>1. /\ us[k] \in Entries /\ us[k].code \in {3, 4} /\ us[k].nal \in Seq(Octets)
      /\ Len(us[k].nal) \in Nat \ {0} /\ us[k].zeros \in Nat
      /\ B[k] \in Nat /\ B[k + 1] \in Nat /\ TailOf(us, B, k) \in Nat
      /\ TailOf(us, B, k) + us[k].zeros = B[k + 1]
    BY LaidTypes
<1>2. i <= B[k + 1] => data[i] = 0
    <2> SUFFICES ASSUME i <= B[k + 1] PROVE data[i] = 0
        OBVIOUS
    <2>1. PICK j : j = i - TailOf(us, B, k)
        OBVIOUS
    <2>2. j \in 1 .. us[k].zeros /\ i = TailOf(us, B, k) + j
        BY <1>1, <2>1
    <2>3. LaidAt(data, us[k], B[k])
        BY DEF Laid
    <2>4. data[B[k] + us[k].code + Len(us[k].nal) + j] = 0
        BY <2>2, <2>3 DEF LaidAt
    <2>5. QED
        BY <2>2, <2>4 DEF TailOf
<1>3. k < Len(us) /\ i < HeadOf(us, B, k + 1) => data[i] = 0
    <2> SUFFICES ASSUME k < Len(us), i < HeadOf(us, B, k + 1), ~(i <= B[k + 1])
                 PROVE  data[i] = 0
        BY <1>2
    <2>1. PICK m \in 1 .. Len(us) : m = k + 1
        <3>1. Len(us) \in Nat
            BY DEF Laid
        <3>2. QED
            BY <3>1
    <2>2. us[m].code \in {3, 4} /\ B[m] \in Nat
        BY <2>1, LaidTypes
    <2>3. PICK j : j = i - B[m]
        OBVIOUS
    <2>4. j \in 1 .. us[m].code - 1 /\ i = B[m] + j
        BY <2>1, <2>2, <2>3 DEF HeadOf
    <2>5. LaidAt(data, us[m], B[m])
        BY DEF Laid
    <2>6. data[B[m] + j] = 0
        BY <2>4, <2>5 DEF LaidAt
    <2>7. QED
        BY <2>4, <2>6
<1>4. QED
    BY <1>2, <1>3

(* The start code and the NAL unit themselves.                             *)
LEMMA BytesOf ==
    ASSUME NEW data, NEW us, NEW B, Laid(data, us, B), NalUnits(us), NEW k \in 1 .. Len(us)
    PROVE  /\ \A i \in B[k] + 1 .. HeadOf(us, B, k) - 1 : data[i] = 0
           /\ data[HeadOf(us, B, k)] = 1
           /\ \A j \in 1 .. Len(us[k].nal) : data[HeadOf(us, B, k) + j] = us[k].nal[j]
<1>1. LaidAt(data, us[k], B[k])
    BY DEF Laid
<1>2. us[k].code \in {3, 4} /\ B[k] \in Nat
    BY LaidTypes
<1>3. data[HeadOf(us, B, k)] = 1
    BY <1>1 DEF LaidAt, HeadOf
<1>4. \A j \in 1 .. Len(us[k].nal) : data[HeadOf(us, B, k) + j] = us[k].nal[j]
    BY <1>1 DEF LaidAt, HeadOf
<1>5. ASSUME NEW i \in B[k] + 1 .. HeadOf(us, B, k) - 1 PROVE data[i] = 0
    <2>1. PICK j : j = i - B[k]
        OBVIOUS
    <2>2. j \in 1 .. us[k].code - 1 /\ i = B[k] + j
        BY SMTT(30), <1>2, <2>1 DEF HeadOf
    <2>3. data[B[k] + j] = 0
        BY <1>1, <2>2 DEF LaidAt
    <2>4. QED
        BY <2>2, <2>3
<1>6. QED
    BY <1>3, <1>4, <1>5

(* A start code is found where the encoder put one, and nowhere else.      *)
LEMMA CodesAre ==
    ASSUME NEW data, NEW us, NEW B, Laid(data, us, B), NalUnits(us)
    PROVE  Codes(data) = {HeadOf(us, B, k) : k \in 1 .. Len(us)}
<1>1. data \in Seq(Octets) /\ Len(data) \in Nat
    BY DEF Laid
<1>2. ASSUME NEW k \in 1 .. Len(us) PROVE HeadOf(us, B, k) \in Codes(data)
    <2>1. PICK h : h = HeadOf(us, B, k)
        OBVIOUS
    <2>2. /\ B[k] \in Nat /\ B[k + 1] \in Nat /\ B[k + 1] <= Len(data)
          /\ h \in Nat /\ TailOf(us, B, k) \in Nat /\ us[k].zeros \in Nat
          /\ B[k] + 3 <= h /\ h < TailOf(us, B, k)
          /\ TailOf(us, B, k) + us[k].zeros = B[k + 1]
        BY <2>1, LaidTypes
    <2>3. h \in 3 .. Len(data)
        BY <1>1, <2>2
    <2>4. /\ \A i \in B[k] + 1 .. h - 1 : data[i] = 0
          /\ data[h] = 1
        BY <2>1, BytesOf
    <2>5. h - 2 \in B[k] + 1 .. h - 1 /\ h - 1 \in B[k] + 1 .. h - 1
        BY SMTT(30), <2>2
    <2>6. data[h - 2] = 0 /\ data[h - 1] = 0 /\ data[h] = 1
        BY <2>4, <2>5
    <2>7. SubSeq(data, h - 2, h) = <<0, 0, 1>>
        BY <1>1, <2>3, <2>6, Three
    <2>8. QED
        BY <2>1, <2>3, <2>7 DEF Codes
<1>3. ASSUME NEW i \in Codes(data)
      PROVE  \E k \in 1 .. Len(us) : i = HeadOf(us, B, k)
    <2>1. i \in 3 .. Len(data) /\ SubSeq(data, i - 2, i) = <<0, 0, 1>>
        BY DEF Codes
    <2>2. data[i - 2] = 0 /\ data[i - 1] = 0 /\ data[i] = 1
        BY <1>1, <2>1, Three
    <2>3. i \in 1 .. Len(data) /\ i \in Nat
        BY <1>1, <2>1
    <2>4. PICK k \in 1 .. Len(us) : B[k] < i /\ i <= B[k + 1]
        BY <2>3, BytesBelong
    <2>5. PICK h, nal : h = HeadOf(us, B, k) /\ nal = us[k].nal
        OBVIOUS
    <2>6. /\ B[k] \in Nat /\ B[k + 1] \in Nat /\ h \in Nat /\ TailOf(us, B, k) \in Nat
          /\ Len(nal) \in Nat
        BY <2>5, LaidTypes
    <2>7. /\ \A j \in B[k] + 1 .. h - 1 : data[j] = 0
          /\ data[h] = 1
          /\ \A j \in 1 .. Len(nal) : data[h + j] = nal[j]
        BY <2>5, BytesOf
    <2>8. ~(i < h)
        <3>1. i < h => i \in B[k] + 1 .. h - 1
            BY <2>3, <2>4, <2>6
        <3>2. QED
            BY <2>2, <2>7, <3>1
    <2>9. TailOf(us, B, k) = h + Len(nal)
        BY <2>5 DEF TailOf, HeadOf
    <2>10. ~(TailOf(us, B, k) < i)
        BY <2>2, <2>3, <2>4, ZerosBehind
    <2>11. CASE h < i
        <3>1. PICK j \in 1 .. Len(nal) : i = h + j
            <4>1. i - h \in 1 .. Len(nal) /\ i = h + (i - h)
                BY <2>3, <2>6, <2>9, <2>10, <2>11
            <4>2. QED
                BY <4>1
        <3>2. j # 1 /\ j # 2
            <4>1. j = 1 => i - 1 = h
                BY <2>6, <3>1
            <4>2. j = 2 => i - 2 = h
                BY <2>6, <3>1
            <4>3. QED
                BY <2>2, <2>7, <4>1, <4>2
        <3>3. j \in 3 .. Len(nal) /\ j - 1 \in 1 .. Len(nal) /\ j - 2 \in 1 .. Len(nal)
            BY <2>6, <3>1, <3>2
        <3>4. i - 1 = h + (j - 1) /\ i - 2 = h + (j - 2)
            BY <2>6, <3>1
        <3>5. nal[j - 2] = 0 /\ nal[j - 1] = 0 /\ nal[j] = 1
            BY <2>2, <2>7, <3>1, <3>3, <3>4
        <3>6. <<nal[j - 2], nal[j - 1], nal[j]>> = <<0, 0, 1>>
            BY <3>5
        <3>7. NalUnit(nal)
            BY <2>5 DEF NalUnits
        <3>8. QED
            BY <3>3, <3>6, <3>7 DEF NalUnit
    <2>12. QED
        BY <2>3, <2>5, <2>6, <2>8, <2>11
<1>4. QED
    BY <1>2, <1>3


LEMMA HeadsInOrder ==
    ASSUME NEW data, NEW us, NEW B, Laid(data, us, B), NalUnits(us),
           NEW j \in 1 .. Len(us), NEW k \in 1 .. Len(us), j < k
    PROVE  TailOf(us, B, j) + 3 <= HeadOf(us, B, k) /\ HeadOf(us, B, j) + 4 <= HeadOf(us, B, k)
<1>1. /\ TailOf(us, B, j) \in Nat /\ HeadOf(us, B, j) \in Nat /\ us[j].zeros \in Nat
      /\ B[j + 1] \in Nat /\ HeadOf(us, B, j) < TailOf(us, B, j)
      /\ TailOf(us, B, j) + us[j].zeros = B[j + 1]
    BY SMTT(30), LaidTypes
<1>2. B[k] \in Nat /\ HeadOf(us, B, k) \in Nat /\ B[k] + 3 <= HeadOf(us, B, k)
    BY LaidTypes
<1>3. B[j + 1] <= B[k]
    <2>1. j + 1 \in 1 .. Len(us) + 1 /\ k \in 1 .. Len(us) + 1 /\ j + 1 <= k
        BY DEF Laid
    <2>2. QED
        BY <2>1, LaidInOrder
<1>4. PICK h, e, z, b, c, g :
          /\ h = HeadOf(us, B, j) /\ e = TailOf(us, B, j) /\ z = us[j].zeros
          /\ b = B[j + 1] /\ c = B[k] /\ g = HeadOf(us, B, k)
    OBVIOUS
<1>5. /\ h \in Nat /\ e \in Nat /\ z \in Nat /\ b \in Nat /\ c \in Nat /\ g \in Nat
      /\ h < e /\ e + z = b /\ c + 3 <= g /\ b <= c
    BY <1>1, <1>2, <1>3, <1>4
<1>6. e + 3 <= g /\ h + 4 <= g
    BY <1>5
<1>7. QED
    BY <1>4, <1>6

LEMMA StartCodesAre ==
    /\ StartCode(3) \in Seq(Octets) /\ Len(StartCode(3)) = 3
    /\ StartCode(3)[1] = 0 /\ StartCode(3)[2] = 0 /\ StartCode(3)[3] = 1
    /\ StartCode(4) \in Seq(Octets) /\ Len(StartCode(4)) = 4
    /\ StartCode(4)[1] = 0 /\ StartCode(4)[2] = 0 /\ StartCode(4)[3] = 0 /\ StartCode(4)[4] = 1
<1>1. ASSUME NEW n \in {3, 4}
      PROVE  /\ StartCode(n) \in Seq(Octets) /\ Len(StartCode(n)) = n
             /\ \A j \in 1 .. n - 1 : StartCode(n)[j] = 0
             /\ StartCode(n)[n] = 1
    <2>1. PICK z : z = Zeros(n - 1)
        OBVIOUS
    <2>2. z \in Seq(Octets) /\ Len(z) = n - 1 /\ \A j \in 1 .. n - 1 : z[j] = 0
        <3>1. n - 1 \in Nat
            OBVIOUS
        <3>2. QED
            BY <2>1, <3>1, ZerosAre
    <2>3. StartCode(n) = Append(z, 1) /\ 1 \in Octets
        BY <2>1 DEF StartCode, Octets
    <2>4. PICK s : s = Append(z, 1)
        OBVIOUS
    <2>5. /\ s \in Seq(Octets) /\ Len(s) = Len(z) + 1 /\ s[Len(z) + 1] = 1
          /\ \A j \in 1 .. Len(z) : s[j] = z[j]
        BY <2>2, <2>3, <2>4
    <2>6. QED
        BY <2>2, <2>3, <2>4, <2>5
<1>2. /\ StartCode(3) \in Seq(Octets) /\ Len(StartCode(3)) = 3
      /\ \A j \in 1 .. 3 - 1 : StartCode(3)[j] = 0
      /\ StartCode(3)[3] = 1
    BY <1>1
<1>3. /\ StartCode(4) \in Seq(Octets) /\ Len(StartCode(4)) = 4
      /\ \A j \in 1 .. 4 - 1 : StartCode(4)[j] = 0
      /\ StartCode(4)[4] = 1
    BY <1>1
<1>4. QED
    BY <1>2, <1>3

LEMMA CodeAtIs ==
    ASSUME NEW data \in Seq(Octets), NEW o \in Nat
    PROVE  /\ CodeAt(data, o, 3) <=> o + 3 \in Codes(data)
           /\ CodeAt(data, o, 4) <=> o + 4 \in Codes(data) /\ data[o + 1] = 0
<1>1. Len(data) \in Nat
    OBVIOUS
<1>2. CodeAt(data, o, 3) <=> o + 3 \in Codes(data)
    <2>1. StartCode(3) = <<0, 0, 1>>
        <3>1. PICK s, t : s = StartCode(3) /\ t = <<0, 0, 1>>
            OBVIOUS
        <3>2. t \in Seq(Octets) /\ Len(t) = 3 /\ t[1] = 0 /\ t[2] = 0 /\ t[3] = 1
            BY <3>1 DEF Octets
        <3>3. s \in Seq(Octets) /\ Len(s) = 3 /\ s[1] = 0 /\ s[2] = 0 /\ s[3] = 1
            BY <3>1, StartCodesAre
        <3>4. \A j \in 1 .. 3 : s[j] = t[j]
            BY <3>2, <3>3
        <3>5. s = t
            BY <3>2, <3>3, <3>4
        <3>6. QED
            BY <3>1, <3>5
    <2>2. PICK i \in Nat : i = o + 3
        OBVIOUS
    <2>3. i - 2 = o + 1 /\ (i \in 3 .. Len(data) <=> o + 3 <= Len(data))
        BY <1>1, <2>2
    <2>4. QED
        BY <2>1, <2>2, <2>3 DEF CodeAt, Codes
<1>3. CodeAt(data, o, 4) <=> o + 4 \in Codes(data) /\ data[o + 1] = 0
    <2> PICK i \in Nat : i = o + 4
        OBVIOUS
    <2>1. i \in 3 .. Len(data) <=> o + 4 <= Len(data)
        BY <1>1
    <2> SUFFICES ASSUME i \in 3 .. Len(data)
                 PROVE  SubSeq(data, o + 1, o + 4) = StartCode(4)
                            <=> SubSeq(data, i - 2, i) = <<0, 0, 1>> /\ data[o + 1] = 0
        BY <2>1 DEF CodeAt, Codes
    <2>2. SubSeq(data, i - 2, i) = <<0, 0, 1>>
              <=> data[o + 2] = 0 /\ data[o + 3] = 0 /\ data[o + 4] = 1
        <3>1. i - 2 = o + 2 /\ i - 1 = o + 3
            OBVIOUS
        <3>2. QED
            BY <3>1, Three
    <2>3. PICK s, t : s = SubSeq(data, o + 1, o + 4) /\ t = StartCode(4)
        OBVIOUS
    <2>4. /\ t \in Seq(Octets) /\ Len(t) = 4
          /\ t[1] = 0 /\ t[2] = 0 /\ t[3] = 0 /\ t[4] = 1
        BY <2>3, StartCodesAre
    <2>5. o + 1 \in 1 .. Len(data) /\ o + 4 \in 1 .. Len(data)
        BY <1>1
    <2>6. s \in Seq(Octets) /\ Len(s) = 4 /\ \A j \in 1 .. 4 : s[j] = data[o + 1 + j - 1]
        BY <2>3, <2>5
    <2>7. /\ s[1] = data[o + 1] /\ s[2] = data[o + 2]
          /\ s[3] = data[o + 3] /\ s[4] = data[o + 4]
        <3>1. /\ o + 1 + 1 - 1 = o + 1 /\ o + 1 + 2 - 1 = o + 2
              /\ o + 1 + 3 - 1 = o + 3 /\ o + 1 + 4 - 1 = o + 4
            OBVIOUS
        <3>2. QED
            BY <2>6, <3>1
    <2>8. s = t <=> s[1] = t[1] /\ s[2] = t[2] /\ s[3] = t[3] /\ s[4] = t[4]
        <3>1. ASSUME s[1] = t[1] /\ s[2] = t[2] /\ s[3] = t[3] /\ s[4] = t[4] PROVE s = t
            <4>1. \A j \in 1 .. 4 : s[j] = t[j]
                BY <3>1
            <4>2. QED
                BY <2>4, <2>6, <4>1
        <3>2. QED
            BY <3>1
    <2>9. QED
        BY <2>2, <2>3, <2>4, <2>7, <2>8
<1>4. QED
    BY <1>2, <1>3

LEMMA CodeSizes ==
    ASSUME NEW data \in Seq(Octets), NEW o \in Nat
    PROVE  /\ StartCodeSize(data, o) \in {0, 3, 4}
           /\ o + StartCodeSize(data, o) <= Len(data) \/ StartCodeSize(data, o) = 0
           /\ StartCodeSize(data, o) = 4 <=> o + 4 \in Codes(data) /\ data[o + 1] = 0
           /\ StartCodeSize(data, o) = 0 <=>
                  o + 3 \notin Codes(data) /\ ~(o + 4 \in Codes(data) /\ data[o + 1] = 0)
<1>1. /\ CodeAt(data, o, 3) <=> o + 3 \in Codes(data)
      /\ CodeAt(data, o, 4) <=> o + 4 \in Codes(data) /\ data[o + 1] = 0
    BY CodeAtIs
<1>2. StartCodeSize(data, o) \in {0, 3, 4}
    BY DEF StartCodeSize
<1>3. StartCodeSize(data, o) = 4 <=> CodeAt(data, o, 4)
    BY DEF StartCodeSize
<1>4. StartCodeSize(data, o) = 0 <=> ~CodeAt(data, o, 3) /\ ~CodeAt(data, o, 4)
    BY DEF StartCodeSize
<1>5. o + StartCodeSize(data, o) <= Len(data) \/ StartCodeSize(data, o) = 0
    BY DEF StartCodeSize, CodeAt
<1>6. QED
    BY <1>1, <1>2, <1>3, <1>4, <1>5


-----------------------------------------------------------------------------
(* What the scans meet, in order: start code k begins behind byte S[k],    *)
(* and the NAL unit behind it goes from C[k] + 1 to E[k].                  *)
Scanned(data, us, C, E, S) ==
    /\ data \in Seq(Octets) /\ us \in Seq(Entries) /\ Len(us) \in Nat \ {0}
    /\ C \in [1 .. Len(us) -> Nat] /\ E \in [1 .. Len(us) -> Nat]
    /\ S \in [1 .. Len(us) + 1 -> Nat] /\ S[1] = 0 /\ S[Len(us) + 1] = Len(data)
    /\ Codes(data) = {C[k] : k \in 1 .. Len(us)}
    /\ \A j, k \in 1 .. Len(us) : j < k => C[j] < C[k]
    /\ \A k \in 1 .. Len(us) :
          /\ us[k].nal \in Seq(Octets) /\ E[k] = C[k] + Len(us[k].nal)
          /\ S[k] < C[k] /\ C[k] < E[k] /\ E[k] <= S[k + 1] /\ S[k + 1] <= Len(data)
          /\ k < Len(us) => S[k + 1] <= C[k + 1] - 3
          /\ \A j \in 1 .. Len(us[k].nal) : data[C[k] + j] = us[k].nal[j]
          /\ data[E[k]] # 0
          /\ \A i \in E[k] + 1 .. S[k + 1] : data[i] = 0
          /\ k < Len(us) => \A i \in E[k] + 1 .. C[k + 1] - 1 : data[i] = 0
          /\ StartCodeSize(data, S[k]) = C[k] - S[k]
          /\ \A o \in C[k] .. S[k + 1] - 1 : StartCodeSize(data, o) = 0

StartOf(data, us, B, k) ==
    IF k = Len(us) + 1 THEN Len(data)
    ELSE IF HeadOf(us, B, k) >= 4 /\ data[HeadOf(us, B, k) - 3] = 0
         THEN HeadOf(us, B, k) - 4 ELSE HeadOf(us, B, k) - 3

LEMMA ScannedIs ==
    ASSUME NEW data, NEW us, NEW B, Laid(data, us, B), NalUnits(us), us # <<>>
    PROVE  \E C, E, S : Scanned(data, us, C, E, S)
<1>1. us \in Seq(Entries) /\ data \in Seq(Octets) /\ Len(data) \in Nat
    BY DEF Laid
<1>2. PICK n \in Nat \ {0} : n = Len(us)
    BY <1>1
<1>3. PICK C, E, S, L : /\ C = [k \in 1 .. n |-> HeadOf(us, B, k)]
                        /\ E = [k \in 1 .. n |-> TailOf(us, B, k)]
                        /\ S = [k \in 1 .. n + 1 |-> StartOf(data, us, B, k)]
                        /\ L = Len(data)
    OBVIOUS
<1>4. \A k \in 1 .. n : /\ C[k] = HeadOf(us, B, k) /\ E[k] = TailOf(us, B, k)
                        /\ us[k].nal \in Seq(Octets) /\ Len(us[k].nal) \in Nat \ {0}
                        /\ C[k] \in Nat /\ E[k] \in Nat /\ C[k] < E[k]
                        /\ C[k] >= 3 /\ E[k] <= L /\ E[k] = C[k] + Len(us[k].nal)
    <2> SUFFICES ASSUME NEW k \in 1 .. n
                 PROVE  /\ C[k] = HeadOf(us, B, k) /\ E[k] = TailOf(us, B, k)
                        /\ us[k].nal \in Seq(Octets) /\ Len(us[k].nal) \in Nat \ {0}
                        /\ C[k] \in Nat /\ E[k] \in Nat /\ C[k] < E[k]
                        /\ C[k] >= 3 /\ E[k] <= L /\ E[k] = C[k] + Len(us[k].nal)
        OBVIOUS
    <2>1. C[k] = HeadOf(us, B, k) /\ E[k] = TailOf(us, B, k)
        BY <1>3
    <2>2. k \in 1 .. Len(us)
        BY <1>2
    <2>3. /\ us[k].nal \in Seq(Octets) /\ Len(us[k].nal) \in Nat \ {0} /\ us[k].zeros \in Nat
          /\ B[k] \in Nat /\ B[k + 1] \in Nat /\ B[k + 1] <= Len(data)
          /\ HeadOf(us, B, k) \in Nat /\ TailOf(us, B, k) \in Nat
          /\ B[k] + 3 <= HeadOf(us, B, k)
          /\ HeadOf(us, B, k) < TailOf(us, B, k)
          /\ TailOf(us, B, k) + us[k].zeros = B[k + 1]
        BY <2>2, LaidTypes
    <2>4. TailOf(us, B, k) = HeadOf(us, B, k) + Len(us[k].nal)
        BY DEF TailOf, HeadOf
    <2>5. PICK b, d, z \in Nat, c \in Nat, e \in Nat :
              b = B[k] /\ d = B[k + 1] /\ z = us[k].zeros /\ c = C[k] /\ e = E[k]
        BY <2>1, <2>3
    <2>6. b \in Nat /\ d \in Nat /\ d <= L /\ b + 3 <= c /\ c < e /\ e + z = d /\ L \in Nat
        BY <1>1, <1>3, <2>1, <2>3, <2>5
    <2>7. c >= 3 /\ e <= L
        BY <2>6
    <2>8. QED
        BY <2>1, <2>3, <2>4, <2>5, <2>7
<1>5. \A j, k \in 1 .. n : j < k => E[j] + 3 <= C[k] /\ C[j] + 4 <= C[k]
    <2> SUFFICES ASSUME NEW j \in 1 .. n, NEW k \in 1 .. n, j < k
                 PROVE  E[j] + 3 <= C[k] /\ C[j] + 4 <= C[k]
        OBVIOUS
    <2>1. j \in 1 .. Len(us) /\ k \in 1 .. Len(us)
        BY <1>2
    <2>2. TailOf(us, B, j) + 3 <= HeadOf(us, B, k) /\ HeadOf(us, B, j) + 4 <= HeadOf(us, B, k)
        BY <2>1, HeadsInOrder
    <2>3. QED
        BY <1>4, <2>2
<1>6. \A k \in 1 .. n : /\ \A j \in 1 .. Len(us[k].nal) : data[C[k] + j] = us[k].nal[j]
                        /\ data[E[k]] # 0
    <2> SUFFICES ASSUME NEW k \in 1 .. n
                 PROVE  /\ \A j \in 1 .. Len(us[k].nal) : data[C[k] + j] = us[k].nal[j]
                        /\ data[E[k]] # 0
        OBVIOUS
    <2>1. k \in 1 .. Len(us)
        BY <1>2
    <2>2. \A j \in 1 .. Len(us[k].nal) : data[HeadOf(us, B, k) + j] = us[k].nal[j]
        BY <2>1, BytesOf
    <2>3. us[k].nal[Len(us[k].nal)] # 0 /\ Len(us[k].nal) \in Nat \ {0}
        BY <2>1, LaidTypes
    <2>4. Len(us[k].nal) \in 1 .. Len(us[k].nal)
        BY <2>3
    <2>5. data[C[k] + Len(us[k].nal)] # 0
        BY <1>4, <2>2, <2>3, <2>4
    <2>6. QED
        BY <1>4, <2>2, <2>5
<1>7. ASSUME NEW k \in 1 .. n, NEW i \in Nat, E[k] < i
      PROVE  /\ k < n /\ i < C[k + 1] => data[i] = 0
             /\ k = n /\ i <= L => data[i] = 0
    <2>1. k \in 1 .. Len(us) /\ TailOf(us, B, k) < i
        BY <1>2, <1>4, <1>7
    <2>2. /\ i <= B[k + 1] => data[i] = 0
          /\ k < Len(us) /\ i < HeadOf(us, B, k + 1) => data[i] = 0
        BY <2>1, ZerosBehind
    <2>3. k < n => k + 1 \in 1 .. n
        BY <1>2
    <2>4. k < n => C[k + 1] = HeadOf(us, B, k + 1)
        BY <1>4, <2>3
    <2>5. B[n + 1] = L
        BY <1>2, <1>3 DEF Laid
    <2>6. QED
        BY <1>2, <2>2, <2>4, <2>5
<1>8. Codes(data) = {C[k] : k \in 1 .. n}
    <2>1. Codes(data) = {HeadOf(us, B, k) : k \in 1 .. Len(us)}
        BY CodesAre
    <2>2. \A k \in 1 .. n : C[k] = HeadOf(us, B, k)
        BY <1>4
    <2>3. QED
        BY <1>2, <2>1, <2>2
<1>9. \A k \in 1 .. n : /\ S[k] \in Nat
                        /\ S[k] = C[k] - 4 \/ S[k] = C[k] - 3
                        /\ S[k] = C[k] - 4 <=> C[k] >= 4 /\ data[C[k] - 3] = 0
    <2> SUFFICES ASSUME NEW k \in 1 .. n
                 PROVE  /\ S[k] \in Nat
                        /\ S[k] = C[k] - 4 \/ S[k] = C[k] - 3
                        /\ S[k] = C[k] - 4 <=> C[k] >= 4 /\ data[C[k] - 3] = 0
        OBVIOUS
    <2>1. k \in 1 .. n + 1 /\ k # n + 1
        OBVIOUS
    <2>2. S[k] = StartOf(data, us, B, k)
        BY <1>3, <2>1
    <2>3. PICK c \in Nat : c = C[k] /\ c = HeadOf(us, B, k) /\ c >= 3
        BY <1>4
    <2>4. S[k] = IF c >= 4 /\ data[c - 3] = 0 THEN c - 4 ELSE c - 3
        BY <1>2, <2>1, <2>2, <2>3 DEF StartOf
    <2>5. c - 4 # c - 3 /\ (c >= 4 => c - 4 \in Nat) /\ c - 3 \in Nat
        BY <2>3
    <2>6. QED
        BY <2>3, <2>4, <2>5
<1>10. S[1] = 0
    <2>1. 1 \in 1 .. n /\ 1 \in 1 .. Len(us)
        BY <1>2
    <2>2. PICK c \in {3, 4} : c = us[1].code
        BY <2>1, LaidTypes
    <2>3. B[1] = 0
        BY DEF Laid
    <2>4. C[1] = c
        BY <1>4, <2>1, <2>2, <2>3 DEF HeadOf
    <2>5. c = 4 => data[1] = 0
        <3>1. \A i \in B[1] + 1 .. HeadOf(us, B, 1) - 1 : data[i] = 0
            BY <2>1, BytesOf
        <3>2. HeadOf(us, B, 1) = c
            BY <1>4, <2>1, <2>4
        <3>3. c = 4 => 1 \in B[1] + 1 .. HeadOf(us, B, 1) - 1
            BY <2>3, <3>2
        <3>4. QED
            BY <3>1, <3>3
    <2>6. CASE c = 3
        <3>1. C[1] = 3 /\ ~(3 >= 4) /\ S[1] \in Nat
            BY <1>9, <2>1, <2>4, <2>6
        <3>2. S[1] = C[1] - 3
            BY <1>9, <2>1, <3>1
        <3>3. QED
            BY <3>1, <3>2
    <2>7. CASE c = 4
        <3>1. C[1] = 4 /\ 4 >= 4 /\ 4 - 3 = 1
            BY <2>4, <2>7
        <3>2. S[1] = C[1] - 4
            BY <1>9, <2>1, <2>5, <2>7, <3>1
        <3>3. QED
            BY <3>1, <3>2
    <2>8. QED
        BY <2>6, <2>7
<1>11. S[n + 1] = L
    <2>1. n + 1 \in 1 .. n + 1
        OBVIOUS
    <2>2. S[n + 1] = StartOf(data, us, B, n + 1)
        BY <1>3, <2>1
    <2>3. QED
        BY <1>2, <1>3, <2>2 DEF StartOf
<1>12. \A j, k \in 1 .. n : j < k => E[j] <= S[k]
    <2> SUFFICES ASSUME NEW j \in 1 .. n, NEW k \in 1 .. n, j < k PROVE E[j] <= S[k]
        OBVIOUS
    <2>1. PICK e \in Nat, c \in Nat, s \in Nat : e = E[j] /\ c = C[k] /\ s = S[k]
        BY <1>4, <1>9
    <2>2. e + 3 <= c /\ data[e] # 0 /\ (s = c - 4 \/ s = c - 3)
          /\ (s = c - 4 => data[c - 3] = 0)
        BY <1>5, <1>6, <1>9, <2>1
    <2>3. c - 3 = e => s # c - 4
        BY <2>2
    <2>4. e <= s
        BY <2>2, <2>3
    <2>5. QED
        BY <2>1, <2>4
<1>13. ASSUME NEW k \in 1 .. n
       PROVE  /\ S[k + 1] \in Nat /\ S[k] < C[k] /\ E[k] <= S[k + 1] /\ S[k + 1] <= L
              /\ k < n => S[k + 1] <= C[k + 1] - 3
    <2>1. L \in Nat /\ C[k] \in Nat /\ S[k] \in Nat /\ E[k] <= L
        BY <1>1, <1>3, <1>4, <1>9
    <2>2. S[k] < C[k]
        BY <1>9, <2>1
    <2>3. CASE k = n
        BY <1>11, <2>1, <2>2, <2>3
    <2>4. CASE k # n
        <3>1. PICK m \in 1 .. n : m = k + 1 /\ k < m
            BY <2>4
        <3>2. E[k] <= S[m] /\ S[m] \in Nat /\ C[m] \in Nat /\ C[m] < E[m] /\ E[m] <= L
              /\ E[m] \in Nat /\ (S[m] = C[m] - 4 \/ S[m] = C[m] - 3)
            BY <1>4, <1>9, <1>12, <3>1
        <3>3. S[m] <= C[m] - 3 /\ S[m] <= L
            BY <2>1, <3>2
        <3>4. QED
            BY <2>2, <3>1, <3>2, <3>3
    <2>5. QED
        BY <2>3, <2>4
<1>14. ASSUME NEW k \in 1 .. n PROVE StartCodeSize(data, S[k]) = C[k] - S[k]
    <2>1. PICK o \in Nat, c \in Nat : o = S[k] /\ c = C[k] /\ c >= 3
        BY <1>4, <1>9
    <2>2. /\ StartCodeSize(data, o) \in {0, 3, 4}
          /\ StartCodeSize(data, o) = 4 <=> o + 4 \in Codes(data) /\ data[o + 1] = 0
          /\ StartCodeSize(data, o) = 0 <=>
                 o + 3 \notin Codes(data) /\ ~(o + 4 \in Codes(data) /\ data[o + 1] = 0)
        BY <1>1, CodeSizes
    <2>3. c \in Codes(data)
        BY <1>8, <2>1
    <2>4. CASE o = c - 4
        <3>1. o + 4 = c /\ o + 1 = c - 3 /\ c - o = 4
            BY <2>1, <2>4
        <3>2. data[c - 3] = 0
            BY <1>9, <2>1, <2>4
        <3>3. StartCodeSize(data, o) = 4
            BY <2>2, <2>3, <3>1, <3>2
        <3>4. QED
            BY <2>1, <3>1, <3>3
    <2>5. CASE o = c - 3
        <3>1. o + 3 = c /\ o + 4 = c + 1 /\ c - o = 3
            BY <2>1, <2>5
        <3>2. c + 1 \notin Codes(data)
            <4> SUFFICES ASSUME NEW j \in 1 .. n, C[j] = c + 1 PROVE FALSE
                BY <1>8
            <4>1. j < k \/ j = k \/ k < j
                OBVIOUS
            <4>2. j < k => C[j] + 4 <= c
                BY <1>5, <2>1
            <4>3. k < j => c + 4 <= C[j]
                BY <1>5, <2>1
            <4>4. j = k => C[j] = c
                BY <2>1
            <4>5. ~(c + 1 + 4 <= c) /\ ~(c + 4 <= c + 1) /\ c + 1 # c
                OBVIOUS
            <4>6. QED
                BY <4>1, <4>2, <4>3, <4>4, <4>5
        <3>3. StartCodeSize(data, o) = 3
            BY <2>2, <2>3, <3>1, <3>2
        <3>4. QED
            BY <2>1, <3>1, <3>3
    <2>6. QED
        BY <1>9, <2>1, <2>4, <2>5
<1>15. ASSUME NEW k \in 1 .. n, NEW o \in C[k] .. S[k + 1] - 1
       PROVE  StartCodeSize(data, o) = 0
    <2>1. C[k] \in Nat /\ S[k + 1] \in Nat /\ S[k + 1] <= L /\ L \in Nat
        BY <1>1, <1>3, <1>4, <1>13
    <2>2. o \in Nat /\ C[k] <= o /\ o < S[k + 1] /\ o < L
        BY <2>1
    <2>3. ASSUME NEW j \in 1 .. n, C[j] = o + 3 \/ C[j] = o + 4
          PROVE  k < n /\ k + 1 \in 1 .. n /\ (j = k + 1 \/ k + 1 < j)
        <3>1. C[j] \in Nat /\ C[k] < C[j]
            BY <2>1, <2>2, <2>3
        <3>2. j < k => C[j] + 4 <= C[k]
            BY <1>5
        <3>3. ~(j < k) /\ j # k
            BY <2>1, <3>1, <3>2
        <3>4. QED
            BY <3>3
    <2>4. ASSUME k < n, k + 1 \in 1 .. n
          PROVE  /\ C[k + 1] \in Nat /\ S[k + 1] <= C[k + 1] - 3 /\ o + 3 < C[k + 1]
                 /\ S[k + 1] = C[k + 1] - 4 => o + 4 < C[k + 1]
        <3>1. C[k + 1] \in Nat /\ S[k + 1] <= C[k + 1] - 3
            BY <1>4, <1>13, <2>4
        <3>2. QED
            BY <2>1, <2>2, <3>1
    <2>5. o + 3 \notin Codes(data)
        <3> SUFFICES ASSUME NEW j \in 1 .. n, C[j] = o + 3 PROVE FALSE
            BY <1>8
        <3>1. k < n /\ k + 1 \in 1 .. n /\ (j = k + 1 \/ k + 1 < j)
            BY <2>3
        <3>2. PICK g \in Nat : g = C[k + 1] /\ o + 3 < g
            BY <2>4, <3>1
        <3>3. k + 1 < j => g + 4 <= C[j]
            BY <1>5, <3>1, <3>2
        <3>4. ~(g + 4 <= o + 3) /\ g # o + 3
            BY <2>2, <3>2
        <3>5. QED
            BY <3>1, <3>2, <3>3, <3>4
    <2>6. ~(o + 4 \in Codes(data) /\ data[o + 1] = 0)
        <3> SUFFICES ASSUME NEW j \in 1 .. n, C[j] = o + 4, data[o + 1] = 0 PROVE FALSE
            BY <1>8
        <3>1. k < n /\ k + 1 \in 1 .. n /\ (j = k + 1 \/ k + 1 < j)
            BY <2>3
        <3>2. PICK g \in Nat : g = C[k + 1] /\ o + 3 < g
            BY <2>4, <3>1
        <3>3. k + 1 < j => g + 4 <= C[j]
            BY <1>5, <3>1, <3>2
        <3>4. ~(g + 4 <= o + 4)
            BY <2>2, <3>2
        <3>5. g = o + 4
            BY <3>1, <3>2, <3>3, <3>4
        <3>6. g >= 4 /\ g - 3 = o + 1
            BY <2>2, <3>5
        <3>7. S[k + 1] = g - 4
            BY <1>9, <3>1, <3>2, <3>6
        <3>8. o + 4 < g
            BY <2>4, <3>1, <3>2, <3>7
        <3>9. QED
            BY <2>2, <3>5, <3>8
    <2>7. StartCodeSize(data, o) = 0 <=>
              o + 3 \notin Codes(data) /\ ~(o + 4 \in Codes(data) /\ data[o + 1] = 0)
        BY <1>1, <2>2, CodeSizes
    <2>8. QED
        BY <2>5, <2>6, <2>7
<1>16. ASSUME NEW k \in 1 .. n
       PROVE  /\ \A i \in E[k] + 1 .. S[k + 1] : data[i] = 0
              /\ k < n => \A i \in E[k] + 1 .. C[k + 1] - 1 : data[i] = 0
    <2>1. E[k] \in Nat /\ S[k + 1] \in Nat
        BY <1>4, <1>13
    <2>2. ASSUME k < n, NEW i \in E[k] + 1 .. C[k + 1] - 1 PROVE data[i] = 0
        <3>1. k + 1 \in 1 .. n
            BY <2>2
        <3>2. C[k + 1] \in Nat
            BY <1>4, <3>1
        <3>3. i \in Nat /\ E[k] < i /\ i < C[k + 1]
            BY <2>1, <3>2
        <3>4. QED
            BY <1>7, <2>2, <3>3
    <2>3. ASSUME NEW i \in E[k] + 1 .. S[k + 1] PROVE data[i] = 0
        <3>1. i \in Nat /\ E[k] < i /\ i <= S[k + 1]
            BY <2>1
        <3>2. CASE k < n
            <4>1. k + 1 \in 1 .. n
                BY <3>2
            <4>2. C[k + 1] \in Nat /\ S[k + 1] <= C[k + 1] - 3
                BY <1>4, <1>13, <3>2, <4>1
            <4>3. i \in E[k] + 1 .. C[k + 1] - 1
                BY <2>1, <3>1, <4>2
            <4>4. QED
                BY <2>2, <3>2, <4>3
        <3>3. CASE k = n
            <4>1. i <= L
                BY <1>11, <3>1, <3>3
            <4>2. QED
                BY <1>7, <3>1, <3>3, <4>1
        <3>4. QED
            BY <3>2, <3>3
    <2>4. QED
        BY <2>2, <2>3
<1>17. C \in [1 .. n -> Nat] /\ E \in [1 .. n -> Nat]
    BY <1>3, <1>4
<1>18. S \in [1 .. n + 1 -> Nat]
    <2>1. ASSUME NEW k \in 1 .. n + 1 PROVE S[k] \in Nat
        <3>1. k \in 1 .. n \/ k = n + 1
            OBVIOUS
        <3>2. L \in Nat
            BY <1>1, <1>3
        <3>3. QED
            BY <1>9, <1>11, <3>1, <3>2
    <2>2. QED
        BY <1>3, <2>1
<1>19. \A j, k \in 1 .. n : j < k => C[j] < C[k]
    <2> SUFFICES ASSUME NEW j \in 1 .. n, NEW k \in 1 .. n, j < k PROVE C[j] < C[k]
        OBVIOUS
    <2>1. C[j] \in Nat /\ C[k] \in Nat /\ C[j] + 4 <= C[k]
        BY <1>4, <1>5
    <2>2. QED
        BY <2>1
<1>20. ASSUME NEW k \in 1 .. n
       PROVE  /\ us[k].nal \in Seq(Octets) /\ E[k] = C[k] + Len(us[k].nal)
              /\ S[k] < C[k] /\ C[k] < E[k] /\ E[k] <= S[k + 1] /\ S[k + 1] <= Len(data)
              /\ k < Len(us) => S[k + 1] <= C[k + 1] - 3
    BY <1>2, <1>3, <1>4, <1>13
<1>21. ASSUME NEW k \in 1 .. Len(us)
       PROVE  /\ \A j \in 1 .. Len(us[k].nal) : data[C[k] + j] = us[k].nal[j]
              /\ data[E[k]] # 0
              /\ \A i \in E[k] + 1 .. S[k + 1] : data[i] = 0
              /\ k < Len(us) => \A i \in E[k] + 1 .. C[k + 1] - 1 : data[i] = 0
              /\ StartCodeSize(data, S[k]) = C[k] - S[k]
              /\ \A o \in C[k] .. S[k + 1] - 1 : StartCodeSize(data, o) = 0
    <2>1. k \in 1 .. n
        BY <1>2
    <2>2. /\ \A j \in 1 .. Len(us[k].nal) : data[C[k] + j] = us[k].nal[j]
          /\ data[E[k]] # 0
        BY <1>6, <2>1
    <2>3. /\ \A i \in E[k] + 1 .. S[k + 1] : data[i] = 0
          /\ k < Len(us) => \A i \in E[k] + 1 .. C[k + 1] - 1 : data[i] = 0
        BY <1>2, <1>16, <2>1
    <2>4. /\ StartCodeSize(data, S[k]) = C[k] - S[k]
          /\ \A o \in C[k] .. S[k + 1] - 1 : StartCodeSize(data, o) = 0
        BY <1>14, <1>15, <2>1
    <2>5. QED
        BY <2>2, <2>3, <2>4
<1>22. ASSUME NEW k \in 1 .. Len(us)
       PROVE  /\ us[k].nal \in Seq(Octets) /\ E[k] = C[k] + Len(us[k].nal)
              /\ S[k] < C[k] /\ C[k] < E[k] /\ E[k] <= S[k + 1] /\ S[k + 1] <= Len(data)
              /\ k < Len(us) => S[k + 1] <= C[k + 1] - 3
    BY <1>2, <1>20
<1>23. /\ data \in Seq(Octets) /\ us \in Seq(Entries) /\ Len(us) \in Nat \ {0}
       /\ C \in [1 .. Len(us) -> Nat] /\ E \in [1 .. Len(us) -> Nat]
       /\ S \in [1 .. Len(us) + 1 -> Nat] /\ S[1] = 0 /\ S[Len(us) + 1] = Len(data)
       /\ Codes(data) = {C[k] : k \in 1 .. Len(us)}
       /\ \A j, k \in 1 .. Len(us) : j < k => C[j] < C[k]
    BY <1>1, <1>2, <1>3, <1>8, <1>10, <1>11, <1>17, <1>18, <1>19
<1>24. Scanned(data, us, C, E, S)
    BY <1>21, <1>22, <1>23 DEF Scanned
<1>25. QED
    BY <1>24

(* A NAL unit is what is left when the zeros behind it are cut off.        *)
LEMMA Cut ==
    ASSUME NEW data \in Seq(Octets), NEW nal \in Seq(Octets), NEW from \in Nat, NEW to \in Nat,
           NEW e \in Nat, e = from + Len(nal), from < e, e <= to, to <= Len(data),
           \A j \in 1 .. Len(nal) : data[from + j] = nal[j],
           data[e] # 0, \A i \in e + 1 .. to : data[i] = 0
    PROVE  Trimmed(data, from, to) = nal /\ WithoutTail(SubSeq(data, from + 1, to)) = nal
<1>1. Len(data) \in Nat /\ Len(nal) \in Nat
    OBVIOUS
<1>2. PICK l \in Nat : l = Len(nal) /\ e = from + l
    BY <1>1
<1>3. PICK p : p = SubSeq(data, from + 1, e)
    OBVIOUS
<1>4. p = nal
    <2>1. from + 1 \in 1 .. Len(data) /\ e \in 1 .. Len(data) /\ e - (from + 1) + 1 = l
        BY <1>1, <1>2
    <2>2. p \in Seq(Octets) /\ Len(p) = l /\ \A j \in 1 .. l : p[j] = data[from + 1 + j - 1]
        BY <1>3, <2>1
    <2>3. \A j \in 1 .. l : p[j] = nal[j]
        <3> SUFFICES ASSUME NEW j \in 1 .. l PROVE p[j] = nal[j]
            OBVIOUS
        <3>1. from + 1 + j - 1 = from + j
            OBVIOUS
        <3>2. QED
            BY <1>2, <2>2, <3>1
    <2>4. QED
        BY <1>2, <2>2, <2>3
<1>5. Trimmed(data, from, to) = nal
    <2>1. PICK T : T = {from} \cup {i \in from + 1 .. to : data[i] # 0}
        OBVIOUS
    <2>2. e \in T /\ T \subseteq Int /\ \A y \in T : e >= y
        <3>1. e \in from + 1 .. to
            BY <1>2
        <3>2. ASSUME NEW y \in T PROVE e >= y
            <4>1. y = from \/ (y \in from + 1 .. to /\ data[y] # 0)
                BY <2>1
            <4>2. y \in Int /\ (e < y /\ y \in from + 1 .. to => y \in e + 1 .. to)
                BY <4>1
            <4>3. QED
                BY <4>1, <4>2
        <3>3. T \subseteq Int
            BY <2>1
        <3>4. QED
            BY <2>1, <3>1, <3>2, <3>3
    <2>3. Max(T) = e
        BY <2>2, MaxIs
    <2>4. Trimmed(data, from, to) = SubSeq(data, from + 1, e)
        BY <2>1, <2>3 DEF Trimmed
    <2>5. QED
        BY <1>3, <1>4, <2>4
<1>6. WithoutTail(SubSeq(data, from + 1, to)) = nal
    <2>1. PICK q, m : q = SubSeq(data, from + 1, to) /\ m = to - from
        OBVIOUS
    <2>2. from + 1 \in 1 .. Len(data) /\ to \in 1 .. Len(data) /\ m \in Nat
          /\ to - (from + 1) + 1 = m /\ l <= m /\ l > 0
        BY <1>1, <1>2, <2>1
    <2>3. q \in Seq(Octets) /\ Len(q) = m /\ \A j \in 1 .. m : q[j] = data[from + 1 + j - 1]
        BY <2>1, <2>2
    <2>4. \A j \in 1 .. m : q[j] = data[from + j]
        <3> SUFFICES ASSUME NEW j \in 1 .. m PROVE q[j] = data[from + j]
            OBVIOUS
        <3>1. from + 1 + j - 1 = from + j
            BY <2>2
        <3>2. QED
            BY <2>3, <3>1
    <2>5. PICK T : T = {0} \cup {k \in DOMAIN q : q[k] # 0}
        OBVIOUS
    <2>6. DOMAIN q = 1 .. m
        BY <2>3
    <2>7. l \in T /\ T \subseteq Int /\ \A y \in T : l >= y
        <3>1. l \in 1 .. m
            BY <1>2, <2>2
        <3>2. q[l] # 0
            BY <1>2, <2>4, <3>1
        <3>3. ASSUME NEW y \in T PROVE l >= y
            <4>1. y = 0 \/ (y \in 1 .. m /\ q[y] # 0)
                BY <2>5, <2>6
            <4>2. CASE y = 0
                BY <4>2
            <4>3. CASE y \in 1 .. m /\ q[y] # 0
                <5>1. data[from + y] # 0
                    BY <2>4, <4>3
                <5>2. l < y => from + y \in e + 1 .. to
                    BY <1>2, <2>1, <4>3
                <5>3. ~(l < y)
                    BY <5>1, <5>2
                <5>4. QED
                    BY <4>3, <5>3
            <4>4. QED
                BY <4>1, <4>2, <4>3
        <3>4. T \subseteq Int
            BY <2>2, <2>5, <2>6
        <3>5. QED
            BY <2>5, <2>6, <3>1, <3>2, <3>3, <3>4
    <2>8. Max(T) = l
        BY <2>7, MaxIs
    <2>9. WithoutTail(q) = SubSeq(q, 1, l)
        BY <2>5, <2>8 DEF WithoutTail
    <2>10. PICK w : w = SubSeq(q, 1, l)
        OBVIOUS
    <2>11. w \in Seq(Octets) /\ Len(w) = l /\ \A j \in 1 .. l : w[j] = q[j]
        BY <2>2, <2>3, <2>10
    <2>12. \A j \in 1 .. l : w[j] = nal[j]
        <3> SUFFICES ASSUME NEW j \in 1 .. l PROVE w[j] = nal[j]
            OBVIOUS
        <3>1. j \in 1 .. m
            BY <2>2
        <3>2. QED
            BY <1>2, <2>4, <2>11, <3>1
    <2>13. w = nal
        <3>1. w \in Seq(Octets) /\ Len(w) = l /\ nal \in Seq(Octets) /\ Len(nal) = l
            BY <1>2, <2>11
        <3>2. QED
            BY <2>12, <3>1
    <2>14. QED
        BY <2>1, <2>9, <2>10, <2>13
<1>7. QED
    BY <1>5, <1>6

LEMMA NextIs ==
    ASSUME NEW data \in Seq(Octets), NEW from \in Nat, from <= Len(data)
    PROVE  /\ NextStartCode(data, from) \in from .. Len(data)
           /\ NextStartCode(data, from) # Len(data) =>
                  StartCodeSize(data, NextStartCode(data, from)) # 0
<1>1. PICK T : T = {Len(data)} \cup {i \in from .. Len(data) - 1 : StartCodeSize(data, i) # 0}
    OBVIOUS
<1>2. Len(data) \in Nat
    OBVIOUS
<1>3. T \subseteq from .. Len(data) /\ T \subseteq Nat /\ T # {}
    BY <1>1, <1>2
<1>4. Min(T) \in T
    BY <1>3, Least
<1>5. NextStartCode(data, from) = Min(T)
    BY <1>1 DEF NextStartCode
<1>6. QED
    BY <1>1, <1>3, <1>4, <1>5

LEMMA NextCodes ==
    ASSUME NEW data, NEW us, NEW C, NEW E, NEW S, Scanned(data, us, C, E, S)
    PROVE  /\ NextStartCode(data, 0) = 0
           /\ \A k \in 1 .. Len(us) : NextStartCode(data, C[k]) = S[k + 1]
<1>1. PICK n \in Nat \ {0}, L \in Nat : n = Len(us) /\ L = Len(data)
    BY DEF Scanned
<1>2. ASSUME NEW k \in 1 .. n
      PROVE  /\ S[k] \in Nat /\ C[k] \in Nat /\ E[k] \in Nat /\ S[k + 1] \in Nat
             /\ S[k] < C[k] /\ C[k] < E[k] /\ E[k] <= S[k + 1] /\ S[k + 1] <= L
             /\ StartCodeSize(data, S[k]) # 0
    <2>1. k \in 1 .. n + 1 /\ k + 1 \in 1 .. n + 1
        OBVIOUS
    <2>2. S[k] \in Nat /\ C[k] \in Nat /\ E[k] \in Nat /\ S[k + 1] \in Nat
        BY <1>1, <2>1 DEF Scanned
    <2>3. /\ S[k] < C[k] /\ C[k] < E[k] /\ E[k] <= S[k + 1] /\ S[k + 1] <= L
          /\ StartCodeSize(data, S[k]) = C[k] - S[k]
        BY <1>1 DEF Scanned
    <2>4. QED
        BY <2>2, <2>3
<1>3. S[1] = 0 /\ S[n + 1] = L
    BY <1>1 DEF Scanned
<1>4. NextStartCode(data, 0) = 0
    <2>1. PICK T : T = {L} \cup {i \in 0 .. L - 1 : StartCodeSize(data, i) # 0}
        OBVIOUS
    <2>2. 1 \in 1 .. n
        OBVIOUS
    <2>3. PICK d : d = S[1 + 1]
        OBVIOUS
    <2>4. /\ 0 < C[1] /\ C[1] < E[1] /\ E[1] <= d /\ d <= L /\ C[1] \in Nat /\ E[1] \in Nat
          /\ d \in Nat /\ StartCodeSize(data, 0) # 0
        BY <1>2, <1>3, <2>2, <2>3
    <2>5. 0 \in 0 .. L - 1
        BY <2>4
    <2>6. 0 \in T /\ T \subseteq Int /\ \A y \in T : 0 <= y
        BY <2>1, <2>4, <2>5
    <2>7. Min(T) = 0
        BY <2>6, MinIs
    <2>8. QED
        BY <1>1, <2>1, <2>7 DEF NextStartCode
<1>5. ASSUME NEW k \in 1 .. n PROVE NextStartCode(data, C[k]) = S[k + 1]
    <2>1. PICK s, c : s = S[k + 1] /\ c = C[k]
        OBVIOUS
    <2>2. c \in Nat /\ s \in Nat /\ c <= s /\ s <= L
        BY <1>2, <2>1
    <2>3. PICK T : T = {L} \cup {i \in c .. L - 1 : StartCodeSize(data, i) # 0}
        OBVIOUS
    <2>4. s \in T
        <3>1. CASE k = n
            BY <1>3, <2>1, <2>3, <3>1
        <3>2. CASE k # n
            <4>1. PICK m \in 1 .. n : m = k + 1
                BY <3>2
            <4>2. PICK d : d = S[m + 1]
                OBVIOUS
            <4>3. /\ s < C[m] /\ C[m] < E[m] /\ E[m] <= d /\ d <= L /\ C[m] \in Nat
                  /\ E[m] \in Nat /\ d \in Nat /\ StartCodeSize(data, s) # 0
                BY <1>2, <2>1, <4>1, <4>2
            <4>4. s \in c .. L - 1
                BY <2>2, <4>3
            <4>5. QED
                BY <2>3, <4>3, <4>4
        <3>3. QED
            BY <3>1, <3>2
    <2>5. ASSUME NEW y \in T PROVE s <= y
        <3>1. y = L \/ (y \in c .. L - 1 /\ StartCodeSize(data, y) # 0)
            BY <2>3
        <3>2. y \in Nat /\ (y < s /\ y \in c .. L - 1 => y \in c .. s - 1)
            BY <2>2, <3>1
        <3>3. \A o \in c .. s - 1 : StartCodeSize(data, o) = 0
            BY <1>1, <2>1 DEF Scanned
        <3>4. QED
            BY <2>2, <3>1, <3>2, <3>3
    <2>6. T \subseteq Int
        BY <2>2, <2>3
    <2>7. Min(T) = s
        BY <2>4, <2>5, <2>6, MinIs
    <2>8. QED
        BY <1>1, <2>1, <2>3, <2>7 DEF NextStartCode
<1>6. QED
    BY <1>1, <1>4, <1>5

(* The NAL units are cut out whole.                                        *)
LEMMA CutOut ==
    ASSUME NEW data, NEW us, NEW C, NEW E, NEW S, Scanned(data, us, C, E, S),
           NEW k \in 1 .. Len(us)
    PROVE  /\ Trimmed(data, C[k], S[k + 1]) = us[k].nal
           /\ us[k].nal \in Seq(Octets) /\ Len(us[k].nal) > 0
           /\ WithoutTail(SubSeq(data, C[k] + 1, IF k < Len(us) THEN C[k + 1] - 3
                                                 ELSE Len(data))) = us[k].nal
<1>1. PICK n \in Nat \ {0}, L \in Nat : n = Len(us) /\ L = Len(data)
    BY DEF Scanned
<1>2. k \in 1 .. n + 1 /\ k + 1 \in 1 .. n + 1 /\ data \in Seq(Octets)
    BY <1>1 DEF Scanned
<1>3. PICK c \in Nat, e \in Nat, d \in Nat, nal \in Seq(Octets) :
          c = C[k] /\ e = E[k] /\ d = S[k + 1] /\ nal = us[k].nal
    BY <1>1, <1>2 DEF Scanned
<1>4. /\ e = c + Len(nal) /\ c < e /\ e <= d /\ d <= Len(data)
      /\ \A j \in 1 .. Len(nal) : data[c + j] = nal[j]
      /\ data[e] # 0
      /\ \A i \in e + 1 .. d : data[i] = 0
    BY <1>3 DEF Scanned
<1>5. Trimmed(data, c, d) = nal
    BY SMTT(30), <1>2, <1>4, Cut
<1>6. PICK g : g = IF k < Len(us) THEN C[k + 1] - 3 ELSE Len(data)
    OBVIOUS
<1>7. g \in Nat /\ e <= g /\ g <= Len(data) /\ \A i \in e + 1 .. g : data[i] = 0
    <2>1. CASE k < Len(us)
        <3>1. PICK m \in 1 .. Len(us) : m = k + 1
            BY <1>1, <2>1
        <3>2. PICK h \in Nat, x \in Nat, y \in Nat : h = C[m] /\ x = E[m] /\ y = S[m + 1]
            <4>1. m \in 1 .. n + 1 /\ m + 1 \in 1 .. n + 1 /\ m \in 1 .. n
                BY <1>1, <3>1
            <4>2. C[m] \in Nat /\ E[m] \in Nat /\ S[m + 1] \in Nat
                BY <1>1, <4>1 DEF Scanned
            <4>3. QED
                BY <4>2
        <3>3. h < x /\ x <= y /\ y <= Len(data)
            BY <3>2 DEF Scanned
        <3>4. d <= h - 3 /\ \A i \in e + 1 .. h - 1 : data[i] = 0
            BY <1>3, <2>1, <3>1, <3>2 DEF Scanned
        <3>5. g = h - 3
            BY <1>6, <2>1, <3>1, <3>2
        <3>6. g \in Nat /\ e <= g /\ g <= Len(data)
            BY <1>1, <1>4, <3>3, <3>4, <3>5
        <3>7. \A i \in e + 1 .. g : i \in e + 1 .. h - 1
            BY <3>5
        <3>8. QED
            BY <3>4, <3>6, <3>7
    <2>2. CASE ~(k < Len(us))
        <3>1. k = n /\ S[n + 1] = Len(data)
            BY <1>1, <2>2 DEF Scanned
        <3>2. g = d
            BY <1>3, <1>6, <2>2, <3>1
        <3>3. QED
            BY <1>4, <3>2
    <2>3. QED
        BY <2>1, <2>2
<1>8. WithoutTail(SubSeq(data, c + 1, g)) = nal
    BY SMTT(30), <1>2, <1>4, <1>7, Cut
<1>9. Len(nal) > 0
    BY <1>4
<1>10. QED
    BY <1>3, <1>5, <1>6, <1>8, <1>9


LEMMA Greatest ==
    ASSUME NEW T, NEW b \in Nat, T \subseteq 0 .. b, T # {}
    PROVE  Max(T) \in T /\ \A y \in T : Max(T) >= y
<1>1. PICK D : D = {b - y : y \in T}
    OBVIOUS
<1>2. D \subseteq Nat /\ D # {}
    <2>1. \A y \in T : y \in 0 .. b /\ b - y \in Nat
        OBVIOUS
    <2>2. QED
        BY <1>1, <2>1
<1>3. Min(D) \in D /\ \A y \in D : Min(D) <= y
    BY <1>2, Least
<1>4. PICK x \in T : Min(D) = b - x
    BY <1>1, <1>3
<1>5. \A y \in T : b - x <= b - y
    BY <1>1, <1>3, <1>4
<1>6. \A y \in T : x >= y
    BY <1>5
<1>7. QED
    BY <1>6 DEF Max

LEMMA TrimmedTypes ==
    ASSUME NEW data \in Seq(Octets), NEW from \in Nat, NEW to \in Nat, from <= to, to <= Len(data)
    PROVE  Trimmed(data, from, to) \in Seq(Octets)
<1>1. PICK T : T = {from} \cup {i \in from + 1 .. to : data[i] # 0}
    OBVIOUS
<1>2. T \subseteq 0 .. to /\ T # {}
    BY <1>1
<1>3. Max(T) \in T
    BY <1>2, Greatest
<1>4. PICK m : m = Max(T)
    OBVIOUS
<1>5. m \in from .. to
    BY <1>1, <1>3, <1>4
<1>6. SubSeq(data, from + 1, m) \in Seq(Octets)
    <2>1. Len(data) \in Nat
        OBVIOUS
    <2>2. \A i \in from + 1 .. m : i \in 1 .. Len(data)
        BY <1>5, <2>1
    <2>3. \A i \in from + 1 .. m : data[i] \in Octets
        BY <2>2
    <2>4. QED
        BY <1>5, <2>3
<1>7. QED
    BY <1>1, <1>4, <1>6 DEF Trimmed

(* h264_annexb_collect returns the NAL units that the encoder wrote.       *)
LEMMA Collected ==
    ASSUME NEW data, NEW us, NEW C, NEW E, NEW S, Scanned(data, us, C, E, S)
    PROVE  Collect(data) = IF Len(us) > MaxNalus THEN <<>> ELSE Nals(us)
<1> DEFINE Nalu(s)   == s + StartCodeSize(data, s)
           Beyond(s) == NextStartCode(data, Nalu(s))
           Cutting(s) == Trimmed(data, Nalu(s), Beyond(s))
           Lead(s)   == IF Cutting(s) = <<>> THEN <<>> ELSE <<Cutting(s)>>
           Step(f, s) == IF s = Len(data) THEN <<>> ELSE Lead(s) \o f[Beyond(s)]
           IsFrom(f) == f = [s \in 0 .. Len(data) |-> Step(f, s)]
           V == Seq(Seq(Octets))
<1>1. PICK n \in Nat \ {0}, L \in Nat : n = Len(us) /\ L = Len(data)
    BY DEF Scanned
<1>2. data \in Seq(Octets) /\ us \in Seq(Entries)
    BY DEF Scanned
<1>3. ASSUME NEW s \in 0 .. L - 1
      PROVE  /\ Beyond(s) \in Nat /\ Beyond(s) > s /\ Beyond(s) <= L /\ Lead(s) \in V
    <2>1. PICK z : z = StartCodeSize(data, s)
        OBVIOUS
    <2>2. z \in {0, 3, 4} /\ (s + z <= L \/ z = 0) /\ s \in Nat /\ s < L
        BY <1>1, <1>2, <2>1, CodeSizes
    <2>3. PICK o \in Nat : o = s + z /\ o <= L
        BY <2>2
    <2>4. PICK x : x = NextStartCode(data, o)
        OBVIOUS
    <2>5. x \in o .. L /\ (x # L => StartCodeSize(data, x) # 0)
        BY <1>1, <1>2, <2>3, <2>4, NextIs
    <2>6. x \in Nat /\ x <= L /\ o <= x
        BY <2>5
    <2>7. x > s
        <3>1. CASE z = 0
            <4>1. o = s
                BY <2>2, <2>3, <3>1
            <4>2. x # s
                <5> SUFFICES ASSUME x = s PROVE FALSE
                    OBVIOUS
                <5>1. StartCodeSize(data, x) = 0
                    BY <2>1, <3>1
                <5>2. x # L
                    BY <2>2
                <5>3. QED
                    BY <2>5, <5>1, <5>2
            <4>3. QED
                BY <2>2, <2>6, <4>1, <4>2
        <3>2. CASE z # 0
            BY <2>2, <2>3, <2>6, <3>2
        <3>3. QED
            BY <3>1, <3>2
    <2>8. Trimmed(data, o, x) \in Seq(Octets)
        BY <1>1, <1>2, <2>6, TrimmedTypes
    <2>9. Nalu(s) = o /\ Beyond(s) = x /\ Cutting(s) = Trimmed(data, o, x)
        BY <2>1, <2>3, <2>4
    <2>10. Lead(s) \in V
        BY <2>8, <2>9
    <2>11. QED
        BY <2>6, <2>7, <2>9, <2>10
<1>4. ASSUME NEW k \in 1 .. n
      PROVE  /\ Beyond(S[k]) = S[k + 1] /\ Lead(S[k]) = <<us[k].nal>> /\ S[k] # L
             /\ S[k] \in 0 .. L /\ us[k].nal \in Seq(Octets)
    <2>1. k \in 1 .. Len(us) /\ k \in 1 .. n + 1 /\ k + 1 \in 1 .. n + 1
        BY <1>1
    <2>2. PICK s \in Nat, c \in Nat, e \in Nat, d \in Nat :
              s = S[k] /\ c = C[k] /\ e = E[k] /\ d = S[k + 1]
        BY <1>1, <2>1 DEF Scanned
    <2>3. /\ s < c /\ c < e /\ e <= d /\ d <= L
          /\ StartCodeSize(data, s) = c - s
        BY <1>1, <2>1, <2>2 DEF Scanned
    <2>4. Nalu(s) = c
        BY <2>2, <2>3
    <2>5. NextStartCode(data, c) = d
        BY <2>1, <2>2, NextCodes
    <2>6. Trimmed(data, c, d) = us[k].nal /\ us[k].nal \in Seq(Octets) /\ Len(us[k].nal) > 0
        BY <2>1, <2>2, CutOut
    <2>7. Beyond(s) = d
        BY <2>4, <2>5
    <2>8. Cutting(s) = us[k].nal
        BY <2>4, <2>6, <2>7
    <2>9. us[k].nal # <<>>
        BY <2>6
    <2>10. Lead(s) = <<us[k].nal>>
        BY <2>8, <2>9
    <2>11. s # L /\ s \in 0 .. L
        BY <2>3
    <2>12. QED
        BY <2>2, <2>6, <2>7, <2>10, <2>11
<1>5. \E f : IsFrom(f)
    <2>1. PICK ahead, G :
              /\ ahead = [s \in 0 .. L - 1 |-> Beyond(s)]
              /\ G = [s \in 0 .. L - 1 |-> [v \in V |-> Lead(s) \o v]]
        OBVIOUS
    <2> HIDE DEF Beyond, Lead
    <2>2. \A s \in 0 .. L - 1 : ahead[s] \in Nat /\ ahead[s] > s
        BY <1>3, <2>1
    <2>3. \A s \in 0 .. L - 1 : \A v \in V : G[s][v] = Lead(s) \o v /\ G[s][v] \in V
        <3> SUFFICES ASSUME NEW s \in 0 .. L - 1, NEW v \in V
                     PROVE  G[s][v] = Lead(s) \o v /\ G[s][v] \in V
            OBVIOUS
        <3>1. G[s][v] = Lead(s) \o v
            BY <2>1
        <3>2. Lead(s) \in V
            BY <1>3
        <3>3. QED
            BY <3>1, <3>2
    <2>4. PICK base : base = <<>>
        OBVIOUS
    <2>5. base \in V
        BY <2>4
    <2>6. Advances(V, L, base, G, ahead)
        BY <2>2, <2>3, <2>5 DEF Advances
    <2>7. PICK F : Computes(F, V, L, base, G, ahead)
        BY <2>6, Descent
    <2>8. F \in [Nat -> V] /\ \A x \in Nat : F[x] = IF x >= L THEN base ELSE G[x][F[ahead[x]]]
        BY <2>7 DEF Computes
    <2>9. PICK f : f = [s \in 0 .. L |-> F[s]]
        OBVIOUS
    <2>10. ASSUME NEW s \in 0 .. L PROVE f[s] = Step(f, s)
        <3>1. s \in Nat /\ f[s] = F[s] /\ (s >= L <=> s = L)
            BY <2>9
        <3>2. CASE s = L
            BY <1>1, <2>4, <2>8, <3>1, <3>2
        <3>3. CASE s # L
            <4>1. s \in 0 .. L - 1 /\ ~(s >= L)
                BY <3>1, <3>3
            <4>2. ahead[s] = Beyond(s) /\ Beyond(s) \in 0 .. L /\ Beyond(s) \in Nat
                BY <1>3, <2>1, <4>1
            <4>3. F[s] = G[s][F[Beyond(s)]]
                BY <2>8, <3>1, <4>1, <4>2
            <4>4. F[Beyond(s)] = f[Beyond(s)] /\ F[Beyond(s)] \in V
                BY <2>8, <2>9, <4>2
            <4>5. F[s] = Lead(s) \o f[Beyond(s)]
                BY <2>3, <4>1, <4>3, <4>4
            <4>6. QED
                BY <1>1, <3>1, <3>3, <4>5
        <3>4. QED
            BY <3>2, <3>3
    <2>11. IsFrom(f)
        BY <1>1, <2>9, <2>10
    <2>12. QED
        BY <2>11
<1>6. PICK f : f = CHOOSE g : IsFrom(g)
    OBVIOUS
<1>7. IsFrom(f)
    BY <1>5, <1>6
<1>8. Collect(data) = IF Len(f[NextStartCode(data, 0)]) > MaxNalus THEN <<>>
                      ELSE f[NextStartCode(data, 0)]
    BY <1>6 DEF Collect
<1>9. \A s \in 0 .. L : f[s] = Step(f, s)
    <2> SUFFICES ASSUME NEW s \in 0 .. L PROVE f[s] = Step(f, s)
        OBVIOUS
    <2>1. f = [x \in 0 .. L |-> Step(f, x)]
        BY <1>1, <1>7
    <2> HIDE DEF Step, IsFrom
    <2>2. [x \in 0 .. L |-> Step(f, x)][s] = Step(f, s)
        OBVIOUS
    <2>3. QED
        BY <2>1, <2>2
<1> DEFINE Onward(k) == /\ f[S[k]] \in V /\ Len(f[S[k]]) = n + 1 - k
                      /\ \A i \in 1 .. n + 1 - k : f[S[k]][i] = us[k + i - 1].nal
           T == {d \in Nat : d <= n => Onward(n + 1 - d)}
<1>10. 0 \in T
    <2>1. n + 1 - 0 = n + 1 /\ L \in 0 .. L
        OBVIOUS
    <2>2. S[n + 1] = L
        BY <1>1 DEF Scanned
    <2>3. f[L] = <<>>
        BY <1>1, <1>9, <2>1
    <2>4. n + 1 - (n + 1) = 0 /\ 1 .. 0 = {}
        OBVIOUS
    <2>5. PICK e : e = f[L]
        OBVIOUS
    <2>6. e \in V /\ Len(e) = 0
        BY <2>3, <2>5
    <2>7. Onward(n + 1)
        BY <2>2, <2>4, <2>5, <2>6
    <2>8. QED
        BY <2>1, <2>7
<1>11. ASSUME NEW d \in Nat, d \in T PROVE d + 1 \in T
    <2> SUFFICES ASSUME d + 1 <= n PROVE Onward(n + 1 - (d + 1))
        OBVIOUS
    <2>1. PICK k \in 1 .. n : k = n - d /\ k + 1 = n + 1 - d /\ k = n + 1 - (d + 1)
        OBVIOUS
    <2>2. Onward(k + 1)
        BY <1>11, <2>1
    <2>3. PICK t, u, v : t = f[S[k + 1]] /\ u = <<us[k].nal>> /\ v = f[S[k]]
        OBVIOUS
    <2>4. t \in V /\ Len(t) = n - k /\ \A i \in 1 .. n - k : t[i] = us[k + i].nal
        <3>1. n + 1 - (k + 1) = n - k
            OBVIOUS
        <3>2. \A i \in 1 .. n - k : k + 1 + i - 1 = k + i
            OBVIOUS
        <3>3. QED
            BY <2>2, <2>3, <3>1, <3>2
    <2>5. Beyond(S[k]) = S[k + 1] /\ Lead(S[k]) = u /\ S[k] # L /\ S[k] \in 0 .. L
          /\ us[k].nal \in Seq(Octets)
        BY <1>4, <2>3
    <2> HIDE DEF Beyond, Lead
    <2>6. v = u \o t
        BY <1>1, <1>9, <2>3, <2>5
    <2>7. u \in V /\ Len(u) = 1 /\ u[1] = us[k].nal
        BY <2>3, <2>5
    <2>8. /\ v \in V /\ Len(v) = Len(u) + Len(t)
          /\ \A i \in 1 .. Len(u) : v[i] = u[i]
          /\ \A i \in 1 .. Len(t) : v[Len(u) + i] = t[i]
        <3>1. u \in Seq(Seq(Octets)) /\ t \in Seq(Seq(Octets)) /\ v = u \o t
            BY <2>4, <2>6, <2>7
        <3>2. /\ v \in Seq(Seq(Octets)) /\ Len(v) = Len(u) + Len(t)
              /\ \A i \in 1 .. Len(u) : v[i] = u[i]
              /\ \A i \in 1 .. Len(t) : v[Len(u) + i] = t[i]
            BY <3>1, JoinedUp
        <3>3. QED
            BY <3>2
    <2>9. Len(v) = n + 1 - k
        BY <2>4, <2>7, <2>8
    <2>10. ASSUME NEW i \in 1 .. n + 1 - k PROVE v[i] = us[k + i - 1].nal
        <3>1. CASE i = 1
            <4>1. k + i - 1 = k /\ v[1] = u[1]
                BY <2>7, <2>8, <3>1
            <4>2. QED
                BY <2>7, <3>1, <4>1
        <3>2. CASE i # 1
            <4>1. PICK j \in 1 .. n - k : i = 1 + j /\ k + j = k + i - 1
                <5>1. i - 1 \in 1 .. n - k /\ i = 1 + (i - 1) /\ k + (i - 1) = k + i - 1
                    BY <3>2
                <5>2. QED
                    BY <5>1
            <4>2. v[1 + j] = t[j]
                BY <2>4, <2>7, <2>8
            <4>3. QED
                BY <2>4, <4>1, <4>2
        <3>3. QED
            BY <3>1, <3>2
    <2>11. QED
        BY <2>1, <2>3, <2>8, <2>9, <2>10
<1> HIDE DEF T
<1>12. \A d \in Nat : d \in T
    BY <1>10, <1>11, AllNumbers
<1>13. Onward(1)
    <2>1. n \in T /\ n <= n /\ n + 1 - n = 1
        BY <1>12
    <2>2. Onward(n + 1 - n)
        BY <2>1 DEF T
    <2>3. QED
        BY <2>1, <2>2
<1>14. PICK all : all = f[0]
    OBVIOUS
<1>15. all = Nals(us) /\ Len(all) = n
    <2>1. S[1] = 0
        BY DEF Scanned
    <2>2. n + 1 - 1 = n /\ \A i \in 1 .. n : 1 + i - 1 = i
        OBVIOUS
    <2>3. all \in V /\ Len(all) = n /\ \A i \in 1 .. n : all[i] = us[i].nal
        BY <1>13, <1>14, <2>1, <2>2
    <2>4. PICK m : m = Nals(us)
        OBVIOUS
    <2>5. m = [i \in 1 .. n |-> us[i].nal]
        BY <1>1, <1>2, <2>4 DEF Nals
    <2>6. all = [i \in 1 .. n |-> all[i]]
        BY <2>3
    <2>7. QED
        BY <2>3, <2>4, <2>5, <2>6
<1>16. NextStartCode(data, 0) = 0
    BY NextCodes
<1>17. QED
    BY <1>1, <1>8, <1>14, <1>15, <1>16

(* The reference finds the same NAL units.                                 *)
LEMMA UnitsAre ==
    ASSUME NEW data, NEW us, NEW C, NEW E, NEW S, Scanned(data, us, C, E, S)
    PROVE  /\ Codes(data) = {C[k] : k \in 1 .. Len(us)}
           /\ DOMAIN Units(data) = Codes(data)
           /\ \A k \in 1 .. Len(us) : Units(data)[C[k]] = us[k].nal
<1>1. PICK n \in Nat \ {0}, L \in Nat : n = Len(us) /\ L = Len(data)
    BY DEF Scanned
<1>2. Codes(data) = {C[k] : k \in 1 .. n} /\ \A j, k \in 1 .. n : j < k => C[j] < C[k]
    BY <1>1 DEF Scanned
<1>3. DOMAIN Units(data) = Codes(data)
    BY DEF Units
<1>4. ASSUME NEW k \in 1 .. n PROVE Units(data)[C[k]] = us[k].nal
    <2>1. C[k] \in Codes(data) /\ k \in 1 .. Len(us)
        BY <1>1, <1>2
    <2>2. PICK T : T = {L} \cup {j - 3 : j \in {m \in Codes(data) : m > C[k]}}
        OBVIOUS
    <2>3. Units(data)[C[k]] = WithoutTail(SubSeq(data, C[k] + 1, Min(T)))
        BY <1>1, <2>1, <2>2 DEF Units
    <2>4. \A j \in 1 .. n : C[j] \in Nat
        BY <1>1 DEF Scanned
    <2>5. \A j \in 1 .. n : C[j] > C[k] => k < j
        <3> SUFFICES ASSUME NEW j \in 1 .. n, C[j] > C[k], ~(k < j) PROVE FALSE
            OBVIOUS
        <3>1. C[j] \in Nat /\ C[k] \in Nat
            BY <2>4
        <3>2. j = k \/ j < k
            OBVIOUS
        <3>3. j < k => C[j] < C[k]
            BY <1>2
        <3>4. QED
            BY <3>1, <3>2, <3>3
    <2>6. CASE k = n
        <3>1. {m \in Codes(data) : m > C[k]} = {}
            <4> SUFFICES ASSUME NEW j \in 1 .. n, C[j] > C[k] PROVE FALSE
                BY <1>2
            <4>1. QED
                BY <2>5, <2>6
        <3>2. T = {L}
            BY <2>2, <3>1
        <3>3. Min(T) = L
            <4>1. L \in T /\ T \subseteq Int /\ \A y \in T : L <= y
                BY <3>2
            <4>2. QED
                BY <4>1, MinIs
        <3>4. ~(k < Len(us))
            BY <1>1, <2>6
        <3>5. WithoutTail(SubSeq(data, C[k] + 1, L)) = us[k].nal
            BY <1>1, <2>1, <3>4, CutOut
        <3>6. QED
            BY <2>3, <3>3, <3>5
    <2>7. CASE k < n
        <3>1. PICK g \in Nat, m \in 1 .. n : m = k + 1 /\ g = C[m]
            BY <2>4, <2>7
        <3>2. C[k] < g /\ g <= L /\ C[k] \in Nat
            <4>1. m + 1 \in 1 .. n + 1 /\ m \in 1 .. n + 1
                OBVIOUS
            <4>2. PICK e \in Nat, d \in Nat : e = E[m] /\ d = S[m + 1]
                BY <1>1, <4>1 DEF Scanned
            <4>3. C[m] < e /\ e <= d /\ d <= L
                BY <1>1, <4>2 DEF Scanned
            <4>4. C[k] < C[m]
                BY <1>2, <3>1
            <4>5. QED
                BY <2>4, <3>1, <4>3, <4>4
        <3>3. g - 3 \in T
            <4>1. g \in {x \in Codes(data) : x > C[k]}
                BY <1>2, <3>1, <3>2
            <4>2. QED
                BY <2>2, <4>1
        <3>4. ASSUME NEW y \in T PROVE y \in Int /\ g - 3 <= y
            <4>1. CASE y = L
                BY <3>2, <4>1
            <4>2. CASE y # L
                <5>1. PICK j \in 1 .. n : y = C[j] - 3 /\ C[j] > C[k]
                    BY <1>2, <2>2, <4>2
                <5>2. k < j /\ C[j] \in Nat
                    BY <2>4, <2>5, <5>1
                <5>3. j = m \/ m < j
                    BY <3>1, <5>2
                <5>4. m < j => g < C[j]
                    BY <1>2, <3>1
                <5>5. j = m => g = C[j]
                    BY <3>1
                <5>6. QED
                    BY <5>1, <5>2, <5>3, <5>4, <5>5
            <4>3. QED
                BY <4>1, <4>2
        <3>5. Min(T) = g - 3
            BY <3>3, <3>4, MinIs
        <3>6. k < Len(us)
            BY <1>1, <2>7
        <3>7. WithoutTail(SubSeq(data, C[k] + 1, C[k + 1] - 3)) = us[k].nal
            BY <2>1, <3>6, CutOut
        <3>8. QED
            BY <2>3, <3>1, <3>5, <3>7
    <2>8. QED
        BY <2>6, <2>7
<1>5. QED
    BY <1>1, <1>2, <1>3, <1>4

(* inspect_annexb_h264 sees the types of the NAL units that the encoder    *)
(* wrote, and no others.                                                   *)
LEMMA InspectedIs ==
    ASSUME NEW data, NEW us, NEW C, NEW E, NEW S, Scanned(data, us, C, E, S)
    PROVE  Inspected(data) = {TypeAt(us, i) : i \in 1 .. Len(us)}
<1> DEFINE Header(o)  == o + StartCodeSize(data, o)
           Step(f, o) == IF o >= Len(data) \/ Header(o) >= Len(data) THEN {}
                         ELSE IF Header(o) = o THEN f[o + 1]
                         ELSE {data[Header(o) + 1] % 32} \cup f[Header(o) + 1]
           IsFrom(f)  == f = [o \in Nat |-> Step(f, o)]
           V == SUBSET Int
<1>1. PICK n \in Nat \ {0}, L \in Nat : n = Len(us) /\ L = Len(data)
    BY DEF Scanned
<1>2. data \in Seq(Octets) /\ us \in Seq(Entries)
    BY DEF Scanned
<1>3. ASSUME NEW o \in Nat PROVE Header(o) \in Nat /\ Header(o) >= o
    <2>1. PICK z \in {0, 3, 4} : z = StartCodeSize(data, o)
        BY <1>2, CodeSizes
    <2>2. QED
        BY <2>1
<1>4. \E f : IsFrom(f)
    <2> DEFINE ToNext(o) == IF Header(o) = o THEN o + 1 ELSE Header(o) + 1
               Result(o, v) == IF Header(o) >= L THEN {}
                              ELSE IF Header(o) = o THEN v
                              ELSE {data[Header(o) + 1] % 32} \cup v
    <2>1. PICK ahead, G :
              /\ ahead = [o \in 0 .. L - 1 |-> ToNext(o)]
              /\ G = [o \in 0 .. L - 1 |-> [v \in V |-> Result(o, v)]]
        OBVIOUS
    <2>2. ASSUME NEW o \in 0 .. L - 1
          PROVE  ahead[o] = ToNext(o) /\ ahead[o] \in Nat /\ ahead[o] > o
        <3>1. ahead[o] = ToNext(o)
            BY <2>1
        <3>2. o \in Nat /\ Header(o) \in Nat /\ Header(o) >= o
            BY <1>3
        <3> HIDE DEF Header
        <3>3. QED
            BY <3>1, <3>2
    <2>3. ASSUME NEW o \in 0 .. L - 1, NEW v \in V
          PROVE  G[o][v] = Result(o, v) /\ G[o][v] \in V
        <3>1. G[o][v] = Result(o, v)
            <4> HIDE DEF Result
            <4>1. QED
                BY <2>1
        <3>2. o \in Nat /\ Header(o) \in Nat
            BY <1>3
        <3>3. Header(o) < L => data[Header(o) + 1] % 32 \in Int
            <4>1. PICK h \in Nat : h = Header(o)
                BY <3>2
            <4>2. h < L => h + 1 \in 1 .. Len(data)
                BY <1>1
            <4>3. h < L => data[h + 1] \in Octets
                BY <1>2, <4>2
            <4>4. h < L => data[h + 1] % 32 \in Int
                BY <4>3 DEF Octets
            <4>5. QED
                BY <4>1, <4>4
        <3> HIDE DEF Header
        <3>4. Result(o, v) \in V
            <4>1. CASE Header(o) >= L
                BY <4>1
            <4>2. CASE Header(o) < L /\ Header(o) = o
                <5>1. ~(Header(o) >= L)
                    BY <3>2, <4>2
                <5>2. QED
                    BY <4>2, <5>1
            <4>3. CASE Header(o) < L /\ Header(o) # o
                <5>1. ~(Header(o) >= L)
                    BY <3>2, <4>3
                <5>2. PICK x \in Int : x = data[Header(o) + 1] % 32
                    BY <3>3, <4>3
                <5>3. Result(o, v) = {x} \cup v
                    BY <4>3, <5>1, <5>2
                <5>4. QED
                    BY <5>3
            <4>4. QED
                BY <3>2, <4>1, <4>2, <4>3
        <3>5. QED
            BY <3>1, <3>4
    <2> HIDE DEF ToNext, Result
    <2>4. PICK base : base = {}
        OBVIOUS
    <2>5. base \in V
        BY <2>4
    <2>6. Advances(V, L, base, G, ahead)
        BY <2>2, <2>3, <2>5 DEF Advances
    <2>7. PICK F : Computes(F, V, L, base, G, ahead)
        BY <2>6, Descent
    <2>8. F \in [Nat -> V] /\ \A x \in Nat : F[x] = IF x >= L THEN base ELSE G[x][F[ahead[x]]]
        BY <2>7 DEF Computes
    <2>9. ASSUME NEW o \in Nat PROVE F[o] = Step(F, o)
        <3>1. CASE o >= L
            BY <1>1, <2>4, <2>8, <3>1
        <3>2. CASE ~(o >= L)
            <4>1. o \in 0 .. L - 1
                BY <3>2
            <4>2. PICK x \in Nat : x = ahead[o] /\ x = ToNext(o)
                BY <2>2, <4>1
            <4>3. F[o] = G[o][F[x]] /\ F[x] \in V
                BY <2>8, <3>2, <4>2
            <4>4. F[o] = Result(o, F[x])
                BY <2>3, <4>1, <4>3
            <4> HIDE DEF Header
            <4>5. QED
                BY <1>1, <3>2, <4>2, <4>4 DEF Result, ToNext
        <3>3. QED
            BY <3>1, <3>2
    <2>10. F = [o \in Nat |-> Step(F, o)]
        <3>1. F = [o \in Nat |-> F[o]]
            BY <2>8
        <3> HIDE DEF Step
        <3>2. QED
            BY <2>9, <3>1
    <2>11. IsFrom(F)
        BY <2>10
    <2>12. QED
        BY <2>11
<1>5. PICK f : f = CHOOSE g : IsFrom(g)
    OBVIOUS
<1>6. IsFrom(f)
    BY <1>4, <1>5
<1>7. Inspected(data) = f[0]
    BY <1>5 DEF Inspected
<1>8. \A o \in Nat : f[o] = Step(f, o)
    <2> SUFFICES ASSUME NEW o \in Nat PROVE f[o] = Step(f, o)
        OBVIOUS
    <2>1. f = [x \in Nat |-> Step(f, x)]
        BY <1>6
    <2> HIDE DEF Step, IsFrom
    <2>2. [x \in Nat |-> Step(f, x)][o] = Step(f, o)
        OBVIOUS
    <2>3. QED
        BY <2>1, <2>2
<1>9. ASSUME NEW k \in 1 .. n
      PROVE  /\ f[C[k] + 1] = f[S[k + 1]]
             /\ f[S[k]] = {TypeAt(us, k)} \cup f[C[k] + 1]
    <2>1. k \in 1 .. Len(us) /\ k \in 1 .. n + 1 /\ k + 1 \in 1 .. n + 1
        BY <1>1
    <2>2. PICK s \in Nat, c \in Nat, e \in Nat, d \in Nat :
              s = S[k] /\ c = C[k] /\ e = E[k] /\ d = S[k + 1]
        BY <1>1, <2>1 DEF Scanned
    <2>3. /\ s < c /\ c < e /\ e <= d /\ d <= L /\ e = c + Len(us[k].nal)
          /\ StartCodeSize(data, s) = c - s
          /\ \A o \in c .. d - 1 : StartCodeSize(data, o) = 0
          /\ \A j \in 1 .. Len(us[k].nal) : data[c + j] = us[k].nal[j]
        <3>1. /\ S[k] < C[k] /\ C[k] < E[k] /\ E[k] <= S[k + 1] /\ S[k + 1] <= Len(data)
              /\ E[k] = C[k] + Len(us[k].nal)
            BY <2>1 DEF Scanned
        <3>2. /\ StartCodeSize(data, S[k]) = C[k] - S[k]
              /\ \A o \in C[k] .. S[k + 1] - 1 : StartCodeSize(data, o) = 0
            BY <2>1 DEF Scanned
        <3>3. \A j \in 1 .. Len(us[k].nal) : data[C[k] + j] = us[k].nal[j]
            BY <2>1 DEF Scanned
        <3>4. QED
            BY <1>1, <2>2, <3>1, <3>2, <3>3
    <2>4. ASSUME NEW o \in c .. d - 1 PROVE f[o] = f[o + 1]
        <3>1. o \in Nat /\ ~(o >= Len(data)) /\ Header(o) = o
            BY <1>1, <2>3
        <3>2. f[o] = Step(f, o)
            BY <1>8, <3>1
        <3>3. QED
            BY <3>1, <3>2
    <2> DEFINE T == {x \in Nat : c <= d - x => f[d - x] = f[d]}
    <2>5. 0 \in T
        <3>1. d - 0 = d
            OBVIOUS
        <3>2. QED
            BY <3>1
    <2>6. ASSUME NEW x \in Nat, x \in T PROVE x + 1 \in T
        <3> SUFFICES ASSUME c <= d - (x + 1) PROVE f[d - (x + 1)] = f[d]
            OBVIOUS
        <3>1. PICK o \in c .. d - 1 : o = d - (x + 1) /\ o + 1 = d - x
            <4>1. d - (x + 1) \in c .. d - 1 /\ d - (x + 1) + 1 = d - x
                OBVIOUS
            <4>2. QED
                BY <4>1
        <3>2. f[o] = f[o + 1]
            BY <2>4
        <3>3. f[o + 1] = f[d]
            BY <2>6, <3>1
        <3>4. QED
            BY <3>1, <3>2, <3>3
    <2> HIDE DEF T
    <2>7. \A x \in Nat : x \in T
        BY <2>5, <2>6, AllNumbers
    <2>8. f[c + 1] = f[d]
        <3>1. d - (c + 1) \in Nat /\ d - (d - (c + 1)) = c + 1 /\ c <= c + 1
            BY <2>3
        <3>2. d - (c + 1) \in T
            BY <2>7, <3>1
        <3>3. QED
            BY <3>1, <3>2 DEF T
    <2>9. f[s] = {TypeAt(us, k)} \cup f[c + 1]
        <3>1. Header(s) = c
            BY <2>3
        <3>2. ~(s >= Len(data)) /\ ~(c >= Len(data)) /\ c # s
            BY <1>1, <2>3
        <3>3. f[s] = Step(f, s)
            BY <1>8
        <3> HIDE DEF Header
        <3>4. f[s] = {data[c + 1] % 32} \cup f[c + 1]
            BY <3>1, <3>2, <3>3
        <3>5. us[k].nal \in Seq(Octets)
            BY <2>1 DEF Scanned
        <3>6. 1 \in 1 .. Len(us[k].nal)
            BY <2>3, <3>5
        <3>7. data[c + 1] = us[k].nal[1]
            BY <2>3, <3>6
        <3>8. QED
            BY <3>4, <3>7 DEF TypeAt, NalType
    <2>10. QED
        BY <2>2, <2>8, <2>9
<1> DEFINE Onward(k) == f[S[k]] = {TypeAt(us, i) : i \in k .. n}
           T == {d \in Nat : d <= n => Onward(n + 1 - d)}
<1>10. 0 \in T
    <2>1. n + 1 - 0 = n + 1 /\ S[n + 1] = L /\ L >= Len(data)
        BY <1>1 DEF Scanned
    <2>2. f[L] = {}
        BY <1>1, <1>8, <2>1
    <2>3. n + 1 .. n = {}
        OBVIOUS
    <2>4. Onward(n + 1)
        BY <2>1, <2>2, <2>3
    <2> HIDE DEF Onward
    <2>5. QED
        BY <2>1, <2>4
<1>11. ASSUME NEW d \in Nat, d \in T PROVE d + 1 \in T
    <2> SUFFICES ASSUME d + 1 <= n PROVE Onward(n + 1 - (d + 1))
        OBVIOUS
    <2>1. PICK k \in 1 .. n : k = n - d /\ k + 1 = n + 1 - d /\ k = n + 1 - (d + 1)
        OBVIOUS
    <2>2. Onward(k + 1)
        BY <1>11, <2>1
    <2>3. f[S[k]] = {TypeAt(us, k)} \cup f[S[k + 1]]
        BY <1>9
    <2>4. k .. n = {k} \cup (k + 1 .. n)
        OBVIOUS
    <2>5. {TypeAt(us, i) : i \in k .. n} = {TypeAt(us, k)} \cup {TypeAt(us, i) : i \in k + 1 .. n}
        BY <2>4
    <2>6. Onward(k)
        BY <2>2, <2>3, <2>5
    <2>7. QED
        BY <2>1, <2>6
<1> HIDE DEF T
<1>12. \A d \in Nat : d \in T
    BY <1>10, <1>11, AllNumbers
<1>13. Onward(1)
    <2>1. n \in T /\ n <= n /\ n + 1 - n = 1
        BY <1>12
    <2>2. Onward(n + 1 - n)
        BY <2>1 DEF T
    <2>3. QED
        BY <2>1, <2>2
<1>14. S[1] = 0
    BY DEF Scanned
<1>15. QED
    BY <1>1, <1>7, <1>13, <1>14

LEMMA DeliveryIs ==
    ASSUME NEW p \in ParameterSets, NEW us \in Deliveries(p)
    PROVE  /\ Delivery(us, p) /\ NalUnits(us) /\ us \in Seq(Entries) /\ us # <<>>
           /\ Len(us) \in Nat \ {0} /\ DOMAIN us = 1 .. Len(us)
<1>1. Delivery(us, p)
    BY AccessUnitAssumption
<1>2. NalUnits(us)
    BY <1>1 DEF Delivery
<1>3. us \in Seq(Entries)
    BY <1>2 DEF NalUnits, Entries, Octets
<1>4. DOMAIN us # {}
    BY <1>1 DEF Delivery
<1>5. us # <<>>
    BY <1>4
<1>6. Len(us) \in Nat \ {0} /\ DOMAIN us = 1 .. Len(us)
    BY <1>3, <1>5
<1>7. QED
    BY <1>1, <1>2, <1>3, <1>5, <1>6

LEMMA DeliveryScanned ==
    ASSUME NEW p \in ParameterSets, NEW us \in Deliveries(p)
    PROVE  /\ \E B : Laid(Stream(us), us, B)
           /\ \E C, E, S : Scanned(Stream(us), us, C, E, S)
<1>1. NalUnits(us) /\ us \in Seq(Entries) /\ us # <<>>
    BY DeliveryIs
<1>2. PICK B : Laid(Stream(us), us, B)
    BY <1>1, StreamLaid
<1>3. \E C, E, S : Scanned(Stream(us), us, C, E, S)
    BY <1>1, <1>2, ScannedIs
<1>4. QED
    BY <1>2, <1>3

(* What the media thread finds in an access unit.                          *)
LEMMA Found ==
    ASSUME NEW p \in ParameterSets, NEW us \in Deliveries(p)
    PROVE  /\ Collect(Stream(us)) = IF Len(us) > MaxNalus THEN <<>> ELSE Nals(us)
           /\ Types(Stream(us)) = IF Len(us) > MaxNalus THEN {}
                                  ELSE {TypeAt(us, i) : i \in 1 .. Len(us)}
           /\ Inspected(Stream(us)) = {TypeAt(us, i) : i \in 1 .. Len(us)}
           /\ Sps \in Types(Stream(us)) => FirstOf(Stream(us), Sps) = p.sps
           /\ Pps \in Types(Stream(us)) => FirstOf(Stream(us), Pps) = p.pps
<1>1. PICK data : data = Stream(us)
    OBVIOUS
<1>2. PICK C, E, S : Scanned(data, us, C, E, S)
    BY <1>1, DeliveryScanned
<1>3. Collect(data) = IF Len(us) > MaxNalus THEN <<>> ELSE Nals(us)
    BY <1>2, Collected
<1>4. Inspected(data) = {TypeAt(us, i) : i \in 1 .. Len(us)}
    BY <1>2, InspectedIs
<1>5. Delivery(us, p) /\ us \in Seq(Entries) /\ Len(us) \in Nat \ {0} /\ DOMAIN us = 1 .. Len(us)
    BY DeliveryIs
<1>6. Nals(us) = [i \in 1 .. Len(us) |-> us[i].nal]
    BY <1>5 DEF Nals
<1>7. DOMAIN Nals(us) = 1 .. Len(us) /\ \A i \in 1 .. Len(us) : NalType(Nals(us)[i]) = TypeAt(us, i)
    BY <1>6 DEF TypeAt
<1>8. Types(data) = IF Len(us) > MaxNalus THEN {} ELSE {TypeAt(us, i) : i \in 1 .. Len(us)}
    <2>1. CASE Len(us) > MaxNalus
        <3>1. Collect(data) = <<>>
            BY <1>3, <2>1
        <3>2. DOMAIN Collect(data) = {}
            BY <3>1
        <3>3. QED
            BY <2>1, <3>2 DEF Types, ToSet
    <2>2. CASE ~(Len(us) > MaxNalus)
        <3>1. Collect(data) = Nals(us)
            BY <1>3, <2>2
        <3>2. Types(data) = {NalType(Nals(us)[i]) : i \in 1 .. Len(us)}
            BY <1>7, <3>1 DEF Types, ToSet
        <3>3. QED
            BY <1>7, <2>2, <3>2
    <2>3. QED
        BY <2>1, <2>2
<1>9. ASSUME NEW type, type \in Types(data)
      PROVE  \E i \in 1 .. Len(us) : TypeAt(us, i) = type /\ FirstOf(data, type) = us[i].nal
    <2>1. ~(Len(us) > MaxNalus)
        BY <1>8, <1>9
    <2>2. Collect(data) = Nals(us)
        BY <1>3, <2>1
    <2>3. PICK hits : hits = {i \in 1 .. Len(us) : TypeAt(us, i) = type}
        OBVIOUS
    <2>4. hits = {i \in DOMAIN Nals(us) : NalType(Nals(us)[i]) = type}
        BY <1>7, <2>3
    <2>5. hits # {} /\ hits \subseteq Nat
        BY <1>5, <1>8, <1>9, <2>1, <2>3
    <2>6. PICK m : m = Min(hits)
        OBVIOUS
    <2>7. m \in hits
        BY <2>5, <2>6, Least
    <2>8. FirstOf(data, type) = Nals(us)[m]
        BY <2>2, <2>4, <2>5, <2>6 DEF FirstOf
    <2>9. QED
        BY <1>6, <2>3, <2>7, <2>8
<1>10. ASSUME Sps \in Types(data) PROVE FirstOf(data, Sps) = p.sps
    <2>1. PICK i \in 1 .. Len(us) : TypeAt(us, i) = Sps /\ FirstOf(data, Sps) = us[i].nal
        BY <1>9, <1>10
    <2>2. QED
        BY <1>5, <2>1 DEF Delivery
<1>11. ASSUME Pps \in Types(data) PROVE FirstOf(data, Pps) = p.pps
    <2>1. PICK i \in 1 .. Len(us) : TypeAt(us, i) = Pps /\ FirstOf(data, Pps) = us[i].nal
        BY <1>9, <1>11
    <2>2. QED
        BY <1>5, <2>1 DEF Delivery
<1>12. QED
    BY <1>1, <1>3, <1>4, <1>8, <1>10, <1>11

(* What is sent ahead of a picture makes it decodable.                     *)
SetAhead(p, us, nals, m) ==
    /\ Len(nals) = m + Len(us)
    /\ \A i \in 1 .. Len(us) : nals[m + i] = us[i].nal
    /\ \A i \in 1 .. m : nals[i] \in {p.sps, p.pps}
    /\ p.sps \in {nals[i] : i \in 1 .. m} \/ \E i \in 1 .. Len(us) : TypeAt(us, i) = Sps
    /\ p.pps \in {nals[i] : i \in 1 .. m} \/ \E i \in 1 .. Len(us) : TypeAt(us, i) = Pps

LEMMA AheadOfPictures ==
    ASSUME NEW p \in ParameterSets, NEW us, Delivery(us, p), NEW m \in Nat, NEW nals \in Seq(Seq(Octets)),
           SetAhead(p, us, nals, m), Len(us) \in Nat
    PROVE  \A l \in 1 .. Len(nals) : NalType(nals[l]) = Idr =>
               /\ l > m /\ l - m \in 1 .. Len(us) /\ TypeAt(us, l - m) = Idr
<1> SUFFICES ASSUME NEW l \in 1 .. Len(nals), NalType(nals[l]) = Idr
             PROVE  l > m /\ l - m \in 1 .. Len(us) /\ TypeAt(us, l - m) = Idr
    OBVIOUS
<1>1. NalType(p.sps) = Sps /\ NalType(p.pps) = Pps
    BY AccessUnitAssumption
<1>2. Sps # Idr /\ Pps # Idr
    BY DEF Sps, Pps, Idr
<1>3. l > m
    <2> SUFFICES ASSUME ~(l > m) PROVE FALSE
        OBVIOUS
    <2>1. l \in 1 .. m
        OBVIOUS
    <2>2. nals[l] = p.sps \/ nals[l] = p.pps
        BY <2>1 DEF SetAhead
    <2>3. QED
        BY <1>1, <1>2, <2>2
<1>4. PICK j \in 1 .. Len(us) : j = l - m /\ l = m + j
    <2>1. Len(nals) = m + Len(us)
        BY DEF SetAhead
    <2>2. l - m \in 1 .. Len(us) /\ l = m + (l - m)
        BY <1>3, <2>1
    <2>3. QED
        BY <2>2
<1>5. nals[l] = us[j].nal
    BY <1>4 DEF SetAhead
<1>6. QED
    BY <1>3, <1>4, <1>5 DEF TypeAt


(* NAL units that a decoder can begin with.                                *)
Opens(p, nals) ==
    \E i, j, k \in 1 .. Len(nals) :
        /\ nals[i] = p.sps /\ nals[j] = p.pps /\ NalType(nals[k]) = Idr
        /\ \A l \in 1 .. Len(nals) : NalType(nals[l]) = Idr => l > i /\ l > j

LEMMA OpensAhead ==
    ASSUME NEW p \in ParameterSets, NEW us, Delivery(us, p), NEW m \in Nat,
           NEW nals \in Seq(Seq(Octets)), SetAhead(p, us, nals, m), Len(us) \in Nat,
           DOMAIN us = 1 .. Len(us), \E i \in 1 .. Len(us) : TypeAt(us, i) = Idr
    PROVE  Opens(p, nals)
<1>1. Len(nals) = m + Len(us) /\ \A i \in 1 .. Len(us) : nals[m + i] = us[i].nal
    BY DEF SetAhead
<1>2. \A l \in 1 .. Len(nals) : NalType(nals[l]) = Idr =>
          l > m /\ l - m \in 1 .. Len(us) /\ TypeAt(us, l - m) = Idr
    BY AheadOfPictures
<1>3. ASSUME NEW type \in {Sps, Pps}, NEW set,
             \A i \in 1 .. Len(us) : TypeAt(us, i) = type => us[i].nal = set,
             \/ set \in {nals[i] : i \in 1 .. m}
             \/ \E i \in 1 .. Len(us) : TypeAt(us, i) = type
      PROVE  \E i \in 1 .. Len(nals) :
                 /\ nals[i] = set
                 /\ \A l \in 1 .. Len(nals) : NalType(nals[l]) = Idr => l > i
    <2>1. CASE set \in {nals[i] : i \in 1 .. m}
        <3>1. PICK i \in 1 .. m : nals[i] = set
            BY <2>1
        <3>2. i \in 1 .. Len(nals)
            BY <1>1
        <3>3. \A l \in 1 .. Len(nals) : NalType(nals[l]) = Idr => l > i
            BY <1>2
        <3>4. QED
            BY <3>1, <3>2, <3>3
    <2>2. CASE \E i \in 1 .. Len(us) : TypeAt(us, i) = type
        <3>1. PICK i \in 1 .. Len(us) : TypeAt(us, i) = type
            BY <2>2
        <3>2. nals[m + i] = set /\ m + i \in 1 .. Len(nals)
            <4>1. us[i].nal = set
                BY <1>3, <3>1
            <4>2. nals[m + i] = us[i].nal
                BY <1>1
            <4>3. m + i \in 1 .. m + Len(us)
                BY <3>1
            <4>4. QED
                BY <1>1, <4>1, <4>2, <4>3
        <3>3. ASSUME NEW l \in 1 .. Len(nals), NalType(nals[l]) = Idr PROVE l > m + i
            <4>1. PICK j \in 1 .. Len(us) : j = l - m /\ TypeAt(us, j) = Idr
                BY <1>2, <3>3
            <4>2. i \in DOMAIN us /\ j \in DOMAIN us
                OBVIOUS
            <4>3. i < j
                BY <3>1, <4>1, <4>2 DEF Delivery
            <4>4. QED
                BY <4>1, <4>3
        <3>4. QED
            BY <3>2, <3>3
    <2>3. QED
        BY <1>3, <2>1, <2>2
<1>4. PICK i \in 1 .. Len(nals) :
          nals[i] = p.sps /\ \A l \in 1 .. Len(nals) : NalType(nals[l]) = Idr => l > i
    <2>1. \A x \in 1 .. Len(us) : TypeAt(us, x) = Sps => us[x].nal = p.sps
        BY DEF Delivery
    <2>2. p.sps \in {nals[x] : x \in 1 .. m} \/ \E x \in 1 .. Len(us) : TypeAt(us, x) = Sps
        BY DEF SetAhead
    <2>3. QED
        BY <1>3, <2>1, <2>2
<1>5. PICK j \in 1 .. Len(nals) :
          nals[j] = p.pps /\ \A l \in 1 .. Len(nals) : NalType(nals[l]) = Idr => l > j
    <2>1. \A x \in 1 .. Len(us) : TypeAt(us, x) = Pps => us[x].nal = p.pps
        BY DEF Delivery
    <2>2. p.pps \in {nals[x] : x \in 1 .. m} \/ \E x \in 1 .. Len(us) : TypeAt(us, x) = Pps
        BY DEF SetAhead
    <2>3. QED
        BY <1>3, <2>1, <2>2
<1>6. PICK k \in 1 .. Len(us) : TypeAt(us, k) = Idr
    OBVIOUS
<1>7. m + k \in 1 .. Len(nals) /\ NalType(nals[m + k]) = Idr
    BY <1>1, <1>6 DEF TypeAt
<1>8. QED
    BY <1>4, <1>5, <1>7 DEF Opens

(* The missing parameter sets, in a list.                                  *)
LEMMA MissingAre ==
    ASSUME NEW types, sps \in Seq(Octets), pps \in Seq(Octets)
    PROVE  /\ MissingSets(types) \in Seq(Seq(Octets))
           /\ Len(MissingSets(types)) \in Nat
           /\ \A i \in 1 .. Len(MissingSets(types)) : MissingSets(types)[i] \in {sps, pps}
           /\ Sps \notin types =>
                  sps \in {MissingSets(types)[i] : i \in 1 .. Len(MissingSets(types))}
           /\ Pps \notin types =>
                  pps \in {MissingSets(types)[i] : i \in 1 .. Len(MissingSets(types))}
<1>1. PICK a, b, ms : /\ a = IF Sps \in types THEN <<>> ELSE <<sps>>
                      /\ b = IF Pps \in types THEN <<>> ELSE <<pps>>
                      /\ ms = a \o b
    OBVIOUS
<1>2. ms = MissingSets(types)
    BY <1>1 DEF MissingSets
<1>3. a \in Seq(Seq(Octets)) /\ b \in Seq(Seq(Octets))
    BY <1>1
<1>4. /\ ms \in Seq(Seq(Octets)) /\ Len(ms) = Len(a) + Len(b)
      /\ \A i \in 1 .. Len(a) : ms[i] = a[i]
      /\ \A i \in 1 .. Len(b) : ms[Len(a) + i] = b[i]
    <2>1. a \in Seq(Seq(Octets)) /\ b \in Seq(Seq(Octets)) /\ ms = a \o b
        BY <1>1, <1>3
    <2>2. QED
        BY <2>1, JoinedUp
<1>5. Len(a) = (IF Sps \in types THEN 0 ELSE 1) /\ (Sps \notin types => a[1] = sps)
    BY <1>1
<1>6. Len(b) = (IF Pps \in types THEN 0 ELSE 1) /\ (Pps \notin types => b[1] = pps)
    BY <1>1
<1>7. Sps \notin types => 1 \in 1 .. Len(ms) /\ ms[1] = sps
    <2> SUFFICES ASSUME Sps \notin types PROVE 1 \in 1 .. Len(ms) /\ ms[1] = sps
        OBVIOUS
    <2>1. Len(a) = 1 /\ a[1] = sps /\ Len(b) \in {0, 1}
        BY <1>5, <1>6
    <2>2. 1 \in 1 .. Len(a) /\ 1 \in 1 .. Len(ms)
        BY <1>4, <2>1
    <2>3. QED
        BY <1>4, <2>1, <2>2
<1>8. Pps \notin types => Len(a) + 1 \in 1 .. Len(ms) /\ ms[Len(a) + 1] = pps
    <2> SUFFICES ASSUME Pps \notin types
                 PROVE  Len(a) + 1 \in 1 .. Len(ms) /\ ms[Len(a) + 1] = pps
        OBVIOUS
    <2>1. Len(b) = 1 /\ b[1] = pps /\ Len(a) \in {0, 1}
        BY <1>5, <1>6
    <2>2. 1 \in 1 .. Len(b) /\ Len(a) + 1 \in 1 .. Len(ms)
        BY <1>4, <2>1
    <2>3. QED
        BY <1>4, <2>1, <2>2
<1>9. ASSUME NEW i \in 1 .. Len(ms) PROVE ms[i] \in {sps, pps}
    <2>1. PICK x \in {0, 1}, y \in {0, 1} : x = Len(a) /\ y = Len(b) /\ Len(ms) = x + y
        BY <1>4, <1>5, <1>6
    <2>2. CASE i <= x
        <3>1. x = 1 /\ i = 1
            BY <2>1, <2>2
        <3>2. Len(a) # 0
            BY <2>1, <3>1
        <3>3. Sps \notin types
            BY <1>5, <3>2
        <3>4. QED
            BY <1>7, <3>1, <3>3
    <2>3. CASE ~(i <= x)
        <3>1. y = 1 /\ i = x + 1
            <4>1. i \in 1 .. x + y
                BY <2>1
            <4>2. i <= x + y /\ i > x /\ (y = 0 \/ y = 1) /\ x \in Int
                BY <2>3, <4>1
            <4>3. QED
                BY <4>2
        <3>2. Len(b) # 0
            BY <2>1, <3>1
        <3>3. Pps \notin types
            BY <1>6, <3>2
        <3>4. QED
            BY <1>8, <2>1, <3>1, <3>3
    <2>4. QED
        BY <2>2, <2>3
<1>10. Len(ms) \in Nat
    BY <1>4
<1>11. QED
    BY <1>2, <1>4, <1>7, <1>8, <1>9, <1>10


-----------------------------------------------------------------------------
(* The unit that opens a recording.                                        *)
(* A parameter set that build_complete_mp4_start_au writes.                *)
Entry(set) == [code |-> 4, nal |-> set, zeros |-> 0]

LEMMA EntryIs ==
    ASSUME NEW set \in Seq(Octets)
    PROVE  Entry(set) \in Entries /\ Piece(Entry(set)) = StartCode(4) \o set
<1>1. Entry(set) \in Entries
    BY DEF Entry, Entries
<1>2. Zeros(0) = <<>>
    <2>1. PICK z : z = Zeros(0)
        OBVIOUS
    <2>2. z \in Seq(Octets) /\ Len(z) = 0
        BY <2>1, ZerosAre
    <2>3. QED
        BY <2>1, <2>2
<1>3. StartCode(4) \in Seq(Octets)
    BY StartCodesAre
<1>4. PICK s : s = StartCode(4) \o set
    OBVIOUS
<1>5. s \in Seq(Octets)
    BY <1>3, <1>4
<1>6. s \o <<>> = s
    BY <1>5
<1>7. Piece(Entry(set)) = s \o Zeros(0)
    BY <1>4 DEF Piece, Entry
<1>8. QED
    BY <1>1, <1>2, <1>4, <1>6, <1>7

LEMMA NalUnitsAre ==
    ASSUME NEW us \in Seq(Entries), \A i \in 1 .. Len(us) : NalUnit(us[i].nal)
    PROVE  NalUnits(us)
<1>1. us \in Seq([code : {3, 4}, nal : Seq(0 .. 255), zeros : Nat])
    BY DEF Entries, Octets
<1>2. DOMAIN us = 1 .. Len(us)
    OBVIOUS
<1>3. QED
    BY <1>1, <1>2 DEF NalUnits

LEMMA NalsAre ==
    ASSUME NEW us \in Seq(Entries)
    PROVE  /\ Nals(us) \in Seq(Seq(Octets)) /\ Len(Nals(us)) = Len(us)
           /\ \A i \in 1 .. Len(us) : Nals(us)[i] = us[i].nal /\ us[i].nal \in Seq(Octets)
<1>1. PICK n \in Nat : n = Len(us)
    OBVIOUS
<1>2. \A i \in 1 .. n : us[i].nal \in Seq(Octets)
    <2> SUFFICES ASSUME NEW i \in 1 .. n PROVE us[i].nal \in Seq(Octets)
        OBVIOUS
    <2>1. us[i] \in Entries
        BY <1>1
    <2>2. QED
        BY <2>1 DEF Entries
<1>3. PICK m : m = Nals(us)
    OBVIOUS
<1>4. m = [i \in 1 .. n |-> us[i].nal]
    BY <1>1, <1>3 DEF Nals
<1>5. m \in [1 .. n -> Seq(Octets)] /\ \A i \in 1 .. n : m[i] = us[i].nal
    BY <1>2, <1>4
<1>6. m \in Seq(Seq(Octets)) /\ Len(m) = n
    BY <1>5
<1>7. QED
    BY <1>1, <1>2, <1>3, <1>5, <1>6


(* It has the parameter sets of the server ahead of the unit at hand, if   *)
(* that lacks one.                                                         *)
LEMMA StartUnitIs ==
    ASSUME NEW p \in ParameterSets, NEW us \in Deliveries(p), sps = p.sps, pps = p.pps,
           NEW data, data = StartUnit(Stream(us)), Idr \in Types(Stream(us))
    PROVE  \E ws, m, C, E, S :
               /\ Scanned(data, ws, C, E, S) /\ m \in Nat /\ SetAhead(p, us, Nals(ws), m)
               /\ \A type \in {Sps, Pps} : \E i \in 1 .. Len(ws) : TypeAt(ws, i) = type
<1>1. /\ Delivery(us, p) /\ NalUnits(us) /\ us \in Seq(Entries) /\ us # <<>>
      /\ Len(us) \in Nat \ {0} /\ DOMAIN us = 1 .. Len(us)
    BY DeliveryIs
<1>2. PICK n \in Nat \ {0}, au \in {Stream(us)} : n = Len(us) /\ au = Stream(us)
    BY <1>1
<1>3. PICK B : Laid(au, us, B)
    BY <1>2, DeliveryScanned
<1>4. Types(au) = {TypeAt(us, i) : i \in 1 .. n}
    <2>1. Types(Stream(us)) = IF Len(us) > MaxNalus THEN {}
                              ELSE {TypeAt(us, i) : i \in 1 .. Len(us)}
        BY Found
    <2>2. Types(Stream(us)) # {}
        OBVIOUS
    <2>3. QED
        BY <1>2, <2>1, <2>2
<1>5. CASE {Sps, Pps} \subseteq Types(au)
    <2>1. data = au
        BY <1>2, <1>5 DEF StartUnit
    <2>2. PICK C, E, S : Scanned(au, us, C, E, S)
        BY <1>2, DeliveryScanned
    <2>3. \A type \in {Sps, Pps} : \E i \in 1 .. Len(us) : TypeAt(us, i) = type
        BY <1>2, <1>4, <1>5
    <2>4. SetAhead(p, us, Nals(us), 0)
        <3>1. Len(Nals(us)) = Len(us) /\ \A i \in 1 .. Len(us) : Nals(us)[i] = us[i].nal
            BY <1>1, NalsAre
        <3>2. Len(Nals(us)) = 0 + Len(us) /\ \A i \in 1 .. Len(us) : Nals(us)[0 + i] = us[i].nal
            BY <1>1, <3>1
        <3>3. 1 .. 0 = {}
            OBVIOUS
        <3>4. QED
            BY <2>3, <3>2, <3>3 DEF SetAhead
    <2>5. 0 \in Nat
        OBVIOUS
    <2>6. QED
        BY <2>1, <2>2, <2>3, <2>4, <2>5
<1>6. CASE ~({Sps, Pps} \subseteq Types(au))
    <2>1. /\ NalUnit(p.sps) /\ NalType(p.sps) = Sps
          /\ NalUnit(p.pps) /\ NalType(p.pps) = Pps
        BY AccessUnitAssumption
    <2>2. sps \in Seq(Octets) /\ pps \in Seq(Octets)
        BY <2>1 DEF NalUnit, Octets
    <2>3. PICK a, b : a = Entry(sps) /\ b = Entry(pps)
        OBVIOUS
    <2>4. /\ a \in Entries /\ Piece(a) = StartCode(4) \o sps
          /\ b \in Entries /\ Piece(b) = StartCode(4) \o pps
        BY <2>2, <2>3, EntryIs
    <2>5. Laid(Piece(a), <<a>>, <<0, Size(a)>>) /\ Laid(Piece(b), <<b>>, <<0, Size(b)>>)
        BY <2>4, OneLaid
    <2>6. PICK D : Laid(Piece(a) \o Piece(b), <<a>> \o <<b>>, D)
        BY <2>5, LaidJoined
    <2>7. PICK F : Laid((Piece(a) \o Piece(b)) \o au, (<<a>> \o <<b>>) \o us, F)
        BY <1>3, <2>6, LaidJoined
    <2>8. data = (Piece(a) \o Piece(b)) \o au
        <3>1. PICK s : s = StartCode(4)
            OBVIOUS
        <3>2. s \in Seq(Octets) /\ au \in Seq(Octets)
            BY <1>3, <3>1, StartCodesAre DEF Laid
        <3>3. data = s \o sps \o s \o pps \o au
            BY <1>2, <1>6, <3>1 DEF StartUnit
        <3>4. PICK x : x = s \o sps
            OBVIOUS
        <3>5. x \in Seq(Octets)
            BY <2>2, <3>2, <3>4
        <3>6. (x \o s) \o pps = x \o (s \o pps)
            <4>1. PICK q \in Seq(Octets) : q = pps
                BY <2>2
            <4>2. \A y, z \in Seq(Octets) : (x \o y) \o z = x \o (y \o z)
                BY SMTT(30), <3>5, ConcatAssociative
            <4>3. (x \o s) \o q = x \o (s \o q)
                BY <3>2, <4>1, <4>2
            <4>4. QED
                BY <4>1, <4>3
        <3>7. QED
            BY <2>4, <3>1, <3>3, <3>4, <3>6
    <2>9. PICK ab, ws : ab = <<a>> \o <<b>> /\ ws = ab \o us
        OBVIOUS
    <2>10. ab \in Seq(Entries) /\ Len(ab) = 2 /\ ab[1] = a /\ ab[2] = b
        <3>1. PICK x, y : x = <<a>> /\ y = <<b>>
            OBVIOUS
        <3>2. x \in Seq(Entries) /\ y \in Seq(Entries) /\ Len(x) = 1 /\ Len(y) = 1
              /\ x[1] = a /\ y[1] = b
            BY <2>4, <3>1
        <3>3. ab = x \o y
            BY <2>9, <3>1
        <3>4. /\ ab \in Seq(Entries) /\ Len(ab) = Len(x) + Len(y)
              /\ \A i \in 1 .. Len(x) : ab[i] = x[i]
              /\ \A i \in 1 .. Len(y) : ab[Len(x) + i] = y[i]
            <4>1. x \in Seq(Entries) /\ y \in Seq(Entries) /\ ab = x \o y
                BY <3>2, <3>3
            <4>2. QED
                BY <4>1, JoinedUp
        <3>5. 1 \in 1 .. 1 /\ 1 + 1 = 2
            OBVIOUS
        <3>6. ab[1] = x[1] /\ ab[1 + 1] = y[1] /\ Len(ab) = 1 + 1
            BY <3>2, <3>4, <3>5
        <3>7. QED
            BY <3>2, <3>4, <3>5, <3>6
    <2>11. /\ ws \in Seq(Entries) /\ Len(ws) = 2 + n
           /\ ws[1] = a /\ ws[2] = b
           /\ \A i \in 1 .. n : ws[2 + i] = us[i]
        <3>1. /\ ws \in Seq(Entries) /\ Len(ws) = Len(ab) + Len(us)
              /\ \A i \in 1 .. Len(ab) : ws[i] = ab[i]
              /\ \A i \in 1 .. Len(us) : ws[Len(ab) + i] = us[i]
            BY <1>1, <2>9, <2>10, JoinedUp
        <3>2. 1 \in 1 .. 2 /\ 2 \in 1 .. 2
            OBVIOUS
        <3>3. QED
            BY <1>2, <2>10, <3>1, <3>2
    <2>12. a.nal = p.sps /\ b.nal = p.pps
        BY <2>3 DEF Entry
    <2>13. \A i \in 1 .. 2 + n : i = 1 \/ i = 2 \/ \E j \in 1 .. n : i = 2 + j
        <3> SUFFICES ASSUME NEW i \in 1 .. 2 + n, i # 1, i # 2
                     PROVE  \E j \in 1 .. n : i = 2 + j
            OBVIOUS
        <3>1. i - 2 \in 1 .. n /\ i = 2 + (i - 2)
            OBVIOUS
        <3>2. QED
            BY <3>1
    <2>14. NalUnits(ws)
        <3>1. \A j \in 1 .. n : NalUnit(us[j].nal)
            BY <1>1, <1>2 DEF NalUnits
        <3>2. \A i \in 1 .. Len(ws) : NalUnit(ws[i].nal)
            <4> SUFFICES ASSUME NEW i \in 1 .. Len(ws) PROVE NalUnit(ws[i].nal)
                OBVIOUS
            <4>1. i = 1 \/ i = 2 \/ \E j \in 1 .. n : i = 2 + j
                BY <2>11, <2>13
            <4>2. QED
                BY <2>1, <2>11, <2>12, <3>1, <4>1
        <3>3. QED
            BY <2>11, <3>2, NalUnitsAre
    <2>15. ws # <<>>
        BY <2>11
    <2>16. Laid(data, ws, F)
        BY <2>7, <2>8, <2>9
    <2>17. PICK C, E, S : Scanned(data, ws, C, E, S)
        BY <2>14, <2>15, <2>16, ScannedIs
    <2>18. PICK nals : nals = Nals(ws)
        OBVIOUS
    <2>19. Len(nals) = 2 + n /\ \A i \in 1 .. 2 + n : nals[i] = ws[i].nal
        BY <2>11, <2>18, NalsAre
    <2>20. 1 \in 1 .. 2 + n /\ 2 \in 1 .. 2 + n /\ \A i \in 1 .. n : 2 + i \in 1 .. 2 + n
        OBVIOUS
    <2>21. nals[1] = p.sps /\ nals[2] = p.pps
        BY <2>11, <2>12, <2>19, <2>20
    <2>22. \A i \in 1 .. n : nals[2 + i] = us[i].nal
        BY <2>11, <2>19, <2>20
    <2>23. SetAhead(p, us, nals, 2)
        <3>1. \A i \in 1 .. 2 : i = 1 \/ i = 2
            OBVIOUS
        <3>2. 1 \in 1 .. 2 /\ 2 \in 1 .. 2
            OBVIOUS
        <3>3. QED
            BY <1>2, <2>19, <2>21, <2>22, <3>1, <3>2 DEF SetAhead
    <2>24. \A type \in {Sps, Pps} : \E i \in 1 .. Len(ws) : TypeAt(ws, i) = type
        <3>1. TypeAt(ws, 1) = Sps /\ TypeAt(ws, 2) = Pps
            BY <2>1, <2>11, <2>12 DEF TypeAt
        <3>2. QED
            BY <2>11, <2>20, <3>1
    <2>25. 2 \in Nat
        OBVIOUS
    <2>26. QED
        BY <2>17, <2>18, <2>23, <2>24, <2>25
<1>7. QED
    BY <1>5, <1>6

(* The reference reads it as it was written.                               *)
LEMMA OpensUnits ==
    ASSUME NEW data, NEW us, NEW C, NEW E, NEW S, Scanned(data, us, C, E, S),
           Opens(params, Nals(us))
    PROVE  Decodable(Units(data))
<1>1. us \in Seq(Entries) /\ C \in [1 .. Len(us) -> Nat]
      /\ \A j, k \in 1 .. Len(us) : j < k => C[j] < C[k]
    BY DEF Scanned
<1>2. Len(Nals(us)) = Len(us) /\ \A i \in 1 .. Len(us) : Nals(us)[i] = us[i].nal
    BY <1>1, NalsAre
<1>3. /\ DOMAIN Units(data) = {C[k] : k \in 1 .. Len(us)}
      /\ \A k \in 1 .. Len(us) : Units(data)[C[k]] = us[k].nal
    <2>1. Scanned(data, us, C, E, S)
        OBVIOUS
    <2>2. /\ Codes(data) = {C[k] : k \in 1 .. Len(us)}
          /\ DOMAIN Units(data) = Codes(data)
          /\ \A k \in 1 .. Len(us) : Units(data)[C[k]] = us[k].nal
        BY <2>1, UnitsAre
    <2>3. QED
        BY <2>2
<1>4. PICK i \in 1 .. Len(us), j \in 1 .. Len(us), k \in 1 .. Len(us) :
          /\ us[i].nal = params.sps /\ us[j].nal = params.pps /\ NalType(us[k].nal) = Idr
          /\ \A l \in 1 .. Len(us) : NalType(us[l].nal) = Idr => l > i /\ l > j
    BY <1>2 DEF Opens
<1>5. ASSUME NEW x \in DOMAIN Units(data), NalType(Units(data)[x]) = Idr
      PROVE  x > C[i] /\ x > C[j]
    <2>1. PICK l \in 1 .. Len(us) : x = C[l]
        BY <1>3
    <2>2. NalType(us[l].nal) = Idr
        BY <1>3, <1>5, <2>1
    <2>3. l > i /\ l > j
        BY <1>4, <2>2
    <2>4. i < l /\ j < l
        BY <2>3
    <2>5. C[i] < C[l] /\ C[j] < C[l] /\ C[i] \in Nat /\ C[j] \in Nat /\ C[l] \in Nat
        BY <1>1, <2>4
    <2>6. QED
        BY <2>1, <2>5
<1>6. C[i] \in DOMAIN Units(data) /\ C[j] \in DOMAIN Units(data) /\ C[k] \in DOMAIN Units(data)
    BY <1>3
<1>7. QED
    BY <1>3, <1>4, <1>5, <1>6 DEF Decodable

-----------------------------------------------------------------------------
(* AccessUnit: the media thread.                                           *)
Handed == {"record", "send", "next", "failed", "unreadable"}
Idle   == {"init", "noServer", "closed", "ended"}

(* Whoever has passed Bootstrap has the encoder's parameter sets; nothing  *)
(* is sent or written before its turn.                                     *)
PlaceInv ==
    /\ params \in ParameterSets
    /\ place \in Handed \cup Idle \cup {"loop"}
    /\ place \notin {"init", "noServer"} => sps = params.sps /\ pps = params.pps
    /\ place \in Handed => units \in Deliveries(params)
    /\ sent # <<>> => place = "next"
    /\ written # <<>> => place \in {"send", "next", "failed", "unreadable"}

(* The first unit of a session to pass the gate has an IDR in it.          *)
GateInv ==
    /\ index \in Nat /\ waiting \in BOOLEAN /\ first \in BOOLEAN
    /\ first => place \in Handed /\ Idr \in Types(Stream(units))
    /\ place \in Idle => waiting /\ index = 0
    /\ place \in {"loop", "next"} /\ index = 0 => waiting
    /\ place \in {"record", "send"} /\ index = 0 => first

(* The muxer has counted the frames of the thread, and knows the time of   *)
(* the last.                                                               *)
MuxerInv ==
    /\ frames \in Nat
    /\ place = "record" => recording
    /\ recording /\ place \in {"loop", "record", "next"} => frames = index
    /\ recording /\ place = "send" => frames = index + 1
    /\ frames > 0 => lastPts = ((frames - 1) * Second) \div Fps

UnitInv == PlaceInv /\ GateInv /\ MuxerInv /\ UnitsSurvive /\ RecordingPlays

(* Division.                                                               *)
LEMMA Divided ==
    ASSUME NEW a \in Nat, NEW m \in Nat \ {0}
    PROVE  a \div m \in Nat /\ a % m \in 0 .. m - 1 /\ a = (a \div m) * m + (a % m)
    OBVIOUS

LEMMA Quotients ==
    ASSUME NEW a \in Nat, NEW s \in Nat, NEW f \in Nat \ {0}, f <= s
    PROVE  /\ (a * s) \div f \in Nat
           /\ a > 0 => (a * s) \div f > ((a - 1) * s) \div f
<1>1. PICK n \in Nat : n = a * s
    OBVIOUS
<1>2. PICK t \in Nat, v \in 0 .. f - 1 : t = n \div f /\ n = t * f + v
    BY Divided
<1>3. ASSUME a > 0 PROVE (a * s) \div f > ((a - 1) * s) \div f
    <2>1. PICK b \in Nat : b = a - 1
        BY <1>3
    <2>2. PICK m \in Nat : m = b * s
        OBVIOUS
    <2>3. n = m + s
        BY <1>1, <2>1, <2>2
    <2>4. PICK q \in Nat, u \in 0 .. f - 1 : q = m \div f /\ m = q * f + u
        BY Divided
    <2>5. t > q
        <3> SUFFICES ASSUME ~(t > q) PROVE FALSE
            OBVIOUS
        <3>1. PICK d \in Nat : q = t + d
            <4>1. q - t \in Nat /\ q = t + (q - t)
                OBVIOUS
            <4>2. QED
                BY <4>1
        <3>2. PICK x \in Nat, y \in Nat : x = t * f /\ y = d * f
            OBVIOUS
        <3>3. q * f = x + y
            BY <3>1, <3>2
        <3>4. n = x + v /\ m = x + y + u /\ v < f /\ f <= s
            BY <1>2, <2>4, <3>2, <3>3
        <3>5. QED
            BY <2>3, <3>4
    <2>6. QED
        BY <1>1, <1>2, <2>1, <2>2, <2>4, <2>5
<1>4. QED
    BY <1>1, <1>2, <1>3


LEMMA NothingSent ==
    ASSUME sent' = <<>>, place' # "unreadable"
    PROVE  UnitsSurvive'
BY DEF UnitsSurvive

LEMMA NothingWritten ==
    ASSUME written' = <<>>, place' # "refused"
    PROVE  RecordingPlays'
BY DEF RecordingPlays

LEMMA UnitBegins == ASSUME UnitInit PROVE UnitInv
<1>1. PlaceInv
    BY DEF UnitInit, PlaceInv, Handed, Idle
<1>2. GateInv
    BY DEF UnitInit, GateInv, Handed, Idle
<1>3. MuxerInv
    BY DEF UnitInit, MuxerInv
<1>4. UnitsSurvive
    BY DEF UnitInit, UnitsSurvive
<1>5. RecordingPlays
    BY DEF UnitInit, RecordingPlays
<1>6. QED
    BY <1>1, <1>2, <1>3, <1>4, <1>5 DEF UnitInv

LEMMA BootstrapStep == ASSUME UnitInv, Bootstrap PROVE UnitInv'
<1>1. PICK us \in Deliveries(params) :
          IF Idr \in Types(Stream(us)) /\ {Sps, Pps} \subseteq Types(Stream(us))
          THEN /\ place' = "closed"
               /\ sps' = FirstOf(Stream(us), Sps) /\ pps' = FirstOf(Stream(us), Pps)
          ELSE place' = "noServer" /\ UNCHANGED <<sps, pps>>
    BY DEF Bootstrap
<1>2. /\ params \in ParameterSets /\ place = "init" /\ sent = <<>> /\ written = <<>>
      /\ waiting /\ index = 0 /\ ~first
    BY DEF Bootstrap, UnitInv, PlaceInv, GateInv, Handed, Idle
<1>3. /\ params' = params /\ recording' = recording /\ waiting' = waiting /\ first' = first
      /\ index' = index /\ frames' = frames /\ lastPts' = lastPts /\ written' = written
      /\ units' = units /\ sent' = sent
    BY DEF Bootstrap, gateVars, muxer
<1>4. place' = "closed" => sps' = params.sps /\ pps' = params.pps
    <2>1. /\ Sps \in Types(Stream(us)) => FirstOf(Stream(us), Sps) = params.sps
          /\ Pps \in Types(Stream(us)) => FirstOf(Stream(us), Pps) = params.pps
        BY <1>2, Found
    <2>2. QED
        BY <1>1, <2>1
<1>5. place' \in {"closed", "noServer"}
    BY <1>1
<1>6. PlaceInv'
    BY <1>2, <1>3, <1>4, <1>5 DEF PlaceInv, Handed, Idle
<1>7. GateInv'
    BY <1>2, <1>3, <1>5 DEF UnitInv, GateInv, Handed, Idle
<1>8. MuxerInv'
    BY <1>3, <1>5 DEF UnitInv, MuxerInv
<1>9. UnitsSurvive' /\ RecordingPlays'
    BY <1>2, <1>3, <1>5, NothingSent, NothingWritten
<1>10. QED
    BY <1>6, <1>7, <1>8, <1>9 DEF UnitInv

LEMMA PlayStep == ASSUME UnitInv, Play PROVE UnitInv'
<1>1. place = "closed" /\ place' = "loop" /\ frames' = 0 /\ lastPts' = -1
    BY DEF Play
<1>2. /\ params' = params /\ sps' = sps /\ pps' = pps /\ recording' = recording
      /\ waiting' = waiting /\ first' = first /\ index' = index /\ written' = written
      /\ units' = units /\ sent' = sent
    BY DEF Play, media, gateVars
<1>3. sent = <<>> /\ written = <<>> /\ waiting /\ index = 0 /\ ~first
    BY <1>1 DEF UnitInv, PlaceInv, GateInv, Handed, Idle
<1>4. PlaceInv'
    BY <1>1, <1>2, <1>3 DEF UnitInv, PlaceInv, Handed, Idle
<1>5. GateInv'
    BY <1>1, <1>2, <1>3 DEF UnitInv, GateInv, Handed, Idle
<1>6. MuxerInv'
    BY <1>1, <1>2, <1>3 DEF UnitInv, MuxerInv
<1>7. UnitsSurvive' /\ RecordingPlays'
    BY <1>1, <1>2, <1>3, NothingSent, NothingWritten
<1>8. QED
    BY <1>4, <1>5, <1>6, <1>7 DEF UnitInv

LEMMA GateStep == ASSUME UnitInv, Gate PROVE UnitInv'
<1>1. PICK us \in Deliveries(params) : us = units'
    BY DEF Gate
<1>2. PICK idr \in BOOLEAN : idr <=> Idr \in Types(Stream(units'))
    OBVIOUS
<1>3. /\ place = "loop" /\ first' = (waiting /\ idr) /\ waiting' = (waiting /\ ~idr)
      /\ place' = IF waiting' THEN "next" ELSE IF recording THEN "record" ELSE "send"
    BY <1>2 DEF Gate
<1>4. /\ params' = params /\ sps' = sps /\ pps' = pps /\ recording' = recording
      /\ index' = index /\ frames' = frames /\ lastPts' = lastPts /\ written' = written
      /\ sent' = sent
    BY DEF Gate, media, muxer
<1>5. sent = <<>> /\ written = <<>> /\ waiting \in BOOLEAN /\ (index = 0 => waiting)
    BY <1>3 DEF UnitInv, PlaceInv, GateInv
<1>6. place' \in {"next", "record", "send"} /\ (place' = "record" => recording)
    BY <1>3
<1>7. PlaceInv'
    <2>1. units' \in Deliveries(params')
        BY <1>1, <1>4
    <2>2. QED
        BY <1>3, <1>4, <1>5, <1>6, <2>1 DEF UnitInv, PlaceInv, Handed, Idle
<1>8. GateInv'
    <2>1. first' => place' \in Handed /\ Idr \in Types(Stream(units'))
        BY <1>2, <1>3, <1>6 DEF Handed
    <2>2. place' = "next" /\ index' = 0 => waiting'
        BY <1>3
    <2>3. place' \in {"record", "send"} /\ index' = 0 => first'
        BY <1>2, <1>3, <1>4, <1>5
    <2>4. place' \notin Idle /\ place' # "loop" /\ first' \in BOOLEAN /\ waiting' \in BOOLEAN
        BY <1>2, <1>3, <1>5, <1>6 DEF Idle
    <2>5. index' \in Nat
        BY <1>4 DEF UnitInv, GateInv
    <2>6. QED
        BY <2>1, <2>2, <2>3, <2>4, <2>5 DEF GateInv
<1>9. MuxerInv'
    <2>1. place' = "send" => ~recording
        BY <1>3
    <2>2. QED
        BY <1>3, <1>4, <1>6, <2>1 DEF UnitInv, MuxerInv
<1>10. UnitsSurvive' /\ RecordingPlays'
    BY <1>4, <1>5, <1>6, NothingSent, NothingWritten
<1>11. QED
    BY <1>7, <1>8, <1>9, <1>10 DEF UnitInv

LEMMA NextFrameStep == ASSUME UnitInv, NextFrame PROVE UnitInv'
<1>1. /\ place = "next" /\ place' = "loop"
      /\ first' = FALSE /\ units' = <<>> /\ sent' = <<>> /\ written' = <<>>
    BY DEF NextFrame
<1>2. /\ params' = params /\ sps' = sps /\ pps' = pps /\ recording' = recording
      /\ waiting' = waiting /\ index' = index /\ frames' = frames /\ lastPts' = lastPts
    BY DEF NextFrame, media
<1>3. PlaceInv'
    BY <1>1, <1>2 DEF UnitInv, PlaceInv, Handed, Idle
<1>4. GateInv'
    BY <1>1, <1>2 DEF UnitInv, GateInv, Handed, Idle
<1>5. MuxerInv'
    BY <1>1, <1>2 DEF UnitInv, MuxerInv
<1>6. UnitsSurvive' /\ RecordingPlays'
    BY <1>1, NothingSent, NothingWritten
<1>7. QED
    BY <1>3, <1>4, <1>5, <1>6 DEF UnitInv

LEMMA EndStep == ASSUME UnitInv, End PROVE UnitInv'
<1>1. /\ place \in {"loop", "refused", "failed", "unreadable"} /\ place' = "ended"
      /\ waiting' = TRUE /\ first' = FALSE /\ index' = 0
      /\ units' = <<>> /\ sent' = <<>> /\ written' = <<>>
    BY DEF End
<1>2. /\ params' = params /\ sps' = sps /\ pps' = pps /\ recording' = recording
      /\ frames' = frames /\ lastPts' = lastPts
    BY DEF End, media
<1>3. PlaceInv'
    BY <1>1, <1>2 DEF UnitInv, PlaceInv, Handed, Idle
<1>4. GateInv'
    BY <1>1, <1>2 DEF GateInv, Handed, Idle
<1>5. MuxerInv'
    BY <1>1, <1>2 DEF UnitInv, MuxerInv
<1>6. UnitsSurvive' /\ RecordingPlays'
    BY <1>1, NothingSent, NothingWritten
<1>7. QED
    BY <1>3, <1>4, <1>5, <1>6 DEF UnitInv

LEMMA StopThreadStep == ASSUME UnitInv, StopThread PROVE UnitInv'
<1>1. place = "ended" /\ place' = "closed"
    BY DEF StopThread
<1>2. /\ params' = params /\ sps' = sps /\ pps' = pps /\ recording' = recording
      /\ waiting' = waiting /\ first' = first /\ index' = index
      /\ frames' = frames /\ lastPts' = lastPts /\ written' = written
      /\ units' = units /\ sent' = sent
    BY DEF StopThread, media, gateVars, muxer
<1>3. sent = <<>> /\ written = <<>>
    BY <1>1 DEF UnitInv, PlaceInv
<1>4. PlaceInv'
    BY <1>1, <1>2, <1>3 DEF UnitInv, PlaceInv, Handed, Idle
<1>5. GateInv'
    BY <1>1, <1>2 DEF UnitInv, GateInv, Handed, Idle
<1>6. MuxerInv'
    BY <1>1, <1>2 DEF UnitInv, MuxerInv
<1>7. UnitsSurvive' /\ RecordingPlays'
    BY <1>1, <1>2, <1>3, NothingSent, NothingWritten
<1>8. QED
    BY <1>4, <1>5, <1>6, <1>7 DEF UnitInv

LEMMA UnitStays == ASSUME UnitInv, UNCHANGED unitVars PROVE UnitInv'
<1>1. /\ params' = params /\ place' = place /\ sps' = sps /\ pps' = pps
      /\ recording' = recording /\ waiting' = waiting /\ first' = first /\ index' = index
      /\ frames' = frames /\ lastPts' = lastPts /\ written' = written
      /\ units' = units /\ sent' = sent
    BY DEF unitVars, media, gateVars, muxer
<1>2. PlaceInv'
    BY <1>1 DEF UnitInv, PlaceInv
<1>3. GateInv'
    BY <1>1 DEF UnitInv, GateInv
<1>4. MuxerInv'
    BY <1>1 DEF UnitInv, MuxerInv
<1>5. UnitsSurvive'
    BY <1>1 DEF UnitInv, UnitsSurvive, Decodable
<1>6. RecordingPlays'
    BY <1>1 DEF UnitInv, RecordingPlays, Decodable
<1>7. QED
    BY <1>2, <1>3, <1>4, <1>5, <1>6 DEF UnitInv


(* The media thread hands on what is unchanged, or starts a frame more.    *)
LEMMA WrittenStays ==
    ASSUME RecordingPlays, index \in Nat, written' = written, params' = params,
           place' # "refused", index' = index \/ index' = index + 1
    PROVE  RecordingPlays'
<1>1. index' = 0 => index = 0
    OBVIOUS
<1>2. Decodable(Units(written))' <=> Decodable(Units(written))
    BY DEF Decodable
<1>3. QED
    BY <1>1, <1>2 DEF RecordingPlays

LEMMA Behind ==
    ASSUME NEW D, NEW a \in Seq(D), NEW b \in Seq(D), b # <<>>, NEW s, s = a \o b
    PROVE  SubSeq(s, Len(a) + 1, Len(s)) = b
<1>1. PICK x \in Nat, y \in Nat \ {0} : x = Len(a) /\ y = Len(b)
    OBVIOUS
<1>2. Len(s) = x + y
    BY <1>1, JoinedUp
<1>3. x + 1 \in x + 1 .. x + y /\ x + y \in x + 1 .. x + y /\ x + 1 - x = 1 /\ x + y - x = y
    OBVIOUS
<1>4. SubSeq(s, x + 1, x + y) = SubSeq(b, x + 1 - x, x + y - x)
    BY <1>1, <1>3, SubSeqOfConcat2
<1>5. SubSeq(b, 1, y) = b
    BY <1>1, SubSeqFull
<1>6. QED
    BY <1>1, <1>2, <1>3, <1>4, <1>5

LEMMA SendStep == ASSUME UnitInv, Send PROVE UnitInv'
<1>1. PICK us \in Deliveries(params) : us = units
    BY DEF Send, UnitInv, PlaceInv, Handed
<1>2. /\ params \in ParameterSets /\ place = "send" /\ sps = params.sps /\ pps = params.pps
      /\ sent = <<>> /\ index \in Nat
    BY DEF Send, UnitInv, PlaceInv, GateInv
<1>3. /\ params' = params /\ sps' = sps /\ pps' = pps /\ recording' = recording
      /\ waiting' = waiting /\ first' = first
      /\ frames' = frames /\ lastPts' = lastPts /\ written' = written
      /\ units' = units
    BY DEF Send, media, muxer
<1>4. PICK nals, types : nals = Collect(Stream(us)) /\ types = Types(Stream(us))
    OBVIOUS
<1>5. /\ nals = IF Len(us) > MaxNalus THEN <<>> ELSE Nals(us)
      /\ types = IF Len(us) > MaxNalus THEN {} ELSE {TypeAt(us, i) : i \in 1 .. Len(us)}
    BY <1>2, <1>4, Found
<1>6. /\ Delivery(us, params) /\ us \in Seq(Entries) /\ Len(us) \in Nat \ {0}
      /\ DOMAIN us = 1 .. Len(us)
    BY <1>2, DeliveryIs
<1>7. /\ Nals(us) \in Seq(Seq(Octets)) /\ Len(Nals(us)) = Len(us)
      /\ \A i \in 1 .. Len(us) : Nals(us)[i] = us[i].nal
    BY <1>6, NalsAre
<1>8. PICK added : added = IF first THEN MissingSets(types) ELSE <<>>
    OBVIOUS
<1>9. \/ place' = "unreadable" /\ sent' = sent /\ index' = index /\ nals = <<>>
      \/ place' = "failed" /\ sent' = sent /\ index' = index
      \/ place' = "next" /\ index' = index + 1 /\ nals # <<>> /\ sent' = added \o nals
    BY <1>1, <1>4, <1>8 DEF Send
<1>10. place' \in {"unreadable", "failed", "next"} /\ (index' = index \/ index' = index + 1)
    BY <1>9
<1>11. PlaceInv'
    BY <1>2, <1>3, <1>9 DEF UnitInv, PlaceInv, Handed, Idle
<1>12. GateInv'
    <2>1. first' => place' \in Handed /\ Idr \in Types(Stream(units'))
        BY <1>3, <1>10 DEF UnitInv, GateInv, Handed
    <2>2. place' = "next" => index' # 0
        BY <1>2, <1>9
    <2>3. place' \notin Idle /\ place' \notin {"loop", "record", "send"}
        BY <1>10 DEF Idle
    <2>4. index' \in Nat /\ first' \in BOOLEAN /\ waiting' \in BOOLEAN
        BY <1>2, <1>3, <1>10 DEF UnitInv, GateInv
    <2>5. QED
        BY <2>1, <2>2, <2>3, <2>4 DEF GateInv
<1>13. MuxerInv'
    <2>1. recording => frames = index + 1
        BY <1>2 DEF UnitInv, MuxerInv
    <2>2. recording' /\ place' = "next" => frames' = index'
        BY <1>3, <1>9, <2>1
    <2>3. place' \notin {"loop", "record", "send"}
        BY <1>10
    <2>4. QED
        BY <1>3, <2>2, <2>3 DEF UnitInv, MuxerInv
<1>14. UnitsSurvive'
    <2>1. CASE place' = "unreadable"
        <3>1. sent' = <<>> /\ nals = <<>>
            BY <1>2, <1>9, <2>1
        <3>2. Len(us) > MaxNalus
            <4>1. Nals(us) # <<>>
                BY <1>6, <1>7
            <4>2. QED
                BY <1>5, <3>1, <4>1
        <3>3. Len(units') > MaxNalus
            BY <1>1, <1>3, <3>2
        <3>4. QED
            BY <3>1, <3>3 DEF UnitsSurvive
    <2>2. CASE place' = "failed"
        <3>1. sent' = <<>> /\ place' # "unreadable"
            BY <1>2, <1>9, <2>2
        <3>2. QED
            BY <3>1, NothingSent
    <2>3. CASE place' = "next"
        <3>1. nals = Nals(us) /\ ~(Len(us) > MaxNalus) /\ sent' = added \o nals
            BY <1>5, <1>9, <2>3
        <3>2. /\ added \in Seq(Seq(Octets)) /\ Len(added) \in Nat
              /\ \A i \in 1 .. Len(added) : added[i] \in {params.sps, params.pps}
              /\ first /\ Sps \notin types => params.sps \in {added[i] : i \in 1 .. Len(added)}
              /\ first /\ Pps \notin types => params.pps \in {added[i] : i \in 1 .. Len(added)}
            <4>1. CASE ~first
                <5>1. added = <<>>
                    BY <1>8, <4>1
                <5>2. Len(added) = 0 /\ 1 .. 0 = {} /\ added \in Seq(Seq(Octets))
                    BY <5>1
                <5>3. QED
                    BY <4>1, <5>2
            <4>2. CASE first
                <5>1. added = MissingSets(types)
                    BY <1>8, <4>2
                <5>2. sps \in Seq(Octets) /\ pps \in Seq(Octets)
                    BY <1>2, AccessUnitAssumption DEF NalUnit, Octets
                <5>3. /\ MissingSets(types) \in Seq(Seq(Octets))
                      /\ Len(MissingSets(types)) \in Nat
                      /\ \A i \in 1 .. Len(MissingSets(types)) :
                            MissingSets(types)[i] \in {sps, pps}
                      /\ Sps \notin types =>
                            sps \in {MissingSets(types)[i] : i \in 1 .. Len(MissingSets(types))}
                      /\ Pps \notin types =>
                            pps \in {MissingSets(types)[i] : i \in 1 .. Len(MissingSets(types))}
                    BY <5>2, MissingAre
                <5>4. QED
                    BY <1>2, <5>1, <5>3
            <4>3. QED
                BY <4>1, <4>2
        <3>3. PICK all : all = added \o nals
            OBVIOUS
        <3>4. PICK m \in Nat : m = Len(added)
            BY <3>2
        <3>5. /\ all \in Seq(Seq(Octets)) /\ Len(all) = m + Len(us)
              /\ \A i \in 1 .. m : all[i] = added[i]
              /\ \A i \in 1 .. Len(us) : all[m + i] = us[i].nal
            <4>1. added \in Seq(Seq(Octets)) /\ nals \in Seq(Seq(Octets)) /\ all = added \o nals
                BY <1>7, <3>1, <3>2, <3>3
            <4>2. /\ all \in Seq(Seq(Octets)) /\ Len(all) = Len(added) + Len(nals)
                  /\ \A i \in 1 .. Len(added) : all[i] = added[i]
                  /\ \A i \in 1 .. Len(nals) : all[Len(added) + i] = nals[i]
                BY <4>1, JoinedUp
            <4>3. QED
                BY <1>7, <3>1, <3>4, <4>2
        <3>6. SubSeq(all, m + 1, Len(all)) = Nals(us)
            <4>1. /\ added \in Seq(Seq(Octets)) /\ nals \in Seq(Seq(Octets))
                  /\ all = added \o nals /\ nals # <<>>
                BY <1>7, <1>9, <2>3, <3>1, <3>2, <3>3
            <4>2. SubSeq(all, Len(added) + 1, Len(all)) = nals
                BY <4>1, Behind
            <4>3. QED
                BY <3>1, <3>4, <4>2
        <3>7. ASSUME first PROVE Opens(params, all)
            <4>1. types = {TypeAt(us, i) : i \in 1 .. Len(us)}
                BY <1>5, <3>1
            <4>2. /\ Sps \in types => \E i \in 1 .. Len(us) : TypeAt(us, i) = Sps
                  /\ Pps \in types => \E i \in 1 .. Len(us) : TypeAt(us, i) = Pps
                BY <4>1
            <4>3. /\ params.sps \in {all[i] : i \in 1 .. m} \/ Sps \in types
                  /\ params.pps \in {all[i] : i \in 1 .. m} \/ Pps \in types
                BY <3>2, <3>4, <3>5, <3>7
            <4>4. \A i \in 1 .. m : all[i] \in {params.sps, params.pps}
                BY <3>2, <3>4, <3>5
            <4>5. SetAhead(params, us, all, m)
                BY <3>5, <4>2, <4>3, <4>4 DEF SetAhead
            <4>6. Idr \in types
                BY <1>1, <1>4, <3>7 DEF UnitInv, GateInv
            <4>7. \E i \in 1 .. Len(us) : TypeAt(us, i) = Idr
                BY <4>1, <4>6
            <4>8. all \in Seq(Seq(Octets)) /\ Len(us) \in Nat
                BY <1>6, <3>5
            <4>9. QED
                BY <1>2, <1>6, <4>5, <4>7, <4>8, OpensAhead
        <3>8. Len(all) - Len(us) = m
            BY <1>6, <3>5
        <3>9. first => m = IF first THEN Len(all) - Len(us) ELSE 0
            BY <3>8
        <3>10. ~first => m = 0
            BY <1>8, <3>4
        <3>11. (IF first' THEN Len(sent') - Len(units') ELSE 0) = m
            BY <1>1, <1>3, <3>1, <3>3, <3>8, <3>10
        <3>12. SubSeq(sent', (IF first' THEN Len(sent') - Len(units') ELSE 0) + 1, Len(sent'))
                   = Nals(units')
            BY <1>1, <1>3, <3>1, <3>3, <3>6, <3>11
        <3>13. first' => Decodable(sent)'
            <4> SUFFICES ASSUME first PROVE Decodable(sent)'
                BY <1>3
            <4>1. Opens(params, all) /\ DOMAIN all = 1 .. Len(all) /\ sent' = all /\ params' = params
                BY <1>3, <3>1, <3>3, <3>5, <3>7
            <4>2. QED
                BY <4>1 DEF Opens, Decodable
        <3>14. QED
            BY <2>3, <3>12, <3>13 DEF UnitsSurvive
    <2>4. QED
        BY <1>10, <2>1, <2>2, <2>3
<1>15. RecordingPlays'
    <2>1. RecordingPlays /\ index \in Nat /\ written' = written /\ params' = params
          /\ place' # "refused" /\ (index' = index \/ index' = index + 1)
        BY <1>2, <1>3, <1>10 DEF UnitInv
    <2>2. QED
        BY <2>1, WrittenStays
<1>16. QED
    BY <1>11, <1>12, <1>13, <1>14, <1>15 DEF UnitInv


(* What the thread lets through its gate, the muxer does not refuse.       *)
LEMMA RecordStep == ASSUME UnitInv, Record PROVE UnitInv'
<1>1. PICK us \in Deliveries(params) : us = units
    BY DEF Record, UnitInv, PlaceInv, Handed
<1>2. /\ params \in ParameterSets /\ place = "record" /\ sps = params.sps /\ pps = params.pps
      /\ sent = <<>> /\ written = <<>> /\ index \in Nat /\ recording /\ frames = index
      /\ (index = 0 => first) /\ (first => Idr \in Types(Stream(units)))
      /\ (frames > 0 => lastPts = ((frames - 1) * Second) \div Fps)
    <2>1. place = "record"
        BY DEF Record
    <2>2. /\ params \in ParameterSets /\ sps = params.sps /\ pps = params.pps
          /\ sent = <<>> /\ written = <<>>
        BY <2>1 DEF UnitInv, PlaceInv
    <2>3. index \in Nat /\ (index = 0 => first) /\ (first => Idr \in Types(Stream(units)))
        BY <2>1 DEF UnitInv, GateInv
    <2>4. MuxerInv
        BY DEF UnitInv
    <2>5. recording
        BY <2>1, <2>4 DEF MuxerInv
    <2>6. frames = index
        BY <2>1, <2>4, <2>5 DEF MuxerInv
    <2>7. frames > 0 => lastPts = ((frames - 1) * Second) \div Fps
        BY <2>4 DEF MuxerInv
    <2>8. QED
        BY <2>1, <2>2, <2>3, <2>5, <2>6, <2>7
<1>3. /\ params' = params /\ sps' = sps /\ pps' = pps /\ recording' = recording
      /\ waiting' = waiting /\ first' = first /\ index' = index
      /\ units' = units /\ sent' = sent
    BY DEF Record, media, gateVars
<1>4. PICK au, data, pts : /\ au = Stream(us) /\ pts = (index * Second) \div Fps
                           /\ data = IF index = 0 THEN StartUnit(au) ELSE au
    OBVIOUS
<1>5. /\ Delivery(us, params) /\ us \in Seq(Entries) /\ Len(us) \in Nat \ {0}
      /\ DOMAIN us = 1 .. Len(us)
    BY <1>2, DeliveryIs
<1>6. Types(au) = IF Len(us) > MaxNalus THEN {} ELSE {TypeAt(us, i) : i \in 1 .. Len(us)}
    BY <1>2, <1>4, Found
<1>7. PICK ws, m, C, E, S :
          /\ Scanned(data, ws, C, E, S) /\ m \in Nat
          /\ Len(ws) = m + Len(us) /\ \A i \in 1 .. Len(us) : ws[m + i].nal = us[i].nal
          /\ index = 0 => /\ Opens(params, Nals(ws)) /\ Idr \in Types(au)
                          /\ \A type \in {Sps, Pps} : \E i \in 1 .. Len(ws) : TypeAt(ws, i) = type
    <2>1. CASE index = 0
        <3>1. Idr \in Types(au) /\ data = StartUnit(au)
            BY <1>1, <1>2, <1>4, <2>1
        <3>2. PICK ws, m, C, E, S :
                  /\ Scanned(data, ws, C, E, S) /\ m \in Nat
                  /\ SetAhead(params, us, Nals(ws), m)
                  /\ \A type \in {Sps, Pps} : \E i \in 1 .. Len(ws) : TypeAt(ws, i) = type
            BY <1>2, <1>4, <3>1, StartUnitIs
        <3>3. ws \in Seq(Entries)
            BY <3>2 DEF Scanned
        <3>4. /\ Nals(ws) \in Seq(Seq(Octets)) /\ Len(Nals(ws)) = Len(ws)
              /\ \A i \in 1 .. Len(ws) : Nals(ws)[i] = ws[i].nal
            BY <3>3, NalsAre
        <3>5. Len(Nals(ws)) = m + Len(us) /\ \A i \in 1 .. Len(us) : Nals(ws)[m + i] = us[i].nal
            BY <3>2 DEF SetAhead
        <3>6. \A i \in 1 .. Len(us) : m + i \in 1 .. Len(ws)
            BY <1>5, <3>2, <3>4, <3>5
        <3>7. \A i \in 1 .. Len(us) : ws[m + i].nal = us[i].nal
            BY <3>4, <3>5, <3>6
        <3>8. \E i \in 1 .. Len(us) : TypeAt(us, i) = Idr
            BY <1>6, <3>1
        <3>9. PICK nals : nals = Nals(ws)
            OBVIOUS
        <3>10. nals \in Seq(Seq(Octets)) /\ SetAhead(params, us, nals, m) /\ Len(us) \in Nat
            BY <1>5, <3>2, <3>4, <3>9
        <3>11. Opens(params, nals)
            BY <1>2, <1>5, <3>2, <3>8, <3>10, OpensAhead
        <3>12. QED
            BY <3>1, <3>2, <3>4, <3>5, <3>7, <3>9, <3>11
    <2>2. CASE index # 0
        <3>1. data = au
            BY <1>4, <2>2
        <3>2. PICK C, E, S : Scanned(au, us, C, E, S)
            BY <1>2, <1>4, DeliveryScanned
        <3>3. Len(us) = 0 + Len(us) /\ \A i \in 1 .. Len(us) : us[0 + i].nal = us[i].nal
            BY <1>5
        <3>4. 0 \in Nat
            OBVIOUS
        <3>5. QED
            BY <2>2, <3>1, <3>2, <3>3, <3>4
    <2>3. QED
        BY <2>1, <2>2
<1>8. Inspected(data) = {TypeAt(ws, i) : i \in 1 .. Len(ws)}
    BY <1>7, InspectedIs
<1>9. \A i \in 1 .. Len(us) : TypeAt(us, i) \in Inspected(data)
    <2> SUFFICES ASSUME NEW i \in 1 .. Len(us) PROVE TypeAt(us, i) \in Inspected(data)
        OBVIOUS
    <2>1. m + i \in 1 .. Len(ws) /\ TypeAt(ws, m + i) = TypeAt(us, i)
        BY <1>5, <1>7 DEF TypeAt
    <2>2. QED
        BY <1>8, <2>1
<1>10. pts \in Nat /\ (frames > 0 => pts > lastPts)
    <2>1. Fps \in Nat \ {0} /\ Second \in Nat /\ Fps <= Second
        BY AccessUnitAssumption
    <2>2. /\ (index * Second) \div Fps \in Nat
          /\ index > 0 => (index * Second) \div Fps > ((index - 1) * Second) \div Fps
        BY <1>2, <2>1, Quotients
    <2>3. QED
        BY <1>2, <1>4, <2>2
<1>11. MuxerTakes(data, pts)
    <2>1. Inspected(data) \cap (1 .. Idr) # {}
        <3>1. PICK i \in 1 .. Len(us) : TypeAt(us, i) \in 1 .. Idr
            BY <1>5 DEF Delivery
        <3>2. QED
            BY <1>9, <3>1
    <2>2. ASSUME frames = 0 PROVE {Idr, Sps, Pps} \subseteq Inspected(data)
        <3>1. index = 0
            BY <1>2, <2>2
        <3>2. Sps \in Inspected(data) /\ Pps \in Inspected(data)
            BY <1>7, <1>8, <3>1
        <3>3. PICK i \in 1 .. Len(us) : TypeAt(us, i) = Idr
            BY <1>6, <1>7, <3>1
        <3>4. Idr \in Inspected(data)
            BY <1>9, <3>3
        <3>5. QED
            BY <3>2, <3>4
    <2>3. pts >= 0
        BY <1>10
    <2>4. QED
        BY <1>10, <2>1, <2>2, <2>3 DEF MuxerTakes
<1>12. index = 0 => Idr \in Types(au)
    BY <1>7
<1>13. \/ /\ place' = "send" /\ written' = data /\ frames' = frames + 1 /\ lastPts' = pts
       \/ place' = "failed" /\ written' = written /\ frames' = frames /\ lastPts' = lastPts
    BY <1>1, <1>4, <1>11, <1>12 DEF Record, muxer
<1>14. place' \in {"send", "failed"}
    BY <1>13
<1>15. PlaceInv'
    BY <1>2, <1>3, <1>13 DEF UnitInv, PlaceInv, Handed, Idle
<1>16. GateInv'
    <2>1. first' => place' \in Handed /\ Idr \in Types(Stream(units'))
        BY <1>3, <1>14 DEF UnitInv, GateInv, Handed
    <2>2. index' = 0 => first'
        BY <1>2, <1>3
    <2>3. place' \notin Idle /\ place' \notin {"loop", "next"}
        BY <1>14 DEF Idle
    <2>4. index' \in Nat /\ first' \in BOOLEAN /\ waiting' \in BOOLEAN
        BY <1>2, <1>3 DEF UnitInv, GateInv
    <2>5. QED
        BY <2>1, <2>2, <2>3, <2>4 DEF GateInv
<1>17. MuxerInv'
    <2>1. CASE place' = "send"
        <3>1. frames' = frames + 1 /\ lastPts' = pts /\ frames' = index + 1 /\ frames' - 1 = index
            BY <1>2, <1>13, <2>1
        <3>2. lastPts' = ((frames' - 1) * Second) \div Fps
            BY <1>4, <3>1
        <3>3. frames' \in Nat /\ frames' = index' + 1
            BY <1>2, <1>3, <3>1
        <3>4. QED
            BY <2>1, <3>2, <3>3 DEF MuxerInv
    <2>2. CASE place' = "failed"
        BY <1>2, <1>13, <2>2 DEF MuxerInv
    <2>3. QED
        BY <1>14, <2>1, <2>2
<1>18. UnitsSurvive'
    BY <1>2, <1>3, <1>14, NothingSent
<1>19. RecordingPlays'
    <2>1. CASE place' = "failed"
        BY <1>2, <1>13, <2>1, NothingWritten
    <2>2. CASE place' = "send"
        <3>1. written' = data
            BY <1>13, <2>2
        <3>2. /\ Codes(data) = {C[k] : k \in 1 .. Len(ws)}
              /\ \A k \in 1 .. Len(ws) : Units(data)[C[k]] = ws[k].nal
            BY <1>7, UnitsAre
        <3>3. Inspected(data) = {NalType(Units(data)[i]) : i \in Codes(data)}
            BY <1>8, <3>2 DEF TypeAt
        <3>4. index = 0 => Decodable(Units(data))
            BY <1>7, OpensUnits
        <3>5. Inspected(written') = {NalType(Units(written')[i]) : i \in Codes(written')}
            BY <3>1, <3>3
        <3>6. index' = 0 => Decodable(Units(written))'
            BY <1>3, <3>1, <3>4 DEF Decodable
        <3>7. QED
            BY <2>2, <3>5, <3>6 DEF RecordingPlays
    <2>3. QED
        BY <1>14, <2>1, <2>2
<1>20. QED
    BY <1>15, <1>16, <1>17, <1>18, <1>19 DEF UnitInv


(* Of what happens to a session, only this is about its access units.      *)
UnitStep == Bootstrap \/ Play \/ ThreadLoop \/ StopThread

LEMMA SessionUnits ==
    ASSUME [Next]_vars PROVE UnitStep \/ UNCHANGED unitVars
<1>1. CASE Prepare
    BY <1>1 DEF Prepare, UnitStep
<1>2. CASE AcceptClient
    BY <1>2 DEF AcceptClient
<1>3. CASE Client
    BY <1>3 DEF Client
<1>4. CASE Control
    <2>1. CASE ReceiveMore
        BY <2>1 DEF ReceiveMore
    <2>2. CASE BuildSdp
        BY <2>2 DEF BuildSdp
    <2>3. CASE AnswerDescribe
        BY <2>3 DEF AnswerDescribe
    <2>4. CASE AnswerPlay
        BY <2>4 DEF AnswerPlay, UnitStep
    <2>5. CASE AnswerOther
        BY <2>5 DEF AnswerOther
    <2>6. QED
        BY <1>4, <2>1, <2>2, <2>3, <2>4, <2>5 DEF Control
<1>5. CASE Hangup
    BY <1>5 DEF Hangup
<1>6. CASE StopMedia
    BY <1>6 DEF StopMedia, UnitStep
<1>7. CASE RunMedia
    BY <1>7 DEF RunMedia, UnitStep
<1>8. CASE UNCHANGED vars
    BY <1>8 DEF vars
<1>9. QED
    BY <1>1, <1>2, <1>3, <1>4, <1>5, <1>6, <1>7, <1>8 DEF Next

(* The media thread, its muxer and what it hands on stay together.         *)
THEOREM UnitsInStep == Spec => []UnitInv
<1>1. Init => UnitInv
    BY UnitBegins DEF Init
<1>2. UnitInv /\ [Next]_vars => UnitInv'
    <2> SUFFICES ASSUME UnitInv, [Next]_vars PROVE UnitInv'
        OBVIOUS
    <2>1. CASE Bootstrap
        BY <2>1, BootstrapStep
    <2>2. CASE Play
        BY <2>2, PlayStep
    <2>3. CASE ThreadLoop
        BY <2>3, GateStep, RecordStep, SendStep, NextFrameStep, EndStep DEF ThreadLoop
    <2>4. CASE StopThread
        BY <2>4, StopThreadStep
    <2>5. CASE UNCHANGED unitVars
        BY <2>5, UnitStays
    <2>6. QED
        BY <2>1, <2>2, <2>3, <2>4, <2>5, SessionUnits DEF UnitStep
<1>3. QED
    BY <1>1, <1>2, PTL DEF Spec

(* Every NAL unit of an access unit reaches the packetizer whole and in    *)
(* order, whatever start codes and zeros surround it, the first picture    *)
(* with its parameter sets ahead; only too many NAL units are unreadable.  *)
THEOREM NalUnitsSurvive == Spec => []UnitsSurvive
<1>1. UnitInv => UnitsSurvive
    BY DEF UnitInv
<1>2. QED
    BY <1>1, UnitsInStep, PTL

(* The muxer, with a scan and rules of its own, turns down nothing that    *)
(* the thread lets through its gate, and a recording begins with its       *)
(* parameter sets.                                                         *)
THEOREM RecordingsPlay == Spec => []RecordingPlays
<1>1. UnitInv => RecordingPlays
    BY DEF UnitInv
<1>2. QED
    BY <1>1, UnitsInStep, PTL

-----------------------------------------------------------------------------
(* Base64: a group of three bytes and its four digits.                     *)
(* The digits of a value below 2^24, which is never written out.           *)
LEMMA DigitsOf ==
    ASSUME NEW a \in Nat, a < 64, NEW b \in Nat, b < 64, NEW c \in Nat, c < 64,
           NEW d \in Nat, d < 64, NEW v, v = a * 262144 + b * 4096 + c * 64 + d
    PROVE  /\ (v \div 262144) % 64 = a /\ (v \div 4096) % 64 = b
           /\ (v \div 64) % 64 = c /\ (v \div 1) % 64 = d
    BY SMT

Digits(v, e, f, g, h) ==
    /\ e = (v \div 262144) % 64 /\ f = (v \div 4096) % 64
    /\ g = (v \div 64) % 64 /\ h = (v \div 1) % 64

LEMMA DigitsAre ==
    ASSUME NEW v \in Nat, v < 16777216, NEW e, NEW f, NEW g, NEW h, Digits(v, e, f, g, h)
    PROVE  /\ e \in Nat /\ e < 64 /\ f \in Nat /\ f < 64
           /\ g \in Nat /\ g < 64 /\ h \in Nat /\ h < 64
           /\ v = e * 262144 + f * 4096 + g * 64 + h
<1>1. PICK q \in Nat, d \in Nat : v = q * 64 + d /\ d < 64
    <2>1. v \div 64 \in Nat /\ v % 64 \in Nat /\ v % 64 < 64 /\ v = (v \div 64) * 64 + (v % 64)
        BY SMT
    <2>2. QED
        BY <2>1
<1>2. PICK t \in Nat, c \in Nat : q = t * 64 + c /\ c < 64
    <2>1. q \div 64 \in Nat /\ q % 64 \in Nat /\ q % 64 < 64 /\ q = (q \div 64) * 64 + (q % 64)
        BY SMT
    <2>2. QED
        BY <2>1
<1>3. PICK a \in Nat, b \in Nat : t = a * 64 + b /\ b < 64
    <2>1. t \div 64 \in Nat /\ t % 64 \in Nat /\ t % 64 < 64 /\ t = (t \div 64) * 64 + (t % 64)
        BY SMT
    <2>2. QED
        BY <2>1
<1>4. v = a * 262144 + b * 4096 + c * 64 + d
    BY SMT, <1>1, <1>2, <1>3
<1>5. a < 64
    BY SMT, <1>4
<1>6. e = a /\ f = b /\ g = c /\ h = d
    BY SMT, <1>1, <1>2, <1>3, <1>4, <1>5, DigitsOf DEF Digits
<1>7. QED
    BY SMT, <1>1, <1>2, <1>3, <1>4, <1>5, <1>6

-----------------------------------------------------------------------------
(* SdpBuilder: a parameter set in Base64, group by group.                  *)
ValueOf(set, n) ==
    set[n + 1] * 65536 + (IF Len(set) - n > 1 THEN set[n + 2] * 256 ELSE 0)
                       + (IF Len(set) - n > 2 THEN set[n + 3] ELSE 0)

Signs == 0 .. Pad

GroupAt(set, ds, g) ==
    /\ ds[4 * g + 1] = (ValueOf(set, 3 * g) \div 262144) % 64
    /\ ds[4 * g + 2] = (ValueOf(set, 3 * g) \div 4096) % 64
    /\ ds[4 * g + 3] = IF Len(set) - 3 * g > 1
                       THEN (ValueOf(set, 3 * g) \div 64) % 64 ELSE Pad
    /\ ds[4 * g + 4] = IF Len(set) - 3 * g > 2
                       THEN (ValueOf(set, 3 * g) \div 1) % 64 ELSE Pad

Coded(set, ds, q) ==
    /\ ds \in Seq(Signs) /\ Len(ds) = 4 * q
    /\ \A g \in 0 .. q - 1 : GroupAt(set, ds, g)

Whole(set, ds) ==
    /\ set \in Seq(Octets) /\ set # <<>>
    /\ \E q \in Nat : Len(set) <= 3 * q /\ 3 * q < Len(set) + 3 /\ Coded(set, ds, q)

(* The four digits of a group give its bytes back.                         *)
LEMMA OctetIs == \A x \in Octets : x \in Nat /\ x < 256
    BY SMT DEF Octets

LEMMA GroupIs ==
    ASSUME NEW set \in Seq(Octets), NEW n \in Nat, n < Len(set),
           NEW v, v = ValueOf(set, n)
    PROVE  /\ v \in Nat /\ v < 16777216
           /\ (v \div 65536) % 256 = set[n + 1]
           /\ Len(set) - n > 1 => (v \div 256) % 256 = set[n + 2]
           /\ Len(set) - n > 2 => (v \div 1) % 256 = set[n + 3]
           /\ ~(Len(set) - n > 1) => (v \div 64) % 64 = 0
           /\ ~(Len(set) - n > 2) => (v \div 1) % 64 = 0
<1>0. PICK m \in Nat : m = Len(set)
    OBVIOUS
<1>1. PICK a \in Nat : a = set[n + 1] /\ a < 256
    <2>1. n + 1 \in 1 .. Len(set)
        BY <1>0
    <2>2. QED
        BY <2>1, OctetIs
<1>2. PICK b \in Nat : b < 256 /\ b = IF m - n > 1 THEN set[n + 2] ELSE 0
    <2>1. m - n > 1 => n + 2 \in 1 .. Len(set)
        BY <1>0
    <2>2. CASE m - n > 1
        <3>1. set[n + 2] \in Nat /\ set[n + 2] < 256
            BY <2>1, <2>2, OctetIs
        <3>2. QED
            BY SMT, <2>2, <3>1
    <2>3. CASE ~(m - n > 1)
        BY SMT, <2>3
    <2>4. QED
        BY <2>2, <2>3
<1>3. PICK c \in Nat : c < 256 /\ c = IF m - n > 2 THEN set[n + 3] ELSE 0
    <2>1. m - n > 2 => n + 3 \in 1 .. Len(set)
        BY <1>0
    <2>2. CASE m - n > 2
        <3>1. set[n + 3] \in Nat /\ set[n + 3] < 256
            BY <2>1, <2>2, OctetIs
        <3>2. QED
            BY SMT, <2>2, <3>1
    <2>3. CASE ~(m - n > 2)
        BY SMT, <2>3
    <2>4. QED
        BY <2>2, <2>3
<1>4. v = a * 65536 + b * 256 + c
    <2>1. b * 256 = IF m - n > 1 THEN set[n + 2] * 256 ELSE 0
        BY <1>2
    <2>2. QED
        BY SMT, <1>0, <1>1, <1>3, <2>1 DEF ValueOf
<1>5. /\ v \in Nat /\ v < 16777216
      /\ (v \div 65536) % 256 = a /\ (v \div 256) % 256 = b /\ (v \div 1) % 256 = c
    <2>1. a < 256 /\ b < 256 /\ c < 256 /\ v = a * 65536 + b * 256 + c
        BY SMT, <1>1, <1>2, <1>3, <1>4
    <2>2. QED
        BY SMT, <2>1
<1>6. ~(m - n > 2) => (v \div 1) % 64 = 0
    <2>1. ~(m - n > 2) => c = 0
        BY <1>3
    <2>2. c = 0 => (v \div 1) % 64 = 0
        BY SMT, <1>4
    <2>3. QED
        BY <2>1, <2>2
<1>7. ~(m - n > 1) => (v \div 64) % 64 = 0
    <2>1. ~(m - n > 1) => b = 0 /\ c = 0
        BY <1>0, <1>2, <1>3
    <2>2. b = 0 /\ c = 0 => (v \div 64) % 64 = 0
        BY SMT, <1>4
    <2>3. QED
        BY <2>1, <2>2
<1>8. QED
    BY SMTT(30), <1>0, <1>1, <1>2, <1>3, <1>5, <1>6, <1>7

(* What a client reads at one place of it.                                 *)
LEMMA ByteIs ==
    ASSUME NEW set \in Seq(Octets), NEW ds, NEW q \in Nat, Coded(set, ds, q),
           Len(set) <= 3 * q, NEW k \in 1 .. Len(set)
    PROVE  Byte(ds, k) = set[k]
<1>1. PICK g \in Nat, r \in 0 .. 2 : /\ g = (k - 1) \div 3 /\ r = (k - 1) % 3
                                     /\ k = 3 * g + r + 1
    <2>1. k - 1 \in Nat /\ Len(set) \in Nat
        OBVIOUS
    <2>2. /\ (k - 1) \div 3 \in Nat /\ (k - 1) % 3 \in 0 .. 2
          /\ k - 1 = ((k - 1) \div 3) * 3 + ((k - 1) % 3)
        BY SMT, <2>1
    <2>3. k = 3 * ((k - 1) \div 3) + ((k - 1) % 3) + 1
        BY SMT, <2>1, <2>2
    <2>4. QED
        BY SMT, <2>2, <2>3
<1>2. PICK n \in Nat : n = 3 * g
    OBVIOUS
<1>3. Len(set) \in Nat /\ n < Len(set) /\ g \in 0 .. q - 1
    BY SMT, <1>1, <1>2
<1>4. PICK v : v = ValueOf(set, n)
    OBVIOUS
<1>5. /\ v \in Nat /\ v < 16777216
      /\ (v \div 65536) % 256 = set[n + 1]
      /\ Len(set) - n > 1 => (v \div 256) % 256 = set[n + 2]
      /\ Len(set) - n > 2 => (v \div 1) % 256 = set[n + 3]
      /\ ~(Len(set) - n > 1) => (v \div 64) % 64 = 0
      /\ ~(Len(set) - n > 2) => (v \div 1) % 64 = 0
    BY SMT, <1>3, <1>4, GroupIs
<1>6. PICK d1, d2, d3, d4 : Digits(v, d1, d2, d3, d4)
    BY SMT DEF Digits
<1>7. /\ d1 \in Nat /\ d1 < 64 /\ d2 \in Nat /\ d2 < 64
      /\ d3 \in Nat /\ d3 < 64 /\ d4 \in Nat /\ d4 < 64
      /\ v = d1 * 262144 + d2 * 4096 + d3 * 64 + d4
    <2>1. v \in Nat /\ v < 16777216
        BY SMT, <1>5
    <2>2. QED
        BY SMT, <1>6, <2>1, DigitsAre
<1>8. /\ Bits(ds[4 * g + 1]) = d1 /\ Bits(ds[4 * g + 2]) = d2
      /\ Bits(ds[4 * g + 3]) = d3 /\ Bits(ds[4 * g + 4]) = d4
    <2>1. /\ ds[4 * g + 1] = (ValueOf(set, 3 * g) \div 262144) % 64
          /\ ds[4 * g + 2] = (ValueOf(set, 3 * g) \div 4096) % 64
          /\ ds[4 * g + 3] = IF Len(set) - 3 * g > 1
                             THEN (ValueOf(set, 3 * g) \div 64) % 64 ELSE Pad
          /\ ds[4 * g + 4] = IF Len(set) - 3 * g > 2
                             THEN (ValueOf(set, 3 * g) \div 1) % 64 ELSE Pad
        BY SMT, <1>3 DEF Coded, GroupAt
    <2>2. ValueOf(set, 3 * g) = v
        BY SMT, <1>2, <1>4
    <2>3. /\ ds[4 * g + 1] = d1 /\ ds[4 * g + 2] = d2
          /\ ds[4 * g + 3] = IF Len(set) - n > 1 THEN d3 ELSE Pad
          /\ ds[4 * g + 4] = IF Len(set) - n > 2 THEN d4 ELSE Pad
        BY SMT, <1>2, <1>6, <2>1, <2>2 DEF Digits
    <2>4. /\ ~(Len(set) - n > 1) => d3 = 0
          /\ ~(Len(set) - n > 2) => d4 = 0
        BY SMT, <1>5, <1>6 DEF Digits
    <2>5. d1 # Pad /\ d2 # Pad /\ d3 # Pad /\ d4 # Pad
        BY SMT, <1>7 DEF Pad
    <2>6. Bits(d1) = d1 /\ Bits(d2) = d2 /\ Bits(d3) = d3 /\ Bits(d4) = d4 /\ Bits(Pad) = 0
        BY SMT, <2>5 DEF Bits
    <2>7. QED
        BY SMT, <2>3, <2>4, <2>6
<1>9. Byte(ds, k) = (v \div <<65536, 256, 1>>[r + 1]) % 256
    <2>1. Byte(ds, k) = ((Bits(ds[4 * g + 1]) * 262144 + Bits(ds[4 * g + 2]) * 4096
                          + Bits(ds[4 * g + 3]) * 64 + Bits(ds[4 * g + 4]))
                         \div <<65536, 256, 1>>[r + 1]) % 256
        BY SMT, <1>1 DEF Byte
    <2>2. QED
        BY SMT, <1>7, <1>8, <2>1
<1>10. CASE r = 0
    <2>1. k = n + 1 /\ <<65536, 256, 1>>[r + 1] = 65536
        BY SMT, <1>1, <1>2, <1>10
    <2>2. QED
        <3>1. (v \div 65536) % 256 = set[n + 1]
            BY SMT, <1>5
        <3>2. Byte(ds, k) = (v \div 65536) % 256
            BY SMT, <1>9, <2>1
        <3>3. QED
            BY SMT, <2>1, <3>1, <3>2
<1>11. CASE r = 1
    <2>1. k = n + 2 /\ <<65536, 256, 1>>[r + 1] = 256
        BY SMT, <1>1, <1>2, <1>11
    <2>2. Len(set) - n > 1
        BY SMT, <1>3, <2>1
    <2>3. QED
        BY SMTT(30), <1>5, <1>9, <2>1, <2>2
<1>12. CASE r = 2
    <2>1. k = n + 3 /\ <<65536, 256, 1>>[r + 1] = 1
        BY SMT, <1>1, <1>2, <1>12
    <2>2. Len(set) - n > 2
        BY SMT, <1>3, <2>1
    <2>3. QED
        BY SMT, <1>5, <1>9, <2>1, <2>2
<1>13. QED
    BY SMT, <1>10, <1>11, <1>12

(* The padding tells the length.                                           *)
LEMMA PaddingIs ==
    ASSUME NEW set \in Seq(Octets), set # <<>>, NEW ds, NEW q \in Nat, Coded(set, ds, q),
           Len(set) <= 3 * q, 3 * q < Len(set) + 3
    PROVE  3 * (Len(ds) \div 4) - Padding(ds) = Len(set)
<1>1. Len(set) \in Nat \ {0}
    OBVIOUS
<1>2. q > 0 /\ Len(ds) = 4 * q
    BY SMT, <1>1 DEF Coded
<1>3. PICK g \in Nat : q = g + 1
    <2>1. q - 1 \in Nat /\ q = (q - 1) + 1
        BY SMT, <1>2
    <2>2. QED
        BY SMT, <2>1
<1>4. PICK n \in Nat : n = 3 * g
    OBVIOUS
<1>5. n < Len(set) /\ Len(set) <= n + 3 /\ g \in 0 .. q - 1
    BY SMT, <1>1, <1>3, <1>4
<1>6. PICK v : v = ValueOf(set, n)
    OBVIOUS
<1>7. v \in Nat /\ v < 16777216
    BY SMT, <1>5, <1>6, GroupIs
<1>8. PICK c, d : /\ c = (v \div 64) % 64 /\ d = (v \div 1) % 64
                  /\ c \in Nat /\ d \in Nat /\ c < 64 /\ d < 64
    <2>1. PICK a, b, c, d : Digits(v, a, b, c, d)
        BY SMT DEF Digits
    <2>2. c \in Nat /\ d \in Nat /\ c < 64 /\ d < 64
        BY SMT, <1>7, <2>1, DigitsAre
    <2>3. QED
        BY SMT, <2>1, <2>2 DEF Digits
<1>9. /\ ds[4 * g + 3] = IF Len(set) - n > 1 THEN (v \div 64) % 64 ELSE Pad
      /\ ds[4 * g + 4] = IF Len(set) - n > 2 THEN (v \div 1) % 64 ELSE Pad
    BY SMT, <1>4, <1>5, <1>6 DEF Coded, GroupAt
<1>10. Len(ds) - 1 = 4 * g + 3 /\ Len(ds) = 4 * g + 4 /\ Len(ds) \div 4 = g + 1
    BY SMT, <1>2, <1>3
<1>11. Padding(ds) = IF ds[4 * g + 3] = Pad THEN 2 ELSE IF ds[4 * g + 4] = Pad THEN 1 ELSE 0
    BY SMT, <1>10 DEF Padding
<1>12. Padding(ds) = IF ~(Len(set) - n > 1) THEN 2 ELSE IF ~(Len(set) - n > 2) THEN 1 ELSE 0
    <2>1. c # Pad /\ d # Pad
        BY SMT, <1>8 DEF Pad
    <2>2. /\ ds[4 * g + 3] = IF Len(set) - n > 1 THEN c ELSE Pad
          /\ ds[4 * g + 4] = IF Len(set) - n > 2 THEN d ELSE Pad
        BY SMT, <1>8, <1>9
    <2>3. ds[4 * g + 3] = Pad <=> ~(Len(set) - n > 1)
        BY SMT, <2>1, <2>2
    <2>4. ds[4 * g + 4] = Pad <=> ~(Len(set) - n > 2)
        BY SMT, <2>1, <2>2
    <2>5. QED
        BY SMT, <1>11, <2>3, <2>4
<1>13. Padding(ds) = n + 3 - Len(set)
    BY SMT, <1>1, <1>5, <1>12
<1>14. QED
    BY SMT, <1>1, <1>4, <1>10, <1>13

LEMMA WholeDecodes ==
    ASSUME NEW set, NEW ds, Whole(set, ds)
    PROVE  Decode(ds) = set /\ Len(ds) = Encoded(set)
<1>1. set \in Seq(Octets) /\ set # <<>>
    BY DEF Whole
<1>2. PICK q \in Nat : Len(set) <= 3 * q /\ 3 * q < Len(set) + 3 /\ Coded(set, ds, q)
    BY DEF Whole
<1>3. 3 * (Len(ds) \div 4) - Padding(ds) = Len(set)
    BY SMT, <1>1, <1>2, PaddingIs
<1>4. \A k \in 1 .. Len(set) : Byte(ds, k) = set[k]
    BY SMT, <1>1, <1>2, ByteIs
<1>5. Decode(ds) = [k \in 1 .. Len(set) |-> set[k]]
    BY SMT, <1>3, <1>4 DEF Decode
<1>6. set = [k \in 1 .. Len(set) |-> set[k]]
    BY SMT, <1>1
<1>7. Len(ds) = Encoded(set)
    <2>1. PICK m \in Nat : m = Len(set)
        BY SMT, <1>1
    <2>2. (m + 2) \div 3 = q
        BY SMT, <1>2, <2>1
    <2>3. QED
        BY SMT, <1>2, <2>1, <2>2 DEF Coded, Encoded
<1>8. QED
    BY SMT, <1>5, <1>6, <1>7

-----------------------------------------------------------------------------
(* A client is connected only where the parameter sets are known, and they *)
(* are encoded group by group.                                             *)
Known == place \notin {"init", "noServer"}

Progress ==
    \E q \in Nat : /\ next = 3 * q /\ next < Len(Input) + 3
                   /\ Coded(Input, output, q)

SdpInv ==
    /\ connection = "open" => Known
    /\ step \in {"idle", "sps", "pps", "print", "done", "failed"}
    /\ step # "idle" => Known
    /\ step = "idle" => next = 0 /\ output = <<>> /\ text = <<>>
    /\ step \in {"sps", "pps"} => Progress
    /\ step = "sps" => text = <<>>
    /\ step = "pps" => \E t : text = <<t>> /\ Whole(params.sps, t)
    /\ step = "print" =>
          \E t, u : text = <<t, u>> /\ Whole(params.sps, t) /\ Whole(params.pps, u)
    /\ sdp # NoSdp =>
          /\ \E t, u : /\ sdp.sets = <<t, u>>
                       /\ Whole(params.sps, t) /\ Whole(params.pps, u)
          /\ sdp.profile = SubSeq(params.sps, 2, 4)
    /\ Len(output) < TextSize
    /\ step = "failed" =>
          \/ Len(params.sps) < 4
          \/ Encoded(params.sps) >= TextSize \/ Encoded(params.pps) >= TextSize
          \/ FixedLength + Encoded(params.sps) + Encoded(params.pps) >= SdpSize

LEMMA SetsAre ==
    ASSUME NEW p \in ParameterSets
    PROVE  /\ p.sps \in Seq(Octets) /\ p.sps # <<>>
           /\ p.pps \in Seq(Octets) /\ p.pps # <<>>
<1>1. NalUnit(p.sps) /\ NalUnit(p.pps)
    BY AccessUnitAssumption
<1>2. QED
    BY <1>1 DEF NalUnit, Octets

LEMMA SetsKnown ==
    ASSUME UnitInv, SdpInv, Known
    PROVE  /\ sps = params.sps /\ pps = params.pps
           /\ params.sps \in Seq(Octets) /\ params.sps # <<>>
           /\ params.pps \in Seq(Octets) /\ params.pps # <<>>
           /\ Input \in Seq(Octets) /\ Input # <<>>
<1>1. sps = params.sps /\ pps = params.pps /\ params \in ParameterSets
    BY DEF UnitInv, PlaceInv, Known
<1>2. /\ params.sps \in Seq(Octets) /\ params.sps # <<>>
      /\ params.pps \in Seq(Octets) /\ params.pps # <<>>
    BY <1>1, SetsAre
<1>3. QED
    BY <1>1, <1>2 DEF Input

(* The media thread leaves the SDP alone, and the sets where they are.     *)
LEMMA SdpStays ==
    ASSUME SdpInv, UNCHANGED sdpVars, params' = params,
           Known => Known' /\ sps' = sps /\ pps' = pps,
           connection' = "open" => Known'
    PROVE  SdpInv'
<1>1. UNCHANGED <<step, next, output, text, sdp>>
    BY DEF sdpVars
<1>2. step # "idle" => Known' /\ Known
    BY DEF SdpInv
<1>3. Known => Input' = Input
    BY <1>1 DEF Input
<1>4. (step \in {"sps", "pps"} => Progress)'
    <2> SUFFICES ASSUME step \in {"sps", "pps"} PROVE Progress'
        BY <1>1
    <2>1. PICK q \in Nat : /\ next = 3 * q /\ next < Len(Input) + 3
                           /\ Coded(Input, output, q)
        BY DEF SdpInv, Progress
    <2>2. Input' = Input
        BY <1>2, <1>3
    <2>3. next' = 3 * q /\ next' < Len(Input') + 3 /\ Coded(Input', output', q)
        BY <1>1, <2>1, <2>2
    <2>4. QED
        BY <2>3 DEF Progress
<1>5. QED
    BY <1>1, <1>2, <1>4 DEF SdpInv

LEMMA SdpBegins == ASSUME SdpInit, UnitInit, FramingInit PROVE SdpInv
<1>1. Len(output) < TextSize
    BY SdpAssumption DEF SdpInit
<1>2. QED
    BY <1>1 DEF SdpInit, UnitInit, FramingInit, SdpInv

LEMMA AcceptStep == ASSUME SdpInv, AcceptClient PROVE SdpInv'
<1>1. /\ place = "closed" /\ place' = place /\ sdp' = NoSdp
      /\ step' = step /\ next' = next /\ output' = output /\ text' = text
      /\ sps' = sps /\ pps' = pps /\ params' = params
    BY DEF AcceptClient, unitVars, media
<1>2. Known'
    BY <1>1 DEF Known
<1>3. Input' = Input
    BY <1>1 DEF Input
<1>4. Progress => Progress'
    <2>1. \A q : Coded(Input, output, q)' <=> Coded(Input, output, q)
        BY <1>1, <1>3 DEF Coded, ValueOf
    <2>2. QED
        BY <1>1, <1>3, <2>1 DEF Progress
<1>5. QED
    BY <1>1, <1>2, <1>4 DEF SdpInv

(* The steps of the builder, while the sets are known.                     *)
LEMMA CheckStep ==
    ASSUME UnitInv, SdpInv, Check, Known, UNCHANGED <<framingVars, unitVars>>
    PROVE  SdpInv'
<1>1. /\ step = "idle" /\ next = 0 /\ output = <<>> /\ text = <<>>
      /\ step' = IF Len(sps) < 4 \/ pps = <<>> THEN "failed" ELSE "sps"
      /\ next' = 0 /\ output' = <<>> /\ text' = <<>> /\ sdp' = sdp
    BY DEF Check, SdpInv
<1>2. /\ place' = place /\ sps' = sps /\ pps' = pps /\ params' = params
      /\ connection' = connection
    BY DEF unitVars, media, framingVars
<1>3. /\ sps = params.sps /\ pps = params.pps /\ sps \in Seq(Octets) /\ pps # <<>>
    BY SetsKnown
<1>4. Known'
    BY <1>2 DEF Known
<1>5. step' = "sps" => Progress'
    <2> SUFFICES ASSUME step' = "sps" PROVE Progress'
        OBVIOUS
    <2>1. Input' = sps
        BY <1>2 DEF Input
    <2>2. Coded(Input', output', 0)
        BY <1>1 DEF Coded
    <2>3. next' = 3 * 0 /\ next' < Len(Input') + 3
        BY <1>1, <1>3, <2>1
    <2>4. QED
        BY <2>2, <2>3 DEF Progress
<1>6. step' = "failed" => Len(params'.sps) < 4
    BY <1>1, <1>2, <1>3
<1>7. step' \in {"failed", "sps"}
    BY <1>1
<1>8. Len(output') < TextSize
    BY <1>1 DEF SdpInv
<1>9. QED
    BY <1>1, <1>2, <1>4, <1>5, <1>6, <1>7, <1>8 DEF SdpInv

LEMMA GroupStep ==
    ASSUME UnitInv, SdpInv, EncodeGroup, Known, UNCHANGED <<framingVars, unitVars>>
    PROVE  SdpInv'
<1>1. step \in {"sps", "pps"} /\ next < Len(Input) /\ text' = text /\ sdp' = sdp
    BY DEF EncodeGroup, Encoding
<1>2. \/ /\ Len(output) + 4 < TextSize
         /\ output' = output \o Group /\ next' = next + 3 /\ step' = step
      \/ /\ Len(output) + 4 >= TextSize
         /\ step' = "failed" /\ next' = next /\ output' = output
    BY DEF EncodeGroup
<1>3. /\ place' = place /\ sps' = sps /\ pps' = pps /\ params' = params
      /\ connection' = connection
    BY DEF unitVars, media, framingVars
<1>4. PICK set : set = Input
    OBVIOUS
<1>5. set \in Seq(Octets) /\ sps = params.sps /\ pps = params.pps
    BY <1>4, SetsKnown
<1>6. PICK q \in Nat : next = 3 * q /\ Coded(set, output, q)
    BY <1>1, <1>4 DEF SdpInv, Progress
<1>7. Known'
    BY <1>3 DEF Known
<1>8. PICK m \in Nat : m = Len(set)
    BY <1>5
<1>9. CASE step' = "failed"
    <2>1. output' = output /\ Len(output) + 4 >= TextSize
        BY <1>1, <1>2, <1>9
    <2>2. Len(output) = 4 * q
        BY <1>6 DEF Coded
    <2>3. (m + 2) \div 3 >= q + 1
        BY <1>1, <1>4, <1>6, <1>8
    <2>4. Encoded(set) >= TextSize
        BY <1>8, <2>1, <2>2, <2>3, SdpAssumption DEF Encoded
    <2>5. set = params.sps \/ set = params.pps
        BY <1>4, <1>5 DEF Input
    <2>6. Encoded(params'.sps) >= TextSize \/ Encoded(params'.pps) >= TextSize
        BY <1>3, <2>4, <2>5
    <2>7. QED
        BY <1>1, <1>3, <1>7, <1>9, <2>1, <2>6 DEF SdpInv
<1>10. CASE step' = step
    <2>1. Len(output) + 4 < TextSize /\ output' = output \o Group /\ next' = next + 3
        BY <1>1, <1>2, <1>10
    <2>2. Input' = set
        BY <1>3, <1>4, <1>10 DEF Input
    <2>3. Len(set) - next = Remain
        BY <1>4 DEF Remain
    <2>4. PICK v : v = ValueOf(set, next)
        OBVIOUS
    <2>5. v \in Nat /\ v < 16777216
        BY SMT, <1>1, <1>4, <1>5, <1>6, <2>4, GroupIs
    <2>6. PICK d1, d2, d3, d4 : Digits(v, d1, d2, d3, d4)
        BY SMT DEF Digits
    <2>7. /\ d1 \in Nat /\ d1 < 64 /\ d2 \in Nat /\ d2 < 64
          /\ d3 \in Nat /\ d3 < 64 /\ d4 \in Nat /\ d4 < 64
        BY SMT, <2>5, <2>6, DigitsAre
    <2>8. Value = v
        BY SMT, <1>4, <2>4 DEF Value, ValueOf, Remain
    <2>9. PICK e3, e4 : /\ e3 = IF Len(set) - next > 1 THEN d3 ELSE Pad
                        /\ e4 = IF Len(set) - next > 2 THEN d4 ELSE Pad
        BY SMT
    <2>10. Group = <<d1, d2, e3, e4>>
        BY SMT, <2>3, <2>6, <2>8, <2>9 DEF Group, Digit, Digits
    <2>11. d1 \in Signs /\ d2 \in Signs /\ e3 \in Signs /\ e4 \in Signs
        BY <2>7, <2>9 DEF Pad, Signs
    <2>12. PICK four : four = Group /\ four = <<d1, d2, e3, e4>>
        BY <2>10
    <2>13. /\ four \in Seq(Signs) /\ Len(four) = 4
           /\ four[1] = d1 /\ four[2] = d2 /\ four[3] = e3 /\ four[4] = e4
        BY <2>11, <2>12
    <2>14. PICK out, done : done = output /\ out = output' /\ out = done \o four
        BY <2>1, <2>12
    <2>15. done \in Seq(Signs) /\ Len(done) = 4 * q
        BY <1>6, <2>14 DEF Coded
    <2>16. /\ out \in Seq(Signs) /\ Len(out) = Len(done) + Len(four)
           /\ \A i \in 1 .. Len(done) : out[i] = done[i]
           /\ \A i \in 1 .. Len(four) : out[Len(done) + i] = four[i]
        <3>1. done \in Seq(Signs) /\ four \in Seq(Signs) /\ out = done \o four
            BY <2>13, <2>14, <2>15
        <3>2. QED
            BY <3>1, JoinedUp
    <2>17. Len(out) = 4 * (q + 1)
        BY <2>13, <2>15, <2>16
    <2>18. /\ out[4 * q + 1] = d1 /\ out[4 * q + 2] = d2
           /\ out[4 * q + 3] = e3 /\ out[4 * q + 4] = e4
        BY <2>13, <2>15, <2>16
    <2>19. ASSUME NEW g \in 0 .. q PROVE GroupAt(set, out, g)
        <3>1. CASE g = q
            <4>1. next = 3 * g
                BY <1>6, <3>1
            <4>2. QED
                BY SMT, <2>4, <2>6, <2>9, <2>18, <3>1, <4>1 DEF Digits, GroupAt
        <3>2. CASE g # q
            <4>1. g \in 0 .. q - 1
                BY <3>2
            <4>2. PICK i \in Nat : i = 4 * g
                OBVIOUS
            <4>3. i + 4 <= 4 * q
                BY <4>1, <4>2
            <4>4. /\ out[i + 1] = done[i + 1] /\ out[i + 2] = done[i + 2]
                  /\ out[i + 3] = done[i + 3] /\ out[i + 4] = done[i + 4]
                BY <2>15, <2>16, <4>3
            <4>5. QED
                BY SMT, <1>6, <2>14, <4>1, <4>2, <4>4 DEF Coded, GroupAt
        <3>3. QED
            BY <3>1, <3>2
    <2>20. PICK r \in Nat : r = q + 1 /\ 0 .. r - 1 = 0 .. q
        OBVIOUS
    <2>21. Coded(set, out, r)
        BY <2>16, <2>17, <2>19, <2>20 DEF Coded
    <2>22. Progress'
        <3>1. next' = 3 * r /\ next' < Len(set) + 3
            BY <1>1, <1>4, <1>6, <1>8, <2>1, <2>20
        <3>2. QED
            BY <2>2, <2>14, <2>21, <3>1 DEF Progress
    <2>23. Len(output') < TextSize
        BY <2>1, <2>13, <2>14, <2>15, <2>16
    <2>24. QED
        BY <1>1, <1>3, <1>7, <1>10, <2>22, <2>23 DEF SdpInv
<1>11. QED
    BY <1>2, <1>9, <1>10

LEMMA TwoTexts ==
    ASSUME NEW t, NEW d, NEW x, x = Append(<<t>>, d)
    PROVE  x = <<t, d>>
<1>1. PICK D : t \in D /\ d \in D
    <2>1. t \in {t, d} /\ d \in {t, d}
        OBVIOUS
    <2>2. QED
        BY <2>1
<1>2. <<t>> \in Seq(D) /\ Len(<<t>>) = 1
    BY <1>1
<1>3. x \in Seq(D) /\ Len(x) = 2 /\ x[1] = t /\ x[2] = d
    BY <1>1, <1>2
<1>4. PICK y : y = <<t, d>>
    OBVIOUS
<1>5. y \in Seq(D) /\ Len(y) = 2 /\ y[1] = t /\ y[2] = d
    BY <1>1, <1>4
<1>6. \A i \in 1 .. 2 : x[i] = y[i]
    BY <1>3, <1>5
<1>7. x = y
    BY <1>3, <1>5, <1>6, SeqEqual
<1>8. QED
    BY <1>4, <1>7

LEMMA EndsEncodingStep ==
    ASSUME UnitInv, SdpInv, EncodeEnds, Known, UNCHANGED <<framingVars, unitVars>>
    PROVE  SdpInv'
<1>1. /\ step \in {"sps", "pps"} /\ next >= Len(Input) /\ sdp' = sdp
      /\ text' = Append(text, output) /\ next' = 0 /\ output' = <<>>
      /\ step' = IF step = "sps" THEN "pps" ELSE "print"
    BY DEF EncodeEnds
<1>2. /\ place' = place /\ sps' = sps /\ pps' = pps /\ params' = params
      /\ connection' = connection
    BY DEF unitVars, media, framingVars
<1>3. PICK set, ds : set = Input /\ ds = output
    OBVIOUS
<1>4. set \in Seq(Octets) /\ set # <<>> /\ sps = params.sps /\ pps = params.pps
    BY <1>3, SetsKnown
<1>5. Whole(set, ds)
    <2>1. PICK q \in Nat : next = 3 * q /\ next < Len(set) + 3 /\ Coded(set, ds, q)
        BY <1>1, <1>3 DEF SdpInv, Progress
    <2>2. Len(set) <= 3 * q /\ 3 * q < Len(set) + 3
        BY <1>1, <1>3, <2>1
    <2>3. QED
        BY <1>4, <2>1, <2>2 DEF Whole
<1>6. Known' /\ Len(output') < TextSize
    BY <1>1, <1>2, SdpAssumption DEF Known
<1>7. CASE step = "sps"
    <2>1. text = <<>> /\ set = params.sps /\ step' = "pps"
        BY <1>1, <1>3, <1>4, <1>7 DEF SdpInv, Input
    <2>2. text' = <<ds>>
        BY <1>1, <1>3, <2>1
    <2>3. \E t : text' = <<t>> /\ Whole(params'.sps, t)
        BY <1>2, <1>5, <2>1, <2>2
    <2>4. Progress'
        <3>1. Input' = pps /\ pps \in Seq(Octets)
            BY <1>2, <1>4, <2>1, SetsKnown DEF Input
        <3>2. Coded(Input', output', 0)
            BY <1>1 DEF Coded
        <3>3. next' = 3 * 0 /\ next' < Len(Input') + 3
            BY <1>1, <3>1
        <3>4. QED
            BY <3>2, <3>3 DEF Progress
    <2>5. QED
        BY <1>1, <1>2, <1>6, <2>1, <2>3, <2>4 DEF SdpInv
<1>8. CASE step = "pps"
    <2>1. set = params.pps /\ step' = "print"
        BY <1>1, <1>3, <1>4, <1>8 DEF Input
    <2>2. PICK t : text = <<t>> /\ Whole(params.sps, t)
        BY <1>8 DEF SdpInv
    <2>3. text' = <<t, ds>>
        <3>1. PICK x : x = text' /\ x = Append(<<t>>, ds)
            BY <1>1, <1>3, <2>2
        <3>2. x = <<t, ds>>
            BY <3>1, TwoTexts
        <3>3. QED
            BY <3>1, <3>2
    <2>4. \E a, b : text' = <<a, b>> /\ Whole(params'.sps, a) /\ Whole(params'.pps, b)
        BY <1>2, <1>5, <2>1, <2>2, <2>3
    <2>5. QED
        BY <1>1, <1>2, <1>6, <2>1, <2>4 DEF SdpInv
<1>9. QED
    BY <1>1, <1>7, <1>8

LEMMA PrintStep ==
    ASSUME UnitInv, SdpInv, PrintSdp, Known, UNCHANGED <<framingVars, unitVars>>
    PROVE  SdpInv'
<1>1. PICK t, u : text = <<t, u>> /\ Whole(params.sps, t) /\ Whole(params.pps, u)
    BY DEF PrintSdp, SdpInv
<1>2. text[1] = t /\ text[2] = u /\ Len(t) = Encoded(params.sps) /\ Len(u) = Encoded(params.pps)
    BY <1>1, WholeDecodes
<1>3. /\ step = "print" /\ next' = next /\ output' = output /\ text' = text
      /\ \/ /\ FixedLength + Len(text[1]) + Len(text[2]) >= SdpSize
            /\ step' = "failed" /\ sdp' = sdp
         \/ step' = "done" /\ sdp' = [profile |-> SubSeq(sps, 2, 4), sets |-> text]
    BY DEF PrintSdp
<1>4. /\ place' = place /\ sps' = sps /\ pps' = pps /\ params' = params
      /\ connection' = connection
    BY DEF unitVars, media, framingVars
<1>5. sps = params.sps /\ pps = params.pps
    BY SetsKnown
<1>6. Known'
    BY <1>4 DEF Known
<1>7. step' = "failed" =>
          FixedLength + Encoded(params'.sps) + Encoded(params'.pps) >= SdpSize
    BY <1>2, <1>3, <1>4
<1>8. sdp' # NoSdp =>
          /\ \E a, b : /\ sdp'.sets = <<a, b>>
                       /\ Whole(params'.sps, a) /\ Whole(params'.pps, b)
          /\ sdp'.profile = SubSeq(params'.sps, 2, 4)
    <2>1. CASE sdp' = sdp
        BY <1>4, <2>1 DEF SdpInv
    <2>2. CASE sdp' = [profile |-> SubSeq(sps, 2, 4), sets |-> text]
        BY <1>1, <1>4, <1>5, <2>2
    <2>3. QED
        BY <1>3, <2>1, <2>2
<1>9. step' \in {"done", "failed"} /\ Len(output') < TextSize
    BY <1>3 DEF SdpInv
<1>10. QED
    BY <1>4, <1>6, <1>7, <1>8, <1>9 DEF SdpInv

LEMMA ReturnStep ==
    ASSUME SdpInv, SdpReturns("done") \/ SdpReturns("failed"), UNCHANGED unitVars,
           connection' = "open" => connection = "open"
    PROVE  SdpInv'
<1>1. step' = "idle" /\ next' = 0 /\ output' = <<>> /\ text' = <<>> /\ sdp' = sdp
    BY DEF SdpReturns
<1>2. place' = place /\ params' = params
    BY DEF unitVars, media
<1>3. Known' = Known
    BY <1>2 DEF Known
<1>4. Len(output') < TextSize
    BY <1>1, SdpAssumption
<1>5. QED
    BY <1>1, <1>2, <1>3, <1>4 DEF SdpInv

(* Once the sets are known they stay, and nothing but a new client opens   *)
(* the connection.                                                         *)
LEMMA StillKnown ==
    ASSUME UnitInv, UnitStep \/ UNCHANGED unitVars
    PROVE  params' = params /\ (Known => Known' /\ sps' = sps /\ pps' = pps)
<1>1. CASE Bootstrap
    BY <1>1 DEF Bootstrap, Known
<1>2. CASE Play
    BY <1>2 DEF Play, Known, media
<1>3. CASE ThreadLoop
    BY <1>3 DEF ThreadLoop, Gate, Record, Send, NextFrame, End, Known, media
<1>4. CASE StopThread
    BY <1>4 DEF StopThread, Known, media
<1>5. CASE UNCHANGED unitVars
    BY <1>5 DEF unitVars, Known, media
<1>6. QED
    BY <1>1, <1>2, <1>3, <1>4, <1>5 DEF UnitStep

LEMMA NobodyConnects ==
    ASSUME FramingStep \/ UNCHANGED framingVars, ~Connect
    PROVE  connection' = "open" => connection = "open"
BY DEF FramingStep, Ask, Disconnect, Receive, TooLarge, Reply, ReplyFails, Drop, Ends,
       Handling, framingVars

LEMMA SdpStep ==
    ASSUME UnitInv, SdpInv, [Next]_vars
    PROVE  SdpInv'
<1>1. params' = params /\ (Known => Known' /\ sps' = sps /\ pps' = pps)
    BY SessionUnits, StillKnown
<1>2. ASSUME UNCHANGED sdpVars, connection' = "open" => connection = "open"
      PROVE  SdpInv'
    <2>1. connection' = "open" => Known'
        BY <1>1, <1>2 DEF SdpInv
    <2>2. QED
        BY <1>1, <1>2, <2>1, SdpStays
<1>3. ASSUME ~Connect PROVE connection' = "open" => connection = "open"
    BY <1>3, SessionStep, NobodyConnects
<1>4. ASSUME connection = "open" PROVE ~Connect
    BY <1>4 DEF Connect
<1>5. CASE Prepare
    BY <1>2, <1>5 DEF Prepare, framingVars
<1>6. CASE AcceptClient
    BY <1>6, AcceptStep
<1>7. CASE Client
    <2>1. connection = "open" /\ UNCHANGED sdpVars
        BY <1>7 DEF Client, Ask, Disconnect, Ends
    <2>2. QED
        BY <1>2, <1>3, <1>4, <2>1
<1>8. CASE ReceiveMore
    <2>1. connection = "open" /\ UNCHANGED sdpVars
        BY <1>8 DEF ReceiveMore, Receive, TooLarge, Receiving
    <2>2. QED
        BY <1>2, <1>3, <1>4, <2>1
<1>9. CASE BuildSdp
    <2>1. connection = "open" /\ UNCHANGED <<framingVars, unitVars>>
        BY <1>9 DEF BuildSdp, Handling
    <2>2. Known
        BY <2>1 DEF SdpInv
    <2>3. QED
        BY <1>9, <2>1, <2>2, CheckStep, GroupStep, EndsEncodingStep, PrintStep DEF BuildSdp
<1>10. CASE AnswerDescribe
    <2>1. connection = "open" /\ UNCHANGED unitVars
        BY <1>10 DEF AnswerDescribe, Reply, ReplyFails, Handling
    <2>2. SdpReturns("done") \/ SdpReturns("failed")
        BY <1>10 DEF AnswerDescribe
    <2>3. QED
        BY <2>1, <2>2, ReturnStep
<1>11. CASE AnswerPlay \/ AnswerOther
    <2>1. connection = "open" /\ UNCHANGED sdpVars
        BY <1>11 DEF AnswerPlay, AnswerOther, Handling
    <2>2. QED
        BY <1>2, <1>3, <1>4, <2>1
<1>12. CASE Hangup
    <2>1. connection = "open" /\ UNCHANGED sdpVars
        BY <1>12 DEF Hangup, Drop, Ends
    <2>2. QED
        BY <1>2, <1>3, <1>4, <2>1
<1>13. CASE StopMedia
    BY <1>2, <1>13 DEF StopMedia, framingVars
<1>14. CASE RunMedia
    BY <1>2, <1>14 DEF RunMedia, framingVars
<1>15. CASE UNCHANGED vars
    BY <1>2, <1>15 DEF vars, framingVars
<1>16. QED
    BY <1>5, <1>6, <1>7, <1>8, <1>9, <1>10, <1>11, <1>12, <1>13, <1>14, <1>15
       DEF Next, Control

(* The digits written so far are those of the bytes read so far, whatever  *)
(* the media thread does meanwhile.                                        *)
THEOREM SdpInStep == Spec => []SdpInv
<1>1. Init => SdpInv
    BY SdpBegins DEF Init
<1>2. UnitInv /\ SdpInv /\ [Next]_vars => SdpInv'
    BY SdpStep
<1>3. QED
    BY <1>1, <1>2, UnitsInStep, PTL DEF Spec

(* From the SDP of the server a client decodes the encoder's parameter     *)
(* sets, whatever their lengths; the buffers of the two texts keep room    *)
(* for the terminating zero, and only sets that do not fit, or an SPS      *)
(* without a profile, are refused.                                         *)
THEOREM SetsSurvive == Spec => []SdpDecodes
<1>1. SdpInv => SdpDecodes
    <2> SUFFICES ASSUME SdpInv PROVE SdpDecodes
        OBVIOUS
    <2>1. ASSUME sdp # NoSdp
          PROVE  /\ Decode(sdp.sets[1]) = params.sps /\ Decode(sdp.sets[2]) = params.pps
                 /\ sdp.profile = SubSeq(params.sps, 2, 4)
        <3>1. PICK t, u : /\ sdp.sets = <<t, u>>
                          /\ Whole(params.sps, t) /\ Whole(params.pps, u)
            BY <2>1 DEF SdpInv
        <3>2. sdp.sets[1] = t /\ sdp.sets[2] = u
            BY <3>1
        <3>3. Decode(t) = params.sps /\ Decode(u) = params.pps
            BY <3>1, WholeDecodes
        <3>4. QED
            BY <2>1, <3>2, <3>3 DEF SdpInv
    <2>2. QED
        BY <2>1 DEF SdpInv, SdpDecodes
<1>2. QED
    BY <1>1, SdpInStep, PTL
=============================================================================
