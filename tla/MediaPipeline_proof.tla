------------------------- MODULE MediaPipeline_proof ------------------------
(***************************************************************************)
(* A session loses no buffer but to the driver, sees no frame from before  *)
(* PLAY and counts its gaps right, for every number of buffers, every      *)
(* group of pictures and however long the camera runs.                     *)
(***************************************************************************)
EXTENDS MediaPipeline, TLAPS

(* The camera numbers its frames in order, and the driver hands them out   *)
(* in that order: what is in the queue is newer than what was taken.       *)
Ordered ==
    /\ since <= shot
    /\ hand <= shot /\ last <= shot /\ au.seq <= shot
    /\ hand # NoFrame => last < hand
    /\ \A i \in 1..Len(ready) :
        /\ hand < ready[i] /\ last < ready[i] /\ au.seq < ready[i]
        /\ ready[i] <= shot
    /\ \A i, j \in 1..Len(ready) : i < j => ready[i] < ready[j]

(* The iteration's picture is that of its frame.                           *)
Current ==
    /\ place = "release" /\ au # NoPicture => au.seq = hand
    /\ place = "gate" => last < au.seq
    /\ captured = 0 => last = NoFrame /\ gaps = 0
    /\ captured > 0 => first # NoFrame

(* While the session drains the queue, what may be left of the frames from *)
(* before PLAY fits in the iterations that are left.                       *)
StaleLeft ==
    place \in {"open", "drain", "drainGive"} =>
        /\ au = NoPicture
        /\ \A i \in 1..Len(ready) : i > Buffers - drained => ready[i] > since

Inv ==
    /\ PipelineTypeOK /\ BuffersConserved
    /\ Ordered /\ Current /\ StaleLeft
    /\ FreshFrames /\ GapsCounted

-----------------------------------------------------------------------------
(* The oldest frame of the queue and the rest of it.                       *)
LEMMA OldestFrame ==
    ASSUME NEW S \in SUBSET Nat, NEW s \in Seq(S), s # <<>>
    PROVE  /\ Head(s) = s[1] /\ Head(s) \in S
           /\ Tail(s) \in Seq(S) /\ Len(Tail(s)) = Len(s) - 1
           /\ Len(s) \in Nat \ {0}
           /\ \A i \in 1..Len(Tail(s)) : i + 1 \in 1..Len(s) /\ Tail(s)[i] = s[i + 1]
  OBVIOUS

LEMMA AppendType ==
    ASSUME NEW S, NEW s \in Seq(S), NEW x \in S PROVE Append(s, x) \in Seq(S)
  OBVIOUS

LEMMA AppendFacts ==
    ASSUME NEW S, NEW s \in Seq(S), NEW x \in S
    PROVE  /\ Append(s, x) \in Seq(S) /\ Len(Append(s, x)) = Len(s) + 1
           /\ \A i \in 1..Len(s) : Append(s, x)[i] = s[i]
           /\ Append(s, x)[Len(Append(s, x))] = x /\ Len(s) \in Nat
  OBVIOUS

LEMMA LastElement ==
    ASSUME NEW S, NEW s \in Seq(S), s # <<>> PROVE s[Len(s)] \in S
  OBVIOUS

(* A frame newer than those of the queue joins it at the end.              *)
LEMMA NewestFrame ==
    ASSUME NEW s \in Seq(Nat), NEW x \in Nat,
           \A i \in 1..Len(s) : s[i] < x,
           \A i, j \in 1..Len(s) : i < j => s[i] < s[j]
    PROVE  \A i, j \in 1..Len(Append(s, x)) :
               i < j => Append(s, x)[i] < Append(s, x)[j]
  OBVIOUS

(* The numbers of the queue, without the sequence they come from.          *)
LEMMA Numbers ==
    ASSUME PipelineTypeOK
    PROVE  /\ queued \in 0..Buffers /\ lost \in 0..Buffers /\ Len(ready) \in Nat
           /\ \A i \in 1..Len(ready) : ready[i] \in 1..MaxSequence
           /\ shot \in 1..MaxSequence /\ since \in 1..MaxSequence
           /\ hand \in 0..MaxSequence /\ last \in 0..MaxSequence
           /\ au.seq \in 0..MaxSequence /\ drained \in 0..Buffers
           /\ InHand \in {0, 1}
  BY BuffersAssumption, MaxSequenceAssumption DEF PipelineTypeOK, InHand

(* The oldest frame of the queue is taken, or thrown away as invalid.      *)
LEMMA TakeOrdered ==
    ASSUME PipelineTypeOK, Ordered, ready # <<>>, hand = NoFrame,
           ready' = Tail(ready), hand' = NoFrame \/ hand' = Head(ready),
           shot' = shot, since' = since, last' = last, au' = au
    PROVE  Ordered'
<1>1. /\ Head(ready) = ready[1] /\ Len(ready') = Len(ready) - 1
      /\ Len(ready) \in Nat \ {0}
      /\ \A i \in 1..Len(ready') : i + 1 \in 1..Len(ready) /\ ready'[i] = ready[i + 1]
  BY OldestFrame, MaxSequenceAssumption DEF PipelineTypeOK
<1>2. 1 \in 1..Len(ready) /\ ready[1] \in Nat
  <2>1. 1 \in 1..Len(ready)
    BY <1>1
  <2>2. ready[1] \in 1..MaxSequence
    BY <2>1, Numbers
  <2> QED
    BY <2>1, <2>2, MaxSequenceAssumption
<1>3. last < ready[1] /\ ready[1] <= shot /\ last <= shot /\ au.seq <= shot
  BY <1>2 DEF Ordered
<1>4. hand' <= shot /\ (hand' # NoFrame => last < hand')
  BY <1>1, <1>2, <1>3, Numbers DEF NoFrame
<1>5. ASSUME NEW i \in 1..Len(ready')
      PROVE  /\ hand' < ready'[i] /\ last < ready'[i] /\ au.seq < ready'[i]
             /\ ready'[i] <= shot
  <2>1. i + 1 \in 1..Len(ready) /\ ready'[i] = ready[i + 1] /\ 1 < i + 1
    BY <1>1
  <2>2. last < ready'[i] /\ au.seq < ready'[i] /\ ready'[i] <= shot /\ hand < ready'[i]
    BY <2>1 DEF Ordered
  <2>3. ready[1] < ready'[i]
    BY <1>2, <2>1 DEF Ordered
  <2> QED
    BY <1>1, <2>2, <2>3
<1>6. ASSUME NEW i \in 1..Len(ready'), NEW j \in 1..Len(ready'), i < j
      PROVE  ready'[i] < ready'[j]
  <2>1. i + 1 \in 1..Len(ready) /\ j + 1 \in 1..Len(ready) /\ i + 1 < j + 1
    BY <1>1, <1>6
  <2>2. ready[i + 1] < ready[j + 1]
    BY <2>1 DEF Ordered
  <2> QED
    BY <1>1, <2>2
<1> QED
  <2>1. since' <= shot'
    BY DEF Ordered
  <2> QED
    BY <1>3, <1>4, <1>5, <1>6, <2>1 DEF Ordered

(* A frame thrown away goes back to the driver or is lost: the buffers     *)
(* still add up.                                                           *)
LEMMA RejectConserves ==
    ASSUME PipelineTypeOK, BuffersConserved, hand = NoFrame, hand' = hand,
           place' \notin Holding, Len(ready) \in Nat \ {0},
           Len(ready') = Len(ready) - 1,
           \/ queued' = queued + 1 /\ lost' = lost
           \/ lost' = lost + 1 /\ queued' = queued
    PROVE  queued' \in 0..Buffers /\ lost' \in 0..Buffers /\ BuffersConserved'
<1>1. queued \in Nat /\ lost \in Nat /\ Buffers \in Nat
  BY Numbers, BuffersAssumption
<1>2. InHand = 0 /\ InHand' = 0
  BY DEF InHand
<1>3. queued + Len(ready) + lost = Buffers
  BY <1>1, <1>2 DEF BuffersConserved
<1>4. queued' + Len(ready') + lost' = Buffers
  BY <1>1, <1>3
<1>5. queued' \in Nat /\ lost' \in Nat /\ Len(ready') \in Nat
  BY <1>1
<1> QED
  BY <1>1, <1>2, <1>4, <1>5 DEF BuffersConserved, Holding

LEMMA InvInit == PipelineInit => Inv
<1> SUFFICES ASSUME PipelineInit PROVE Inv
  OBVIOUS
<1>1. PipelineTypeOK
  <2>1. ready \in Seq(1..MaxSequence)
    BY DEF PipelineInit
  <2>2. /\ sent \in Seq([seq : 0..MaxSequence, n : Nat, params : BOOLEAN])
        /\ recorded \in Seq([seq : 0..MaxSequence, n : Nat, params : BOOLEAN])
    BY DEF PipelineInit
  <2>3. au \in [seq : 0..MaxSequence, n : Nat, params : BOOLEAN]
    BY MaxSequenceAssumption DEF PipelineInit, NoPicture, NoFrame
  <2>4. /\ shot \in 1..MaxSequence /\ since \in 1..MaxSequence /\ hand \in 0..MaxSequence
        /\ first \in 0..MaxSequence /\ last \in 0..MaxSequence
        /\ queued \in 0..Buffers /\ lost \in 0..Buffers /\ drained \in 0..Buffers
        /\ n \in Nat /\ captured \in Nat /\ gaps \in Nat
    BY BuffersAssumption, MaxSequenceAssumption DEF PipelineInit, NoFrame
  <2>5. /\ place \in Places /\ recording \in BOOLEAN
        /\ waiting \in BOOLEAN /\ prepend \in BOOLEAN
    BY DEF PipelineInit, Places
  <2> QED
    BY <2>1, <2>2, <2>3, <2>4, <2>5 DEF PipelineTypeOK
<1>2. BuffersConserved
  <2>1. Len(ready) = 0 /\ InHand = 0
    BY DEF PipelineInit, InHand
  <2> QED
    BY <2>1, BuffersAssumption DEF PipelineInit, BuffersConserved, Holding, NoFrame
<1>3. Ordered /\ Current /\ StaleLeft
  BY DEF PipelineInit, Ordered, Current, StaleLeft, NoPicture, NoFrame
<1>4. FreshFrames /\ GapsCounted
  BY DEF PipelineInit, FreshFrames, Live, GapsCounted
<1> QED
  BY <1>1, <1>2, <1>3, <1>4 DEF Inv

LEMMA ShootInv == ASSUME Inv, Shoot PROVE Inv'
<1> USE DEF Inv, Shoot
<1>1. shot' = shot + 1 /\ shot' \in 1..MaxSequence
  BY MaxSequenceAssumption DEF PipelineTypeOK
<1>0. shot \in Nat /\ shot' \in Nat /\ shot < shot'
  BY <1>1, MaxSequenceAssumption DEF PipelineTypeOK
<1>2. CASE UNCHANGED <<queued, ready>>
  <2>1. PipelineTypeOK'
    BY <1>1, <1>2 DEF PipelineTypeOK, gate, counters, output
  <2>2. BuffersConserved'
    BY <1>2 DEF BuffersConserved, InHand
  <2>3. Ordered'
    <3>1. /\ since <= shot' /\ hand <= shot' /\ last <= shot' /\ au.seq <= shot'
          /\ (hand # NoFrame => last < hand)
      BY <1>1, Numbers, MaxSequenceAssumption DEF Ordered
    <3>2. ASSUME NEW i \in 1..Len(ready)
          PROVE  /\ hand < ready[i] /\ last < ready[i] /\ au.seq < ready[i]
                 /\ ready[i] <= shot'
      <4>1. ready[i] \in 1..MaxSequence
        BY Numbers
      <4>2. hand < ready[i] /\ last < ready[i] /\ au.seq < ready[i] /\ ready[i] <= shot
        BY DEF Ordered
      <4> QED
        BY <1>0, <4>1, <4>2, MaxSequenceAssumption
    <3>3. UNCHANGED <<ready, since, hand, last, au>>
      BY <1>2 DEF counters
    <3> QED
      BY <3>1, <3>2, <3>3 DEF Ordered
  <2>4. Current' /\ StaleLeft' /\ FreshFrames' /\ GapsCounted'
    BY <1>2 DEF Current, StaleLeft, FreshFrames, GapsCounted, counters
  <2> QED
    BY <2>1, <2>2, <2>3, <2>4
<1>3. CASE queued > 0 /\ queued' = queued - 1 /\ ready' = Append(ready, shot')
  <2>1. /\ ready' \in Seq(1..MaxSequence) /\ Len(ready') = Len(ready) + 1
        /\ \A i \in 1..Len(ready) : ready'[i] = ready[i]
        /\ ready'[Len(ready')] = shot'
        /\ Len(ready) \in Nat
    <3>1. ready \in Seq(1..MaxSequence) /\ shot' \in 1..MaxSequence
      BY <1>1 DEF PipelineTypeOK
    <3> QED
      BY <1>3, <3>1, AppendFacts
  <2>2. PipelineTypeOK'
    BY <1>1, <1>3, <2>1, BuffersAssumption DEF PipelineTypeOK, gate, counters, output
  <2>3. BuffersConserved'
    <3>1. InHand' = InHand
      BY DEF InHand
    <3> QED
      BY <1>3, <2>1, <3>1, Numbers, BuffersAssumption DEF BuffersConserved
  <2>4. \A i \in 1..Len(ready') : i \in 1..Len(ready) \/ i = Len(ready')
    BY <2>1
  <2>5. Ordered'
    <3>1. ASSUME NEW i \in 1..Len(ready) PROVE ready[i] < shot'
      <4>1. ready[i] <= shot
        BY DEF Ordered
      <4>2. ready[i] \in 1..MaxSequence
        BY Numbers
      <4> QED
        BY <1>0, <4>1, <4>2, MaxSequenceAssumption
    <3>2. \A i, j \in 1..Len(ready') : i < j => ready'[i] < ready'[j]
      <4>1. ready \in Seq(Nat) /\ shot' \in Nat
        BY <1>1, MaxSequenceAssumption DEF PipelineTypeOK
      <4> QED
        BY <1>3, <3>1, <4>1, NewestFrame DEF Ordered
    <3>3. \A i \in 1..Len(ready') :
            hand < ready'[i] /\ last < ready'[i] /\ au.seq < ready'[i] /\ ready'[i] <= shot'
      <4> SUFFICES ASSUME NEW i \in 1..Len(ready')
                   PROVE  hand < ready'[i] /\ last < ready'[i] /\ au.seq < ready'[i]
                          /\ ready'[i] <= shot'
        OBVIOUS
      <4>1. CASE i \in 1..Len(ready)
        <5>1. ready'[i] = ready[i]
          BY <2>1, <4>1
        <5>2. /\ hand < ready[i] /\ last < ready[i] /\ au.seq < ready[i] /\ ready[i] <= shot
          BY <4>1 DEF Ordered
        <5>3. ready[i] \in 1..MaxSequence
          BY <4>1, Numbers
        <5> QED
          BY <1>0, <5>1, <5>2, <5>3, MaxSequenceAssumption
      <4>2. CASE i = Len(ready')
        <5>1. hand < shot' /\ last < shot' /\ au.seq < shot'
          BY <1>1, Numbers, MaxSequenceAssumption DEF Ordered
        <5> QED
          BY <1>1, <2>1, <4>2, <5>1, MaxSequenceAssumption
      <4> QED
        BY <2>4, <4>1, <4>2
    <3> QED
      BY <1>1, <3>2, <3>3, Numbers, MaxSequenceAssumption DEF Ordered, counters
  <2>6. Current' /\ GapsCounted'
    BY DEF Current, GapsCounted, counters
  <2>7. \A i \in 1..Len(ready') : /\ i \in 1..Len(ready) => ready'[i] = ready[i]
                                  /\ i \notin 1..Len(ready) => ready'[i] > since
    <3>1. shot' > since
      BY <1>1, Numbers, MaxSequenceAssumption DEF Ordered
    <3> QED
      BY <2>1, <2>4, <3>1
  <2>8. StaleLeft'
    BY <2>7 DEF StaleLeft
  <2>9. FreshFrames'
    BY <2>7 DEF FreshFrames
  <2> QED
    BY <2>2, <2>3, <2>5, <2>6, <2>8, <2>9
<1> QED
  BY <1>2, <1>3

(* Steps of the thread that touch neither buffers nor frames.              *)
LEMMA QuietStep ==
    ASSUME Inv, UNCHANGED <<shot, buffers, n, recording, since, au, counters>>,
           place' \in Places \ (Holding \cup {"gate"}), place \notin Holding,
           place' \in Live => place \in Live,
           place' \in {"open", "drain"} => place = "open" /\ drained' = drained,
           drained' = drained, waiting' \in BOOLEAN, prepend' \in BOOLEAN,
           sent' \in Seq([seq : 0..MaxSequence, n : Nat, params : BOOLEAN]),
           recorded' \in Seq([seq : 0..MaxSequence, n : Nat, params : BOOLEAN])
    PROVE  Inv'
<1> USE DEF Inv, buffers, counters
<1>1. PipelineTypeOK'
  BY DEF PipelineTypeOK
<1>2. BuffersConserved'
  BY DEF BuffersConserved, InHand
<1>3. Ordered'
  BY DEF Ordered
<1>4. Current' /\ StaleLeft'
  BY DEF Current, StaleLeft, Holding
<1>5. FreshFrames' /\ GapsCounted'
  BY DEF FreshFrames, GapsCounted
<1> QED
  BY <1>1, <1>2, <1>3, <1>4, <1>5

LEMMA StartInv == ASSUME Inv, Start PROVE Inv'
<1> USE DEF Inv, Start, Goto, buffers
<1>1. PipelineTypeOK'
  <2>1. /\ <<>> \in Seq([seq : 0..MaxSequence, n : Nat, params : BOOLEAN])
        /\ NoPicture \in [seq : 0..MaxSequence, n : Nat, params : BOOLEAN]
    BY MaxSequenceAssumption DEF NoPicture, NoFrame
  <2>2. since' \in 1..MaxSequence /\ drained' \in 0..Buffers
        /\ captured' \in Nat /\ gaps' \in Nat
        /\ first' \in 0..MaxSequence /\ last' \in 0..MaxSequence
    BY Numbers, BuffersAssumption, MaxSequenceAssumption DEF NoFrame
  <2>3. place' \in Places /\ waiting' \in BOOLEAN /\ prepend' \in BOOLEAN
    BY DEF Places
  <2> QED
    BY <2>1, <2>2, <2>3 DEF PipelineTypeOK
<1>2. BuffersConserved'
  BY DEF BuffersConserved, InHand, Holding
<1>3. Ordered'
  <2>1. \A i \in 1..Len(ready) : ready[i] > 0
    BY MaxSequenceAssumption DEF PipelineTypeOK
  <2> QED
    BY <2>1, MaxSequenceAssumption DEF PipelineTypeOK, Ordered, NoPicture, NoFrame
<1>4. Len(ready) <= Buffers
  BY Numbers, BuffersAssumption DEF BuffersConserved
<1>5. Current' /\ StaleLeft' /\ FreshFrames' /\ GapsCounted'
  BY <1>4, BuffersAssumption
     DEF PipelineTypeOK, Current, StaleLeft, FreshFrames, GapsCounted, Live, NoFrame
<1> QED
  BY <1>1, <1>2, <1>3, <1>5

LEMMA DrainEndsInv == ASSUME Inv, DrainEnds PROVE Inv'
<1> USE DEF Inv, DrainEnds, Goto, buffers, counters, gate, output
<1>1. PipelineTypeOK'
  BY DEF PipelineTypeOK, Places
<1>2. BuffersConserved'
  BY DEF BuffersConserved, InHand, Holding
<1>3. Ordered' /\ Current' /\ StaleLeft' /\ GapsCounted'
  BY DEF Ordered, Current, StaleLeft, GapsCounted
<1>4. FreshFrames'
  BY Numbers, BuffersAssumption DEF BuffersConserved, StaleLeft, FreshFrames, Holding, NoFrame
<1> QED
  BY <1>1, <1>2, <1>3, <1>4

-----------------------------------------------------------------------------
(* A frame leaves the queue: into the thread's hand, or with an error.     *)
LEMMA DrainTakeInv == ASSUME Inv, DrainTake PROVE Inv'
<1> USE DEF Inv, DrainTake, Goto, Dequeue, counters, gate, output
<1>1. /\ hand' = ready[1] /\ hand' \in 1..MaxSequence
      /\ ready' \in Seq(1..MaxSequence) /\ Len(ready') = Len(ready) - 1
      /\ Len(ready) \in Nat \ {0}
      /\ \A i \in 1..Len(ready') : i + 1 \in 1..Len(ready) /\ ready'[i] = ready[i + 1]
  BY OldestFrame, MaxSequenceAssumption DEF PipelineTypeOK
<1>2. PipelineTypeOK'
  BY <1>1, BuffersAssumption DEF PipelineTypeOK, Places
<1>3. BuffersConserved'
  <2>1. hand = NoFrame /\ InHand = 0 /\ InHand' = 1
    BY <1>1 DEF BuffersConserved, Holding, InHand, NoFrame
  <2> QED
    BY <1>1, <2>1, Numbers, BuffersAssumption DEF BuffersConserved, Holding, NoFrame
<1>4. Ordered'
  <2>1. hand = NoFrame
    BY DEF BuffersConserved, Holding
  <2> QED
    BY <2>1, TakeOrdered
<1>5. StaleLeft'
  BY <1>1, BuffersAssumption DEF PipelineTypeOK, StaleLeft
<1>6. Current' /\ FreshFrames' /\ GapsCounted'
  BY DEF Current, FreshFrames, Live, GapsCounted
<1> QED
  BY <1>2, <1>3, <1>4, <1>5, <1>6

LEMMA CaptureInv == ASSUME Inv, Capture PROVE Inv'
<1> USE DEF Inv, Capture, Goto, Dequeue, counters, gate, output
<1>1. /\ hand' = ready[1] /\ hand' \in 1..MaxSequence
      /\ ready' \in Seq(1..MaxSequence) /\ Len(ready') = Len(ready) - 1
      /\ Len(ready) \in Nat \ {0}
      /\ \A i \in 1..Len(ready') : i + 1 \in 1..Len(ready) /\ ready'[i] = ready[i + 1]
  BY OldestFrame, MaxSequenceAssumption DEF PipelineTypeOK
<1>2. PipelineTypeOK'
  BY <1>1 DEF PipelineTypeOK, Places
<1>3. BuffersConserved'
  <2>1. hand = NoFrame /\ InHand = 0 /\ InHand' = 1
    BY <1>1 DEF BuffersConserved, Holding, InHand, NoFrame
  <2> QED
    BY <1>1, <2>1, Numbers, BuffersAssumption DEF BuffersConserved, Holding, NoFrame
<1>4. Ordered'
  <2>1. hand = NoFrame
    BY DEF BuffersConserved, Holding
  <2> QED
    BY <2>1, TakeOrdered
<1>5. Current' /\ StaleLeft' /\ GapsCounted'
  BY DEF Current, StaleLeft, GapsCounted
<1>6. FreshFrames'
  BY <1>1 DEF FreshFrames, Live
<1> QED
  BY <1>2, <1>3, <1>4, <1>5, <1>6

LEMMA FailInv ==
    ASSUME Inv, place \in {"drain", "capture"}, place' = "exit",
           DequeueInvalid \/ UNCHANGED buffers,
           UNCHANGED <<shot, n, recording, since, drained, au, gate, counters, output>>
    PROVE  Inv'
<1> USE DEF Inv, counters, gate, output
<1>1. CASE UNCHANGED buffers
  <2>1. place' \notin Holding /\ place \notin Holding /\ place' \in Places
        /\ place' \notin Live /\ place' # "gate"
    BY DEF Holding, Places, Live
  <2>2. PipelineTypeOK' /\ BuffersConserved' /\ Ordered'
    BY <1>1, <2>1 DEF PipelineTypeOK, BuffersConserved, InHand, Ordered, buffers
  <2>3. Current' /\ StaleLeft' /\ FreshFrames' /\ GapsCounted'
    BY <2>1 DEF Current, StaleLeft, FreshFrames, GapsCounted
  <2> QED
    BY <2>2, <2>3
<1>2. CASE DequeueInvalid
  <2> USE <1>2 DEF DequeueInvalid
  <2>1. /\ ready' \in Seq(1..MaxSequence) /\ Len(ready') = Len(ready) - 1
        /\ Len(ready) \in Nat \ {0}
        /\ \A i \in 1..Len(ready') : i + 1 \in 1..Len(ready) /\ ready'[i] = ready[i + 1]
    BY OldestFrame, MaxSequenceAssumption DEF PipelineTypeOK
  <2>2. place \notin Holding /\ hand = NoFrame
    BY DEF Holding, BuffersConserved
  <2>3. queued' \in 0..Buffers /\ lost' \in 0..Buffers /\ BuffersConserved'
    <3>1. place' \notin Holding
      BY DEF Holding
    <3> QED
      BY <2>1, <2>2, <3>1, RejectConserves
  <2>4. PipelineTypeOK'
    BY <2>1, <2>3 DEF PipelineTypeOK, Places
  <2>5. Ordered'
    BY <2>2, TakeOrdered
  <2>6. Current' /\ StaleLeft' /\ FreshFrames' /\ GapsCounted'
    BY DEF Current, StaleLeft, FreshFrames, GapsCounted, Live
  <2> QED
    BY <2>3, <2>4, <2>5, <2>6
<1> QED
  BY <1>1, <1>2

-----------------------------------------------------------------------------
(* The frame in hand goes back to the driver, or is lost to it.            *)
LEMMA GiveBack ==
    ASSUME Inv, place \in Holding, place' \in Places \ Holding,
           Requeue \/ RequeueFails,
           UNCHANGED <<shot, n, recording, since, drained, gate, counters, output>>,
           au' \in {au, NoPicture}
    PROVE  /\ PipelineTypeOK' /\ BuffersConserved' /\ Ordered' /\ GapsCounted'
           /\ hand' = NoFrame /\ UNCHANGED ready
<1> USE DEF Inv, counters, gate, output
<1>1. hand # NoFrame /\ InHand = 1 /\ hand' = NoFrame /\ InHand' = 0 /\ UNCHANGED ready
  BY DEF BuffersConserved, InHand, Requeue, RequeueFails
<1>2. \/ queued' = queued + 1 /\ UNCHANGED lost
      \/ lost' = lost + 1 /\ UNCHANGED queued
  BY DEF Requeue, RequeueFails
<1>3. BuffersConserved'
  BY <1>1, <1>2, Numbers, BuffersAssumption DEF BuffersConserved
<1>4. PipelineTypeOK'
  <2>1. queued' \in 0..Buffers /\ lost' \in 0..Buffers
    BY <1>1, <1>2, Numbers, BuffersAssumption DEF BuffersConserved
  <2>2. au' \in [seq : 0..MaxSequence, n : Nat, params : BOOLEAN] /\ hand' \in 0..MaxSequence
    <3>1. NoPicture \in [seq : 0..MaxSequence, n : Nat, params : BOOLEAN]
      BY MaxSequenceAssumption DEF NoPicture, NoFrame
    <3> QED
      BY <1>1, <3>1, MaxSequenceAssumption DEF PipelineTypeOK, NoFrame
  <2> QED
    BY <1>1, <2>1, <2>2 DEF PipelineTypeOK
<1>5. Ordered'
  <2>1. au'.seq \in {au.seq, NoFrame}
    BY DEF NoPicture
  <2> QED
    BY <1>1, <2>1, Numbers, MaxSequenceAssumption DEF Ordered, NoFrame
<1>6. GapsCounted'
  BY DEF GapsCounted
<1> QED
  BY <1>1, <1>3, <1>4, <1>5, <1>6

LEMMA DrainGiveInv == ASSUME Inv, DrainGive PROVE Inv'
<1> USE DEF Inv, DrainGive, counters, gate, output
<1>1. /\ PipelineTypeOK' /\ BuffersConserved' /\ Ordered' /\ GapsCounted'
      /\ UNCHANGED ready
  BY GiveBack DEF Places, Holding
<1>2. Current' /\ StaleLeft' /\ FreshFrames'
  BY <1>1 DEF Current, StaleLeft, FreshFrames, Live
<1> QED
  BY <1>1, <1>2

LEMMA ReleaseInv == ASSUME Inv, Release PROVE Inv'
<1> USE DEF Inv, Release, counters, gate, output
<1>1. /\ PipelineTypeOK' /\ BuffersConserved' /\ Ordered' /\ GapsCounted'
      /\ hand' = NoFrame /\ UNCHANGED ready
  BY GiveBack DEF Places, Holding
<1>2. place' = "gate" => au # NoPicture /\ au' = au /\ au.seq = hand /\ last < hand
  BY DEF Current, Ordered, BuffersConserved, Holding
<1>3. Current' /\ StaleLeft'
  BY <1>2 DEF Current, StaleLeft
<1>4. FreshFrames'
  BY <1>1, <1>2 DEF FreshFrames, Live
<1> QED
  BY <1>1, <1>3, <1>4

(* The encoder makes a picture of the frame in hand, or none.              *)
LEMMA EncodeInv == ASSUME Inv, Encode \/ EncodeFails PROVE Inv'
<1> USE DEF Inv, counters, gate, output, buffers
<1>1. /\ place = "encode" /\ place' = "release" /\ n' \in {n, n + 1}
      /\ UNCHANGED <<shot, buffers, recording, since, drained, gate, counters, output>>
  BY DEF Encode, EncodeFails, Goto
<1>2. /\ au' \in [seq : 0..MaxSequence, n : Nat, params : BOOLEAN]
      /\ au' # NoPicture => au'.seq = hand
      /\ au'.seq \in {hand, NoFrame}
  <2>1. CASE Encode
    BY <2>1 DEF Encode, PipelineTypeOK
  <2>2. CASE EncodeFails
    BY <2>2, MaxSequenceAssumption DEF EncodeFails, NoPicture, NoFrame
  <2> QED
    BY <2>1, <2>2
<1>3. PipelineTypeOK'
  <2>1. place' \in Places
    BY <1>1 DEF Places
  <2>2. n' \in Nat
    BY <1>1 DEF PipelineTypeOK
  <2>3. PipelineTypeOK
    OBVIOUS
  <2> HIDE DEF Inv
  <2> QED
    BY <1>1, <1>2, <2>1, <2>2, <2>3 DEF PipelineTypeOK
<1>4. BuffersConserved' /\ GapsCounted'
  BY <1>1 DEF BuffersConserved, InHand, Holding, GapsCounted
<1>5. Ordered'
  BY <1>1, <1>2, Numbers, MaxSequenceAssumption DEF Ordered, NoFrame
<1>6. Current' /\ StaleLeft'
  BY <1>1, <1>2 DEF Current, StaleLeft
<1>7. FreshFrames'
  BY <1>1, <1>2 DEF FreshFrames, Live, BuffersConserved, Holding
<1> QED
  BY <1>3, <1>4, <1>5, <1>6, <1>7

(* The picture is counted, and dropped or kept.                            *)
LEMMA JudgeInv == ASSUME Inv, Judge PROVE Inv'
<1> USE DEF Inv, Judge, Count, output, buffers
<1>1. /\ place = "gate" /\ place' \in {"record", "check"}
      /\ waiting' \in BOOLEAN /\ prepend' \in BOOLEAN
  BY DEF Accept, Discard, PipelineTypeOK
<1>2. au.seq \in 1..MaxSequence /\ last < au.seq
  BY <1>1, Numbers, MaxSequenceAssumption DEF Current
<1>3. captured \in Nat /\ gaps \in Nat /\ first \in 0..MaxSequence /\ Gap(au.seq) \in Nat
      /\ Gap(au.seq) = IF captured > 0 THEN au.seq - (last + 1) ELSE 0
  <2>1. captured \in Nat /\ gaps \in Nat /\ first \in 0..MaxSequence
        /\ last \in 0..MaxSequence
    BY DEF PipelineTypeOK
  <2>2. CASE captured > 0 /\ au.seq > last + 1
    BY <1>2, <2>1, <2>2, MaxSequenceAssumption DEF Gap
  <2>3. CASE ~(captured > 0 /\ au.seq > last + 1)
    BY <1>2, <2>1, <2>3, MaxSequenceAssumption DEF Gap
  <2> QED
    BY <2>1, <2>2, <2>3
<1>4. PipelineTypeOK'
  <2>1. captured' \in Nat /\ gaps' \in Nat
        /\ first' \in 0..MaxSequence /\ last' \in 0..MaxSequence
    <3>1. /\ captured' = captured + 1 /\ gaps' = gaps + Gap(au.seq) /\ last' = au.seq
          /\ first' \in {first, au.seq}
      OBVIOUS
    <3>2. au.seq \in 0..MaxSequence
      BY <1>2
    <3> HIDE DEF Inv, Judge, Count
    <3> QED
      BY <1>3, <3>1, <3>2
  <2>2. place' \in Places
    BY <1>1 DEF Places
  <2>3. PipelineTypeOK /\ UNCHANGED <<shot, buffers, n, recording, since, drained, au, output>>
    OBVIOUS
  <2> HIDE DEF Inv, Judge, Count
  <2> QED
    BY <1>1, <2>1, <2>2, <2>3 DEF PipelineTypeOK
<1>5. BuffersConserved'
  BY <1>1 DEF BuffersConserved, InHand, Holding
<1>6. Ordered'
  BY <1>1, <1>2, Numbers, MaxSequenceAssumption DEF Ordered, BuffersConserved, Holding
<1>7. Current' /\ StaleLeft'
  BY <1>1, <1>2, <1>3, MaxSequenceAssumption DEF Current, StaleLeft, NoFrame
<1>8. FreshFrames'
  BY <1>1 DEF FreshFrames, Live
<1>9. GapsCounted'
  <2>1. CASE captured = 0
    <3>1. captured' = 1 /\ first' = au.seq /\ last' = au.seq /\ gaps' = 0
      BY <1>3, <2>1 DEF Current
    <3> QED
      BY <1>2, <3>1, MaxSequenceAssumption DEF GapsCounted
  <2>2. CASE captured > 0
    <3>1. /\ captured' = captured + 1 /\ first' = first /\ last' = au.seq
          /\ gaps' = gaps + (au.seq - (last + 1))
          /\ captured + gaps = last - first + 1
      BY <1>3, <2>2 DEF GapsCounted
    <3>2. captured \in Int /\ gaps \in Int /\ first \in Int /\ last \in Int /\ au.seq \in Int
      BY <1>2, <1>3, Numbers, MaxSequenceAssumption
    <3>3. captured' + gaps' = last' - first' + 1
      <4> HIDE DEF Inv, Judge, Count
      <4> QED
        BY <3>1, <3>2
    <3> QED
      BY <3>3 DEF GapsCounted
  <2> QED
    BY <1>3, <2>1, <2>2
<1> QED
  BY <1>4, <1>5, <1>6, <1>7, <1>8, <1>9

-----------------------------------------------------------------------------
LEMMA QuietInv ==
    ASSUME Inv, Open \/ ShouldRun \/ Record \/ RecordFails \/ Send \/ SendFails \/ Finish
    PROVE  Inv'
<1> USE DEF Goto, Places, Holding, Live
<1>1. waiting \in BOOLEAN /\ prepend \in BOOLEAN
  BY DEF Inv, PipelineTypeOK
<1>2. /\ sent \in Seq([seq : 0..MaxSequence, n : Nat, params : BOOLEAN])
      /\ recorded \in Seq([seq : 0..MaxSequence, n : Nat, params : BOOLEAN])
      /\ au \in [seq : 0..MaxSequence, n : Nat, params : BOOLEAN]
  BY DEF Inv, PipelineTypeOK
<1>3. CASE Open
  BY <1>1, <1>2, <1>3, QuietStep DEF Open, gate, output
<1>4. CASE ShouldRun
  BY <1>1, <1>2, <1>4, QuietStep DEF ShouldRun, gate, output
<1>5. CASE Record
  <2>1. recorded' \in Seq([seq : 0..MaxSequence, n : Nat, params : BOOLEAN])
    <3> DEFINE picture == [au EXCEPT !.params = @ \/ sent = <<>>]
    <3>1. picture \in [seq : 0..MaxSequence, n : Nat, params : BOOLEAN]
      BY <1>2
    <3>2. recorded' = recorded \/ recorded' = Append(recorded, picture)
      BY <1>5 DEF Record
    <3> HIDE DEF picture
    <3> QED
      <4>1. Append(recorded, picture) \in Seq([seq : 0..MaxSequence, n : Nat, params : BOOLEAN])
        BY <1>2, <3>1, AppendType
      <4> QED
        BY <1>2, <3>2, <4>1
  <2> QED
    BY <1>1, <1>2, <1>5, <2>1, QuietStep DEF Record, gate, output
<1>6. CASE RecordFails
  BY <1>1, <1>2, <1>6, QuietStep DEF RecordFails, gate, output
<1>7. CASE Send
  <2>1. sent' \in Seq([seq : 0..MaxSequence, n : Nat, params : BOOLEAN])
    <3>1. SentPicture \in [seq : 0..MaxSequence, n : Nat, params : BOOLEAN]
      BY <1>1, <1>2 DEF SentPicture
    <3> QED
      BY <1>2, <1>7, <3>1 DEF Send
  <2> QED
    BY <1>1, <1>2, <1>7, <2>1, QuietStep DEF Send, gate, output
<1>8. CASE SendFails
  BY <1>1, <1>2, <1>8, QuietStep DEF SendFails, gate, output
<1>9. CASE Finish
  BY <1>1, <1>2, <1>9, QuietStep DEF Finish, gate, output
<1> QED
  BY <1>3, <1>4, <1>5, <1>6, <1>7, <1>8, <1>9

LEMMA StutterInv == ASSUME Inv, UNCHANGED pipelineVars PROVE Inv'
<1> USE DEF Inv, pipelineVars
<1>1. PipelineTypeOK' /\ BuffersConserved'
  BY DEF PipelineTypeOK, BuffersConserved, InHand
<1>2. Ordered' /\ Current' /\ StaleLeft' /\ FreshFrames' /\ GapsCounted'
  BY DEF Ordered, Current, StaleLeft, FreshFrames, GapsCounted
<1> QED
  BY <1>1, <1>2

LEMMA NextInv == ASSUME Inv, [PipelineNext]_pipelineVars PROVE Inv'
<1>1. CASE DrainFails \/ CaptureFails
  BY <1>1, FailInv DEF DrainFails, CaptureFails, Goto
<1>2. CASE UNCHANGED pipelineVars
  BY <1>2, StutterInv
<1> QED
  BY <1>1, <1>2, ShootInv, StartInv, QuietInv, DrainTakeInv, DrainGiveInv, DrainEndsInv,
     CaptureInv, EncodeInv, ReleaseInv, JudgeInv
     DEF PipelineNext

THEOREM InvAlways == PipelineSpec => []Inv
<1>1. Inv /\ [PipelineNext]_pipelineVars => Inv'
  BY NextInv
<1> QED
  BY <1>1, InvInit, PTL DEF PipelineSpec

THEOREM TypeCorrect == PipelineSpec => []PipelineTypeOK
  BY InvAlways, PTL DEF Inv

(* No path through capture_and_encode, drain_stale_capture_buffers or the  *)
(* end of a session keeps a buffer of the camera.                          *)
THEOREM NoBufferKept == PipelineSpec => []BuffersConserved
  BY InvAlways, PTL DEF Inv

(* As many non-blocking takes as there are buffers leave no frame from     *)
(* before PLAY, though the camera refills the buffers meanwhile.           *)
THEOREM SessionIsFresh == PipelineSpec => []FreshFrames
  BY InvAlways, PTL DEF Inv

(* What a session reports as missing is what it did not capture.           *)
THEOREM GapsAddUp == PipelineSpec => []GapsCounted
  BY InvAlways, PTL DEF Inv

-----------------------------------------------------------------------------
(* The session implements LiveStream: what its picture, its streams and    *)
(* its gate have to do with each other at each place.                      *)
Newest(stream) == stream[Len(stream)]

Begun ==
    place \in {"open", "drain", "drainGive"} => sent = <<>> /\ recorded = <<>> /\ waiting

Numbered ==
    (place = "release" /\ au # NoPicture) \/ place \in {"gate", "record", "send"} =>
        au # NoPicture /\ au.n = n - 1

Gated ==
    /\ place \in {"check", "capture", "encode", "release", "gate"} =>
           (waiting <=> sent = <<>>)
    /\ place \in {"record", "send"} =>
           ~waiting /\ (prepend <=> sent = <<>>) /\ (prepend => IsIdr(au)) /\ last = au.seq

Continued ==
    sent # <<>> =>
        /\ place \in {"check", "capture", "encode"} => Newest(sent).n = n - 1
        /\ (place = "release" /\ au # NoPicture) \/ place \in {"gate", "record", "send"}
               => Newest(sent).n = au.n - 1
        /\ place \in {"check", "capture", "encode", "release", "gate"} => Newest(sent).seq <= last
        /\ place \in {"record", "send"} => Newest(sent).seq < au.seq

Alike ==
    recording =>
        /\ place \in Live \ {"send"} =>
               /\ Len(recorded) = Len(sent)
               /\ sent # <<>> => /\ Newest(recorded).n = Newest(sent).n
                                 /\ Newest(recorded).seq = Newest(sent).seq
        /\ place = "send" =>
               /\ Len(recorded) = Len(sent) + 1
               /\ Newest(recorded).n = au.n /\ Newest(recorded).seq = au.seq

StreamInv == Begun /\ Numbered /\ Gated /\ Continued /\ Alike

LEMMA StreamInvInit == PipelineInit => StreamInv
  BY DEF PipelineInit, StreamInv, Begun, Numbered, Gated, Continued, Alike, Live

(* Nothing is claimed of a session that is over.                           *)
LEMMA OverStream == ASSUME place' \in {"exit", "stopped"} PROVE StreamInv'
  BY DEF StreamInv, Begun, Numbered, Gated, Continued, Alike, Live

LEMMA QuietStream ==
    ASSUME StreamInv, UNCHANGED <<n, recording, au, waiting, prepend, last, sent, recorded>>,
           \/ place' = place
           \/ place' \in {"drain", "drainGive"} /\ place \in {"open", "drain", "drainGive"}
           \/ place' = "check" /\ place = "drain"
           \/ place' = "capture" /\ place = "check"
           \/ place' = "encode" /\ place = "capture"
           \/ place' = "gate" /\ place = "release" /\ au # NoPicture
    PROVE  StreamInv'
<1> USE DEF StreamInv
<1>1. Begun' /\ Numbered'
  BY DEF Begun, Numbered
<1>2. Gated' /\ Continued'
  BY DEF Begun, Gated, Continued, Newest, IsIdr
<1>3. Alike'
  BY DEF Begun, Alike, Newest, Live
<1> QED
  BY <1>1, <1>2, <1>3

LEMMA EncodeStream == ASSUME Inv, StreamInv, Encode \/ EncodeFails PROVE StreamInv'
<1> USE DEF StreamInv, gate, counters, output
<1>1. /\ place = "encode" /\ place' = "release"
      /\ UNCHANGED <<recording, waiting, prepend, last, sent, recorded>>
      /\ au' # NoPicture => n' = n + 1 /\ au'.n = n
      /\ n \in Nat
  BY DEF Encode, EncodeFails, Goto, Inv, PipelineTypeOK
<1>2. Begun' /\ Numbered'
  BY <1>1 DEF Begun, Numbered
<1>3. Gated' /\ Continued'
  BY <1>1 DEF Gated, Continued, Newest
<1>4. Alike'
  BY <1>1 DEF Alike, Newest, Live
<1> QED
  BY <1>2, <1>3, <1>4

LEMMA JudgeStream == ASSUME Inv, StreamInv, Judge PROVE StreamInv'
<1> USE DEF StreamInv, Judge, Count, output
<1>1. /\ place = "gate" /\ last' = au.seq /\ last < au.seq
      /\ last \in Nat /\ au.seq \in Nat
      /\ \/ place' = "record" /\ (waiting => IsIdr(au)) /\ ~waiting' /\ prepend' = waiting
         \/ place' = "check" /\ waiting /\ waiting'
  BY Numbers, MaxSequenceAssumption DEF Accept, Discard, Inv, Current
<1>2. Begun' /\ Numbered'
  BY <1>1 DEF Begun, Numbered
<1>3. Gated'
  BY <1>1 DEF Gated, IsIdr
<1>4. Continued'
  <2>1. CASE place' = "check"
    BY <1>1, <2>1 DEF Gated, Continued
  <2>2. CASE place' = "record"
    <3> SUFFICES ASSUME sent # <<>> PROVE Newest(sent).n = au.n - 1 /\ Newest(sent).seq < au.seq
      BY <2>2 DEF Continued, Newest
    <3>1. Newest(sent) \in [seq : 0..MaxSequence, n : Nat, params : BOOLEAN]
      BY LastElement DEF Inv, PipelineTypeOK, Newest
    <3> QED
      BY <1>1, <3>1, MaxSequenceAssumption DEF Continued
  <2> QED
    BY <1>1, <2>1, <2>2
<1>5. Alike'
  BY <1>1 DEF Alike, Newest, Live
<1> QED
  BY <1>2, <1>3, <1>4, <1>5

-----------------------------------------------------------------------------
(* What the newest picture of a stream is after a step of it.              *)
LEMMA AppendPicture ==
    ASSUME NEW S, NEW s \in Seq(S), NEW x \in S, NEW t, t = Append(s, x)
    PROVE  /\ Len(t) = Len(s) + 1 /\ t[Len(t)] = x /\ t # <<>>
           /\ Len(s) \in Nat /\ (s # <<>> => Len(s) > 0)
           /\ (s = <<>> => Len(s) = 0)
           /\ \A i \in 1..Len(s) : t[i] = s[i]
  OBVIOUS

LEMMA RecordStream ==
    ASSUME Inv, StreamInv, Record
    PROVE  StreamInv' /\ [Stream!StreamNext]_(Stream!streamVars)
<1> DEFINE picture == [au EXCEPT !.params = @ \/ sent = <<>>]
           Kind == [seq : 0..MaxSequence, n : Nat, params : BOOLEAN]
<1>0. /\ place = "record" /\ place' = "send"
      /\ UNCHANGED <<n, recording, since, au, waiting, prepend, last, sent>>
      /\ recording => (sent = <<>> => IsIdr(au)) /\ recorded' = Append(recorded, picture)
      /\ ~recording => recorded' = recorded
      /\ recording \in BOOLEAN
  BY DEF Record, Goto, gate, counters, Inv, PipelineTypeOK
<1>1. recorded \in Seq(Kind) /\ sent \in Seq(Kind) /\ au \in Kind
  BY DEF Inv, PipelineTypeOK
<1>2. picture \in Kind /\ picture.seq = au.seq /\ picture.n = au.n
      /\ picture.params = (au.params \/ sent = <<>>)
  BY <1>1
<1>3. au.seq > since /\ since \in Nat /\ au.seq \in Nat /\ au.n \in Nat
  BY <1>0, <1>1, Numbers, MaxSequenceAssumption DEF Inv, FreshFrames, Live, StreamInv, Numbered
<1> HIDE DEF picture, Kind
<1>4. ASSUME recording
      PROVE  /\ Len(recorded') = Len(recorded) + 1 /\ Newest(recorded') = picture
             /\ Len(recorded) = Len(sent) /\ Len(sent) \in Nat
             /\ \A i \in 1..Len(recorded) : recorded'[i] = recorded[i]
             /\ recorded = <<>> <=> sent = <<>>
  <2>1. recorded' = Append(recorded, picture)
    BY <1>0, <1>4
  <2>2. Len(recorded) = Len(sent)
    BY <1>0, <1>4 DEF StreamInv, Alike, Live
  <2>3. recorded = <<>> <=> sent = <<>>
    BY <1>1, <2>2
  <2> QED
    BY <1>1, <1>2, <2>1, <2>2, <2>3, AppendPicture DEF Newest
<1>5. StreamInv'
  <2>1. Begun' /\ Numbered' /\ Gated' /\ Continued'
    BY <1>0 DEF StreamInv, Begun, Numbered, Gated, Continued, Newest, IsIdr
  <2>2. Alike'
    BY <1>0, <1>2, <1>4 DEF Alike
  <2> QED
    BY <2>1, <2>2 DEF StreamInv
<1>6. ASSUME recording PROVE Stream!RecordPicture
  <2>1. Stream!Follows(picture, recorded)
    <3>1. recorded = <<>> => Stream!Decodable(picture)
      BY <1>0, <1>2, <1>4, <1>6 DEF Stream!Decodable, IsIdr
    <3>2. recorded # <<>> => picture.seq > Newest(recorded).seq /\ picture.n = Newest(recorded).n + 1
      <4> SUFFICES ASSUME recorded # <<>>
                   PROVE  picture.seq > Newest(recorded).seq /\ picture.n = Newest(recorded).n + 1
        OBVIOUS
      <4>1. /\ Newest(recorded).n = Newest(sent).n /\ Newest(recorded).seq = Newest(sent).seq
            /\ Newest(sent).n = au.n - 1 /\ Newest(sent).seq < au.seq
        BY <1>0, <1>4, <1>6 DEF StreamInv, Alike, Continued, Live
      <4>2. Newest(sent).seq \in Nat /\ Newest(sent).n \in Nat
        <5>1. Newest(sent) \in Kind
          BY <1>1, <1>4, <1>6, LastElement DEF Newest
        <5> QED
          BY <5>1, MaxSequenceAssumption DEF Kind
      <4> QED
        BY <1>2, <1>3, <4>1, <4>2
    <3> QED
      BY <1>2, <1>3, <3>1, <3>2 DEF Stream!Follows, Newest
  <2>2. Stream!Extends(recorded', recorded)
    BY <1>4, <1>6, <2>1 DEF Stream!Extends, Newest
  <2> QED
    BY <1>0, <1>4, <1>6, <2>2 DEF Stream!RecordPicture
<1>7. ASSUME ~recording PROVE UNCHANGED Stream!streamVars
  BY <1>0, <1>7 DEF Stream!streamVars
<1> QED
  BY <1>5, <1>6, <1>7 DEF Stream!StreamNext

LEMMA SendStream ==
    ASSUME Inv, StreamInv, Send
    PROVE  StreamInv' /\ [Stream!StreamNext]_(Stream!streamVars)
<1> DEFINE Kind == [seq : 0..MaxSequence, n : Nat, params : BOOLEAN]
<1>0. /\ place = "send" /\ place' = "check"
      /\ UNCHANGED <<n, recording, since, au, waiting, prepend, last, recorded>>
      /\ sent' = Append(sent, SentPicture)
      /\ n \in Nat /\ au.n = n - 1
  BY DEF Send, Goto, gate, counters, Inv, PipelineTypeOK, StreamInv, Numbered
<1>1. recorded \in Seq(Kind) /\ sent \in Seq(Kind) /\ au \in Kind /\ prepend \in BOOLEAN
  BY DEF Inv, PipelineTypeOK
<1>2. SentPicture \in Kind /\ SentPicture.seq = au.seq /\ SentPicture.n = au.n
      /\ SentPicture.params = (au.params \/ prepend)
  BY <1>1 DEF SentPicture
<1>3. au.seq > since /\ since \in Nat /\ au.seq \in Nat /\ au.n \in Nat
  BY <1>0, <1>1, Numbers, MaxSequenceAssumption DEF Inv, FreshFrames, Live, StreamInv, Numbered
<1> HIDE DEF Kind
<1>4. /\ Len(sent') = Len(sent) + 1 /\ Newest(sent') = SentPicture /\ Len(sent) \in Nat
      /\ sent' # <<>>
      /\ \A i \in 1..Len(sent) : sent'[i] = sent[i]
  BY <1>0, <1>1, <1>2, AppendPicture DEF Newest
<1>5. recording => /\ Len(recorded) = Len(sent') /\ Newest(recorded).n = au.n
                   /\ Newest(recorded).seq = au.seq
  BY <1>0, <1>4 DEF StreamInv, Alike
<1>6. StreamInv'
  <2>1. Begun' /\ Numbered'
    BY <1>0 DEF Begun, Numbered
  <2>2. Gated'
    BY <1>0, <1>4 DEF StreamInv, Gated
  <2>3. Continued'
    BY <1>0, <1>2, <1>3, <1>4 DEF StreamInv, Gated, Continued
  <2>4. Alike'
    BY <1>0, <1>2, <1>4, <1>5 DEF Alike, Newest
  <2> QED
    BY <2>1, <2>2, <2>3, <2>4 DEF StreamInv
<1>7. Stream!Follows(SentPicture, sent)
  <2>1. sent = <<>> => Stream!Decodable(SentPicture)
    BY <1>0, <1>2 DEF StreamInv, Gated, Stream!Decodable, IsIdr
  <2>2. sent # <<>> => SentPicture.seq > Newest(sent).seq /\ SentPicture.n = Newest(sent).n + 1
    <3> SUFFICES ASSUME sent # <<>>
                 PROVE  SentPicture.seq > Newest(sent).seq /\ SentPicture.n = Newest(sent).n + 1
      OBVIOUS
    <3>1. Newest(sent).n = au.n - 1 /\ Newest(sent).seq < au.seq
      BY <1>0 DEF StreamInv, Continued
    <3>2. Newest(sent).seq \in Nat /\ Newest(sent).n \in Nat
      <4>1. Newest(sent) \in Kind
        BY <1>1, LastElement DEF Newest
      <4> QED
        BY <4>1, MaxSequenceAssumption DEF Kind
    <3> QED
      BY <1>2, <1>3, <3>1, <3>2
  <2> QED
    BY <1>2, <1>3, <2>1, <2>2 DEF Stream!Follows, Newest
<1>8. Stream!SendPicture
  BY <1>0, <1>2, <1>4, <1>5, <1>7 DEF Stream!SendPicture, Stream!Extends, Newest
<1> QED
  BY <1>6, <1>8 DEF Stream!StreamNext

LEMMA StartStream ==
    ASSUME Inv, Start
    PROVE  StreamInv' /\ [Stream!StreamNext]_(Stream!streamVars)
<1>1. /\ place' = "open" /\ sent' = <<>> /\ recorded' = <<>> /\ waiting' = TRUE
      /\ since' = shot /\ UNCHANGED recording
  BY DEF Start, Goto
<1>2. StreamInv'
  BY <1>1 DEF StreamInv, Begun, Numbered, Gated, Continued, Alike, Live
<1>3. since' \in Nat /\ since' >= since
  BY <1>1, Numbers, MaxSequenceAssumption DEF Inv, Ordered
<1> QED
  BY <1>1, <1>2, <1>3 DEF Stream!StreamNext, Stream!Begin

(* Every other step leaves the streams alone.                              *)
LEMMA OtherStream ==
    ASSUME Inv, StreamInv,
           \/ Shoot \/ Open
           \/ DrainTake \/ DrainGive \/ DrainEnds \/ DrainFails
           \/ ShouldRun
           \/ Capture \/ CaptureFails \/ Encode \/ EncodeFails \/ Release
           \/ Judge \/ RecordFails \/ SendFails \/ Finish
    PROVE  StreamInv' /\ UNCHANGED Stream!streamVars
<1> USE DEF gate, counters, output
<1>1. UNCHANGED <<recording, since, sent, recorded>>
  BY DEF Shoot, Open, DrainTake, DrainGive, DrainEnds, DrainFails, ShouldRun, Capture,
         CaptureFails, Encode, EncodeFails, Release, Judge, RecordFails, SendFails, Finish
<1>2. Encode \/ EncodeFails \/ Judge => StreamInv'
  BY EncodeStream, JudgeStream
<1>3. place' \in {"exit", "stopped"} => StreamInv'
  BY OverStream
<1>4. Shoot \/ Open \/ DrainTake \/ DrainGive \/ DrainEnds \/ ShouldRun \/ Capture => StreamInv'
  BY <1>3, QuietStream
     DEF Shoot, Open, DrainTake, DrainGive, DrainEnds, ShouldRun, Capture, Goto
<1>5. ASSUME Release PROVE StreamInv'
  <2>1. place' # "exit" =>
          /\ place' = "gate" /\ place = "release" /\ au # NoPicture
          /\ UNCHANGED <<n, recording, au, waiting, prepend, last, sent, recorded>>
    BY <1>5 DEF Release
  <2> QED
    BY <1>3, <2>1, QuietStream
<1>6. DrainFails \/ CaptureFails \/ RecordFails \/ SendFails \/ Finish => StreamInv'
  BY <1>3 DEF DrainFails, CaptureFails, RecordFails, SendFails, Finish, Goto
<1>7. StreamInv'
  BY <1>2, <1>4, <1>5, <1>6
<1> QED
  BY <1>1, <1>7 DEF Stream!streamVars

LEMMA StreamStep ==
    ASSUME Inv, StreamInv, [PipelineNext]_pipelineVars
    PROVE  StreamInv' /\ [Stream!StreamNext]_(Stream!streamVars)
<1>1. CASE UNCHANGED pipelineVars
  BY <1>1, QuietStream DEF pipelineVars, Stream!streamVars
<1>2. CASE PipelineNext
  BY <1>2, StartStream, RecordStream, SendStream, OtherStream DEF PipelineNext
<1> QED
  BY <1>1, <1>2

(* A session implements LiveStream: every access unit that the client gets *)
(* or the recording holds follows, from a fresh IDR with its parameter     *)
(* sets on, though a session may start and fail at any point.              *)
THEOREM StreamImplemented == PipelineSpec => ImplementsStream
<1>1. PipelineInit => Stream!StreamInit
  BY DEF PipelineInit, Stream!StreamInit
<1>2. Inv /\ StreamInv /\ [PipelineNext]_pipelineVars
        => StreamInv' /\ [Stream!StreamNext]_(Stream!streamVars)
  BY StreamStep
<1> QED
  BY <1>1, <1>2, StreamInvInit, InvAlways, PTL
     DEF PipelineSpec, ImplementsStream, Stream!StreamSpec

-----------------------------------------------------------------------------
(* The wait for the IDR.  The remainder of the encoder's picture number is *)
(* what limits it: each dropped picture, not being an IDR, has a remainder *)
(* larger by one than the picture before, and no remainder reaches Gop.    *)
Dry ==
    /\ n > 0
    /\ waiting =>
           /\ captured < Gop
           /\ place \in {"open", "drain", "drainGive"} => captured = 0
           /\ place \in {"check", "capture", "encode"} /\ captured > 0
                  => captured <= (n - 1) % Gop
           /\ (place = "release" /\ au # NoPicture) \/ place = "gate"
                  => /\ n > 1
                     /\ captured > 0 => captured <= (n - 2) % Gop

LEMMA Division ==
    ASSUME NEW a \in Nat, NEW m \in Nat \ {0}
    PROVE  a \div m \in Nat /\ a % m \in Nat /\ a % m < m /\ a = (a \div m) * m + (a % m)
  OBVIOUS

(* A number that m does not divide has the next remainder.                 *)
LEMMA NextRemainder ==
    ASSUME NEW a \in Nat, NEW m \in Nat \ {0}, (a + 1) % m # 0
    PROVE  (a + 1) % m = (a % m) + 1
<1> DEFINE p == a \div m   r == a % m   q == (a + 1) \div m   t == (a + 1) % m
<1>1. p \in Nat /\ r \in Nat /\ r < m /\ a = p * m + r
  BY Division
<1>2. q \in Nat /\ t \in Nat /\ t < m /\ a + 1 = q * m + t
  <2>1. a + 1 \in Nat
    OBVIOUS
  <2> QED
    BY <2>1, Division
<1>3. t # 0
  OBVIOUS
<1> SUFFICES t = r + 1
  OBVIOUS
<1> HIDE DEF p, q, r, t
<1>4. /\ p * m \in Nat /\ q * m \in Nat
      /\ (p + 1) * m = p * m + m /\ (q + 1) * m = q * m + m
  BY <1>1, <1>2
<1>5. q >= p + 1 => q * m >= (p + 1) * m
  BY <1>1, <1>2
<1>6. p >= q + 1 => p * m >= (q + 1) * m
  BY <1>1, <1>2
<1>7. p * m + r + 1 = q * m + t
  BY <1>1, <1>2
<1>8. p = q
  <2>1. ~(q >= p + 1)
    BY <1>1, <1>2, <1>3, <1>4, <1>5, <1>7
  <2>2. ~(p >= q + 1)
    BY <1>1, <1>2, <1>4, <1>6, <1>7
  <2> QED
    BY <1>1, <1>2, <2>1, <2>2
<1> QED
  BY <1>1, <1>2, <1>4, <1>7, <1>8

LEMMA DryInit == PipelineInit => Dry
  BY GopAssumption DEF PipelineInit, Dry

(* The steps that leave the gate's numbers alone.                          *)
LEMMA QuietDry ==
    ASSUME Dry, UNCHANGED <<n, au, waiting, captured>>,
           \/ place' = place
           \/ place' \in {"record", "send", "exit", "stopped"}
           \/ place' \in {"drain", "drainGive"} /\ place \in {"open", "drain", "drainGive"}
           \/ place' = "check" /\ place = "drain"
           \/ place' = "capture" /\ place = "check"
           \/ place' = "encode" /\ place = "capture"
           \/ place' = "gate" /\ place = "release" /\ au # NoPicture
    PROVE  Dry'
  BY DEF Dry

LEMMA EncodeDry == ASSUME Inv, Dry, Encode \/ EncodeFails PROVE Dry'
<1>1. /\ place = "encode" /\ place' = "release" /\ UNCHANGED <<waiting, captured>>
      /\ n \in Nat /\ n' \in {n, n + 1} /\ (au' # NoPicture => n' = n + 1)
  BY DEF Encode, EncodeFails, Goto, gate, counters, Inv, PipelineTypeOK
<1>2. n' > 0
  <2>1. n > 0
    BY DEF Dry
  <2> QED
    BY <1>1, <2>1
<1>3. ASSUME au' # NoPicture PROVE n' > 1 /\ n' - 2 = n - 1
  <2>1. n > 0
    BY DEF Dry
  <2>2. n' = n + 1
    BY <1>1, <1>3
  <2> QED
    BY <1>1, <2>1, <2>2
<1>4. waiting => captured < Gop /\ (captured > 0 => captured <= (n - 1) % Gop)
  BY <1>1 DEF Dry
<1>5. au' # NoPicture => (n' - 2) % Gop = (n - 1) % Gop
  BY <1>3
<1> QED
  BY <1>1, <1>2, <1>3, <1>4, <1>5 DEF Dry

(* The gate keeps waiting only for a picture that is no IDR.               *)
LEMMA JudgeDry == ASSUME Inv, StreamInv, Dry, Judge PROVE Dry'
<1>1. /\ place = "gate" /\ n' = n /\ captured' = captured + 1
      /\ waiting' => waiting /\ ~IsIdr(au) /\ place' = "check"
  BY DEF Judge, Accept, Discard, Count
<1>2. n \in Nat /\ captured \in Nat /\ n > 0
  BY DEF Inv, PipelineTypeOK, Dry
<1>3. ASSUME waiting'
      PROVE  captured + 1 <= (n - 1) % Gop /\ (n - 1) % Gop < Gop
  <2>1. waiting /\ n > 1 /\ (captured > 0 => captured <= (n - 2) % Gop)
    BY <1>1, <1>3 DEF Dry
  <2>2. (n - 1) % Gop # 0
    BY <1>1, <1>3 DEF IsIdr, StreamInv, Numbered
  <2>3. n - 2 \in Nat /\ n - 1 = (n - 2) + 1 /\ n - 1 \in Nat
    BY <1>2, <2>1
  <2>4. (n - 1) % Gop = ((n - 2) % Gop) + 1
    BY <2>2, <2>3, NextRemainder, GopAssumption
  <2>5. (n - 1) % Gop \in Nat /\ (n - 1) % Gop < Gop /\ (n - 2) % Gop \in Nat
    BY <2>3, Division, GopAssumption
  <2> QED
    BY <1>2, <2>1, <2>4, <2>5
<1>4. waiting' => captured' < Gop
  <2>1. ASSUME waiting' PROVE captured + 1 < Gop
    <3>1. (n - 1) % Gop \in Nat
      <4>1. n - 1 \in Nat
        BY <1>2
      <4> QED
        BY <4>1, Division, GopAssumption
    <3> QED
      BY <1>2, <1>3, <2>1, <3>1, GopAssumption
  <2> QED
    BY <1>1, <2>1
<1> QED
  BY <1>1, <1>2, <1>3, <1>4 DEF Dry

LEMMA NextDry ==
    ASSUME Inv, StreamInv, Dry, [PipelineNext]_pipelineVars PROVE Dry'
<1> USE DEF counters, gate, Goto
<1>1. CASE Start
  BY <1>1, GopAssumption DEF Start, Dry
<1>2. CASE \/ Shoot \/ Open \/ DrainTake \/ DrainGive \/ DrainEnds \/ DrainFails
           \/ ShouldRun \/ UNCHANGED pipelineVars
  BY <1>2, QuietDry DEF Shoot, Open, DrainTake, DrainGive, DrainEnds, DrainFails,
                        ShouldRun, pipelineVars
<1>3. CASE Capture \/ CaptureFails \/ Record \/ RecordFails \/ SendFails \/ Finish
  BY <1>3, QuietDry DEF Capture, CaptureFails, Record, RecordFails, SendFails, Finish
<1>4. CASE Send
  <2>1. ~waiting
    BY <1>4 DEF Send, StreamInv, Gated
  <2> QED
    BY <1>4, <2>1 DEF Send, Dry
<1>5. CASE Release
  <2>1. CASE place' = "gate"
    BY <1>5, <2>1, QuietDry DEF Release
  <2>2. CASE place' = "exit"
    BY <1>5, <2>2 DEF Release, Dry
  <2> QED
    BY <1>5, <2>1, <2>2 DEF Release
<1> QED
  BY <1>1, <1>2, <1>3, <1>4, <1>5, EncodeDry, JudgeDry DEF PipelineNext

(* A session, wherever in a group it finds the encoder and whatever the    *)
(* encoder refused or lost, drops fewer pictures than a group has before   *)
(* its stream begins (media_thread's waiting_for_idr).                     *)
THEOREM IdrArrives == PipelineSpec => []IdrWithinGop
<1>1. Inv /\ StreamInv /\ Dry /\ [PipelineNext]_pipelineVars => StreamInv' /\ Dry'
  BY StreamStep, NextDry
<1>2. Dry => IdrWithinGop
  BY DEF Dry, IdrWithinGop
<1> QED
  BY <1>1, <1>2, StreamInvInit, DryInit, InvAlways, PTL DEF PipelineSpec
=============================================================================
