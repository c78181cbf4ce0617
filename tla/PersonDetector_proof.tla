------------------------ MODULE PersonDetector_proof ------------------------
(***************************************************************************)
(* The detector loses no slot, never shares one with the library, outlives *)
(* every callback and counts events in turn, for every number of slots,    *)
(* width of the frame ids and event rule.                                  *)
(***************************************************************************)
EXTENDS PersonDetector, FiniteSetTheorems, TLAPS

(* What create has made by the time it gets to each of its places, and     *)
(* what cleanup can still find.                                            *)
Progress ==
    /\ caller = "none"     => owned = {} /\ allocated = {}
    /\ caller = "sync"     => owned = {"object"} /\ allocated = {}
    /\ caller = "slots"    => owned = {"object", "sync"}
    /\ caller \in {"callback", "detect"} => owned = {"object", "sync", "iva"}
    /\ caller \in {"idle", "copy", "push", "undo", "finish", "timed"}
                           => owned = Resources

(* The event that waits to be counted is the tracker's last one.           *)
EventPending == worker = "counting" => event = IF present THEN "ENTER" ELSE "LEAVE"

Inv ==
    /\ TypeOK /\ Progress /\ CallbacksInScope
    /\ SlotsExclusive /\ FramesConserved
    /\ EventPending /\ EventsAlternate

LEMMA SlotsFinite ==
    /\ IsFiniteSet(Slots)
    /\ \A S \in SUBSET Slots : IsFiniteSet(S) /\ Cardinality(S) \in Nat
<1>1. IsFiniteSet(Slots)
  BY FS_Interval, PoolAssumption DEF Slots
<1>2. \A S \in SUBSET Slots : IsFiniteSet(S)
  BY <1>1, FS_Subset
<1> QED
  BY <1>1, <1>2, FS_CardinalityType

(* What Plus does to one counter, and to the types of all.                 *)
LEMMA PlusCounts ==
    ASSUME stats \in [Counters -> Nat], NEW names, NEW n \in Nat
    PROVE  /\ Plus(names, n) \in [Counters -> Nat]
           /\ \A c \in Counters : Plus(names, n)[c] =
                  IF c \in names THEN stats[c] + n ELSE stats[c]
  BY DEF Plus

LEMMA BusySlots == Busy \in SUBSET Slots
  BY DEF Busy

-----------------------------------------------------------------------------
LEMMA InvInit == Init => Inv
<1> SUFFICES ASSUME Init PROVE Inv
  OBVIOUS
<1>1. Busy = {}
  BY DEF Init, Busy
<1>2. TypeOK
  <2>1. 1 \in Slots /\ 1 \in Ids /\ NoFrame \notin Ids
    BY PoolAssumption DEF Slots, Ids, NoFrame
  <2>2. slots \in [Slots -> Ids \cup {NoFrame}] /\ stats \in [Counters -> Nat]
    BY DEF Init
  <2>3. recent \in [1 .. Depth -> BOOLEAN] /\ present \in BOOLEAN
    BY DEF Init, RuleInit, NoSamples
  <2>4. submits \in 0 .. MaxSubmits
    BY PoolAssumption DEF Init
  <2> QED
    BY <2>1, <2>2, <2>3, <2>4 DEF Init, RuleInit, TypeOK
<1>3. Progress /\ CallbacksInScope
  BY DEF Init, Progress, CallbacksInScope
<1>4. SlotsExclusive
  BY <1>1 DEF Init, SlotsExclusive
<1>5. FramesConserved
  BY <1>1, FS_EmptySet DEF Init, FramesConserved, Counters
<1>6. EventPending /\ EventsAlternate
  BY DEF Init, RuleInit, EventPending, EventsAlternate, Counters
<1> QED
  BY <1>2, <1>3, <1>4, <1>5, <1>6 DEF Inv

(* Steps that leave the pool, the counters and the report alone keep the   *)
(* invariants on them, if they add nothing to what the library holds.      *)
LEMMA QuietStep ==
    ASSUME Inv, held' \subseteq held, caller' \notin {"copy", "push", "undo"},
           UNCHANGED <<slots, slot, nextId, stats, worker, seen, ruleVars>>
    PROVE  /\ SlotsExclusive' /\ FramesConserved'
           /\ EventPending' /\ EventsAlternate'
<1>1. Busy' = Busy
  BY DEF Busy
<1>2. SlotsExclusive'
  BY <1>1 DEF Inv, SlotsExclusive
<1>3. FramesConserved'
  BY <1>1 DEF Inv, FramesConserved
<1>4. EventPending' /\ EventsAlternate'
  BY DEF Inv, EventPending, EventsAlternate, ruleVars
<1> QED
  BY <1>2, <1>3, <1>4

LEMMA CreateInv == ASSUME Inv, Create PROVE Inv'
<1>1. /\ UNCHANGED <<pool, stats, submits, library, report>>
      /\ caller' \in {"sync", "slots", "callback", "detect", "idle", "cleanup", "gone"}
  BY DEF Create, CreateObject, CreateSync, CreateSlot, CreateIva, CreateCallback,
         CreateDetect, Creating
<1>2. SlotsExclusive' /\ FramesConserved' /\ EventPending' /\ EventsAlternate'
  BY <1>1, QuietStep DEF pool, library, report, ruleVars
<1>3. owned' \subseteq Resources /\ allocated' \subseteq Slots
  BY DEF Create, CreateObject, CreateSync, CreateSlot, CreateIva, CreateCallback,
         CreateDetect, Creating, Inv, TypeOK, Resources
<1>4. TypeOK'
  BY <1>1, <1>3 DEF Inv, TypeOK, pool, library, report, ruleVars
<1>5. Progress' /\ CallbacksInScope'
  <2>1. CASE CreateObject
    BY <2>1, <1>1 DEF CreateObject, Creating, Inv, Progress, CallbacksInScope,
                      library, report
  <2>2. CASE CreateSync
    BY <2>2, <1>1 DEF CreateSync, Creating, Inv, Progress, CallbacksInScope,
                      library, report
  <2>3. CASE CreateSlot
    BY <2>3, <1>1 DEF CreateSlot, Creating, Inv, Progress, CallbacksInScope,
                      library, report
  <2>4. CASE CreateIva
    BY <2>4, <1>1 DEF CreateIva, Creating, Inv, Progress, CallbacksInScope,
                      library, report
  <2>5. CASE CreateCallback
    BY <2>5, <1>1 DEF CreateCallback, Creating, Inv, Progress, CallbacksInScope,
                      library, report
  <2>6. CASE CreateDetect
    BY <2>6, <1>1 DEF CreateDetect, Creating, Inv, Progress, CallbacksInScope,
                      library, report, Resources
  <2> QED
    BY <2>1, <2>2, <2>3, <2>4, <2>5, <2>6 DEF Create
<1> QED
  BY <1>2, <1>4, <1>5 DEF Inv
-----------------------------------------------------------------------------
LEMMA ReserveInv == ASSUME Inv, Reserve PROVE Inv'
<1>1. /\ slot' \in Slots \ Busy /\ nextId \in Ids /\ nextId # NoFrame
      /\ slots' = [slots EXCEPT ![slot'] = nextId]
      /\ slots \in [Slots -> Ids \cup {NoFrame}]
  BY DEF Reserve, Inv, TypeOK, Ids, NoFrame
<1>2. Busy' = Busy \cup {slot'}
  BY <1>1 DEF Busy
<1>3. /\ stats' \in [Counters -> Nat]
      /\ stats'["submitted"] = stats["submitted"] + 1
      /\ \A c \in Counters \ {"submitted"} : stats'[c] = stats[c]
  <2>1. stats \in [Counters -> Nat] /\ 1 \in Nat /\ "submitted" \in Counters
    BY DEF Inv, TypeOK, Counters
  <2>2. stats' = Plus({"submitted"}, 1)
    BY DEF Reserve
  <2> QED
    BY <2>1, <2>2, PlusCounts
<1>4. TypeOK'
  <2>1. nextId' \in Ids
    BY <1>1, PoolAssumption DEF Reserve, Ids
  <2>2. submits' \in 0 .. MaxSubmits
    BY PoolAssumption DEF Reserve, Inv, TypeOK
  <2> QED
    BY <1>1, <1>3, <2>1, <2>2
    DEF Reserve, Inv, TypeOK, library, report, ruleVars
<1>5. SlotsExclusive'
  <2>1. held' \subseteq Busy' /\ slot' \in Busy' \ held'
    BY <1>1, <1>2 DEF Reserve, library, Inv, SlotsExclusive
  <2>2. ASSUME NEW s \in Busy', NEW t \in Busy', slots'[s] = slots'[t] PROVE s = t
    <3>1. \A u \in Busy : slots[u] # nextId
      BY DEF Reserve
    <3> QED
      BY <1>1, <1>2, <2>2, <3>1, BusySlots DEF Inv, SlotsExclusive
  <2> QED
    BY <2>1, <2>2 DEF SlotsExclusive
<1>6. FramesConserved'
  <2>1. Cardinality(Busy') = Cardinality(Busy) + 1
    BY <1>1, <1>2, BusySlots, SlotsFinite, FS_AddElement
  <2>2. /\ stats["submitted"] = stats["released"] + Cardinality(Busy)
        /\ stats["released"] \in Nat /\ Cardinality(Busy) \in Nat
    BY BusySlots, SlotsFinite DEF Inv, FramesConserved, TypeOK, Counters
  <2>3. stats'["released"] = stats["released"]
    BY <1>3 DEF Counters
  <2> QED
    BY <1>3, <2>1, <2>2, <2>3 DEF FramesConserved
<1>7. Progress' /\ CallbacksInScope' /\ EventPending'
  BY DEF Reserve, Inv, Progress, CallbacksInScope, EventPending, library, report,
         ruleVars
<1>8. EventsAlternate'
  BY <1>3 DEF Reserve, Inv, EventsAlternate, report, ruleVars, Counters
<1> QED
  BY <1>4, <1>5, <1>6, <1>7, <1>8 DEF Inv

LEMMA UndoInv == ASSUME Inv, Undo PROVE Inv'
<1>1. /\ slot \in Busy \ held /\ slot \in Slots
      /\ slots' = [slots EXCEPT ![slot] = NoFrame]
      /\ slots \in [Slots -> Ids \cup {NoFrame}]
  BY DEF Undo, Inv, TypeOK, SlotsExclusive
<1>2. Busy' = Busy \ {slot}
  BY <1>1 DEF Busy
<1>3. Cardinality(Busy') = Cardinality(Busy) - 1 /\ Cardinality(Busy') \in Nat
  BY <1>1, <1>2, BusySlots, SlotsFinite, FS_RemoveElement
<1>4. /\ stats["submitted"] = stats["released"] + Cardinality(Busy)
      /\ stats["released"] \in Nat /\ Cardinality(Busy) \in Nat
  BY BusySlots, SlotsFinite DEF Inv, FramesConserved, TypeOK, Counters
<1>5. /\ stats' \in [Counters -> Nat]
      /\ stats'["submitted"] = stats["submitted"] - 1
      /\ \A c \in Counters \ {"submitted", "failed"} : stats'[c] = stats[c]
  <2> DEFINE new == Plus({"failed"}, 1)
  <2>1. stats \in [Counters -> Nat] /\ 1 \in Nat
        /\ "submitted" \in Counters /\ "failed" \in Counters
    BY DEF Inv, TypeOK, Counters
  <2>2. /\ new \in [Counters -> Nat]
        /\ \A c \in Counters \ {"failed"} : new[c] = stats[c]
    BY <2>1, PlusCounts
  <2>3. stats' = [new EXCEPT !["submitted"] = @ - 1]
    BY DEF Undo
  <2>4. stats["submitted"] - 1 \in Nat
    BY <1>3, <1>4
  <2>5. new["submitted"] = stats["submitted"]
    BY <2>1, <2>2
  <2> HIDE DEF new
  <2> QED
    BY <2>1, <2>2, <2>3, <2>4, <2>5
<1>6. TypeOK'
  BY <1>1, <1>5 DEF Undo, Inv, TypeOK, library, report, ruleVars
<1>7. SlotsExclusive'
  BY <1>1, <1>2, BusySlots DEF Undo, library, Inv, SlotsExclusive
<1>8. FramesConserved'
  <2>1. stats'["released"] = stats["released"]
    BY <1>5 DEF Counters
  <2> QED
    BY <1>3, <1>4, <1>5, <2>1 DEF FramesConserved
<1>9. Progress' /\ CallbacksInScope' /\ EventPending'
  BY DEF Undo, Inv, Progress, CallbacksInScope, EventPending, library, report,
         ruleVars
<1>10. EventsAlternate'
  BY <1>5 DEF Undo, Inv, EventsAlternate, report, ruleVars, Counters
<1> QED
  BY <1>6, <1>7, <1>8, <1>9, <1>10 DEF Inv

LEMMA SubmitInv == ASSUME Inv, Submit PROVE Inv'
<1>1. CASE SkipBusy
  <2>1. stats' \in [Counters -> Nat]
        /\ \A c \in Counters \ {"busy"} : stats'[c] = stats[c]
    <3>1. stats \in [Counters -> Nat] /\ 1 \in Nat
      BY DEF Inv, TypeOK
    <3>2. stats' = Plus({"busy"}, 1)
      BY <1>1 DEF SkipBusy
    <3> QED
      BY <3>1, <3>2, PlusCounts
  <2>2. TypeOK'
    BY <1>1, <2>1, PoolAssumption
    DEF SkipBusy, Inv, TypeOK, pool, library, report, ruleVars
  <2>3. Busy' = Busy
    BY <1>1 DEF SkipBusy, pool, Busy
  <2>4. SlotsExclusive' /\ Progress' /\ CallbacksInScope' /\ EventPending'
    BY <1>1, <2>3 DEF SkipBusy, Inv, SlotsExclusive, Progress, CallbacksInScope,
                      EventPending, pool, library, report, ruleVars
  <2>5. FramesConserved' /\ EventsAlternate'
    BY <1>1, <2>1, <2>3 DEF SkipBusy, Inv, FramesConserved, EventsAlternate,
                            report, ruleVars, Counters
  <2> QED
    BY <2>2, <2>4, <2>5 DEF Inv
<1>2. CASE Copy \/ Push
  <2>1. UNCHANGED <<owned, allocated, pool, stats, submits, report>>
    BY <1>2 DEF Copy, Push, library
  <2>2. /\ slot \in Busy \ held /\ slots[slot] \in Ids
        /\ caller' \in {"push", "idle", "undo"}
    BY <1>2 DEF Copy, Push, Inv, TypeOK, SlotsExclusive, Busy
  <2>3. \/ held' = held /\ pending' = pending
        \/ caller' = "idle" /\ held' = held \cup {slot} /\ pending' \subseteq Ids
    BY <1>2, <2>2 DEF Copy, Push, library, Inv, TypeOK
  <2>4. Busy' = Busy
    BY <2>1 DEF pool, Busy
  <2>5. TypeOK'
    BY <2>1, <2>2, <2>3, BusySlots DEF Inv, TypeOK, pool, report, ruleVars
  <2>6. SlotsExclusive'
    BY <1>2, <2>1, <2>2, <2>3, <2>4 DEF Copy, Push, Inv, SlotsExclusive, pool
  <2>7. FramesConserved'
    BY <2>1, <2>4 DEF Inv, FramesConserved
  <2>8. owned = Resources
    BY <1>2 DEF Copy, Push, Inv, Progress
  <2>9. Progress'
    BY <2>1, <2>2, <2>8 DEF Progress
  <2>10. CallbacksInScope'
    BY <2>1, <2>2, <2>8 DEF Inv, CallbacksInScope, report, Resources
  <2>11. EventPending' /\ EventsAlternate'
    BY <2>1 DEF Inv, EventPending, EventsAlternate, report, ruleVars
  <2> QED
    BY <2>5, <2>6, <2>7, <2>9, <2>10, <2>11 DEF Inv
<1> QED
  BY <1>1, <1>2, ReserveInv, UndoInv DEF Submit

LEMMA WaitInv == ASSUME Inv, WaitIdle \/ Destroy \/ Finish \/ Timed PROVE Inv'
<1>1. /\ UNCHANGED <<owned, allocated, slots, slot, nextId, stats, submits,
                     library, report>>
      /\ owned = Resources /\ shuttingDown' \in BOOLEAN
      /\ caller' \in {"idle", "finish", "timed", "cleanup"}
  BY DEF WaitIdle, Destroy, Finish, Timed, Wait, Waited, Inv, Progress, TypeOK
<1>2. SlotsExclusive' /\ FramesConserved' /\ EventPending' /\ EventsAlternate'
  BY <1>1, QuietStep DEF library, report, ruleVars
<1>3. TypeOK'
  BY <1>1 DEF Inv, TypeOK, library, report, ruleVars
<1>4. Progress' /\ CallbacksInScope'
  BY <1>1 DEF Inv, Progress, CallbacksInScope, library, report
<1> QED
  BY <1>2, <1>3, <1>4 DEF Inv

LEMMA CleanupInv == ASSUME Inv, Cleanup PROVE Inv'
<1>1. /\ UNCHANGED <<pool, stats, submits, report>>
      /\ caller' \in {"cleanup", "gone"} /\ held' \subseteq held
      /\ pending' \subseteq pending
      /\ owned' \subseteq owned /\ allocated' \subseteq allocated
  BY DEF Cleanup, CleanupDetect, CleanupIva, CleanupSlots, CleanupSync, Free,
         Clean, library
<1>2. SlotsExclusive' /\ FramesConserved' /\ EventPending' /\ EventsAlternate'
  BY <1>1, QuietStep DEF pool, report, ruleVars
<1>3. TypeOK'
  BY <1>1 DEF Inv, TypeOK, pool, report, ruleVars
<1>4. Progress'
  BY <1>1 DEF Progress
<1>5. CallbacksInScope'
  <2>1. CASE CleanupDetect
    BY <2>1 DEF CleanupDetect, Inv, CallbacksInScope, report
  <2>2. CASE CleanupIva
    BY <2>2 DEF CleanupIva, Inv, CallbacksInScope, report
  <2>3. CASE CleanupSlots
    BY <2>3 DEF CleanupSlots, Inv, CallbacksInScope, report, library
  <2>4. CASE CleanupSync
    BY <2>4 DEF CleanupSync, Inv, CallbacksInScope, report, library
  <2>5. CASE Free
    BY <2>5 DEF Free, Inv, CallbacksInScope, report, library
  <2> QED
    BY <2>1, <2>2, <2>3, <2>4, <2>5 DEF Cleanup
<1> QED
  BY <1>2, <1>3, <1>4, <1>5 DEF Inv
-----------------------------------------------------------------------------
LEMMA ResultInv ==
    ASSUME Inv, NEW id \in pending,
           ResultFailed(id) \/ \E person \in BOOLEAN : Result(id, person)
    PROVE  Inv'
<1>1. /\ UNCHANGED <<caller, owned, allocated, pool, submits, held, ruleVars>>
      /\ "detect" \in owned /\ worker = "idle" /\ pending' \subseteq pending
      /\ worker' \in {"idle", "tracking"} /\ seen' \in BOOLEAN
  <2>1. CASE ResultFailed(id)
    BY <2>1 DEF ResultFailed, report, ruleVars, Inv, TypeOK
  <2>2. ASSUME NEW person \in BOOLEAN, Result(id, person)
        PROVE  /\ UNCHANGED <<caller, owned, allocated, pool, submits, held, ruleVars>>
               /\ "detect" \in owned /\ worker = "idle" /\ pending' \subseteq pending
               /\ worker' \in {"idle", "tracking"} /\ seen' \in BOOLEAN
    BY <2>2 DEF Result
  <2> QED
    BY <2>1, <2>2
<1>2. /\ stats' \in [Counters -> Nat]
      /\ \A c \in Counters \ {"results", "failed", "positive"} : stats'[c] = stats[c]
  <2>1. stats \in [Counters -> Nat] /\ 1 \in Nat
    BY DEF Inv, TypeOK
  <2>2. PICK names \in SUBSET {"results", "failed", "positive"} : stats' = Plus(names, 1)
    <3>1. CASE ResultFailed(id)
      BY <3>1 DEF ResultFailed
    <3>2. ASSUME NEW person \in BOOLEAN, Result(id, person)
          PROVE  \E names \in SUBSET {"results", "failed", "positive"} :
                     stats' = Plus(names, 1)
      BY <3>2 DEF Result
    <3> QED
      BY <3>1, <3>2
  <2>3. /\ Plus(names, 1) \in [Counters -> Nat]
        /\ \A c \in Counters \ names : Plus(names, 1)[c] = stats[c]
    BY <2>1, PlusCounts
  <2> QED
    BY <2>2, <2>3
<1>3. Busy' = Busy
  BY <1>1 DEF pool, Busy
<1>4. TypeOK'
  BY <1>1, <1>2 DEF Inv, TypeOK, pool, ruleVars
<1>5. SlotsExclusive' /\ Progress' /\ CallbacksInScope' /\ EventPending'
  BY <1>1, <1>3 DEF Inv, SlotsExclusive, Progress, CallbacksInScope, EventPending,
                    pool
<1>6. FramesConserved' /\ EventsAlternate'
  BY <1>1, <1>2, <1>3 DEF Inv, FramesConserved, EventsAlternate, ruleVars, Counters
<1> QED
  BY <1>4, <1>5, <1>6 DEF Inv

LEMMA ReleaseInv ==
    ASSUME Inv, NEW batch \in SUBSET held, Release(batch)
    PROVE  Inv'
<1> DEFINE found == {s \in Slots : \E t \in batch : slots[s] = slots[t]}
<1>1. found = batch
  <2>1. batch \subseteq Busy /\ batch \subseteq Slots
    BY BusySlots DEF Inv, SlotsExclusive
  <2>2. ASSUME NEW s \in Slots, NEW t \in batch, slots[s] = slots[t] PROVE s \in batch
    <3>1. s \in Busy
      BY <2>1, <2>2 DEF Busy
    <3> QED
      BY <2>1, <2>2, <3>1 DEF Inv, SlotsExclusive
  <2> QED
    BY <2>1, <2>2
<1>2. /\ UNCHANGED <<caller, owned, allocated, slot, nextId, shuttingDown, submits,
                     pending, report>>
      /\ held' = held \ batch
      /\ slots' = [s \in Slots |-> IF s \in batch THEN NoFrame ELSE slots[s]]
      /\ stats' = Plus({"released"}, Cardinality(batch))
  <2>1. /\ UNCHANGED <<caller, owned, allocated, slot, nextId, shuttingDown, submits,
                       pending, report>>
        /\ held' = held \ batch
        /\ slots' = [s \in Slots |-> IF s \in found THEN NoFrame ELSE slots[s]]
        /\ stats' = Plus({"released"}, Cardinality(found))
    BY DEF Release
  <2> HIDE DEF found
  <2> QED
    BY <1>1, <2>1
<1>3. Busy' = Busy \ batch /\ batch \in SUBSET Busy
  <2>1. batch \in SUBSET Busy
    BY BusySlots DEF Inv, SlotsExclusive
  <2>2. Busy' = {s \in Slots : slots'[s] # NoFrame} /\ Busy = {s \in Slots : slots[s] # NoFrame}
    BY DEF Busy
  <2>3. \A s \in Slots : slots'[s] = IF s \in batch THEN NoFrame ELSE slots[s]
    BY <1>2
  <2> QED
    BY <2>1, <2>2, <2>3
<1>4. /\ Cardinality(Busy) = Cardinality(Busy') + Cardinality(batch)
      /\ Cardinality(batch) \in Nat /\ Cardinality(Busy') \in Nat
  <2>1. /\ Busy' \in SUBSET Slots /\ batch \in SUBSET Slots
        /\ Busy = Busy' \cup batch /\ Busy' \cap batch = {}
    BY <1>3, BusySlots
  <2>2. Cardinality(Busy) =
            Cardinality(Busy') + Cardinality(batch) - Cardinality(Busy' \cap batch)
    BY <2>1, SlotsFinite, FS_Union
  <2> QED
    BY <2>1, <2>2, SlotsFinite, FS_EmptySet
<1>5. /\ stats' \in [Counters -> Nat]
      /\ stats'["released"] = stats["released"] + Cardinality(batch)
      /\ \A c \in Counters \ {"released"} : stats'[c] = stats[c]
  <2>1. stats \in [Counters -> Nat] /\ "released" \in Counters
    BY DEF Inv, TypeOK, Counters
  <2> QED
    BY <1>2, <1>4, <2>1, PlusCounts
<1>6. TypeOK'
  BY <1>2, <1>5 DEF Inv, TypeOK, report, ruleVars
<1>7. SlotsExclusive'
  BY <1>2, <1>3, BusySlots DEF Inv, SlotsExclusive
<1>8. FramesConserved'
  <2>1. /\ stats["submitted"] = stats["released"] + Cardinality(Busy)
        /\ stats["released"] \in Nat
    BY DEF Inv, FramesConserved, TypeOK, Counters
  <2>2. stats'["submitted"] = stats["submitted"]
    BY <1>5 DEF Counters
  <2> QED
    BY <1>4, <1>5, <2>1, <2>2 DEF FramesConserved
<1>9. Progress' /\ CallbacksInScope' /\ EventPending'
  BY <1>2 DEF Inv, Progress, CallbacksInScope, EventPending, report, ruleVars
<1>10. EventsAlternate'
  BY <1>2, <1>5 DEF Inv, EventsAlternate, report, ruleVars, Counters
<1> QED
  BY <1>6, <1>7, <1>8, <1>9, <1>10 DEF Inv

LEMMA TrackInv == ASSUME Inv, Track PROVE Inv'
<1>1. /\ UNCHANGED <<caller, owned, allocated, pool, stats, submits, library, seen>>
      /\ worker = "tracking" /\ seen \in BOOLEAN
      /\ worker' = IF event' \in {"ENTER", "LEAVE"} THEN "counting" ELSE "idle"
  BY DEF Track, Inv, TypeOK
<1>2. recent' \in [1 .. Depth -> BOOLEAN]
  BY <1>1, RuleAssumption DEF Track, RuleSample, Newest, Depth, Inv, TypeOK
<1>3. \/ present' = present /\ event' \in {"NONE", "PRESENT"}
      \/ ~present /\ present' = TRUE /\ event' = "ENTER"
      \/ present /\ present' = FALSE /\ event' = "LEAVE"
  BY DEF Track, RuleSample, Inv, TypeOK
<1>4. Busy' = Busy
  BY <1>1 DEF pool, Busy
<1>5. TypeOK'
  BY <1>1, <1>2, <1>3 DEF Inv, TypeOK, pool, library
<1>6. SlotsExclusive' /\ FramesConserved'
  BY <1>1, <1>4 DEF Inv, SlotsExclusive, FramesConserved, pool, library
<1>7. Progress' /\ CallbacksInScope'
  BY <1>1 DEF Inv, Progress, CallbacksInScope, library
<1>8. EventPending' /\ EventsAlternate'
  BY <1>1, <1>3 DEF Inv, TypeOK, EventPending, EventsAlternate
<1> QED
  BY <1>5, <1>6, <1>7, <1>8 DEF Inv

LEMMA CountInv == ASSUME Inv, Count PROVE Inv'
<1> DEFINE names == IF event = "ENTER" THEN {"enter"} ELSE {"leave"}
<1>1. /\ UNCHANGED <<caller, owned, allocated, pool, submits, library, seen, ruleVars>>
      /\ worker = "counting" /\ worker' = "idle" /\ stats' = Plus(names, 1)
  BY DEF Count
<1>2. /\ stats' \in [Counters -> Nat]
      /\ \A c \in Counters : stats'[c] = IF c \in names THEN stats[c] + 1 ELSE stats[c]
  <2>1. stats \in [Counters -> Nat] /\ 1 \in Nat
    BY DEF Inv, TypeOK
  <2> QED
    BY <1>1, <2>1, PlusCounts
<1>3. Busy' = Busy
  BY <1>1 DEF pool, Busy
<1>4. TypeOK'
  BY <1>1, <1>2 DEF Inv, TypeOK, pool, library, ruleVars
<1>5. FramesConserved'
  BY <1>2, <1>3 DEF Inv, FramesConserved, Counters
<1>6. SlotsExclusive' /\ Progress' /\ CallbacksInScope' /\ EventPending'
  BY <1>1, <1>3 DEF Inv, SlotsExclusive, Progress, CallbacksInScope, EventPending,
                    pool, library
<1>7. EventsAlternate'
  <2>1. /\ stats["enter"] \in Nat /\ stats["leave"] \in Nat
        /\ "enter" \in Counters /\ "leave" \in Counters
    BY DEF Inv, TypeOK, Counters
  <2>2. CASE present
    BY <1>1, <1>2, <2>1, <2>2 DEF Inv, TypeOK, EventPending, EventsAlternate, ruleVars
  <2>3. CASE ~present
    BY <1>1, <1>2, <2>1, <2>3 DEF Inv, TypeOK, EventPending, EventsAlternate, ruleVars
  <2> QED
    BY <2>2, <2>3
<1> QED
  BY <1>4, <1>5, <1>6, <1>7 DEF Inv

LEMMA NextInv == ASSUME Inv, [Next]_vars PROVE Inv'
<1>1. CASE UNCHANGED vars
  <2>1. Busy' = Busy
    BY <1>1 DEF vars, pool, Busy
  <2>2. TypeOK'
    BY <1>1 DEF vars, pool, library, report, ruleVars, Inv, TypeOK
  <2>3. Progress' /\ CallbacksInScope' /\ EventPending' /\ EventsAlternate'
    BY <1>1 DEF vars, pool, library, report, ruleVars, Inv, Progress,
                CallbacksInScope, EventPending, EventsAlternate
  <2>4. SlotsExclusive' /\ FramesConserved'
    BY <1>1, <2>1 DEF vars, pool, library, Inv, SlotsExclusive, FramesConserved
  <2> QED
    BY <2>2, <2>3, <2>4 DEF Inv
<1>2. CASE Program
  BY <1>2, CreateInv, SubmitInv, WaitInv, CleanupInv DEF Program
<1>3. CASE Callback
  BY <1>3, TrackInv, CountInv DEF Callback
<1>4. CASE Library
  BY <1>4, ResultInv, ReleaseInv DEF Library
<1> QED
  BY <1>1, <1>2, <1>3, <1>4 DEF Next, Gone

(* Type correctness: no counter of the statistics ever goes below zero.    *)
THEOREM TypeCorrect == Spec => []TypeOK
<1>1. Inv => TypeOK
  BY DEF Inv
<1> QED
  BY <1>1, InvInit, NextInv, PTL DEF Spec

(* No slot is ever lost: submitted frames are released or in a slot.       *)
THEOREM NoSlotLost == Spec => []FramesConserved
<1>1. Inv => FramesConserved
  BY DEF Inv
<1> QED
  BY <1>1, InvInit, NextInv, PTL DEF Spec

(* The program never writes a slot that the library still holds, and two   *)
(* frames never answer to one id.                                          *)
THEOREM SlotsNeverShared == Spec => []SlotsExclusive
<1>1. Inv => SlotsExclusive
  BY DEF Inv
<1> QED
  BY <1>1, InvInit, NextInv, PTL DEF Spec

(* The detector outlives every callback and every frame the library reads. *)
THEOREM CallbacksStayInScope == Spec => []CallbacksInScope
<1>1. Inv => CallbacksInScope
  BY DEF Inv
<1> QED
  BY <1>1, InvInit, NextInv, PTL DEF Spec

(* Entries and exits are counted in turn, whatever the library reports.    *)
THEOREM EventsCountedInTurn == Spec => []EventsAlternate
<1>1. Inv => EventsAlternate
  BY DEF Inv
<1> QED
  BY <1>1, InvInit, NextInv, PTL DEF Spec
=============================================================================
