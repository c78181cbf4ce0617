---------------------------- MODULE PersonDetector --------------------------
(***************************************************************************)
(* The live person detector                                                *)
(* (tools/live_person_detect_test/live_person_detector.c): a small pool of *)
(* DMA slots between the program's thread, which copies camera frames into *)
(* them, and the RockIVA library, which keeps a slot until its release     *)
(* callback and reports what it saw in its result callback, each from a    *)
(* thread of its own.                                                      *)
(*                                                                         *)
(* RockIVA is external.  What the code takes for granted of it: it calls   *)
(* back about frames that were pushed, result callbacks one at a time, and *)
(* no callback runs once the call that releases it has returned.  Nothing  *)
(* is taken for granted about when, in which order or whether it does.     *)
(*                                                                         *)
(* The events are those of PersonRule, which the tracker in PersonEvent    *)
(* implements.  Every section under detector->mutex is one step: none of   *)
(* them calls the library or blocks, but for the timed wait.               *)
(***************************************************************************)
EXTENDS PersonRule

CONSTANTS
    SlotCount,    \* config->buffer_count
    IdModulus,    \* frame ids are uint32_t: 2^32
    MaxSubmits    \* bound: calls of live_person_detector_submit

ASSUME RuleAssumption ==
    /\ Window \in Nat \ {0} /\ Required \in 1 .. Window
    /\ LeaveCount \in Nat \ {0}
ASSUME PoolAssumption ==
    /\ SlotCount \in Nat \ {0}
    /\ IdModulus \in Nat /\ IdModulus > 2
    /\ MaxSubmits \in Nat

VARIABLES
    caller,         \* where the program's thread is
    owned,          \* what create made and cleanup has not yet released
    allocated,      \* slots whose image memory is allocated
    slots,          \* the frame_id of each slot, NoFrame when not in_use
    slot,           \* the slot that submit works on
    nextId,         \* next_frame_id
    shuttingDown,   \* shutting_down
    stats,
    submits,        \* how often submit was called
    held,           \* library: slots of pushed frames it has not released
    pending,        \* library: ids of pushed frames it has not reported
    worker,         \* where the result callback is
    seen            \* did the result it handles contain a person

pool    == <<slots, slot, nextId, shuttingDown>>
library == <<held, pending>>
report  == <<worker, seen, recent, present, event>>
vars    == <<caller, owned, allocated, pool, stats, submits, library, report>>

Slots   == 1 .. SlotCount
NoFrame == 0
Ids     == 1 .. IdModulus - 1
Counters == {"submitted", "busy", "results", "positive", "enter", "leave",
             "released", "failed"}
Resources == {"object", "sync", "iva", "detect"}

Busy == {s \in Slots : slots[s] # NoFrame}

(* Adds n to some counters of the statistics.                              *)
Plus(names, n) == [c \in Counters |-> IF c \in names THEN stats[c] + n ELSE stats[c]]

Init ==
    /\ caller = "none" /\ owned = {} /\ allocated = {}
    /\ slots = [s \in Slots |-> NoFrame] /\ slot = 1 /\ nextId = 1
    /\ shuttingDown = FALSE
    /\ stats = [c \in Counters |-> 0] /\ submits = 0
    /\ held = {} /\ pending = {}
    /\ worker = "idle" /\ seen = FALSE
    /\ RuleInit

-----------------------------------------------------------------------------
(* live_person_detector_create.  A failure before sync_initialized frees   *)
(* the object alone, a later one goes through cleanup_detector.            *)
Creating(target) ==
    /\ caller' = target
    /\ UNCHANGED <<pool, stats, submits, library, report>>

CreateObject ==
    /\ caller = "none"
    /\ \/ owned' = {"object"} /\ Creating("sync")
       \/ owned' = {} /\ Creating("gone")
    /\ UNCHANGED allocated

CreateSync ==
    /\ caller = "sync"
    /\ \/ owned' = owned \cup {"sync"} /\ Creating("slots")
       \/ owned' = {} /\ Creating("gone")
    /\ UNCHANGED allocated

(* allocate_dma_slots, one slot after the other; the memory of an unusable *)
(* slot is allocated all the same.                                         *)
CreateSlot ==
    /\ caller = "slots"
    /\ \E s \in Slots \ allocated :
        /\ \A t \in Slots \ allocated : s <= t
        /\ \/ allocated' = allocated \cup {s} /\ Creating("slots")
           \/ allocated' = allocated \cup {s} /\ Creating("cleanup")
           \/ allocated' = allocated /\ Creating("cleanup")
    /\ UNCHANGED owned

(* ROCKIVA_Init, then ROCKIVA_SetFrameReleaseCallback.                     *)
CreateIva ==
    /\ caller = "slots" /\ allocated = Slots
    /\ \/ owned' = owned \cup {"iva"} /\ Creating("callback")
       \/ owned' = owned /\ Creating("cleanup")
    /\ UNCHANGED allocated

CreateCallback ==
    /\ caller = "callback"
    /\ Creating("detect") \/ Creating("cleanup")
    /\ UNCHANGED <<owned, allocated>>

CreateDetect ==
    /\ caller = "detect"
    /\ \/ owned' = owned \cup {"detect"} /\ Creating("idle")
       \/ owned' = owned /\ Creating("cleanup")
    /\ UNCHANGED allocated

Create == \/ CreateObject \/ CreateSync \/ CreateSlot
          \/ CreateIva \/ CreateCallback \/ CreateDetect

-----------------------------------------------------------------------------
(* Mutants: what the named definition below would be with a plausible bug. *)
(* No action of the specification uses them.                               *)

(* Reserve: the slots take turns, whether the library is done or not.      *)
ReserveNext ==
    /\ caller = "idle" /\ ~shuttingDown /\ submits < MaxSubmits
    /\ slot' = (slot % SlotCount) + 1
    /\ slots' = [slots EXCEPT ![slot'] = nextId]
    /\ nextId' = IF (nextId + 1) % IdModulus = 0 THEN 1 ELSE nextId + 1
    /\ stats' = Plus({"submitted"}, 1)
    /\ submits' = submits + 1 /\ caller' = "copy"
    /\ UNCHANGED <<owned, allocated, shuttingDown, library, report>>

(* Undo: a frame the library refused is still counted as submitted.        *)
UndoKeepsCount ==
    /\ caller = "undo"
    /\ slots' = [slots EXCEPT ![slot] = NoFrame]
    /\ stats' = Plus({"failed"}, 1)
    /\ caller' = "idle"
    /\ UNCHANGED <<owned, allocated, slot, nextId, shuttingDown, submits,
                   library, report>>

(* Timed: the wait for the slots has no deadline.                          *)
WaitForSlots ==
    /\ caller = "timed" /\ Busy = {}
    /\ caller' = IF shuttingDown THEN "cleanup" ELSE "idle"
    /\ UNCHANGED <<owned, allocated, pool, stats, submits, library, report>>

(* CleanupSlots: the memory goes before the library that reads it.         *)
CleanupSlotsEarly ==
    /\ caller = "cleanup" /\ "detect" \notin owned /\ allocated # {}
    /\ allocated' = {}
    /\ UNCHANGED <<caller, owned, pool, stats, submits, library, report>>

(* Count: an exit is counted as an entry.                                  *)
CountEnter ==
    /\ worker = "counting"
    /\ stats' = Plus({"enter"}, 1)
    /\ worker' = "idle"
    /\ UNCHANGED <<caller, owned, allocated, pool, submits, library, seen,
                   ruleVars>>

-----------------------------------------------------------------------------
(* live_person_detector_submit.  The first free slot is taken under the    *)
(* lock, filled and pushed without it, and given back under it if the      *)
(* library refuses the frame.  Bound: MaxSubmits.  Assumed of the library: *)
(* it is done with a frame before the ids come round to it again.          *)
Reserve ==
    /\ caller = "idle" /\ ~shuttingDown /\ submits < MaxSubmits
    /\ nextId \notin pending \cup {slots[s] : s \in Busy}
    /\ slot' \in Slots \ Busy /\ \A t \in Slots \ Busy : slot' <= t
    /\ slots' = [slots EXCEPT ![slot'] = nextId]
    /\ nextId' = IF (nextId + 1) % IdModulus = 0 THEN 1 ELSE nextId + 1
    /\ stats' = Plus({"submitted"}, 1)
    /\ submits' = submits + 1 /\ caller' = "copy"
    /\ UNCHANGED <<owned, allocated, shuttingDown, library, report>>

SkipBusy ==
    /\ caller = "idle" /\ ~shuttingDown /\ submits < MaxSubmits
    /\ Busy = Slots
    /\ stats' = Plus({"busy"}, 1)
    /\ submits' = submits + 1
    /\ UNCHANGED <<caller, owned, allocated, pool, library, report>>

(* The memcpy into the slot's memory; then ROCKIVA_PushFrame.              *)
Copy ==
    /\ caller = "copy" /\ caller' = "push"
    /\ UNCHANGED <<owned, allocated, pool, stats, submits, library, report>>

Push ==
    /\ caller = "push"
    /\ \/ /\ held' = held \cup {slot}
          /\ pending' = pending \cup {slots[slot]}
          /\ caller' = "idle"
       \/ UNCHANGED library /\ caller' = "undo"
    /\ UNCHANGED <<owned, allocated, pool, stats, submits, report>>

Undo ==
    /\ caller = "undo"
    /\ slots' = [slots EXCEPT ![slot] = NoFrame]
    /\ stats' = [Plus({"failed"}, 1) EXCEPT !["submitted"] = @ - 1]
    /\ caller' = "idle"
    /\ UNCHANGED <<owned, allocated, slot, nextId, shuttingDown, submits,
                   library, report>>

Submit == Reserve \/ SkipBusy \/ Copy \/ Push \/ Undo

-----------------------------------------------------------------------------
(* live_person_detector_wait_idle; live_person_detector_destroy announces  *)
(* itself, calls it and ignores its answer.                                *)
Wait(target) ==
    /\ caller' = target
    /\ UNCHANGED <<owned, allocated, slots, slot, nextId, stats, submits,
                   library, report>>

Waited == IF shuttingDown THEN "cleanup" ELSE "idle"

WaitIdle == caller = "idle" /\ Wait("finish") /\ UNCHANGED shuttingDown
Destroy  == caller = "idle" /\ Wait("finish") /\ shuttingDown' = TRUE

(* ROCKIVA_WaitFinish returns when every frame was reported, or fails.     *)
Finish ==
    /\ caller = "finish"
    /\ \/ pending = {} /\ worker = "idle" /\ Wait("timed")
       \/ Wait(Waited)
    /\ UNCHANGED shuttingDown

(* pthread_cond_timedwait until every slot is free or the deadline has     *)
(* come.                                                                   *)
Timed ==
    /\ caller = "timed"
    /\ Wait(Waited)
    /\ UNCHANGED shuttingDown

-----------------------------------------------------------------------------
(* cleanup_detector and free, in the order of the code.                    *)
Clean == UNCHANGED <<pool, stats, submits>>

(* ROCKIVA_DETECT_Release: no result callback runs after it.               *)
CleanupDetect ==
    /\ caller = "cleanup" /\ "detect" \in owned /\ worker = "idle"
    /\ owned' = owned \ {"detect"} /\ pending' = {}
    /\ UNCHANGED <<caller, allocated, held, report>> /\ Clean

(* ROCKIVA_Release: no callback runs after it, the slots are let go.       *)
CleanupIva ==
    /\ caller = "cleanup" /\ "detect" \notin owned /\ "iva" \in owned
    /\ owned' = owned \ {"iva"} /\ held' = {}
    /\ UNCHANGED <<caller, allocated, pending, report>> /\ Clean

CleanupSlots ==
    /\ caller = "cleanup" /\ owned \cap {"detect", "iva"} = {}
    /\ allocated # {} /\ allocated' = {}
    /\ UNCHANGED <<caller, owned, library, report>> /\ Clean

CleanupSync ==
    /\ caller = "cleanup" /\ owned \cap {"detect", "iva"} = {}
    /\ allocated = {} /\ "sync" \in owned
    /\ owned' = owned \ {"sync"}
    /\ UNCHANGED <<caller, allocated, library, report>> /\ Clean

Free ==
    /\ caller = "cleanup" /\ allocated = {} /\ owned = {"object"}
    /\ owned' = {} /\ caller' = "gone"
    /\ UNCHANGED <<allocated, library, report>> /\ Clean

Cleanup == CleanupDetect \/ CleanupIva \/ CleanupSlots \/ CleanupSync \/ Free

-----------------------------------------------------------------------------
(* detect_result_callback: the counters and the slot lookup under the      *)
(* lock, the tracker without it, the event's counter under it again.       *)
ResultFailed(id) ==
    /\ "detect" \in owned /\ worker = "idle" /\ id \in pending
    /\ pending' = pending \ {id}
    /\ stats' = Plus({"results", "failed"}, 1)
    /\ UNCHANGED <<caller, owned, allocated, pool, submits, held, report>>

Result(id, person) ==
    /\ "detect" \in owned /\ worker = "idle" /\ id \in pending
    /\ pending' = pending \ {id}
    /\ stats' = Plus({"results"} \cup (IF person THEN {"positive"} ELSE {}), 1)
    /\ worker' = "tracking" /\ seen' = person
    /\ UNCHANGED <<caller, owned, allocated, pool, submits, held, ruleVars>>

Track ==
    /\ worker = "tracking"
    /\ RuleSample(seen)
    /\ worker' = IF event' \in {"ENTER", "LEAVE"} THEN "counting" ELSE "idle"
    /\ UNCHANGED <<caller, owned, allocated, pool, stats, submits, library, seen>>

Count ==
    /\ worker = "counting"
    /\ stats' = Plus(IF event = "ENTER" THEN {"enter"} ELSE {"leave"}, 1)
    /\ worker' = "idle"
    /\ UNCHANGED <<caller, owned, allocated, pool, submits, library, seen,
                   ruleVars>>

(* frame_release_callback, for a batch of frames.  A frame is found by its *)
(* id, which its slot still has.                                           *)
Release(batch) ==
    LET found == {s \in Slots : \E t \in batch : slots[s] = slots[t]}
    IN  /\ "iva" \in owned /\ batch # {} /\ batch \subseteq held
        /\ held' = held \ batch
        /\ slots' = [s \in Slots |-> IF s \in found THEN NoFrame ELSE slots[s]]
        /\ stats' = Plus({"released"}, Cardinality(found))
        /\ UNCHANGED <<caller, owned, allocated, slot, nextId, shuttingDown,
                       submits, pending, report>>

Library ==
    \/ \E id \in pending : ResultFailed(id) \/ \E person \in BOOLEAN : Result(id, person)
    \/ \E batch \in SUBSET held : Release(batch)

-----------------------------------------------------------------------------
Program  == Create \/ Submit \/ WaitIdle \/ Destroy \/ Finish \/ Timed \/ Cleanup
Callback == Track \/ Count

(* The detector was destroyed, or never made.                              *)
Gone == caller = "gone" /\ UNCHANGED vars

Next == Program \/ Callback \/ Library \/ Gone

Spec == Init /\ [][Next]_vars

(* A call that was made goes on to its end, and so does a callback; the    *)
(* program may stop calling, and nothing is expected of the library.       *)
Fairness ==
    /\ WF_vars(Create) /\ WF_vars(Copy \/ Push \/ Undo)
    /\ WF_vars(Finish) /\ WF_vars(Timed) /\ WF_vars(Cleanup)
    /\ WF_vars(Callback)

FairSpec == Spec /\ Fairness

-----------------------------------------------------------------------------
(* Type correctness.                                                       *)
TypeOK ==
    /\ caller \in {"none", "sync", "slots", "callback", "detect", "idle",
                   "copy", "push", "undo", "finish", "timed", "cleanup", "gone"}
    /\ owned \subseteq Resources /\ allocated \subseteq Slots
    /\ slots \in [Slots -> Ids \cup {NoFrame}] /\ slot \in Slots
    /\ nextId \in Ids /\ shuttingDown \in BOOLEAN
    /\ stats \in [Counters -> Nat] /\ submits \in 0 .. MaxSubmits
    /\ held \subseteq Slots /\ pending \subseteq Ids
    /\ worker \in {"idle", "tracking", "counting"} /\ seen \in BOOLEAN
    /\ recent \in [1 .. Depth -> BOOLEAN] /\ present \in BOOLEAN
    /\ event \in {"NONE", "ENTER", "PRESENT", "LEAVE"}

(* Every submitted frame was released or still occupies a slot, push       *)
(* failures and batches of releases included: no slot is ever lost.        *)
FramesConserved == stats["submitted"] = stats["released"] + Cardinality(Busy)

(* A slot the library holds is marked in use, is not the one being filled, *)
(* and is found by an id that no other slot has.                           *)
SlotsExclusive ==
    /\ held \subseteq Busy
    /\ caller \in {"copy", "push", "undo"} => slot \in Busy \ held
    /\ \A s, t \in Busy : slots[s] = slots[t] => s = t

(* While the library can call back or read an image, the lock, the object  *)
(* and the memory are there; when the program is done, nothing is left.    *)
CallbacksInScope ==
    /\ worker # "idle" => "detect" \in owned
    /\ "detect" \in owned \/ held # {} => "iva" \in owned
    /\ "iva" \in owned => {"object", "sync"} \subseteq owned /\ allocated = Slots
    /\ caller = "gone" => owned = {} /\ allocated = {}

(* Entries and exits are counted in turn: their difference says whether a  *)
(* person is present, but for the event that is just being counted.        *)
EventsAlternate ==
    stats["enter"] - stats["leave"] =
        IF \/ present /\ worker # "counting"
           \/ ~present /\ worker = "counting" THEN 1 ELSE 0

(* A busy or silent library blocks neither the submission of a frame nor   *)
(* the destruction of the detector.                                        *)
CallsReturn ==
    /\ caller \in {"copy", "push", "undo", "finish", "timed"}
           ~> caller \in {"idle", "cleanup"}
    /\ shuttingDown ~> caller = "gone"
=============================================================================
