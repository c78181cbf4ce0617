----------------------------- MODULE PersonEvent ----------------------------
(***************************************************************************)
(* The person event tracker (event/person_event.c): N-of-M confirmation of *)
(* an entry over a ring buffer with a running number of hits, consecutive  *)
(* misses for the exit, and event ids.                                     *)
(***************************************************************************)
EXTENDS Integers, FiniteSets

CONSTANTS
    Window,       \* config.enter_window
    Required,     \* config.enter_required
    LeaveCount,   \* config.leave_count
    IdModulus     \* event_id is a uint64_t: 2^64

(* config_is_valid; person_event_init refuses every other configuration.   *)
ASSUME ConfigIsValid ==
    /\ Window \in Nat \ {0}
    /\ Required \in 1 .. Window
    /\ LeaveCount \in Nat \ {0}
ASSUME IdModulusAssumption == IdModulus \in Nat /\ IdModulus > 2

VARIABLES
    history,      \* enter_history
    pos,          \* history_pos
    size,         \* history_count
    hits,         \* history_hits
    active,
    misses,       \* consecutive_misses
    eventId,      \* event_id
    event,        \* result->event of the last update
    state,        \* result->state of the last update
    recent        \* history variable: the samples themselves, newest first

entry       == <<history, pos, size, hits>>
tracker     == <<entry, active, misses, eventId>>
trackerVars == <<tracker, event, state, recent>>

Events == {"NONE", "ENTER", "PRESENT", "LEAVE"}
States == {"IDLE", "CANDIDATE", "PRESENT", "EXIT_PENDING"}

Positions == 0 .. Window - 1
Empty     == [i \in Positions |-> 0]
Value(hit) == IF hit THEN 1 ELSE 0

Rule == INSTANCE PersonRule WITH present <- active

CurrentState ==
    CASE active /\ misses > 0 -> "EXIT_PENDING"
      [] active /\ misses = 0 -> "PRESENT"
      [] ~active /\ hits > 0  -> "CANDIDATE"
      [] ~active /\ hits = 0  -> "IDLE"

TrackerInit ==
    /\ history = Empty /\ pos = 0 /\ size = 0 /\ hits = 0
    /\ active = FALSE /\ misses = 0 /\ eventId = 0
    /\ event = "NONE" /\ state = "IDLE"
    /\ recent = Rule!NoSamples

-----------------------------------------------------------------------------
(* Mutants: what the named definition below would be with a plausible bug. *)
(* No action of the specification uses them.                               *)

(* Confirm: a hit does not end a series of misses.                         *)
ConfirmKeepsMisses(hit) ==
    /\ active /\ hit
    /\ event' = "PRESENT" /\ UNCHANGED <<tracker, state>>

-----------------------------------------------------------------------------
ClearEntryHistory == history' = Empty /\ pos' = 0 /\ size' = 0 /\ hits' = 0

(* The running number of hits once a sample is in the ring: the oldest one *)
(* leaves it only when the ring is full.                                   *)
HitsWith(hit) ==
    hits + Value(hit) - (IF size < Window THEN 0 ELSE history[pos])

AddEntrySample(hit) ==
    /\ history' = [history EXCEPT ![pos] = Value(hit)]
    /\ pos' = IF pos + 1 >= Window THEN 0 ELSE pos + 1
    /\ size' = IF size < Window THEN size + 1 ELSE size
    /\ hits' = HitsWith(hit)

NextId == IF (eventId + 1) % IdModulus = 0 THEN 1 ELSE (eventId + 1) % IdModulus

FillResult(type) == event' = type /\ state' = CurrentState'

(* person_event_update, one action per outcome.                            *)
Gather(hit) ==
    /\ ~active /\ HitsWith(hit) < Required
    /\ AddEntrySample(hit)
    /\ UNCHANGED <<active, misses, eventId>>
    /\ FillResult("NONE")

Enter(hit) ==
    /\ ~active /\ HitsWith(hit) >= Required
    /\ active' = TRUE /\ misses' = 0 /\ eventId' = NextId
    /\ ClearEntryHistory
    /\ FillResult("ENTER")

Confirm(hit) ==
    /\ active /\ hit
    /\ misses' = 0
    /\ UNCHANGED <<entry, active, eventId>>
    /\ FillResult("PRESENT")

Miss(hit) ==
    /\ active /\ ~hit /\ misses + 1 < LeaveCount
    /\ misses' = misses + 1
    /\ UNCHANGED <<entry, active, eventId>>
    /\ FillResult("PRESENT")

Leave(hit) ==
    /\ active /\ ~hit /\ misses + 1 >= LeaveCount
    /\ active' = FALSE /\ misses' = 0
    /\ ClearEntryHistory
    /\ UNCHANGED eventId
    /\ FillResult("LEAVE")

Update(hit) ==
    /\ Gather(hit) \/ Enter(hit) \/ Confirm(hit) \/ Miss(hit) \/ Leave(hit)
    /\ recent' = Rule!Newest(hit)

(* person_event_reset; the configuration survives it.                      *)
Reset ==
    /\ ClearEntryHistory
    /\ active' = FALSE /\ misses' = 0 /\ eventId' = 0
    /\ event' = "NONE" /\ state' = "IDLE"
    /\ recent' = Rule!NoSamples

TrackerNext == (\E hit \in BOOLEAN : Update(hit)) \/ Reset

TrackerSpec == TrackerInit /\ [][TrackerNext]_trackerVars

-----------------------------------------------------------------------------
(* Type correctness; no unsigned counter of the tracker ever underflows.   *)
TrackerTypeOK ==
    /\ history \in [Positions -> {0, 1}] /\ pos \in Positions
    /\ size \in 0 .. Window /\ hits \in 0 .. Window
    /\ active \in BOOLEAN /\ misses \in 0 .. LeaveCount
    /\ eventId \in 0 .. IdModulus - 1
    /\ event \in Events /\ state \in States
    /\ recent \in [1 .. Rule!Depth -> BOOLEAN]

(* The running number of hits is the number of hits in the ring, through   *)
(* every overwrite and every clearing, and a ring that is not full yet is  *)
(* empty where it will be written.                                         *)
HitsCountRing ==
    /\ hits = Cardinality({i \in Positions : history[i] = 1})
    /\ size < Window => pos = size
    /\ \A i \in Positions : i >= size => history[i] = 0

(* No threshold is reached without its event: a candidate has fewer hits   *)
(* than an entry needs, an exit that is pending fewer misses.              *)
ThresholdsPending == hits < Required /\ misses < LeaveCount

(* "Within the last 3 AI detections at least 2 hits" and "5 consecutive    *)
(* misses" (README), whatever the ring forgot when it was cleared.         *)
ImplementsRule == Rule!RuleSpec

(* An event id names one stay: ENTER takes a new one, never 0, and it      *)
(* stays until the next ENTER, wrap around included.                       *)
IdNamesStay ==
    [][\/ eventId' = eventId /\ event' # "ENTER"
       \/ eventId' # eventId /\ event' = "ENTER" /\ eventId' # 0
       \/ eventId' = 0 /\ event' = "NONE" /\ ~active']_trackerVars
=============================================================================
