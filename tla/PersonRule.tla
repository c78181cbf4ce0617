----------------------------- MODULE PersonRule -----------------------------
(***************************************************************************)
(* What the person event state machine promises, in terms of the raw       *)
(* samples alone: a person is present from the sample that makes Required  *)
(* of the last Window samples hits until the sample that makes the last    *)
(* LeaveCount samples misses.  There is no ring buffer, no counter and no  *)
(* forgetting here: what was sampled before the last event still counts.   *)
(***************************************************************************)
EXTENDS Integers, FiniteSets

CONSTANTS Window, Required, LeaveCount

VARIABLES
    recent,     \* recent[k]: was the k-th newest sample a hit
    present,    \* between an ENTER and the next LEAVE
    event       \* the event of the newest sample

ruleVars == <<recent, present, event>>

(* As many samples as the rule looks at.                                   *)
Depth == IF Window >= LeaveCount THEN Window ELSE LeaveCount

NoSamples == [k \in 1 .. Depth |-> FALSE]
Newest(hit) == [k \in 1 .. Depth |-> IF k = 1 THEN hit ELSE recent[k - 1]]

EnoughHits(samples)   == Cardinality({k \in 1 .. Window : samples[k]}) >= Required
EnoughMisses(samples) == \A k \in 1 .. LeaveCount : ~samples[k]

RuleInit == recent = NoSamples /\ present = FALSE /\ event = "NONE"

RuleSample(hit) ==
    /\ recent' = Newest(hit)
    /\ \/ /\ ~present /\ EnoughHits(recent')
          /\ present' = TRUE /\ event' = "ENTER"
       \/ /\ ~present /\ ~EnoughHits(recent')
          /\ present' = FALSE /\ event' = "NONE"
       \/ /\ present /\ EnoughMisses(recent')
          /\ present' = FALSE /\ event' = "LEAVE"
       \/ /\ present /\ ~EnoughMisses(recent')
          /\ present' = TRUE /\ event' = "PRESENT"

RuleReset == recent' = NoSamples /\ present' = FALSE /\ event' = "NONE"

RuleNext == (\E hit \in BOOLEAN : RuleSample(hit)) \/ RuleReset

RuleSpec == RuleInit /\ [][RuleNext]_ruleVars
=============================================================================
