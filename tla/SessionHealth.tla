--------------------------- MODULE SessionHealth ---------------------------
(***************************************************************************)
(* The ladder of a session on the board (pipeline/session-health.ts).      *)
(* Times are what is left of them, so that they shrink as time passes.     *)
(* `broken' is left as soon as it is entered, and never seen.              *)
(***************************************************************************)
EXTENDS Integers

CONSTANTS
  BrokenThreshold,  \* failures in a row that quarantine a session
  ResumeAfter       \* ticks until a quarantine lifts itself; 0: never

ASSUME ThresholdAssumption == BrokenThreshold \in Nat \ {0}
ASSUME ResumeAssumption == ResumeAfter \in Nat

Never == -1

Slot == [state: {"fresh", "suspect", "quarantined"},
         fails: 0..BrokenThreshold,
         resume: {Never} \cup 0..ResumeAfter]

FreshSlot == [state |-> "fresh", fails |-> 0, resume |-> Never]

Quarantined(slot) == slot.state = "quarantined"

\* Failures are counted up to the threshold, which is all that is asked of them.
Failed(slot) ==
  LET n == IF slot.fails < BrokenThreshold THEN slot.fails + 1 ELSE slot.fails IN
  IF Quarantined(slot) THEN [slot EXCEPT !.fails = n]
  ELSE IF n >= BrokenThreshold
    THEN [state |-> "quarantined", fails |-> n,
          resume |-> IF ResumeAfter > 0 THEN ResumeAfter ELSE Never]
    ELSE [slot EXCEPT !.fails = n, !.state = "suspect"]

\* A success heals whatever the state. (The time of a past quarantine stays in the slot, where only the
\* next quarantine, which sets it anew, would be asked for it.)
Recorded(slot, ok) == IF ok THEN FreshSlot ELSE Failed(slot)

\* Bug: a quarantine that has an end is over at once.
LookedEarly(slot) == IF Quarantined(slot) /\ slot.resume # Never THEN FreshSlot ELSE slot

\* Whoever looks at a slot lifts a quarantine that is over.
Looked(slot) == IF Quarantined(slot) /\ slot.resume = 0 THEN FreshSlot ELSE slot

\* The transition that is announced on the bus and arms disarmed jobs.
Freshens(old, new) == old.state # "fresh" /\ new.state = "fresh"

Sooner(slot) == IF slot.resume > 0 THEN [slot EXCEPT !.resume = @ - 1] ELSE slot

=============================================================================
