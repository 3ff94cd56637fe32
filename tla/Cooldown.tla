------------------------------ MODULE Cooldown ------------------------------
(***************************************************************************)
(* The cooldown of a url (pipeline/cooldown.ts): what is left of it, and   *)
(* the level of the backoff, which outlives it. An entry that is over and  *)
(* a row that is not there are the same: nothing left, level zero.         *)
(***************************************************************************)
EXTENDS Naturals

CONSTANTS
  MaxEscalation,  \* levels of doubling
  Cap             \* no cooldown is longer

ASSUME EscalationAssumption == MaxEscalation \in Nat
ASSUME CapAssumption == Cap \in Nat \ {0}

Entry == [left: 0..Cap, level: 0..MaxEscalation]

NoEntry == [left |-> 0, level |-> 0]

Cooled(entry) == entry.left > 0

Lesser(m, n) == IF m < n THEN m ELSE n

\* A class without a duration of its own leaves the entry alone.
Hit(entry, duration) ==
  LET level == Lesser(entry.level, MaxEscalation) IN
  IF duration = 0 THEN entry
  ELSE [left |-> Lesser(duration * 2^level, Cap), level |-> Lesser(level + 1, MaxEscalation)]

Cooler(entry) == IF Cooled(entry) THEN [entry EXCEPT !.left = @ - 1] ELSE entry

=============================================================================
