------------------------------ MODULE QqHealth ------------------------------
(***************************************************************************)
(* The health circuit of a QQ target, src/pipeline/qq-health.ts, as        *)
(* operators on its snapshot.  Absolute times are what is left of them:    *)
(* `shut' is openUntil - now, `probed' the age of lastProbeAt, which       *)
(* counts no further than to where the next probe is due.                  *)
(***************************************************************************)
EXTENDS Naturals

CONSTANTS
  BaseCooldown, MaxCooldown,  \* the ladder of the circuit
  PolicyCooldown,             \* qqSendCooldownMs of a class that cools
  ProbeInterval

ASSUME HealthAssumption ==
  /\ BaseCooldown \in Nat \ {0} /\ MaxCooldown \in Nat \ {0}
  /\ BaseCooldown <= MaxCooldown
  /\ PolicyCooldown \in Nat /\ ProbeInterval \in Nat \ {0}

Least(a, b) == IF a < b THEN a ELSE b
Greatest(a, b) == IF a > b THEN a ELSE b

\* Consecutive failures beyond this change nothing.
MaxFailures == 7

Snapshot == [state : {"ok", "down"}, shut : 0 .. Greatest(MaxCooldown, PolicyCooldown),
             failures : 0 .. MaxFailures, probed : 0 .. ProbeInterval]

Healthy == [state |-> "ok", shut |-> 0, failures |-> 0, probed |-> ProbeInterval]

Allowed(h) == h.state = "ok" \/ h.shut = 0

ProbeDue(h) == h.probed = ProbeInterval

Probing(h) == [h EXCEPT !.probed = 0]

Recovered(h) == [h EXCEPT !.state = "ok", !.shut = 0, !.failures = 0]

\* CIRCUIT_CLASSES and CIRCUIT_KINDS.
Opens(kind, class) ==
  \/ class \in {"muted", "risk_control", "rate_limit", "temporary"}
  \/ kind \in {"transport", "internal", "rejected"}

Escalated(failures) == Least(BaseCooldown * 2 ^ Least(failures - 1, 6), MaxCooldown)

\* recordFailure: a failure that does not open leaves the time as it is.
Failed(h, kind, class, cools) ==
  LET n == Least(h.failures + 1, MaxFailures)
      time == Greatest(IF cools THEN PolicyCooldown ELSE 0, Escalated(n))
  IN  IF Opens(kind, class)
      THEN [h EXCEPT !.state = "down", !.shut = time, !.failures = n]
      ELSE [h EXCEPT !.failures = n]

Later(h) == [h EXCEPT !.shut = IF @ > 0 THEN @ - 1 ELSE 0,
                      !.probed = Least(@ + 1, ProbeInterval)]

=============================================================================
