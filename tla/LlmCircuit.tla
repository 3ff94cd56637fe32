----------------------------- MODULE LlmCircuit -----------------------------
(***************************************************************************)
(* The processor client (src/components/llm-openai.ts): every text is      *)
(* driven through the primary provider with retries, then through the      *)
(* fallback; each provider has a circuit breaker in memory, written        *)
(* through to the service_state table on its transitions and read back     *)
(* when the process starts again.  Texts are in flight together.           *)
(***************************************************************************)
EXTENDS Integers

CONSTANTS
  Texts,          \* the calls of process
  Legs,           \* the providers: {"primary"}, or {"primary", "fallback"}
  Retries,        \* attempts after the first one
  Threshold,      \* circuit.failure_threshold
  Cooldown,       \* circuit.cooldown_seconds
  WritesSchedules,  \* the action is extract or plan, and a webhook is configured
  MaxTime, MaxRestarts,   \* bounds
  None

VARIABLES
  now,
  failures,     \* leg -> consecutiveFailures
  openUntil,    \* leg -> circuitOpenUntil; 0 is closed
  lastError,    \* leg -> whether an error is remembered
  stored,       \* leg -> the PersistedCircuit, or None
  text,         \* text -> [phase, leg, attempt]
  restarts

memory == <<failures, openUntil, lastError>>
vars == <<now, memory, stored, text, restarts>>

Idle == [phase |-> "idle", leg |-> "primary", attempt |-> 0]

Init ==
  /\ now = 0 /\ restarts = 0
  /\ failures = [l \in Legs |-> 0] /\ openUntil = [l \in Legs |-> 0]
  /\ lastError = [l \in Legs |-> FALSE] /\ stored = [l \in Legs |-> None]
  /\ text = [t \in Texts |-> Idle]

Becomes(t, phase) == text' = [text EXCEPT ![t] = [Idle EXCEPT !.phase = phase]]

(* processWithRetry begins on a leg: an open circuit refuses without a request. *)
Refused(l) == now < openUntil[l]

Asks(t, l) == text' = [text EXCEPT ![t] = [phase |-> "asking", leg |-> l, attempt |-> 0]]

(* The leg has thrown: the fallback is tried if there is one and it stands. *)
Falls(t, l) ==
  IF l = "primary" /\ "fallback" \in Legs /\ ~Refused("fallback")
  THEN Asks(t, "fallback")
  ELSE Becomes(t, "failed")

process(t) ==
  /\ text[t].phase = "idle"
  /\ IF Refused("primary") THEN Falls(t, "primary") ELSE Asks(t, "primary")
  /\ UNCHANGED <<now, memory, stored, restarts>>

(* Mutant: the memory is cleared before it is asked whether there is anything stored. *)
SucceedsAfterReset(t) ==
  LET l == text[t].leg
  IN  /\ text[t].phase = "asking"
      /\ failures' = [failures EXCEPT ![l] = 0]
      /\ lastError' = [lastError EXCEPT ![l] = FALSE]
      /\ stored' = IF failures'[l] > 0 \/ lastError'[l]
                   THEN [stored EXCEPT ![l] = None] ELSE stored
      /\ Becomes(t, IF WritesSchedules THEN "writing" ELSE "done")
      /\ UNCHANGED <<now, openUntil, restarts>>

(***************************************************************************)
(* The provider answers: the failures in a row end, the stored state goes  *)
(* if there was any; the time the circuit is open until stays.             *)
(***************************************************************************)
Succeeds(t) ==
  LET l == text[t].leg
  IN  /\ text[t].phase = "asking"
      /\ stored' = IF failures[l] > 0 \/ lastError[l]
                   THEN [stored EXCEPT ![l] = None] ELSE stored
      /\ failures' = [failures EXCEPT ![l] = 0]
      /\ lastError' = [lastError EXCEPT ![l] = FALSE]
      /\ Becomes(t, IF WritesSchedules THEN "writing" ELSE "done")
      /\ UNCHANGED <<now, openUntil, restarts>>

(* The schedules of the result are sent off; whatever becomes of them, the text is done. *)
maybeWriteSchedules(t) ==
  /\ text[t].phase = "writing"
  /\ Becomes(t, "done")
  /\ UNCHANGED <<now, memory, stored, restarts>>

(* A 4xx is the caller's fault: no retry, and nothing counted. *)
ClientError(t) ==
  /\ text[t].phase = "asking"
  /\ Falls(t, text[t].leg)
  /\ UNCHANGED <<now, memory, stored, restarts>>

(* recordFailure: the round failed; at the threshold the circuit opens (again). *)
recordFailure(l) ==
  /\ failures' = [failures EXCEPT ![l] = @ + 1]
  /\ lastError' = [lastError EXCEPT ![l] = TRUE]
  /\ openUntil' = IF failures'[l] >= Threshold
                  THEN [openUntil EXCEPT ![l] = now + Cooldown] ELSE openUntil
  /\ stored' = [stored EXCEPT ![l] = [failures |-> failures'[l], openUntil |-> openUntil'[l]]]

(* Anything else failed: the next attempt, or the end of the round. *)
AttemptFails(t) ==
  LET l == text[t].leg
  IN  /\ text[t].phase = "asking"
      /\ IF text[t].attempt < Retries
         THEN /\ text' = [text EXCEPT ![t].attempt = @ + 1]
              /\ UNCHANGED <<memory, stored>>
         ELSE /\ recordFailure(l) /\ Falls(t, l)
      /\ UNCHANGED <<now, restarts>>

(* The operator's unfreeze closes the primary's circuit. *)
unfreeze ==
  /\ failures' = [failures EXCEPT !["primary"] = 0]
  /\ openUntil' = [openUntil EXCEPT !["primary"] = 0]
  /\ lastError' = [lastError EXCEPT !["primary"] = FALSE]
  /\ stored' = [stored EXCEPT !["primary"] = None]
  /\ UNCHANGED <<now, text, restarts>>

(* The process dies and starts again: the constructor reads the store; an expired
   opening does not come back, the failures do. *)
Restart ==
  /\ restarts < MaxRestarts /\ restarts' = restarts + 1
  /\ failures' = [l \in Legs |-> IF stored[l] = None THEN 0 ELSE stored[l].failures]
  /\ openUntil' = [l \in Legs |->
       IF stored[l] # None /\ stored[l].openUntil > now THEN stored[l].openUntil ELSE 0]
  /\ lastError' = [l \in Legs |-> stored[l] # None]
  /\ text' = [t \in Texts |-> IF text[t].phase \in {"asking", "writing"}
                              THEN [Idle EXCEPT !.phase = "lost"] ELSE text[t]]
  /\ UNCHANGED <<now, stored>>

Tick ==
  /\ now < MaxTime /\ now' = now + 1
  /\ UNCHANGED <<memory, stored, text, restarts>>

Answers(t) ==
  Succeeds(t) \/ maybeWriteSchedules(t) \/ ClientError(t) \/ AttemptFails(t)

Next ==
  \/ \E t \in Texts : process(t) \/ Answers(t)
  \/ unfreeze \/ Restart \/ Tick

Spec == Init /\ [][Next]_vars
-----------------------------------------------------------------------------
(***************************************************************************)
(* A restart forgets no failure and no opening the provider still owes:    *)
(* whatever texts were in flight when the circuit moved, the breaker that  *)
(* is read back counts as many failures, and is open until the same time   *)
(* if a failure since the last success stands behind the opening           *)
(* (llm-openai.ts:140-148, 253, 278).                                      *)
(***************************************************************************)
RestartForgetsNoFailure ==
  [][restarts' # restarts =>
       \A l \in Legs :
         /\ failures'[l] = failures[l] /\ lastError'[l] = lastError[l]
         /\ (failures[l] > 0 /\ openUntil[l] > now) => openUntil'[l] = openUntil[l]]_vars

=============================================================================
