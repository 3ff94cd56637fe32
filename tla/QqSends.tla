------------------------------ MODULE QqSends ------------------------------
(***************************************************************************)
(* The sends of a QQ target (src/components/target-qq.ts) through the      *)
(* OneBot client (src/components/onebot.ts) to a bridge that may take a    *)
(* message and never answer: the health circuit before the claim, the      *)
(* chunks and their second attempts, and the reconciliation of a send      *)
(* whose answer is missing against the bridge's own history                *)
(* (src/pipeline/onebot-send-reconcile.ts).                                *)
(*                                                                         *)
(* Several sends may be under way at a time: the router's drain, flushes   *)
(* of the target runtime, reactions to inbound messages.  Delivery models  *)
(* who drives a message; here anybody may, as long as the upper layer has  *)
(* not given it up.  A step stands for what runs between two awaits.       *)
(*                                                                         *)
(* The bridge keeps its messages in the order they appear.  Assumed of it, *)
(* as the schedule of the checks does: what it took and did not answer     *)
(* appears, if ever, before the last check of that send.                   *)
(***************************************************************************)
EXTENDS Outbound, OneBotSemantics, QqHealth, FiniteSets

CONSTANTS
  Message,    \* RowKey of the ledger
  Text,       \* [Message -> text]: its first chunk carries it
  NoText,     \* the signature of a payload of media alone
  Chunks,     \* [Message -> Nat]
  Media,      \* [Message -> input of decideMediaSource]
  Bridge,     \* the dialect the bridge really speaks
  Answers,    \* failures the bridge may answer with
  Checks,     \* reconcile_delays_ms.length
  Slack,      \* RECONCILE_MATCH_SLACK_MS in ticks
  MaxFaults   \* bound: failures, lost answers and restarts together

ASSUME SendsAssumption ==
  /\ RowKey = Message
  /\ Chunks \in [Message -> Nat \ {0}]
  /\ Bridge \in Dialect
  /\ Checks \in Nat /\ Slack \in Nat /\ MaxFaults \in Nat

SendAttempts == 2  \* SEND_ATTEMPTS_PER_CHUNK

VARIABLES
  history,  \* the bridge's messages: [message, chunk, age], the id is the position
  landing,  \* [Message -> [chunk -> Nat]]: taken by the bridge, not yet in its history
  task,     \* [Caller -> Task]
  dialect,  \* cachedCapabilities of the client, or "unasked"
  taken,    \* reconciledMessageIds
  health,   \* the snapshot of the QqHealthBoard
  kept,     \* its row in service_state
  receipts, \* messages whose row carries provider_message_ids
  verify,   \* verifyReceipts in flight: the message and the status it read
  given,    \* messages the upper layer does not drive again
  doubted,  \* chunks whose send ended in doubt
  torn,     \* messages that a restart cut off
  faults

client == <<task, dialect, taken, health, kept>>
upper == <<receipts, verify, given, doubted, torn, faults>>
vars == <<history, landing, client, ledger, upper>>

NoMessage == "none"
NoFailure == Failure("unknown", "other", FALSE)

Idle == [pc |-> "idle", message |-> NoMessage, chunk |-> 1, attempt |-> 1, check |-> 0,
         old |-> {}, error |-> NoFailure, ids |-> FALSE]

NoVerify == [message |-> NoMessage, status |-> "none"]

\* The type of every variable.
TypeOK ==
  /\ LedgerTypeOK
  /\ \A n \in DOMAIN history : history[n].message \in Message /\ history[n].age \in 0 .. Slack + 1
  /\ \A c \in Caller :
       /\ task[c].pc \in {"idle", "probe", "build", "post", "check"}
       /\ (task[c].pc \notin {"idle", "probe"}) => holds[c] = task[c].message
       /\ (task[c].pc \in {"idle", "probe"}) => holds[c] = NoKey
  /\ dialect \in Dialect \cup {"unasked"}
  /\ taken \subseteq DOMAIN history
  /\ health \in Snapshot /\ kept \in Snapshot
  /\ receipts \cup given \cup torn \subseteq Message

-----------------------------------------------------------------------------
At(c, pc) == task[c].pc = pc
Msg(c) == task[c].message
Part(c) == <<Msg(c), task[c].chunk>>

Set(c, t) == task' = [task EXCEPT ![c] = t]

Signature(c) == IF task[c].chunk = 1 THEN Text[Msg(c)] ELSE NoText

SignatureOf(n) == IF history[n].chunk = 1 THEN Text[history[n].message] ELSE NoText

Fault == faults < MaxFaults /\ faults' = faults + 1

\* Bug: a success is not written through.
RecordInMemory(h) ==
  health' = h /\ kept' = IF h.state = "ok" THEN kept ELSE h

\* persist() follows every recordSuccess and recordFailure.
Record(h) == health' = h /\ kept' = h

-----------------------------------------------------------------------------
(* gate -> claim                                                           *)

Claimed(c, m) ==
  /\ Claim(c, m)
  /\ Set(c, [Idle EXCEPT !.pc = "build", !.message = m])
  /\ UNCHANGED given

\* Bug: a row whose attempts are used up is left to be tried again.
SettledIfDone(c, m) ==
  /\ Done(m)
  /\ given' = given \cup {m}
  /\ Set(c, Idle)
  /\ UNCHANGED ledger

\* `sent' and `exhausted' return at once, and the caller counts them as sent.
ClaimSettled(c, m) ==
  /\ Done(m) \/ Exhausted(m)
  /\ given' = given \cup {m}
  /\ Set(c, Idle)
  /\ UNCHANGED ledger

ClaimDenied(c, m) ==
  /\ InProgress(m)
  /\ Set(c, Idle)
  /\ UNCHANGED <<ledger, given>>

Enter(c, m) == Claimed(c, m) \/ ClaimSettled(c, m) \/ ClaimDenied(c, m)

Send(c, m) ==
  /\ At(c, "idle") /\ m \notin given
  /\ Allowed(health)
  /\ Enter(c, m)
  /\ UNCHANGED <<history, landing, dialect, taken, health, kept, receipts, verify, doubted, torn, faults>>

\* The gate is shut and a probe is due: runProbe notes the time and asks.
Probe(c, m) ==
  /\ At(c, "idle") /\ m \notin given
  /\ ~Allowed(health) /\ ProbeDue(health)
  /\ health' = Probing(health)
  /\ Set(c, [Idle EXCEPT !.pc = "probe", !.message = m])
  /\ UNCHANGED <<history, landing, dialect, taken, kept, ledger, upper>>

\* The gate is asked again after the probe, whoever else has opened or shut it meanwhile.
Pass(c) ==
  \/ Allowed(health') /\ Enter(c, Msg(c))
  \/ ~Allowed(health') /\ Set(c, Idle) /\ UNCHANGED <<ledger, given>>

ProbeGood(c) ==
  /\ At(c, "probe")
  /\ Record(Recovered(health))
  /\ Pass(c)
  /\ UNCHANGED <<history, landing, dialect, taken, receipts, verify, doubted, torn, faults>>

ProbeBad(c) ==
  /\ At(c, "probe") /\ Fault
  /\ \E kind \in {"internal", "transport"} : Record(Failed(health, kind, "temporary", FALSE))
  /\ Pass(c)
  /\ UNCHANGED <<history, landing, dialect, taken, receipts, verify, doubted, torn>>

-----------------------------------------------------------------------------
(* The catch of rawSend, and the chunk loop before it.                     *)

Fails(c, f) ==
  /\ Mark(c, IF task[c].ids THEN "partial" ELSE "failed")
  /\ receipts' = receipts \cup (IF task[c].ids THEN {Msg(c)} ELSE {})
  /\ Record(Failed(health, f.kind, f.class, Cools(SendClass(f))))
  /\ given' = IF f.redrivable THEN given ELSE given \cup {Msg(c)}
  /\ Set(c, Idle)

\* A second attempt goes by the policy class alone, not by f.retryable.
ChunkFails(c, f) ==
  IF task[c].attempt < SendAttempts /\ RetryNow(SendClass(f))
  THEN /\ Set(c, [task[c] EXCEPT !.pc = "post", !.attempt = @ + 1, !.check = 0, !.old = {}])
       /\ UNCHANGED <<ledger, receipts, health, kept, given>>
  ELSE Fails(c, f)

\* The failure that must not be sent again: neither retryable nor redrivable.
Doubt == [NoFailure EXCEPT !.retryable = FALSE, !.redrivable = FALSE]

-----------------------------------------------------------------------------
(* buildSegments: capabilities() asks once for the dialect, and a bridge   *)
(* that does not answer is taken for a generic one from then on.           *)

Asks(c) ==
  /\ At(c, "build") /\ dialect = "unasked"
  /\ \/ dialect' = Bridge /\ UNCHANGED faults
     \/ dialect' = "generic" /\ Fault
  /\ UNCHANGED <<history, landing, task, taken, health, kept, ledger, receipts, verify, given, doubted, torn>>

Source(c) == MediaSource(Media[Msg(c)], dialect)

Builds(c) ==
  /\ At(c, "build") /\ dialect # "unasked"
  /\ Source(c) # "error"
  /\ Set(c, [task[c] EXCEPT !.pc = "post"])
  /\ UNCHANGED <<history, landing, dialect, taken, health, kept, ledger, upper>>

\* No source, an upload that breaks off, or a stream without its completion.
BuildFails(c) ==
  /\ At(c, "build") /\ dialect # "unasked"
  /\ \/ Source(c) = "error" /\ Fails(c, Transport) /\ UNCHANGED faults
     \/ Source(c) = "stream" /\ Fault /\ \E f \in Answers \cup {Transport, NoFailure} : Fails(c, f)
  /\ UNCHANGED <<history, landing, dialect, taken, verify, doubted, torn>>

-----------------------------------------------------------------------------
(* One request.                                                            *)

Shown(p) == Append(history, [message |-> p[1], chunk |-> p[2], age |-> 0])

Continue(c) ==
  IF task[c].chunk < Chunks[Msg(c)]
  THEN /\ Set(c, [task[c] EXCEPT !.pc = "post", !.chunk = @ + 1, !.attempt = 1, !.check = 0,
                                 !.old = {}, !.ids = TRUE])
       /\ UNCHANGED <<ledger, health, kept, receipts>>
  ELSE /\ Mark(c, "sent")
       /\ receipts' = receipts \cup {Msg(c)}
       /\ Record(Recovered(health))
       /\ Set(c, Idle)

Answered(c) ==
  /\ At(c, "post")
  /\ history' = Shown(Part(c))
  /\ Continue(c)
  /\ UNCHANGED <<landing, dialect, taken, verify, given, doubted, torn, faults>>

Old == {n \in DOMAIN history : history[n].age > Slack}

Doubted(c) == ChunkFails(c, Doubt) /\ doubted' = doubted \cup {Part(c)}

\* Bug: whatever fails is tried again without a look into the history.
GuardedNever(c, f) == ChunkFails(c, f) /\ UNCHANGED doubted

\* sendGuarded: a failure that may hide a delivered message is reconciled,
\* and cannot be where the payload has no text to go by.
Guarded(c, f) ==
  IF ~(f.retryable /\ PossiblyDelivered(f)) THEN ChunkFails(c, f) /\ UNCHANGED doubted
  ELSE IF Signature(c) = NoText THEN Doubted(c)
  ELSE /\ Set(c, [task[c] EXCEPT !.pc = "check", !.check = 0, !.old = Old, !.error = f])
       /\ UNCHANGED <<ledger, receipts, health, kept, given, doubted>>

Refused(c) ==
  /\ At(c, "post") /\ Fault
  /\ \E f \in Answers \cup {Transport} : Guarded(c, f)
  /\ UNCHANGED <<history, landing, dialect, taken, verify, torn>>

\* Taken, and the answer lost.
Lost(c) ==
  /\ At(c, "post") /\ Fault
  /\ landing' = [landing EXCEPT ![Msg(c)][task[c].chunk] = @ + 1]
  /\ Guarded(c, Transport)
  /\ UNCHANGED <<history, dialect, taken, verify, torn>>

Lands(m, k) ==
  /\ landing[m][k] > 0
  /\ landing' = [landing EXCEPT ![m][k] = @ - 1]
  /\ history' = Shown(<<m, k>>)
  /\ UNCHANGED <<client, ledger, upper>>

-----------------------------------------------------------------------------
(* reconcileAmbiguousSend and findDeliveredMessageId.                      *)

Copies(c) == {n \in DOMAIN history : /\ SignatureOf(n) = Signature(c)
                                     /\ n \notin task[c].old
                                     /\ n \notin taken}

Adopts(c) ==
  /\ At(c, "check")
  /\ \E n \in Copies(c) : taken' = taken \cup {n}
  /\ Continue(c)
  /\ UNCHANGED <<history, landing, dialect, verify, given, doubted, torn, faults>>

ChecksAgain(c) ==
  /\ At(c, "check") /\ Copies(c) = {} /\ task[c].check < Checks
  /\ Set(c, [task[c] EXCEPT !.check = @ + 1])
  /\ UNCHANGED <<history, landing, dialect, taken, health, kept, ledger, upper>>

\* Proven absent: the original failure is thrown.
Absent(c) ==
  /\ At(c, "check") /\ Copies(c) = {} /\ task[c].check = Checks
  /\ landing[Msg(c)][task[c].chunk] = 0
  /\ ChunkFails(c, task[c].error)
  /\ UNCHANGED <<history, landing, dialect, taken, verify, doubted, torn, faults>>

HistoryFails(c) ==
  /\ At(c, "check") /\ Fault
  /\ Doubted(c)
  /\ UNCHANGED <<history, landing, dialect, taken, verify, torn>>

-----------------------------------------------------------------------------
(* What others do to the target.                                           *)

\* noteBridgeEvent, from the inbound side.
BridgeEvent ==
  /\ Fault
  /\ \/ Record(Failed(health, "internal", "temporary", FALSE))
     \/ Record(Recovered(health))
  /\ UNCHANGED <<history, landing, task, dialect, taken, ledger, receipts, verify, given, doubted, torn>>

\* verifyReceipts reads the row, asks for each id, and writes back the status it read.
VerifyReads(m) ==
  /\ verify = NoVerify /\ m \in receipts
  /\ verify' = [message |-> m, status |-> row[m].status]
  /\ Fault
  /\ UNCHANGED <<history, landing, client, ledger, receipts, given, doubted, torn>>

VerifyWrites ==
  /\ verify # NoVerify
  /\ row' = [row EXCEPT ![verify.message].status = verify.status, ![verify.message].stale = FALSE]
  /\ verify' = NoVerify
  /\ UNCHANGED <<history, landing, client, holds, receipts, given, doubted, torn, faults>>

Restart ==
  /\ Fault
  /\ torn' = torn \cup {Msg(c) : c \in {d \in Caller : ~At(d, "idle") /\ ~At(d, "probe")}}
  /\ task' = [c \in Caller |-> Idle]
  /\ dialect' = "unasked" /\ taken' = {}
  /\ health' = kept
  /\ verify' = NoVerify
  /\ Abandon
  /\ UNCHANGED <<history, landing, kept, receipts, given, doubted>>

Ages(m) ==
  /\ Age(m)
  /\ UNCHANGED <<history, landing, client, upper>>

Tick ==
  /\ health' = Later(health) /\ kept' = Later(kept)
  /\ history' = [n \in DOMAIN history |-> [history[n] EXCEPT !.age = Least(@ + 1, Slack + 1)]]
  /\ <<health, history>>' # <<health, history>>
  /\ UNCHANGED <<landing, task, dialect, taken, ledger, upper>>

-----------------------------------------------------------------------------
Init ==
  /\ LedgerInit
  /\ history = <<>>
  /\ landing = [m \in Message |-> [k \in 1 .. Chunks[m] |-> 0]]
  /\ task = [c \in Caller |-> Idle]
  /\ dialect = "unasked" /\ taken = {}
  /\ health = Healthy /\ kept = Healthy
  /\ receipts = {} /\ verify = NoVerify /\ given = {} /\ doubted = {} /\ torn = {}
  /\ faults = 0

Settles(c) ==
  \/ ProbeGood(c) \/ ProbeBad(c)
  \/ Asks(c) \/ Builds(c) \/ BuildFails(c)
  \/ Answered(c) \/ Refused(c) \/ Lost(c)
  \/ Adopts(c) \/ ChecksAgain(c) \/ Absent(c) \/ HistoryFails(c)

Next ==
  \/ \E c \in Caller, m \in Message : Send(c, m) \/ Probe(c, m)
  \/ \E c \in Caller : Settles(c)
  \/ \E m \in Message : \E k \in 1 .. Chunks[m] : Lands(m, k)
  \/ \E m \in Message : VerifyReads(m) \/ Ages(m)
  \/ BridgeEvent \/ VerifyWrites \/ Restart \/ Tick

Spec == Init /\ [][Next]_vars

\* A promise settles, the bridge lets appear what it took, time passes, and
\* the router's sweep comes back to what it has not given up.
FairSpec ==
  /\ Spec
  /\ WF_vars(Tick)
  /\ \A c \in Caller : WF_vars(Settles(c))
  /\ \A m \in Message :
       /\ WF_vars(Ages(m))
       /\ \A k \in 1 .. Chunks[m] : WF_vars(Lands(m, k))
       /\ SF_vars(\E c \in Caller : Send(c, m) \/ Probe(c, m))

-----------------------------------------------------------------------------
\* Messages whose copies cannot be told from those of m.
Twins(m) == {m} \cup {n \in Message : Text[n] = Text[m] /\ Text[m] # NoText}

CopiesOf(m, k) ==
  Cardinality({n \in DOMAIN history : history[n].message = m /\ history[n].chunk = k})

\* A chunk appears in the chat once, except for what a restart cut off, for
\* a send that ended in doubt, and for messages of one text, which adopt each
\* other's copies (sendGuarded: ask the bridge before any second request).
NothingAppearsTwice ==
  \A m \in Message : Twins(m) = {m} =>
    \A k \in 1 .. Chunks[m] :
      CopiesOf(m, k) <= 1 \/ m \in torn \/ \E p \in doubted : p[1] = m

\* What the store would restore decides as the memory does: a restart neither
\* opens a shut gate nor shuts an open one (persist() on every transition).
RestartKeepsCircuit == Allowed(kept) = Allowed(health)

\* Whatever failed, whoever noted it and however often the circuit opened: each message
\* is sent, exhausted or given up in the end (the circuit opens for a finite time).
EveryMessageSettles == \A m \in Message : <>(m \in given)

\* A send that ended in doubt is not repeated: no request for a chunk follows
\* its doubt (onebot.ts, "never re-send on doubt").
NeverResentOnDoubt ==
  \A c \in Caller : At(c, "post") => Part(c) \notin doubted
=============================================================================
