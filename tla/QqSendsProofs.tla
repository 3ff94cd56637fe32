--------------------------- MODULE QqSendsProofs ----------------------------
(***************************************************************************)
(* For any number of messages, chunks, senders, failures and restarts: a   *)
(* chunk that no restart and no doubt explains appears once, the stored    *)
(* circuit decides as the living one, and whatever touches the ledger is   *)
(* one of its own operations.                                              *)
(***************************************************************************)
EXTENDS QqSends, OutboundProofs, FiniteSetTheorems, TLAPS

Sending == {"build", "post", "check"}

Entry == [message : Message, chunk : Nat, age : Nat]

Errors == Answers \cup {Transport, NoFailure}

Tasks == [pc : {"idle", "probe"} \cup Sending, message : Message \cup {NoMessage},
          chunk : Nat \ {0}, attempt : Nat, check : Nat, old : SUBSET Nat,
          error : Errors, ids : BOOLEAN]

Typed ==
  /\ row \in [Message -> [status : Outcome \cup {"none", "sending"}, attempts : Nat,
                          stale : BOOLEAN]]
  /\ holds \in [Caller -> Message \cup {NoKey}]
  /\ history \in Seq(Entry)
  /\ landing = [m \in Message |-> landing[m]]
  /\ \A m \in Message : landing[m] \in [1 .. Chunks[m] -> Nat]
  /\ task \in [Caller -> Tasks]

\* Who sends holds the row, alone, and it says `sending'.
Owned(c) ==
  IF task[c].pc \in Sending THEN Msg(c) \in Message /\ holds[c] = Msg(c) ELSE holds[c] = NoKey

Held ==
  \A c \in Caller : holds[c] # NoKey =>
    /\ row[holds[c]].status = "sending" /\ ~row[holds[c]].stale
    /\ \A d \in Caller : holds[d] = holds[c] => d = c

\* Only the first chunk has a text to go by, and it is the only one before any
\* message id is known.
Sized(c) ==
  /\ At(c, "probe") => Msg(c) \in Message
  /\ ~task[c].ids => task[c].chunk = 1
  /\ At(c, "build") => task[c].chunk = 1
  /\ task[c].pc \in Sending => task[c].chunk <= Chunks[Msg(c)]
  /\ At(c, "check") => task[c].chunk = 1 /\ Text[Msg(c)] # NoText
  /\ task[c].old \subseteq DOMAIN history

\* A row with receipts is settled, so that what verifyReceipts writes back
\* is what the row says.
Receipted ==
  /\ \A m \in receipts : m \in Message /\ Done(m)
  /\ verify # NoVerify =>
       /\ verify.message \in Message /\ Done(verify.message)
       /\ verify.status = row[verify.message].status

Basics ==
  /\ Typed /\ Held /\ Receipted
  /\ \A c \in Caller : Owned(c) /\ Sized(c)
  /\ taken \subseteq DOMAIN history

-----------------------------------------------------------------------------
LEMMA Constants ==
  /\ RowKey = Message /\ NoKey \notin Message
  /\ \A m \in Message : Chunks[m] \in Nat \ {0}
  BY SendsAssumption, LedgerAssumption

LEMMA TaskRecords ==
  /\ Idle \in Tasks
  /\ \A t \in Tasks : \A e \in Errors : \A m \in Message \cup {NoMessage} :
       \A p \in {"idle", "probe"} \cup Sending : \A n \in Nat \ {0} : \A a, k \in Nat :
         \A o \in SUBSET Nat : \A b \in BOOLEAN :
           [pc |-> p, message |-> m, chunk |-> n, attempt |-> a, check |-> k, old |-> o,
            error |-> e, ids |-> b] \in Tasks
<1>1. NoFailure \in Errors /\ NoMessage \in Message \cup {NoMessage} /\ {} \in SUBSET Nat
  BY DEF Errors
<1>2. QED
  BY <1>1 DEF Idle, Tasks

LEMMA IdleIsTyped ==
  /\ Idle \in Tasks /\ Idle.pc = "idle" /\ Idle.chunk = 1 /\ ~Idle.ids /\ Idle.old = {}
  /\ \A m \in Message : [Idle EXCEPT !.pc = "build", !.message = m] \in Tasks
  /\ \A m \in Message : [Idle EXCEPT !.pc = "probe", !.message = m] \in Tasks
<1>1. Idle \in Tasks
  BY TaskRecords
<1>2. Idle.pc = "idle" /\ Idle.chunk = 1 /\ Idle.old = {}
  BY DEF Idle
<1>3. ~Idle.ids
  BY Zenon DEF Idle
<1>4. \A m \in Message : [Idle EXCEPT !.pc = "build", !.message = m] \in Tasks
  BY <1>1 DEF Tasks, Sending
<1>5. \A m \in Message : [Idle EXCEPT !.pc = "probe", !.message = m] \in Tasks
  BY <1>1 DEF Tasks, Sending
<1>6. QED
  BY <1>1, <1>2, <1>3, <1>4, <1>5

\* What a step leaves to a caller's step: the bridge only adds to the history.
Around ==
  /\ history' \in Seq(Entry) /\ DOMAIN history \subseteq DOMAIN history'
  /\ landing' = [m \in Message |-> landing'[m]]
  /\ \A m \in Message : landing'[m] \in [1 .. Chunks[m] -> Nat]
  /\ taken' \subseteq DOMAIN history'
  /\ verify' = verify

\* A caller's task moves and the ledger stays.
LEMMA MoveKeeps ==
  ASSUME Basics, Around, NEW c \in Caller, NEW t \in Tasks, Set(c, t),
         UNCHANGED <<ledger, receipts>>,
         t.pc \in Sending <=> task[c].pc \in Sending,
         t.pc \in Sending => t.message = Msg(c),
         t.pc = "probe" => t.message \in Message,
         ~t.ids => t.chunk = 1,
         t.pc = "build" => t.chunk = 1,
         t.pc \in Sending => t.chunk <= Chunks[Msg(c)],
         t.pc = "check" => t.chunk = 1 /\ Text[Msg(c)] # NoText,
         t.old \subseteq DOMAIN history
  PROVE  Basics'
<1>1. Typed'
  BY DEF Basics, Typed, Around, Set, ledger
<1>2. Held' /\ Receipted'
  BY DEF Basics, Held, Receipted, Around, ledger, Done
<1>3. ASSUME NEW d \in Caller PROVE Owned(d)' /\ Sized(d)'
  <2>0. holds' = holds /\ DOMAIN history \subseteq DOMAIN history'
    BY DEF Around, ledger
  <2>1. CASE d = c
    <3>1. task'[c] = t
      BY DEF Basics, Typed, Set
    <3>2. Owned(c)'
      BY <2>0, <3>1 DEF Basics, Owned, Msg
    <3>3. Sized(c)'
      BY <2>0, <3>1 DEF Basics, Owned, Sized, Msg, At, Sending
    <3>4. QED
      BY <2>1, <3>2, <3>3
  <2>2. CASE d # c
    BY <2>2 DEF Basics, Typed, Owned, Sized, Around, Set, ledger, Msg, At
  <2>3. QED
    BY <2>1, <2>2
<1>4. QED
  BY <1>1, <1>2, <1>3 DEF Basics, Around

\* A caller marks its row and is idle.
LEMMA MarkKeeps ==
  ASSUME Basics, Around, NEW c \in Caller, task[c].pc \in Sending, NEW outcome \in Outcome,
         Mark(c, outcome), Set(c, Idle),
         \/ receipts' = receipts
         \/ outcome \in TerminalStatus /\ receipts' = receipts \cup {Msg(c)}
  PROVE  Basics'
<1> DEFINE m == Msg(c)
<1>0. /\ m \in Message /\ holds[c] = m /\ NoKey \notin Message
      /\ row' = [row EXCEPT ![m] = [@ EXCEPT !.status = outcome, !.stale = FALSE]]
      /\ holds' = [holds EXCEPT ![c] = NoKey]
      /\ row[m].status = "sending"
      /\ task' = [task EXCEPT ![c] = Idle]
  BY Constants DEF Basics, Owned, Held, Mark, Set
<1> HIDE DEF m
<1>1. Typed'
  <2>1. row' \in [Message -> [status : Outcome \cup {"none", "sending"}, attempts : Nat,
                             stale : BOOLEAN]]
    <3>1. PICK r : r = [row[m] EXCEPT !.status = outcome, !.stale = FALSE]
      OBVIOUS
    <3>2. r \in [status : Outcome \cup {"none", "sending"}, attempts : Nat, stale : BOOLEAN]
      <4> DEFINE R == [status : Outcome \cup {"none", "sending"}, attempts : Nat, stale : BOOLEAN]
      <4>1. PICK old \in R : old = row[m]
        BY <1>0 DEF Basics, Typed
      <4>2. r = [old EXCEPT !.status = outcome, !.stale = FALSE]
        BY <3>1, <4>1
      <4> QED BY <4>2
    <3>3. row' = [row EXCEPT ![m] = r]
      BY <1>0, <3>1
    <3> QED BY <3>2, <3>3 DEF Basics, Typed
  <2>2. holds' \in [Caller -> Message \cup {NoKey}] /\ task' \in [Caller -> Tasks]
    BY <1>0, IdleIsTyped DEF Basics, Typed
  <2>3. QED
    BY <2>1, <2>2 DEF Typed, Around
<1>2. Held'
  BY <1>0 DEF Basics, Typed, Held
<1>3. Receipted'
  BY <1>0 DEF Basics, Typed, Receipted, Around, Done, TerminalStatus, m
<1>4. ASSUME NEW d \in Caller PROVE Owned(d)' /\ Sized(d)'
  BY <1>0, IdleIsTyped DEF Basics, Typed, Owned, Sized, Around, Msg, At, Sending
<1>5. QED
  BY <1>1, <1>2, <1>3, <1>4 DEF Basics, Around

LEMMA EnterKeeps ==
  ASSUME Basics, Around, NEW c \in Caller, task[c].pc \notin Sending, NEW m \in Message,
         Enter(c, m), UNCHANGED receipts
  PROVE  Basics'
<1>1. CASE Claimed(c, m)
  <2> DEFINE t == [Idle EXCEPT !.pc = "build", !.message = m]
  <2>0. /\ Free(m) /\ holds[c] = NoKey /\ NoKey \notin Message
        /\ row' = [row EXCEPT ![m] = [status |-> "sending", attempts |-> @.attempts + 1,
                                      stale |-> FALSE]]
        /\ holds' = [holds EXCEPT ![c] = m]
        /\ task' = [task EXCEPT ![c] = t]
    BY <1>1, Constants DEF Claimed, Claim, Set
  <2>1. /\ t \in Tasks /\ t.pc = "build" /\ t.message = m /\ t.chunk = 1 /\ ~t.ids /\ t.old = {}
        /\ "build" \in Sending
    BY IdleIsTyped DEF Idle, Sending
  <2> HIDE DEF t
  <2>2. ~Done(m) /\ \A d \in Caller : holds[d] # m
    BY <2>0 DEF Basics, Typed, Held, Free, Live, Done, TerminalStatus
  <2>3. Typed'
    BY <2>0, <2>1 DEF Basics, Typed, Around
  <2>4. Held'
    BY <2>0, <2>2 DEF Basics, Typed, Held
  <2>5. Receipted'
    BY <2>0, <2>2 DEF Basics, Typed, Receipted, Around, Done
  <2>6. ASSUME NEW d \in Caller PROVE Owned(d)' /\ Sized(d)'
    BY <2>0, <2>1, Constants DEF Basics, Typed, Owned, Sized, Around, Msg, At
  <2>7. QED
    BY <2>3, <2>4, <2>5, <2>6 DEF Basics, Around
<1>2. CASE ClaimSettled(c, m) \/ ClaimDenied(c, m)
  <2>1. Set(c, Idle) /\ UNCHANGED ledger
    BY <1>2 DEF ClaimSettled, ClaimDenied
  <2>2. QED
    BY <2>1, IdleIsTyped, MoveKeeps DEF Sending
<1>3. QED
  BY <1>1, <1>2 DEF Enter

LEMMA FailsKeeps ==
  ASSUME Basics, Around, NEW c \in Caller, task[c].pc \in Sending, NEW f, Fails(c, f)
  PROVE  Basics'
<1>1. CASE task[c].ids
  BY <1>1, MarkKeeps DEF Fails, TerminalStatus, Outcome
<1>2. CASE ~task[c].ids
  BY <1>2, MarkKeeps DEF Fails, Outcome
<1>3. QED
  BY <1>1, <1>2

LEMMA ChunkFailsKeeps ==
  ASSUME Basics, Around, NEW c \in Caller, task[c].pc \in Sending, NEW f, ChunkFails(c, f)
  PROVE  Basics'
<1> DEFINE t == [task[c] EXCEPT !.pc = "post", !.attempt = @ + 1, !.check = 0, !.old = {}]
<1>0. task[c] \in Tasks
  BY DEF Basics, Typed
<1>1. CASE Set(c, t) /\ UNCHANGED <<ledger, receipts>>
  <2>1. /\ t \in Tasks /\ t.pc = "post" /\ t.message = Msg(c) /\ t.chunk = task[c].chunk
        /\ t.ids = task[c].ids /\ t.old = {}
    <3>1. t \in Tasks
      <4>1. /\ task[c].attempt + 1 \in Nat /\ {} \in SUBSET Nat /\ 0 \in Nat
            /\ "post" \in {"idle", "probe"} \cup Sending
        BY <1>0 DEF Tasks, Sending
      <4> DEFINE a == task[c].attempt + 1
      <4> HIDE DEF a
      <4>2. [task[c] EXCEPT !.pc = "post", !.attempt = a, !.check = 0, !.old = {}] \in Tasks
        BY <1>0, <4>1 DEF Tasks, a
      <4>3. QED
        BY <4>2 DEF a
    <3>2. t.pc = "post" /\ t.message = Msg(c) /\ t.chunk = task[c].chunk /\ t.old = {}
      BY <1>0 DEF Tasks, Msg
    <3>3. t.ids = task[c].ids
      BY <1>0 DEF Tasks
    <3>4. QED
      BY <3>1, <3>2, <3>3
  <2> HIDE DEF t
  <2>2. QED
    BY <1>1, <2>1, MoveKeeps DEF Basics, Sized, Sending
<1>2. CASE Fails(c, f)
  BY <1>2, FailsKeeps
<1>3. QED
  BY <1>1, <1>2 DEF ChunkFails

LEMMA ContinueKeeps ==
  ASSUME Basics, Around, NEW c \in Caller, task[c].pc \in Sending, Continue(c)
  PROVE  Basics'
<1> DEFINE t == [task[c] EXCEPT !.pc = "post", !.chunk = @ + 1, !.attempt = 1, !.check = 0,
                                !.old = {}, !.ids = TRUE]
<1>0. task[c] \in Tasks /\ Chunks[Msg(c)] \in Nat
  BY Constants DEF Basics, Typed, Owned
<1>1. CASE task[c].chunk < Chunks[Msg(c)]
  <2>1. /\ t \in Tasks /\ t.pc = "post" /\ t.message = Msg(c) /\ t.chunk = task[c].chunk + 1
        /\ t.ids /\ t.old = {} /\ t.chunk <= Chunks[Msg(c)]
    <3>1. t \in Tasks
      <4>1. /\ task[c].chunk + 1 \in Nat \ {0} /\ {} \in SUBSET Nat /\ 0 \in Nat /\ 1 \in Nat
            /\ "post" \in {"idle", "probe"} \cup Sending /\ TRUE \in BOOLEAN
        BY <1>0 DEF Tasks, Sending
      <4> DEFINE n == task[c].chunk + 1
      <4> HIDE DEF n
      <4>2. [task[c] EXCEPT !.pc = "post", !.chunk = n, !.attempt = 1, !.check = 0, !.old = {},
                            !.ids = TRUE] \in Tasks
        BY <1>0, <4>1 DEF Tasks, n
      <4>3. QED
        BY <4>2 DEF n
    <3>2. /\ t.pc = "post" /\ t.message = Msg(c) /\ t.chunk = task[c].chunk + 1
          /\ t.old = {} /\ t.chunk <= Chunks[Msg(c)]
      BY <1>0, <1>1 DEF Tasks, Msg
    <3>3. t.ids
      BY <1>0 DEF Tasks
    <3>4. QED
      BY <3>1, <3>2, <3>3
  <2>2. Set(c, t) /\ UNCHANGED <<ledger, receipts>>
    BY <1>1 DEF Continue
  <2> HIDE DEF t
  <2>3. QED
    BY <2>1, <2>2, MoveKeeps DEF Sending
<1>2. CASE ~(task[c].chunk < Chunks[Msg(c)])
  BY <1>2, MarkKeeps DEF Continue, TerminalStatus, Outcome
<1>3. QED
  BY <1>1, <1>2

LEMMA GuardedKeeps ==
  ASSUME Basics, Around, NEW c \in Caller, At(c, "post"), NEW f \in Errors, Guarded(c, f)
  PROVE  Basics'
<1> DEFINE t == [task[c] EXCEPT !.pc = "check", !.check = 0, !.old = Old, !.error = f]
<1>0. task[c] \in Tasks /\ task[c].pc \in Sending
  BY DEF Basics, Typed, At, Sending
<1>1. CASE Signature(c) # NoText /\ Set(c, t) /\ UNCHANGED <<ledger, receipts>>
  <2>0. Old \subseteq DOMAIN history /\ DOMAIN history \subseteq Nat
    BY DEF Old, Basics, Typed
  <2>1. /\ t \in Tasks /\ t.pc = "check" /\ t.message = Msg(c) /\ t.chunk = task[c].chunk
        /\ t.ids = task[c].ids /\ t.old = Old
    BY <1>0, <2>0 DEF Tasks, Sending, Msg
  <2>2. task[c].chunk = 1 /\ Text[Msg(c)] # NoText
    BY <1>1 DEF Signature
  <2> HIDE DEF t
  <2>3. QED
    BY <1>0, <1>1, <2>0, <2>1, <2>2, MoveKeeps DEF Basics, Sized, Sending
<1>2. CASE \E g : ChunkFails(c, g)
  BY <1>0, <1>2, ChunkFailsKeeps
<1>3. QED
  BY <1>1, <1>2 DEF Guarded, Doubted

-----------------------------------------------------------------------------
\* What the bridge shows of a chunk.
Shows(n, m, k) == history[n].message = m /\ history[n].chunk = k

LEMMA Appended ==
  ASSUME history \in Seq(Entry), NEW m \in Message, NEW k \in Nat
  PROVE  /\ Shown(<<m, k>>) \in Seq(Entry)
         /\ DOMAIN Shown(<<m, k>>) = DOMAIN history \cup {Len(history) + 1}
         /\ Len(history) + 1 \notin DOMAIN history
         /\ \A n \in DOMAIN history : Shown(<<m, k>>)[n] = history[n]
         /\ Shown(<<m, k>>)[Len(history) + 1].message = m
         /\ Shown(<<m, k>>)[Len(history) + 1].chunk = k
<1> DEFINE e == [message |-> m, chunk |-> k, age |-> 0]
<1>1. e \in Entry /\ e.message = m /\ e.chunk = k
  BY DEF Entry
<1>2. Shown(<<m, k>>) = Append(history, e)
  BY DEF Shown
<1> HIDE DEF e
<1> DEFINE h == Append(history, e)
<1>3. Len(history) \in Nat /\ DOMAIN history = 1 .. Len(history)
  OBVIOUS
<1>4. h \in Seq(Entry) /\ Len(h) = Len(history) + 1 /\ DOMAIN h = 1 .. Len(history) + 1
  BY <1>1
<1>5. h[Len(history) + 1] = e /\ \A n \in 1 .. Len(history) : h[n] = history[n]
  BY <1>1
<1>6. DOMAIN h = DOMAIN history \cup {Len(history) + 1} /\ Len(history) + 1 \notin DOMAIN history
  <2> HIDE DEF h
  <2>1. QED
    BY <1>3, <1>4
<1>7. Shown(<<m, k>>) = h
  BY <1>2
<1> HIDE DEF h
<1>8. QED
  BY <1>1, <1>3, <1>4, <1>5, <1>6, <1>7

LEMMA AroundSame ==
  ASSUME Basics, UNCHANGED <<history, landing, taken, verify>>
  PROVE  Around
  BY DEF Basics, Typed, Around

LEMMA AroundShown ==
  ASSUME Basics, NEW m \in Message, NEW k \in Nat, history' = Shown(<<m, k>>),
         UNCHANGED <<landing, taken, verify>>
  PROVE  Around
  BY Appended DEF Basics, Typed, Around

\* The requests of one chunk that are still to land become x.
Lays(m, k, x) == landing' = [landing EXCEPT ![m][k] = x]

LEMMA LandingChanges ==
  ASSUME Typed, NEW m \in Message, NEW k \in 1 .. Chunks[m], NEW x \in Nat, Lays(m, k, x)
  PROVE  /\ landing' = [d \in Message |-> landing'[d]]
         /\ \A d \in Message : landing'[d] \in [1 .. Chunks[d] -> Nat]
         /\ landing'[m][k] = x
         /\ \A d \in Message : \A j \in 1 .. Chunks[d] :
              d # m \/ j # k => landing'[d][j] = landing[d][j]
<1>1. landing' = [landing EXCEPT ![m] = [landing[m] EXCEPT ![k] = x]]
  BY DEF Typed, Lays
<1> DEFINE new == [landing[m] EXCEPT ![k] = x]
<1>2. /\ new \in [1 .. Chunks[m] -> Nat] /\ new[k] = x
      /\ \A j \in 1 .. Chunks[m] : j # k => new[j] = landing[m][j]
  BY DEF Typed
<1> HIDE DEF new
<1>3. landing' = [d \in Message |-> IF d = m THEN new ELSE landing[d]]
  BY <1>1 DEF Typed, new
<1>4. QED
  BY <1>2, <1>3 DEF Typed

-----------------------------------------------------------------------------
(* Each step keeps the basics.                                             *)

LEMMA EntersKeep ==
  ASSUME Basics, NEW c \in Caller, NEW m \in Message, Send(c, m) \/ Probe(c, m)
  PROVE  Basics'
<1>0. Around
  BY AroundSame DEF Send, Probe, upper
<1>1. CASE Send(c, m)
  BY <1>0, <1>1, EnterKeeps DEF Send, At, Sending
<1>2. CASE Probe(c, m)
  <2> DEFINE t == [Idle EXCEPT !.pc = "probe", !.message = m]
  <2>1. /\ t \in Tasks /\ t.pc = "probe" /\ t.message = m /\ t.chunk = 1 /\ t.old = {}
    BY IdleIsTyped DEF Tasks
  <2>2. Set(c, t) /\ UNCHANGED <<ledger, receipts>> /\ task[c].pc \notin Sending
    BY <1>2 DEF Probe, upper, At, Sending
  <2> HIDE DEF t
  <2>3. QED
    BY <1>0, <2>1, <2>2, MoveKeeps DEF Sending
<1>3. QED
  BY <1>1, <1>2

LEMMA ProbesKeep ==
  ASSUME Basics, NEW c \in Caller, ProbeGood(c) \/ ProbeBad(c)
  PROVE  Basics'
<1>0. /\ Around /\ At(c, "probe") /\ task[c].pc \notin Sending /\ Pass(c) /\ UNCHANGED receipts
      /\ Msg(c) \in Message
  BY AroundSame DEF ProbeGood, ProbeBad, At, Sending, Basics, Sized
<1>1. CASE Enter(c, Msg(c))
  BY <1>0, <1>1, EnterKeeps
<1>2. CASE Set(c, Idle) /\ UNCHANGED <<ledger, given>>
  BY <1>0, <1>2, IdleIsTyped, MoveKeeps DEF Sending
<1>3. QED
  BY <1>0, <1>1, <1>2 DEF Pass

LEMMA BuildsKeep ==
  ASSUME Basics, NEW c \in Caller, Asks(c) \/ Builds(c) \/ BuildFails(c)
  PROVE  Basics'
<1>0. Around /\ At(c, "build") /\ task[c].pc \in Sending /\ task[c] \in Tasks
  BY AroundSame DEF Asks, Builds, BuildFails, upper, At, Sending, Basics, Typed
<1>1. CASE Asks(c)
  <2>1. Set(c, task[c]) /\ UNCHANGED <<ledger, receipts>>
    BY <1>1 DEF Asks, Set, Basics, Typed
  <2>2. QED
    BY <1>0, <2>1, MoveKeeps DEF Basics, Sized, Msg, At, Sending
<1>2. CASE Builds(c)
  <2> DEFINE t == [task[c] EXCEPT !.pc = "post"]
  <2>1. Set(c, t) /\ UNCHANGED <<ledger, receipts>>
    BY <1>2 DEF Builds, upper
  <2>2. /\ t \in Tasks /\ t.pc = "post" /\ t.message = Msg(c) /\ t.chunk = task[c].chunk
        /\ t.old = task[c].old
    BY <1>0 DEF Tasks, Msg, Sending
  <2> HIDE DEF t
  <2>3. QED
    BY <1>0, <2>1, <2>2, MoveKeeps DEF Basics, Sized, At, Sending
<1>3. CASE BuildFails(c)
  BY <1>0, <1>3, FailsKeeps DEF BuildFails
<1>4. QED
  BY <1>1, <1>2, <1>3

LEMMA PartIsTyped ==
  ASSUME Basics, NEW c \in Caller, task[c].pc \in Sending
  PROVE  /\ Msg(c) \in Message /\ task[c].chunk \in 1 .. Chunks[Msg(c)] /\ task[c].chunk \in Nat
         /\ holds[c] = Msg(c) /\ task[c] \in Tasks
  BY Constants DEF Basics, Typed, Owned, Sized, Tasks

LEMMA PostsKeep ==
  ASSUME Basics, NEW c \in Caller, Answered(c) \/ Refused(c) \/ Lost(c)
  PROVE  Basics'
<1>0. At(c, "post") /\ task[c].pc \in Sending
  BY DEF Answered, Refused, Lost, At, Sending
<1>1. CASE Answered(c)
  <2>1. Around
    BY <1>0, <1>1, AroundShown, PartIsTyped DEF Answered, Part
  <2>2. QED
    BY <1>0, <1>1, <2>1, ContinueKeeps DEF Answered
<1>2. CASE Refused(c)
  <2>1. Around
    BY <1>2, AroundSame DEF Refused
  <2>2. PICK f \in Answers \cup {Transport} : Guarded(c, f)
    BY <1>2 DEF Refused
  <2>3. QED
    BY <1>0, <2>1, <2>2, GuardedKeeps DEF Errors
<1>3. CASE Lost(c)
  <2>1. Around
    <3> DEFINE m == Msg(c)
    <3> DEFINE k == task[c].chunk
    <3>0. m \in Message /\ k \in 1 .. Chunks[m]
      BY <1>0, PartIsTyped
    <3> HIDE DEF m, k
    <3>1. landing[m][k] + 1 \in Nat
      <4>1. landing[m] \in [1 .. Chunks[m] -> Nat]
        BY <3>0 DEF Basics, Typed
      <4>2. landing[m][k] \in Nat
        BY <3>0, <4>1
      <4>3. QED
        BY <4>2
    <3>2. Lays(m, k, landing[m][k] + 1)
      BY <1>3 DEF Lost, Lays, m, k
    <3>3. /\ landing' = [d \in Message |-> landing'[d]]
          /\ \A d \in Message : landing'[d] \in [1 .. Chunks[d] -> Nat]
      BY <3>0, <3>1, <3>2, LandingChanges DEF Basics
    <3>4. QED
      BY <1>3, <3>3 DEF Lost, Around, Basics, Typed
  <2>2. Guarded(c, Transport) /\ Transport \in Errors
    BY <1>3 DEF Lost, Errors
  <2>3. QED
    BY <1>0, <2>1, <2>2, GuardedKeeps
<1>4. QED
  BY <1>1, <1>2, <1>3

LEMMA ChecksKeep ==
  ASSUME Basics, NEW c \in Caller, Adopts(c) \/ ChecksAgain(c) \/ Absent(c) \/ HistoryFails(c)
  PROVE  Basics'
<1>0. At(c, "check") /\ task[c].pc \in Sending /\ task[c] \in Tasks
  BY DEF Adopts, ChecksAgain, Absent, HistoryFails, At, Sending, Basics, Typed
<1>1. Around
  BY AroundSame DEF Adopts, ChecksAgain, Absent, HistoryFails, upper, Around, Basics, Typed, Copies
<1>2. CASE Adopts(c)
  BY <1>0, <1>1, <1>2, ContinueKeeps DEF Adopts
<1>3. CASE ChecksAgain(c)
  <2> DEFINE t == [task[c] EXCEPT !.check = @ + 1]
  <2>1. Set(c, t) /\ UNCHANGED <<ledger, receipts>>
    BY <1>3 DEF ChecksAgain, upper
  <2>2. /\ t.pc = "check" /\ t.message = Msg(c) /\ t.chunk = task[c].chunk
        /\ t.old = task[c].old
    BY <1>0 DEF Tasks, Msg, At
  <2>3. t \in Tasks
    BY <1>0 DEF Tasks
  <2> HIDE DEF t
  <2>4. QED
    BY <1>0, <1>1, <2>1, <2>2, <2>3, MoveKeeps DEF Basics, Sized, At, Sending
<1>4. CASE Absent(c) \/ HistoryFails(c)
  BY <1>0, <1>1, <1>4, ChunkFailsKeeps DEF Absent, HistoryFails, Doubted
<1>5. QED
  BY <1>2, <1>3, <1>4

\* What of the history matters when only its ages move.
Later1 ==
  /\ DOMAIN history' = DOMAIN history
  /\ \A n \in DOMAIN history : /\ history'[n].message = history[n].message
                               /\ history'[n].chunk = history[n].chunk

LEMMA TickAges ==
  ASSUME Basics, Tick
  PROVE  history' \in Seq(Entry) /\ Later1
<1> DEFINE Older(n) == [history[n] EXCEPT !.age = Least(@ + 1, Slack + 1)]
<1>1. /\ history' = [n \in DOMAIN history |-> Older(n)]
      /\ history \in Seq(Entry) /\ Len(history) \in Nat /\ DOMAIN history = 1 .. Len(history)
  BY DEF Tick, Basics, Typed
<1>2. ASSUME NEW n \in DOMAIN history
      PROVE  /\ Older(n) \in Entry
             /\ Older(n).message = history[n].message /\ Older(n).chunk = history[n].chunk
  <2>1. history[n] \in Entry
    BY <1>1, <1>2
  <2>2. Least(history[n].age + 1, Slack + 1) \in Nat
    BY <2>1, SendsAssumption DEF Entry, Least
  <2>3. QED
    BY <2>1, <2>2 DEF Entry
<1> HIDE DEF Older
<1>3. history' \in Seq(Entry)
  BY <1>1, <1>2
<1>4. QED
  BY <1>1, <1>2, <1>3 DEF Later1

LEMMA OthersKeep ==
  ASSUME Basics,
         \/ \E m \in Message : \E k \in 1 .. Chunks[m] : Lands(m, k)
         \/ \E m \in Message : VerifyReads(m) \/ Ages(m)
         \/ BridgeEvent \/ VerifyWrites \/ Restart \/ Tick
  PROVE  Basics'
<1>1. ASSUME NEW m \in Message, NEW k \in 1 .. Chunks[m], Lands(m, k) PROVE Basics'
  <2>0. /\ history \in Seq(Entry) /\ k \in Nat /\ history' = Shown(<<m, k>>)
        /\ UNCHANGED <<client, ledger, upper>>
    BY <1>1, Constants DEF Lands, Basics, Typed
  <2>1. history' \in Seq(Entry) /\ DOMAIN history \subseteq DOMAIN history'
    BY <2>0, Appended
  <2>2. landing[m][k] \in Nat
    <3>1. landing[m] \in [1 .. Chunks[m] -> Nat]
      BY DEF Basics, Typed
    <3>2. QED
      BY <3>1
  <2>3. Lays(m, k, landing[m][k] - 1) /\ landing[m][k] - 1 \in Nat
    BY <1>1, <2>2 DEF Lands, Lays
  <2>4. /\ landing' = [d \in Message |-> landing'[d]]
        /\ \A d \in Message : landing'[d] \in [1 .. Chunks[d] -> Nat]
    BY <2>3, LandingChanges DEF Basics
  <2>5. QED
    BY <2>0, <2>1, <2>4
       DEF Basics, Typed, Held, Receipted, Owned, Sized, client, ledger, upper, Msg, At, Done
<1>2. ASSUME NEW m \in Message, VerifyReads(m) PROVE Basics'
  <2>1. /\ verify' = [message |-> m, status |-> row[m].status] /\ m \in receipts
        /\ UNCHANGED <<history, landing, client, ledger, receipts>>
    BY <1>2 DEF VerifyReads
  <2>2. verify'.message = m /\ verify'.status = row[m].status
    BY <2>1
  <2>3. Receipted'
    BY <2>1, <2>2 DEF Basics, Receipted, ledger, Done
  <2>4. QED
    BY <2>1, <2>3 DEF Basics, Typed, Held, Owned, Sized, client, ledger, Msg, At
<1>3. ASSUME NEW m \in Message, Ages(m) PROVE Basics'
  <2>1. /\ row' = [row EXCEPT ![m].stale = TRUE] /\ \A c \in Caller : holds[c] # m
        /\ UNCHANGED <<holds, history, landing, client, upper>>
    BY <1>3 DEF Ages, Age
  <2>2. \A d \in Message : row'[d].status = row[d].status /\ (d # m => row'[d] = row[d])
    BY <2>1 DEF Basics, Typed
  <2>3. Typed'
    BY <2>1 DEF Basics, Typed, client
  <2>4. Held' /\ Receipted'
    BY <2>1, <2>2 DEF Basics, Typed, Held, Receipted, upper, Done
  <2>5. QED
    BY <2>1, <2>3, <2>4 DEF Basics, Owned, Sized, client, Msg, At
<1>4. CASE BridgeEvent
  BY <1>4 DEF BridgeEvent, Basics, Typed, Held, Receipted, Owned, Sized, ledger, Msg, At, Done
<1>5. CASE VerifyWrites
  <2> DEFINE m == verify.message
  <2>1. /\ m \in Message /\ Done(m) /\ verify.status = row[m].status /\ verify' = NoVerify
        /\ row' = [row EXCEPT ![m].status = verify.status, ![m].stale = FALSE]
        /\ UNCHANGED <<history, landing, client, holds, receipts, given, doubted, torn, faults>>
    BY <1>5 DEF VerifyWrites, Basics, Receipted
  <2> HIDE DEF m
  <2>2. /\ row' = [row EXCEPT ![m] = [row[m] EXCEPT !.stale = FALSE]]
    BY <2>1 DEF Basics, Typed
  <2>3. \A d \in Message : row'[d].status = row[d].status /\ (d # m => row'[d] = row[d])
    BY <2>2 DEF Basics, Typed
  <2>4. Typed'
    <3>1. row[m] \in [status : Outcome \cup {"none", "sending"}, attempts : Nat, stale : BOOLEAN]
      BY <2>1 DEF Basics, Typed
    <3>2. [row[m] EXCEPT !.stale = FALSE]
            \in [status : Outcome \cup {"none", "sending"}, attempts : Nat, stale : BOOLEAN]
      BY <3>1
    <3>3. QED
      BY <2>1, <2>2, <3>2 DEF Basics, Typed, client
  <2>5. Held' /\ Receipted'
    BY <2>1, <2>3 DEF Basics, Typed, Held, Receipted, Done, TerminalStatus
  <2>6. QED
    BY <2>1, <2>4, <2>5 DEF Basics, Owned, Sized, client, Msg, At
<1>6. CASE Restart
  <2>1. /\ task' = [c \in Caller |-> Idle] /\ holds' = [c \in Caller |-> NoKey] /\ row' = row
        /\ taken' = {} /\ verify' = NoVerify /\ UNCHANGED <<history, landing, receipts>>
    BY <1>6 DEF Restart, Abandon
  <2>2. Typed' /\ Held' /\ Receipted'
    BY <2>1, IdleIsTyped DEF Basics, Typed, Held, Receipted, Done
  <2>3. QED
    BY <2>1, <2>2, IdleIsTyped DEF Basics, Owned, Sized, Msg, At, Sending
<1>7. CASE Tick
  <2>1. history' \in Seq(Entry) /\ Later1
    BY <1>7, TickAges
  <2>2. UNCHANGED <<landing, task, taken, ledger, upper>>
    BY <1>7 DEF Tick
  <2>3. QED
    BY <2>1, <2>2
       DEF Later1, Basics, Typed, Held, Receipted, Owned, Sized, ledger, upper, Msg, At, Done
<1>8. QED
  BY <1>1, <1>2, <1>3, <1>4, <1>5, <1>6, <1>7

LEMMA BasicsHold == Basics /\ [Next]_vars => Basics'
<1> SUFFICES ASSUME Basics, [Next]_vars PROVE Basics'
  OBVIOUS
<1>1. CASE UNCHANGED vars
  BY <1>1 DEF vars, client, ledger, upper, Basics, Typed, Held, Receipted, Owned, Sized, Msg, At, Done
<1>2. ASSUME NEW c \in Caller, Settles(c) PROVE Basics'
  BY <1>2, ProbesKeep, BuildsKeep, PostsKeep, ChecksKeep DEF Settles
<1>3. QED
  BY <1>1, <1>2, EntersKeep, OthersKeep DEF Next

LEMMA BasicsAtFirst == Init => Basics
<1> SUFFICES ASSUME Init PROVE Basics
  OBVIOUS
<1>1. /\ row = [k \in Message |-> [status |-> "none", attempts |-> 0, stale |-> FALSE]]
      /\ holds = [c \in Caller |-> NoKey] /\ history = <<>> /\ task = [c \in Caller |-> Idle]
      /\ landing = [m \in Message |-> [k \in 1 .. Chunks[m] |-> 0]]
      /\ taken = {} /\ receipts = {} /\ verify = NoVerify
  BY Constants DEF Init, LedgerInit
<1>2. Typed
  <2>1. row \in [Message -> [status : Outcome \cup {"none", "sending"}, attempts : Nat,
                            stale : BOOLEAN]]
    BY <1>1
  <2>2. holds \in [Caller -> Message \cup {NoKey}] /\ task \in [Caller -> Tasks]
    BY <1>1, IdleIsTyped
  <2>3. history \in Seq(Entry)
    BY <1>1
  <2>4. \A m \in Message : landing[m] = [k \in 1 .. Chunks[m] |-> 0]
    BY <1>1
  <2>5. landing = [m \in Message |-> landing[m]]
    BY <1>1
  <2>6. QED
    BY <2>1, <2>2, <2>3, <2>4, <2>5 DEF Typed
<1>3. Held /\ Receipted /\ taken \subseteq DOMAIN history
  BY <1>1 DEF Held, Receipted
<1>4. QED
  BY <1>1, <1>2, <1>3, IdleIsTyped DEF Basics, Owned, Sized, Msg, At, Sending

-----------------------------------------------------------------------------
(* What has been told of a message that nothing excuses.                   *)

Untainted(m) == Twins(m) = {m} /\ m \notin torn /\ \A p \in doubted : p[1] # m

Clean(m, k) == landing[m][k] = 0 /\ \A n \in DOMAIN history : ~Shows(n, m, k)

Single(m, k) ==
  /\ \A i, j \in DOMAIN history : Shows(i, m, k) /\ Shows(j, m, k) => i = j
  /\ landing[m][k] # 0 => landing[m][k] = 1 /\ \A n \in DOMAIN history : ~Shows(n, m, k)

\* The chunks a sender has not asked for since it last knew them absent.
Unasked(c, k) == IF At(c, "check") THEN k > task[c].chunk ELSE k >= task[c].chunk

\* A sender knows what it has told; a row without a sender that is not settled
\* has told nothing; and what a check is about to find, it can find.
Told(m) ==
  Untainted(m) =>
    /\ \A k \in 1 .. Chunks[m] : Single(m, k)
    /\ ~Done(m) /\ (\A c \in Caller : holds[c] # m) => \A k \in 1 .. Chunks[m] : Clean(m, k)
    /\ \A c \in Caller : holds[c] = m =>
         /\ \A k \in 1 .. Chunks[m] : Unasked(c, k) => Clean(m, k)
         /\ At(c, "check") =>
              \A n \in DOMAIN history : Shows(n, m, 1) => n \notin task[c].old /\ n \notin taken

\* The bridge's view of a message stays as it is.
Unmoved(m) ==
  /\ DOMAIN history \subseteq DOMAIN history'
  /\ \A k \in 1 .. Chunks[m] :
       /\ landing'[m][k] = landing[m][k]
       /\ \A n \in DOMAIN history' : Shows(n, m, k)' => n \in DOMAIN history
       /\ \A n \in DOMAIN history : Shows(n, m, k)' <=> Shows(n, m, k)

Tainting == torn \subseteq torn' /\ doubted \subseteq doubted'

LEMMA UnmovedKeeps ==
  ASSUME NEW m, Unmoved(m), NEW k \in 1 .. Chunks[m]
  PROVE  (Clean(m, k) => Clean(m, k)') /\ (Single(m, k) => Single(m, k)')
  BY DEF Unmoved, Clean, Single

\* A step of one caller about one message is nothing to the others.
LEMMA BystandersKeep ==
  ASSUME Basics, Tainting, NEW c \in Caller, NEW d \in Message, Told(d), Unmoved(d),
         holds[c] # d, holds'[c] # d, row'[d] = row[d],
         \A e \in Caller \ {c} : holds'[e] = holds[e] /\ task'[e] = task[e],
         Untainted(d) =>
           \A n \in DOMAIN history : Shows(n, d, 1) /\ n \in taken' => n \in taken
  PROVE  Told(d)'
<1> SUFFICES ASSUME Untainted(d)' PROVE Told(d)'
  BY DEF Told
<1>1. Untainted(d)
  BY DEF Untainted, Tainting
<1>2. \A k \in 1 .. Chunks[d] : (Clean(d, k) => Clean(d, k)') /\ (Single(d, k) => Single(d, k)')
  BY UnmovedKeeps
<1>3. \A k \in 1 .. Chunks[d] : Single(d, k)'
  BY <1>1, <1>2 DEF Told
<1>4. ASSUME ~Done(d)', \A e \in Caller : holds'[e] # d, NEW k \in 1 .. Chunks[d] PROVE Clean(d, k)'
  <2>1. ~Done(d) /\ \A e \in Caller : holds[e] # d
    BY <1>4 DEF Done
  <2>2. QED
    BY <1>1, <1>2, <2>1 DEF Told
<1>5. ASSUME NEW e \in Caller, holds'[e] = d
      PROVE  /\ \A k \in 1 .. Chunks[d] : Unasked(e, k)' => Clean(d, k)'
             /\ At(e, "check")' => \A n \in DOMAIN history' :
                  Shows(n, d, 1)' => n \notin task'[e].old /\ n \notin taken'
  <2>1. e # c /\ holds[e] = d /\ task'[e] = task[e]
    BY <1>5
  <2>2. \A k \in 1 .. Chunks[d] : Unasked(e, k)' => Clean(d, k)'
    BY <1>1, <1>2, <2>1 DEF Told, Unasked, At
  <2>3. ASSUME At(e, "check")', NEW n \in DOMAIN history', Shows(n, d, 1)'
        PROVE  n \notin task'[e].old /\ n \notin taken'
    <3>1. 1 \in 1 .. Chunks[d]
      BY Constants
    <3>2. n \in DOMAIN history /\ Shows(n, d, 1)
      BY <2>3, <3>1 DEF Unmoved
    <3>3. At(e, "check")
      BY <2>1, <2>3 DEF At
    <3>4. QED
      BY <1>1, <1>5, <2>1, <3>2, <3>3 DEF Told
  <2>4. QED
    BY <2>2, <2>3
<1>6. QED
  BY <1>3, <1>4, <1>5 DEF Told

\* The sender of a message is its only one.
LEMMA OneSender ==
  ASSUME Basics, NEW c \in Caller, task[c].pc \in Sending
  PROVE  /\ Msg(c) \in Message /\ holds[c] = Msg(c)
         /\ \A e \in Caller : holds[e] = Msg(c) => e = c
         /\ Msg(c) # NoKey /\ ~Done(Msg(c))
  BY Constants DEF Basics, Owned, Held, Done, TerminalStatus

\* The message of a caller that marks it, where the bridge shows no part twice
\* and none at all if the mark leaves it open.
LEMMA MarkTold ==
  ASSUME Basics, NEW c \in Caller, task[c].pc \in Sending, NEW m, m = Msg(c),
         NEW outcome \in Outcome, Mark(c, outcome),
         Untainted(m)' => \A k \in 1 .. Chunks[m] :
                            Single(m, k)' /\ (outcome = "failed" => Clean(m, k)')
  PROVE  Told(m)'
<1>1. /\ m \in Message /\ \A e \in Caller : holds'[e] # m
      /\ row' = [row EXCEPT ![m] = [row[m] EXCEPT !.status = outcome, !.stale = FALSE]]
  BY OneSender DEF Mark, Basics, Typed
<1>2. row'[m].status = outcome
  BY <1>1 DEF Basics, Typed
<1>3. outcome # "failed" => Done(m)'
  BY <1>2 DEF Done, Outcome
<1>4. QED
  BY <1>1, <1>3 DEF Told

\* The message of a caller that goes on sending it.
LEMMA GoesOnTold ==
  ASSUME Basics, NEW c \in Caller, task[c].pc \in Sending, NEW m, m = Msg(c), holds' = holds,
         Untainted(m)' =>
           /\ \A k \in 1 .. Chunks[m] : Single(m, k)'
           /\ \A k \in 1 .. Chunks[m] : Unasked(c, k)' => Clean(m, k)'
           /\ At(c, "check")' => \A n \in DOMAIN history' :
                Shows(n, m, 1)' => n \notin task'[c].old /\ n \notin taken'
  PROVE  Told(m)'
<1>1. m \in Message /\ holds'[c] = m /\ \A e \in Caller : holds'[e] = m => e = c
  BY OneSender
<1>2. QED
  BY <1>1 DEF Told

\* A step of c about m changes nothing that is another's.
Local(c, m) ==
  /\ \A e \in Caller \ {c} : holds'[e] = holds[e] /\ task'[e] = task[e]
  /\ \A d \in Message \ {m} : row'[d] = row[d] /\ holds[c] # d /\ holds'[c] # d

LEMMA MovesLocally ==
  ASSUME Basics, NEW c \in Caller, NEW t, Set(c, t), UNCHANGED ledger,
         NEW m, holds[c] \in {m, NoKey}
  PROVE  Local(c, m)
  BY Constants DEF Basics, Typed, Set, ledger, Local

LEMMA MarksLocally ==
  ASSUME Basics, NEW c \in Caller, task[c].pc \in Sending, NEW t, Set(c, t), NEW outcome, Mark(c, outcome)
  PROVE  Local(c, Msg(c))
  BY Constants, OneSender DEF Basics, Typed, Set, Mark, Local

LEMMA ChunkFailsLocally ==
  ASSUME Basics, NEW c \in Caller, task[c].pc \in Sending, NEW f, ChunkFails(c, f)
  PROVE  Local(c, Msg(c))
<1>1. CASE Fails(c, f)
  BY <1>1, MarksLocally DEF Fails
<1>2. CASE ~Fails(c, f)
  BY <1>2, MovesLocally, OneSender DEF ChunkFails
<1>3. QED
  BY <1>1, <1>2

LEMMA ContinuesLocally ==
  ASSUME Basics, NEW c \in Caller, task[c].pc \in Sending, Continue(c)
  PROVE  Local(c, Msg(c))
<1>1. CASE task[c].chunk < Chunks[Msg(c)]
  BY <1>1, MovesLocally, OneSender DEF Continue, ledger
<1>2. CASE ~(task[c].chunk < Chunks[Msg(c)])
  BY <1>2, MarksLocally DEF Continue
<1>3. QED
  BY <1>1, <1>2

LEMMA GuardedLocally ==
  ASSUME Basics, NEW c \in Caller, task[c].pc \in Sending, NEW f, Guarded(c, f)
  PROVE  Local(c, Msg(c))
<1>1. CASE \E g : ChunkFails(c, g)
  BY <1>1, ChunkFailsLocally
<1>2. CASE ~\E g : ChunkFails(c, g)
  BY <1>2, MovesLocally, OneSender DEF Guarded, Doubted
<1>3. QED
  BY <1>1, <1>2

\* What a failure needs: that the chunk is known to be absent.
LEMMA ChunkFailsTold ==
  ASSUME Basics, Tainting, UNCHANGED <<history, landing>>,
         NEW c \in Caller, task[c].pc \in Sending, NEW m, m = Msg(c), Told(m),
         NEW f, Fails(c, f) \/ ChunkFails(c, f),
         Untainted(m)' => Clean(m, task[c].chunk)
  PROVE  Told(m)'
<1>0. /\ m \in Message /\ holds[c] = m /\ task[c] \in Tasks /\ Chunks[m] \in Nat \ {0}
      /\ task[c].chunk \in Nat \ {0}
  BY OneSender, Constants DEF Basics, Typed, Tasks
<1>1. Untainted(m)' => \A k \in 1 .. Chunks[m] :
        Single(m, k)' /\ (k >= task[c].chunk => Clean(m, k)')
  <2> SUFFICES ASSUME Untainted(m)', NEW k \in 1 .. Chunks[m]
               PROVE  Single(m, k)' /\ (k >= task[c].chunk => Clean(m, k)')
    OBVIOUS
  <2>1. Untainted(m) /\ Clean(m, task[c].chunk)
    BY DEF Untainted, Tainting
  <2>2. Single(m, k) /\ (k >= task[c].chunk => Clean(m, k))
    BY <1>0, <2>1 DEF Told, Unasked
  <2>3. QED
    BY <2>2 DEF Single, Clean, Shows
<1>2. ASSUME NEW outcome \in Outcome, Mark(c, outcome), outcome = "failed" => ~task[c].ids
      PROVE  Told(m)'
  <2>1. outcome = "failed" => task[c].chunk = 1
    BY <1>2 DEF Basics, Sized
  <2>2. QED
    BY <1>0, <1>1, <1>2, <2>1, MarkTold
<1>3. CASE Fails(c, f)
  BY <1>2, <1>3 DEF Fails, Outcome, TerminalStatus
<1>4. CASE ChunkFails(c, f) /\ ~Fails(c, f)
  <2> DEFINE t == [task[c] EXCEPT !.pc = "post", !.attempt = @ + 1, !.check = 0, !.old = {}]
  <2>1. task'[c] = t /\ holds' = holds
    BY <1>4 DEF ChunkFails, Set, ledger, Basics, Typed
  <2>2. t.pc = "post" /\ t.chunk = task[c].chunk
    BY <1>0 DEF Tasks
  <2>3. task'[c].pc = "post" /\ task'[c].chunk = task[c].chunk
    BY <2>1, <2>2
  <2>4. QED
    BY <1>1, <2>1, <2>3, GoesOnTold DEF Unasked, At
<1>5. QED
  BY <1>3, <1>4 DEF ChunkFails

\* What an answer needs: that later chunks are absent.
LEMMA ContinueTold ==
  ASSUME Basics, Tainting, NEW c \in Caller, task[c].pc \in Sending, NEW m, m = Msg(c), Continue(c),
         Untainted(m)' => \A k \in 1 .. Chunks[m] :
                            Single(m, k)' /\ (k > task[c].chunk => Clean(m, k)')
  PROVE  Told(m)'
<1>0. m \in Message /\ task[c] \in Tasks /\ task[c].chunk \in Nat /\ Chunks[m] \in Nat
  BY OneSender, Constants DEF Basics, Typed, Tasks
<1>1. CASE task[c].chunk < Chunks[Msg(c)]
  <2> DEFINE t == [task[c] EXCEPT !.pc = "post", !.chunk = @ + 1, !.attempt = 1, !.check = 0,
                                  !.old = {}, !.ids = TRUE]
  <2>1. task'[c] = t /\ holds' = holds
    BY <1>1 DEF Continue, Set, ledger, Basics, Typed
  <2>2. t.pc = "post" /\ t.chunk = task[c].chunk + 1
    BY <1>0 DEF Tasks
  <2>3. task'[c].pc = "post" /\ task'[c].chunk = task[c].chunk + 1
    BY <2>1, <2>2
  <2>4. \A k \in 1 .. Chunks[m] : Unasked(c, k)' => k > task[c].chunk
    BY <1>0, <2>3 DEF Unasked, At
  <2>5. QED
    BY <2>1, <2>3, <2>4, GoesOnTold DEF At
<1>2. CASE ~(task[c].chunk < Chunks[Msg(c)])
  BY <1>2, MarkTold DEF Continue, Outcome, TerminalStatus
<1>3. QED
  BY <1>1, <1>2

AllTold == \A m \in Message : Told(m)

LEMMA OthersTold ==
  ASSUME Basics, AllTold, Tainting, NEW c \in Caller, NEW m, Local(c, m),
         UNCHANGED <<history, landing, taken>>
  PROVE  \A d \in Message \ {m} : Told(d)'
<1> SUFFICES ASSUME NEW d \in Message \ {m} PROVE Told(d)'
  OBVIOUS
<1>1. Unmoved(d)
  BY DEF Unmoved, Shows
<1>2. QED
  BY <1>1, BystandersKeep DEF AllTold, Local

\* A caller without a row moves.
LEMMA IdleTold ==
  ASSUME Basics, AllTold, Tainting, NEW c \in Caller, task[c].pc \notin Sending, NEW t, Set(c, t),
         UNCHANGED <<ledger, history, landing, taken>>
  PROVE  AllTold'
<1>1. holds[c] = NoKey /\ holds' = holds /\ row' = row /\ NoKey \notin Message
  BY Constants DEF Basics, Owned, ledger
<1>2. \A e \in Caller \ {c} : task'[e] = task[e]
  BY DEF Basics, Typed, Set
<1>3. ASSUME NEW d \in Message PROVE Told(d)'
  <2>1. Unmoved(d)
    BY DEF Unmoved, Shows
  <2>2. QED
    BY <1>1, <1>2, <2>1, BystandersKeep DEF AllTold
<1>4. QED
  BY <1>3 DEF AllTold

LEMMA EnterTold ==
  ASSUME Basics, AllTold, NEW c \in Caller, task[c].pc \notin Sending, NEW m \in Message, Enter(c, m),
         UNCHANGED <<history, landing, taken, torn, doubted>>
  PROVE  AllTold'
<1>0. Tainting
  BY DEF Tainting
<1>1. CASE Claimed(c, m)
  <2> DEFINE t == [Idle EXCEPT !.pc = "build", !.message = m]
  <2>0. /\ Free(m) /\ holds[c] = NoKey /\ NoKey \notin Message
        /\ row' = [row EXCEPT ![m] = [status |-> "sending", attempts |-> @.attempts + 1,
                                      stale |-> FALSE]]
        /\ holds' = [holds EXCEPT ![c] = m]
        /\ task' = [task EXCEPT ![c] = t]
    BY <1>1, Constants DEF Claimed, Claim, Set
  <2>1. task'[c].pc = "build"
    BY <2>0, IdleIsTyped DEF Idle, Basics, Typed
  <2>2. ~Done(m) /\ \A e \in Caller : holds[e] # m
    BY <2>0 DEF Basics, Typed, Held, Free, Live, Done, TerminalStatus
  <2>3. Local(c, m)
    BY <2>0 DEF Local, Basics, Typed
  <2>4. ASSUME Untainted(m)
        PROVE  \A k \in 1 .. Chunks[m] : Clean(m, k)' /\ Single(m, k)'
    BY <2>2, <2>4 DEF AllTold, Told, Clean, Single, Shows
  <2>5. Untainted(m)' => Untainted(m)
    BY DEF Untainted
  <2>6. holds'[c] = m /\ \A e \in Caller : holds'[e] = m => e = c
    BY <2>0, <2>2 DEF Basics, Typed
  <2>7. Told(m)'
    BY <2>1, <2>4, <2>5, <2>6 DEF Told, At
  <2>8. QED
    BY <1>0, <2>3, <2>7, OthersTold DEF AllTold
<1>2. CASE ClaimSettled(c, m) \/ ClaimDenied(c, m)
  BY <1>0, <1>2, IdleTold DEF ClaimSettled, ClaimDenied
<1>3. QED
  BY <1>1, <1>2 DEF Enter

LEMMA EntersTold ==
  ASSUME Basics, AllTold, NEW c \in Caller,
         \/ \E m \in Message : Send(c, m) \/ Probe(c, m)
         \/ ProbeGood(c) \/ ProbeBad(c)
  PROVE  AllTold'
<1>1. ASSUME NEW m \in Message, Send(c, m) PROVE AllTold'
  BY <1>1, EnterTold DEF Send, At, Sending
<1>2. ASSUME NEW m \in Message, Probe(c, m) PROVE AllTold'
  BY <1>2, IdleTold DEF Probe, At, Sending, upper, Tainting
<1>3. CASE ProbeGood(c) \/ ProbeBad(c)
  <2>1. /\ task[c].pc \notin Sending /\ Msg(c) \in Message /\ Pass(c)
        /\ UNCHANGED <<history, landing, taken, torn, doubted>>
    BY <1>3 DEF ProbeGood, ProbeBad, At, Sending, Basics, Sized
  <2>2. QED
    BY <2>1, EnterTold, IdleTold DEF Pass, Tainting
<1>4. QED
  BY <1>1, <1>2, <1>3

LEMMA BuildsTold ==
  ASSUME Basics, AllTold, NEW c \in Caller, Asks(c) \/ Builds(c) \/ BuildFails(c)
  PROVE  AllTold'
<1>0. PICK m \in Message : m = Msg(c) /\ task[c].pc \in Sending /\ holds[c] = m /\ At(c, "build")
                           /\ task[c] \in Tasks /\ task[c].chunk \in 1 .. Chunks[m]
  BY PartIsTyped DEF Asks, Builds, BuildFails, At, Sending
<1>1. CASE Asks(c)
  BY <1>1 DEF Asks, ledger, AllTold, Told, Untainted, Done, Single, Clean, Shows, Unasked, At
<1>2. Untainted(m) => \A k \in 1 .. Chunks[m] :
        Single(m, k) /\ (k >= task[c].chunk => Clean(m, k))
  BY <1>0 DEF AllTold, Told, Unasked, At
<1>3. CASE Builds(c)
  <2> DEFINE t == [task[c] EXCEPT !.pc = "post"]
  <2>1. Set(c, t) /\ UNCHANGED <<ledger, history, landing, taken, torn, doubted>>
    BY <1>3 DEF Builds, upper
  <2>2. task'[c].pc = "post" /\ task'[c].chunk = task[c].chunk
    BY <1>0, <2>1 DEF Set, Tasks, Basics, Typed
  <2>3. Local(c, m) /\ holds' = holds
    BY <1>0, <2>1, MovesLocally DEF ledger
  <2>4. Untainted(m)' => Untainted(m)
    BY <2>1 DEF Untainted
  <2>5. \A k \in 1 .. Chunks[m] : (Single(m, k) => Single(m, k)') /\ (Clean(m, k) => Clean(m, k)')
    BY <2>1 DEF Single, Clean, Shows
  <2>6. Told(m)'
    BY <1>0, <1>2, <2>2, <2>3, <2>4, <2>5, GoesOnTold DEF Unasked, At
  <2>7. QED
    BY <2>1, <2>3, <2>6, OthersTold DEF AllTold, Tainting
<1>4. CASE BuildFails(c)
  <2>1. PICK f : Fails(c, f)
    BY <1>4 DEF BuildFails
  <2>2. Local(c, m)
    BY <1>0, <2>1, MarksLocally DEF Fails
  <2>3. UNCHANGED <<history, landing, taken, torn, doubted>> /\ Tainting
    BY <1>4 DEF BuildFails, Tainting
  <2>4. Untainted(m)' => Clean(m, task[c].chunk)
    BY <1>0, <1>2, <2>3 DEF Untainted
  <2>5. Told(m)'
    BY <1>0, <2>1, <2>3, <2>4, ChunkFailsTold DEF AllTold
  <2>6. QED
    BY <2>2, <2>3, <2>5, OthersTold DEF AllTold
<1>5. QED
  BY <1>1, <1>3, <1>4

\* A failed request: it was not taken, or it is checked, or it ends in doubt.
LEMMA GuardedTold ==
  ASSUME Basics, Tainting, NEW c \in Caller, At(c, "post"), NEW m, m = Msg(c), Told(m),
         history' = history, NEW f, Guarded(c, f),
         landing' = landing \/ (f.retryable /\ PossiblyDelivered(f)),
         Untainted(m) =>
           /\ \A k \in 1 .. Chunks[m] : Single(m, k)' /\ (k > task[c].chunk => Clean(m, k)')
           /\ Clean(m, task[c].chunk)
  PROVE  Told(m)'
<1>0. /\ m \in Message /\ task[c].pc \in Sending /\ task[c] \in Tasks
      /\ task[c].chunk \in 1 .. Chunks[m]
  BY PartIsTyped DEF At, Sending
<1>1. Untainted(m)' => Untainted(m)
  BY DEF Untainted, Tainting
<1>2. CASE ~(f.retryable /\ PossiblyDelivered(f))
  BY <1>0, <1>1, <1>2, ChunkFailsTold DEF Guarded
<1>3. CASE f.retryable /\ PossiblyDelivered(f) /\ Signature(c) = NoText
  <2>1. ~Untainted(m)'
    <3>1. doubted' = doubted \cup {<<m, task[c].chunk>>}
      BY <1>3 DEF Guarded, Doubted, Part
    <3>2. <<m, task[c].chunk>> \in doubted' /\ <<m, task[c].chunk>>[1] = m
      BY <3>1
    <3>3. QED
      BY <3>2 DEF Untainted
  <2>2. QED
    BY <2>1 DEF Told
<1>4. CASE f.retryable /\ PossiblyDelivered(f) /\ Signature(c) # NoText
  <2> DEFINE t == [task[c] EXCEPT !.pc = "check", !.check = 0, !.old = Old, !.error = f]
  <2>1. Set(c, t) /\ UNCHANGED ledger
    BY <1>4 DEF Guarded
  <2>2. task'[c].pc = "check" /\ task'[c].chunk = task[c].chunk /\ holds' = holds
    BY <1>0, <2>1 DEF Set, Tasks, Basics, Typed, ledger
  <2>3. task[c].chunk = 1
    BY <1>4 DEF Signature
  <2>4. Untainted(m)' => \A n \in DOMAIN history' : ~Shows(n, m, 1)'
    BY <1>1, <2>3 DEF Clean, Shows
  <2>5. QED
    BY <1>0, <1>1, <2>2, <2>4, GoesOnTold DEF Unasked, At
<1>5. QED
  BY <1>2, <1>3, <1>4

LEMMA ShownTells ==
  ASSUME Basics, NEW m \in Message, NEW k \in 1 .. Chunks[m], history' = Shown(<<m, k>>)
  PROVE  /\ DOMAIN history \subseteq DOMAIN history'
         /\ \A d \in Message : \A j \in 1 .. Chunks[d] :
              /\ \A n \in DOMAIN history : Shows(n, d, j)' <=> Shows(n, d, j)
              /\ d # m \/ j # k =>
                   \A n \in DOMAIN history' : Shows(n, d, j)' => n \in DOMAIN history
         /\ \A n \in DOMAIN history' : n \in DOMAIN history \/ n = Len(history) + 1
         /\ Len(history) + 1 \notin DOMAIN history
<1>1. k \in Nat /\ history \in Seq(Entry)
  BY Constants DEF Basics, Typed
<1>2. QED
  BY <1>1, Appended DEF Shows

LEMMA AnsweredTold ==
  ASSUME Basics, AllTold, NEW c \in Caller, Answered(c)
  PROVE  AllTold'
<1>0. PICK m \in Message : m = Msg(c) /\ task[c].pc \in Sending /\ holds[c] = m /\ At(c, "post")
                           /\ task[c].chunk \in 1 .. Chunks[m]
  BY PartIsTyped DEF Answered, At, Sending
<1>1. /\ history' = Shown(<<m, task[c].chunk>>) /\ Continue(c) /\ Local(c, m) /\ Tainting
      /\ UNCHANGED <<landing, taken, torn, doubted>>
  BY <1>0, ContinuesLocally DEF Answered, Part, Tainting
<1>2. ASSUME Untainted(m)', NEW k \in 1 .. Chunks[m]
      PROVE  Single(m, k)' /\ (k > task[c].chunk => Clean(m, k)')
  <2>1. Untainted(m)
    BY <1>1, <1>2 DEF Untainted
  <2>2. Single(m, k) /\ (k >= task[c].chunk => Clean(m, k))
    BY <1>0, <2>1 DEF AllTold, Told, Unasked, At
  <2>3. CASE k = task[c].chunk
    <3>1. landing'[m][k] = 0 /\ \A n \in DOMAIN history' : Shows(n, m, k)' => n = Len(history) + 1
      BY <1>0, <1>1, <2>2, <2>3, ShownTells DEF Clean
    <3>2. QED
      BY <2>3, <3>1 DEF Single
  <2>4. CASE k # task[c].chunk
    <3>1. /\ \A n \in DOMAIN history : Shows(n, m, k)' <=> Shows(n, m, k)
          /\ \A n \in DOMAIN history' : Shows(n, m, k)' => n \in DOMAIN history
      BY <1>0, <1>1, <2>4, ShownTells
    <3>2. QED
      BY <1>0, <1>1, <2>2, <3>1 DEF Single, Clean
  <2>5. QED
    BY <2>3, <2>4
<1>3. Told(m)'
  BY <1>0, <1>1, <1>2, ContinueTold
<1>4. ASSUME NEW d \in Message, d # m PROVE Told(d)'
  <2>1. Unmoved(d)
    BY <1>0, <1>1, <1>4, ShownTells DEF Unmoved
  <2>2. QED
    BY <1>1, <1>4, <2>1, BystandersKeep DEF AllTold, Local
<1>5. QED
  BY <1>3, <1>4 DEF AllTold

LEMMA RefusedTold ==
  ASSUME Basics, AllTold, NEW c \in Caller, Refused(c)
  PROVE  AllTold'
<1>0. PICK m \in Message : m = Msg(c) /\ task[c].pc \in Sending /\ holds[c] = m /\ At(c, "post")
                           /\ task[c].chunk \in 1 .. Chunks[m]
  BY PartIsTyped DEF Refused, At, Sending
<1>1. PICK f : Guarded(c, f)
  BY DEF Refused
<1>2. UNCHANGED <<history, landing, taken, torn>> /\ doubted \subseteq doubted'
  BY <1>1 DEF Refused, Guarded, Doubted
<1>3. Local(c, m) /\ Tainting
  BY <1>0, <1>1, <1>2, GuardedLocally DEF Tainting
<1>4. Untainted(m) => /\ \A k \in 1 .. Chunks[m] : Single(m, k) /\ (k > task[c].chunk => Clean(m, k))
                      /\ Clean(m, task[c].chunk)
  BY <1>0 DEF AllTold, Told, Unasked, At
<1>5. \A k \in 1 .. Chunks[m] : (Single(m, k) => Single(m, k)') /\ (Clean(m, k) => Clean(m, k)')
  BY <1>2 DEF Single, Clean, Shows
<1>6. Untainted(m) => /\ \A k \in 1 .. Chunks[m] : Single(m, k)' /\ (k > task[c].chunk => Clean(m, k)')
                      /\ Clean(m, task[c].chunk)
  BY <1>4, <1>5
<1>7. Told(m)'
  <2>1. Told(m) /\ history' = history /\ landing' = landing
    BY <1>2 DEF AllTold
  <2>2. landing' = landing \/ (f.retryable /\ PossiblyDelivered(f))
    BY <2>1
  <2>3. QED
    BY <1>0, <1>1, <1>3, <1>6, <2>1, <2>2, GuardedTold
<1>8. QED
  BY <1>2, <1>3, <1>7, OthersTold DEF AllTold

LEMMA LostTold ==
  ASSUME Basics, AllTold, NEW c \in Caller, Lost(c)
  PROVE  AllTold'
<1>0. PICK m \in Message : m = Msg(c) /\ task[c].pc \in Sending /\ holds[c] = m /\ At(c, "post")
                           /\ task[c].chunk \in 1 .. Chunks[m]
  BY PartIsTyped DEF Lost, At, Sending
<1>k. PICK k \in 1 .. Chunks[m] : k = task[c].chunk
  BY <1>0
<1>1. /\ Guarded(c, Transport) /\ landing' = [landing EXCEPT ![m][k] = landing[m][k] + 1]
      /\ UNCHANGED <<history, taken, torn>> /\ doubted \subseteq doubted'
  BY <1>0, <1>k DEF Lost, Guarded, Doubted
<1>2. Transport.retryable /\ PossiblyDelivered(Transport)
  BY DEF Transport, Failure, Retryable, PossiblyDelivered
<1>3. Local(c, m) /\ Tainting
  BY <1>0, <1>1, GuardedLocally DEF Tainting
<1>4. /\ landing'[m][k] = landing[m][k] + 1
      /\ \A d \in Message : \A j \in 1 .. Chunks[d] : d # m \/ j # k => landing'[d][j] = landing[d][j]
  <2>1. landing[m][k] + 1 \in Nat
    <3>1. landing[m] \in [1 .. Chunks[m] -> Nat]
      BY DEF Basics, Typed
    <3>2. landing[m][k] \in Nat
      BY <1>0, <3>1
    <3>3. QED
      BY <3>2
  <2>2. PICK x \in Nat : x = landing[m][k] + 1
    BY <2>1
  <2>3. Lays(m, k, x) /\ Typed
    BY <1>1, <2>2 DEF Basics, Lays
  <2>4. /\ landing'[m][k] = x
        /\ \A d \in Message : \A j \in 1 .. Chunks[d] :
             d # m \/ j # k => landing'[d][j] = landing[d][j]
    BY <2>3, LandingChanges
  <2>5. QED
    BY <2>2, <2>4
<1>5. Untainted(m) => /\ \A j \in 1 .. Chunks[m] : Single(m, j) /\ (j > k => Clean(m, j))
                      /\ Clean(m, k)
  BY <1>0, <1>k DEF AllTold, Told, Unasked, At
<1>6. Untainted(m) => \A j \in 1 .. Chunks[m] : Single(m, j)' /\ (j > k => Clean(m, j)')
  <2> SUFFICES ASSUME Untainted(m), NEW j \in 1 .. Chunks[m]
               PROVE  Single(m, j)' /\ (j > k => Clean(m, j)')
    OBVIOUS
  <2>1. CASE j = k
    <3>1. landing'[m][j] = 1 /\ \A n \in DOMAIN history : ~Shows(n, m, j)
      BY <1>4, <1>5, <2>1 DEF Clean
    <3>2. QED
      BY <1>0, <1>1, <2>1, <3>1 DEF Single, Shows
  <2>2. CASE j # k
    BY <1>1, <1>4, <1>5, <2>2 DEF Single, Clean, Shows
  <2>3. QED
    BY <2>1, <2>2
<1>7. Told(m)'
  <2>1. Told(m) /\ history' = history
    BY <1>1 DEF AllTold
  <2>2. Untainted(m) => /\ \A j \in 1 .. Chunks[m] : Single(m, j)' /\ (j > task[c].chunk => Clean(m, j)')
                        /\ Clean(m, task[c].chunk)
    BY <1>k, <1>5, <1>6
  <2>3. QED
    BY <1>0, <1>1, <1>2, <1>3, <2>1, <2>2, GuardedTold
<1>8. ASSUME NEW d \in Message, d # m PROVE Told(d)'
  <2>1. Unmoved(d)
    BY <1>1, <1>4, <1>8 DEF Unmoved, Shows
  <2>2. QED
    BY <1>1, <1>3, <1>8, <2>1, BystandersKeep DEF AllTold, Local
<1>9. QED
  BY <1>7, <1>8 DEF AllTold

\* What a check may adopt is its own message's, unless it has a twin.
LEMMA CopiesAreOwn ==
  ASSUME Basics, NEW c \in Caller, At(c, "check"), NEW n \in DOMAIN history
  PROVE  /\ n \in Copies(c) => \A d \in Message : Twins(d) = {d} /\ Shows(n, d, 1) => d = Msg(c)
         /\ Shows(n, Msg(c), 1) /\ n \notin task[c].old /\ n \notin taken => n \in Copies(c)
<1>1. Signature(c) = Text[Msg(c)] /\ Text[Msg(c)] # NoText /\ Msg(c) \in Message
  BY PartIsTyped DEF Basics, Sized, Signature, At, Sending
<1>2. ASSUME n \in Copies(c), NEW d \in Message, Twins(d) = {d}, Shows(n, d, 1) PROVE d = Msg(c)
  <2>1. Text[d] = Text[Msg(c)]
    BY <1>1, <1>2 DEF Copies, SignatureOf, Shows
  <2>2. Msg(c) \in Twins(d)
    BY <1>1, <2>1 DEF Twins
  <2>3. QED
    BY <1>2, <2>2
<1>3. Shows(n, Msg(c), 1) => SignatureOf(n) = Signature(c)
  BY <1>1 DEF SignatureOf, Shows
<1>4. QED
  BY <1>2, <1>3 DEF Copies

LEMMA ChecksTold ==
  ASSUME Basics, AllTold, NEW c \in Caller,
         Adopts(c) \/ ChecksAgain(c) \/ Absent(c) \/ HistoryFails(c)
  PROVE  AllTold'
<1>0. PICK m \in Message : m = Msg(c) /\ task[c].pc \in Sending /\ holds[c] = m /\ At(c, "check")
                           /\ task[c].chunk = 1 /\ task[c] \in Tasks
  BY PartIsTyped DEF Adopts, ChecksAgain, Absent, HistoryFails, At, Sending, Basics, Sized
<1>1. UNCHANGED <<history, landing, torn>> /\ doubted \subseteq doubted' /\ Tainting
  BY DEF Adopts, ChecksAgain, Absent, HistoryFails, Doubted, upper, Tainting
<1>2. Untainted(m)' => Untainted(m)
  BY <1>1 DEF Untainted
<1>3. Untainted(m) => \A k \in 1 .. Chunks[m] : Single(m, k) /\ (k > 1 => Clean(m, k))
  BY <1>0 DEF AllTold, Told, Unasked
<1>4. \A k \in 1 .. Chunks[m] : (Single(m, k) => Single(m, k)') /\ (Clean(m, k) => Clean(m, k)')
  BY <1>1 DEF Single, Clean, Shows
<1>5. CASE Adopts(c)
  <2>1. PICK n \in DOMAIN history : n \in Copies(c) /\ taken' = taken \cup {n}
    BY <1>5 DEF Adopts, Copies
  <2>2. Continue(c) /\ Local(c, m)
    BY <1>0, <1>5, ContinuesLocally DEF Adopts
  <2>3. Told(m)'
    BY <1>0, <1>1, <1>2, <1>3, <1>4, <2>2, ContinueTold
  <2>4. ASSUME NEW d \in Message, d # m PROVE Told(d)'
    <3>1. Unmoved(d)
      BY <1>1 DEF Unmoved, Shows
    <3>2. Untainted(d) => \A i \in DOMAIN history : Shows(i, d, 1) /\ i \in taken' => i \in taken
      BY <1>0, <2>1, <2>4, CopiesAreOwn DEF Untainted
    <3>3. QED
      BY <1>1, <2>2, <2>4, <3>1, <3>2, BystandersKeep DEF AllTold, Local
  <2>5. QED
    BY <2>3, <2>4 DEF AllTold
<1>6. CASE ChecksAgain(c)
  <2> DEFINE t == [task[c] EXCEPT !.check = @ + 1]
  <2>1. Set(c, t) /\ UNCHANGED <<ledger, taken>>
    BY <1>6 DEF ChecksAgain, upper
  <2>2. /\ task'[c].pc = "check" /\ task'[c].chunk = 1 /\ task'[c].old = task[c].old
        /\ holds' = holds
    BY <1>0, <2>1 DEF Set, Tasks, Basics, Typed, At, ledger
  <2>3. Local(c, m)
    BY <1>0, <2>1, MovesLocally
  <2>4. Untainted(m) => \A n \in DOMAIN history' :
          Shows(n, m, 1)' => n \notin task'[c].old /\ n \notin taken'
    BY <1>0, <1>1, <2>1, <2>2 DEF AllTold, Told, Shows
  <2>5. Told(m)'
    BY <1>0, <1>2, <1>3, <1>4, <2>2, <2>4, GoesOnTold DEF Unasked, At
  <2>6. QED
    BY <1>1, <2>1, <2>3, <2>5, OthersTold DEF AllTold
<1>7. CASE Absent(c)
  <2>1. /\ ChunkFails(c, task[c].error) /\ Copies(c) = {} /\ landing[m][1] = 0
        /\ taken' = taken
    BY <1>0, <1>7 DEF Absent
  <2>2. Untainted(m) => Clean(m, 1)
    <3> SUFFICES ASSUME Untainted(m), NEW n \in DOMAIN history, Shows(n, m, 1) PROVE FALSE
      BY <2>1 DEF Clean
    <3>1. n \notin task[c].old /\ n \notin taken
      BY <1>0 DEF AllTold, Told
    <3>2. n \in Copies(c)
      BY <1>0, <3>1, CopiesAreOwn
    <3>3. QED
      BY <2>1, <3>2
  <2>3. Local(c, m)
    BY <1>0, <2>1, ChunkFailsLocally
  <2>4. Told(m)'
    BY <1>0, <1>1, <1>2, <2>1, <2>2, ChunkFailsTold DEF AllTold
  <2>5. QED
    BY <1>1, <2>1, <2>3, <2>4, OthersTold DEF AllTold
<1>8. CASE HistoryFails(c)
  <2>1. ChunkFails(c, Doubt) /\ doubted' = doubted \cup {<<m, task[c].chunk>>} /\ taken' = taken
    BY <1>0, <1>8 DEF HistoryFails, Doubted, Part
  <2>2. Told(m)'
    <3>1. <<m, task[c].chunk>> \in doubted' /\ <<m, task[c].chunk>>[1] = m
      BY <2>1
    <3>2. QED
      BY <3>1 DEF Told, Untainted
  <2>3. Local(c, m)
    BY <1>0, <2>1, ChunkFailsLocally
  <2>4. QED
    BY <1>1, <2>1, <2>2, <2>3, OthersTold DEF AllTold
<1>9. QED
  BY <1>5, <1>6, <1>7, <1>8

LEMMA LandsTold ==
  ASSUME Basics, AllTold, NEW m \in Message, NEW k \in 1 .. Chunks[m], Lands(m, k)
  PROVE  AllTold'
<1>0. /\ history' = Shown(<<m, k>>) /\ UNCHANGED <<task, taken, row, holds, torn, doubted>>
      /\ landing' = [landing EXCEPT ![m][k] = landing[m][k] - 1] /\ landing[m][k] > 0
  BY DEF Lands, client, ledger, upper
<1>1. /\ landing'[m][k] = landing[m][k] - 1
      /\ \A d \in Message : \A j \in 1 .. Chunks[d] : d # m \/ j # k => landing'[d][j] = landing[d][j]
  <2>1. landing[m][k] \in Nat
    <3>1. landing[m] \in [1 .. Chunks[m] -> Nat]
      BY DEF Basics, Typed
    <3>2. QED
      BY <3>1
  <2>2. PICK x \in Nat : x = landing[m][k] - 1
    BY <1>0, <2>1
  <2>3. Lays(m, k, x) /\ Typed
    BY <1>0, <2>2 DEF Basics, Lays
  <2>4. /\ landing'[m][k] = x
        /\ \A d \in Message : \A j \in 1 .. Chunks[d] :
             d # m \/ j # k => landing'[d][j] = landing[d][j]
    BY <2>3, LandingChanges
  <2>5. QED
    BY <2>2, <2>4
<1>2. ASSUME NEW d \in Message, NEW j \in 1 .. Chunks[d], d # m \/ j # k
      PROVE  (Single(d, j) => Single(d, j)') /\ (Clean(d, j) => Clean(d, j)')
  <2>1. /\ \A n \in DOMAIN history : Shows(n, d, j)' <=> Shows(n, d, j)
        /\ \A n \in DOMAIN history' : Shows(n, d, j)' => n \in DOMAIN history
    BY <1>0, <1>2, ShownTells
  <2>2. QED
    BY <1>1, <1>2, <2>1 DEF Single, Clean
<1>3. Single(m, k) => Single(m, k)' /\ ~Clean(m, k)
  <2> SUFFICES ASSUME Single(m, k) PROVE Single(m, k)' /\ ~Clean(m, k)
    OBVIOUS
  <2>1. landing[m][k] = 1 /\ \A n \in DOMAIN history : ~Shows(n, m, k)
    BY <1>0 DEF Single
  <2>2. landing'[m][k] = 0 /\ \A n \in DOMAIN history' : Shows(n, m, k)' => n = Len(history) + 1
    BY <1>0, <1>1, <2>1, ShownTells
  <2>3. QED
    BY <2>1, <2>2 DEF Single, Clean
<1>4. ASSUME NEW d \in Message PROVE Told(d)'
  <2> SUFFICES ASSUME Untainted(d)' PROVE Told(d)'
    BY DEF Told
  <2>1. Untainted(d) /\ Told(d)
    BY <1>0 DEF Untainted, AllTold
  <2>2. \A j \in 1 .. Chunks[d] : Single(d, j)' /\ (Clean(d, j) => Clean(d, j)')
    BY <1>2, <1>3, <2>1 DEF Told
  <2>3. ~Done(d)' /\ (\A e \in Caller : holds'[e] # d) => \A j \in 1 .. Chunks[d] : Clean(d, j)'
    BY <1>0, <2>1, <2>2 DEF Told, Done
  <2>4. ASSUME NEW e \in Caller, holds'[e] = d
        PROVE  \A j \in 1 .. Chunks[d] : Unasked(e, j)' => Clean(d, j)'
    BY <1>0, <2>1, <2>2, <2>4 DEF Told, Unasked, At
  <2>5. ASSUME NEW e \in Caller, holds'[e] = d, At(e, "check")', NEW n \in DOMAIN history',
               Shows(n, d, 1)'
        PROVE  n \notin task'[e].old /\ n \notin taken'
    <3>1. task'[e] = task[e] /\ holds[e] = d /\ At(e, "check") /\ 1 \in 1 .. Chunks[d]
          /\ task[e].old \subseteq DOMAIN history /\ taken \subseteq DOMAIN history
      BY <1>0, <2>5, Constants DEF At, Basics, Sized
    <3>2. CASE n \in DOMAIN history
      BY <1>0, <2>1, <2>5, <3>1, <3>2, ShownTells DEF Told
    <3>3. CASE n \notin DOMAIN history
      BY <1>0, <3>1, <3>3
    <3>4. QED
      BY <3>2, <3>3
  <2>6. QED
    BY <2>2, <2>3, <2>4, <2>5 DEF Told
<1>5. QED
  BY <1>4 DEF AllTold

\* A step that neither sends nor shows, nor opens a settled row.
LEMMA QuietTold ==
  ASSUME Basics, AllTold, Tainting, UNCHANGED <<task, holds, taken>>,
         \A m \in Message : Unmoved(m) /\ (Done(m) => Done(m)')
  PROVE  AllTold'
<1> SUFFICES ASSUME NEW m \in Message, Untainted(m)' PROVE Told(m)'
  BY DEF AllTold, Told
<1>1. Untainted(m) /\ Told(m)
  BY DEF Untainted, Tainting, AllTold
<1>2. \A k \in 1 .. Chunks[m] : (Clean(m, k) => Clean(m, k)') /\ (Single(m, k) => Single(m, k)')
  BY UnmovedKeeps
<1>3. \A n \in DOMAIN history' : Shows(n, m, 1)' => n \in DOMAIN history /\ Shows(n, m, 1)
  <2>1. 1 \in 1 .. Chunks[m]
    BY Constants
  <2>2. QED
    BY <2>1 DEF Unmoved
<1>4. ~Done(m)' /\ (\A c \in Caller : holds'[c] # m) => \A k \in 1 .. Chunks[m] : Clean(m, k)'
  BY <1>1, <1>2 DEF Told
<1>5. ASSUME NEW c \in Caller, holds'[c] = m
      PROVE  /\ \A k \in 1 .. Chunks[m] : Unasked(c, k)' => Clean(m, k)'
             /\ At(c, "check")' => \A n \in DOMAIN history' :
                  Shows(n, m, 1)' => n \notin task'[c].old /\ n \notin taken'
  BY <1>1, <1>2, <1>3, <1>5 DEF Told, Unasked, At
<1>6. QED
  BY <1>1, <1>2, <1>4, <1>5 DEF Told

\* A restart taints what was being sent; what is left has no sender.
LEMMA RestartTold ==
  ASSUME Basics, AllTold, Restart
  PROVE  AllTold'
<1> SUFFICES ASSUME NEW m \in Message, Untainted(m)' PROVE Told(m)'
  BY DEF AllTold, Told
<1>1. /\ torn' = torn \cup {Msg(c) : c \in {d \in Caller : ~At(d, "idle") /\ ~At(d, "probe")}}
      /\ holds' = [c \in Caller |-> NoKey]
      /\ UNCHANGED <<row, history, landing, doubted>>
  BY DEF Restart, Abandon
<1>2. Untainted(m) /\ Told(m)
  BY <1>1 DEF Untainted, AllTold
<1>3. ASSUME NEW c \in Caller PROVE holds[c] # m /\ holds'[c] # m
  <2>1. holds'[c] # m
    BY <1>1, Constants
  <2>2. CASE task[c].pc \in Sending
    <3>1. holds[c] = Msg(c) /\ ~At(c, "idle") /\ ~At(c, "probe")
      BY <2>2 DEF Basics, Owned, Sending, At
    <3>2. Msg(c) \in torn'
      BY <1>1, <3>1
    <3>3. QED
      BY <2>1, <3>1, <3>2 DEF Untainted
  <2>3. CASE task[c].pc \notin Sending
    BY <2>1, <2>3, Constants DEF Basics, Owned
  <2>4. QED
    BY <2>2, <2>3
<1>4. \A k \in 1 .. Chunks[m] : (Clean(m, k) <=> Clean(m, k)') /\ (Single(m, k) <=> Single(m, k)')
  BY <1>1 DEF Clean, Single, Shows
<1>5. Done(m)' <=> Done(m)
  BY <1>1 DEF Done
<1>6. QED
  BY <1>2, <1>3, <1>4, <1>5 DEF Told

LEMMA OthersAreTold ==
  ASSUME Basics, AllTold,
         \/ \E m \in Message : \E k \in 1 .. Chunks[m] : Lands(m, k)
         \/ \E m \in Message : VerifyReads(m) \/ Ages(m)
         \/ BridgeEvent \/ VerifyWrites \/ Restart \/ Tick \/ UNCHANGED vars
  PROVE  AllTold'
<1>1. ASSUME UNCHANGED <<history, landing, task, taken, holds, torn, doubted>>,
             \A m \in Message : Done(m) => Done(m)'
      PROVE  AllTold'
  <2>1. Tainting /\ \A m \in Message : Unmoved(m)
    BY <1>1 DEF Tainting, Unmoved, Shows
  <2>2. QED
    BY <1>1, <2>1, QuietTold
<1>2. CASE BridgeEvent \/ UNCHANGED vars \/ \E m \in Message : VerifyReads(m)
  BY <1>1, <1>2 DEF BridgeEvent, VerifyReads, vars, client, ledger, upper, Done
<1>3. ASSUME NEW m \in Message, Ages(m) PROVE AllTold'
  <2>1. /\ row' = [row EXCEPT ![m].stale = TRUE]
        /\ UNCHANGED <<history, landing, task, taken, holds, torn, doubted>>
    BY <1>3 DEF Ages, Age, client, upper
  <2>2. \A d \in Message : row'[d].status = row[d].status
    BY <2>1 DEF Basics, Typed
  <2>3. QED
    BY <1>1, <2>1, <2>2 DEF Done
<1>4. CASE VerifyWrites
  <2>1. PICK m \in Message : m = verify.message /\ verify.status = row[m].status
    BY <1>4 DEF VerifyWrites, Basics, Receipted
  <2>2. /\ row' = [row EXCEPT ![m].status = row[m].status, ![m].stale = FALSE]
        /\ UNCHANGED <<history, landing, task, taken, holds, torn, doubted>>
    BY <1>4, <2>1 DEF VerifyWrites, client
  <2>3. \A d \in Message : row'[d].status = row[d].status
    BY <2>2 DEF Basics, Typed
  <2>4. QED
    BY <1>1, <2>2, <2>3 DEF Done
<1>5. CASE Tick
  <2>1. /\ Later1 /\ UNCHANGED <<landing, task, taken, row, holds, torn, doubted>>
    BY <1>5, TickAges DEF Tick, ledger, upper
  <2>2. Tainting /\ \A m \in Message : Unmoved(m) /\ (Done(m) => Done(m)')
    BY <2>1 DEF Tainting, Unmoved, Shows, Later1, Done
  <2>3. QED
    BY <2>1, <2>2, QuietTold
<1>6. QED
  BY <1>2, <1>3, <1>4, <1>5, LandsTold, RestartTold

\* What is told of every message, step by step.
Story == Basics /\ AllTold

LEMMA StoryGoesOn == Story /\ [Next]_vars => Story'
<1> SUFFICES ASSUME Basics, AllTold, [Next]_vars PROVE Basics' /\ AllTold'
  BY DEF Story
<1>1. ASSUME NEW c \in Caller, Settles(c) PROVE AllTold'
  BY <1>1, EntersTold, BuildsTold, AnsweredTold, RefusedTold, LostTold, ChecksTold DEF Settles
<1>2. ASSUME NEW c \in Caller, NEW m \in Message, Send(c, m) \/ Probe(c, m) PROVE AllTold'
  BY <1>2, EntersTold
<1>3. QED
  BY <1>1, <1>2, OthersAreTold, BasicsHold DEF Next

LEMMA StoryBegins == Init => Story
<1> SUFFICES ASSUME Init PROVE Story
  OBVIOUS
<1>1. /\ landing = [m \in Message |-> [k \in 1 .. Chunks[m] |-> 0]] /\ history = <<>>
      /\ holds = [c \in Caller |-> NoKey]
  BY DEF Init, LedgerInit
<1>2. \A m \in Message : \A k \in 1 .. Chunks[m] : Clean(m, k) /\ Single(m, k)
  BY <1>1 DEF Clean, Single
<1>3. \A c \in Caller : holds[c] \notin Message
  BY <1>1, Constants
<1>4. AllTold
  BY <1>2, <1>3 DEF AllTold, Told
<1>5. QED
  BY <1>4, BasicsAtFirst DEF Story

LEMMA StoryIsTold == Spec => []Story
  BY StoryBegins, StoryGoesOn, PTL DEF Spec

\* A chunk that no restart cut off and no doubt left open appears in the chat
\* once, whatever the bridge takes without an answer and whoever else sends,
\* for any number of messages, senders and faults (sendGuarded asks the
\* bridge before any second request).
THEOREM NoPartAppearsTwice == Spec => []NothingAppearsTwice
<1>1. Story => NothingAppearsTwice
  <2> SUFFICES ASSUME Story, NEW m \in Message, Twins(m) = {m}, NEW k \in 1 .. Chunks[m],
                      m \notin torn, \A p \in doubted : p[1] # m
               PROVE  CopiesOf(m, k) <= 1
    BY DEF NothingAppearsTwice
  <2> DEFINE S == {n \in DOMAIN history : history[n].message = m /\ history[n].chunk = k}
  <2>1. \A i, j \in S : i = j
    BY DEF Story, AllTold, Told, Untainted, Single, Shows
  <2>2. CASE S = {}
    <3>1. Cardinality(S) = 0
      BY <2>2, FS_EmptySet
    <3>2. QED
      BY <3>1 DEF CopiesOf
  <2>3. CASE S # {}
    <3>1. PICK n : n \in S
      BY <2>3
    <3>2. S = {n}
      BY <2>1, <3>1
    <3>3. Cardinality(S) = 1
      BY <3>2, FS_Singleton
    <3>4. QED
      BY <3>3 DEF CopiesOf
  <2>4. QED
    BY <2>2, <2>3
<1>2. QED
  BY <1>1, StoryIsTold, PTL

-----------------------------------------------------------------------------
(* The circuit and its row.                                                *)

\* The row has what decides; only the time of the last probe may be behind.
SameCircuit == kept.state = health.state /\ kept.shut = health.shut

\* The shape of a snapshot, whatever the values in it.
Shape(S) == [state : S, shut : S, failures : S, probed : S]
Snap(h) == \E S : h \in Shape(S)

Mirrored == Snap(health) /\ Snap(kept) /\ SameCircuit

LEMMA Snaps == ASSUME NEW S, NEW h \in Shape(S) PROVE Snap(h)
  BY DEF Snap

LEMMA ShapesStay ==
  ASSUME NEW h, Snap(h), NEW s, NEW x, NEW n, NEW p
  PROVE  /\ Snap([h EXCEPT !.probed = p])
         /\ Snap([h EXCEPT !.failures = n])
         /\ Snap([h EXCEPT !.shut = x, !.probed = p])
         /\ Snap([h EXCEPT !.state = s, !.shut = x, !.failures = n])
<1>0. PICK S : h \in Shape(S)
  BY DEF Snap
<1>1. /\ [h EXCEPT !.probed = p] \in Shape(S \cup {p})
      /\ [h EXCEPT !.failures = n] \in Shape(S \cup {n})
      /\ [h EXCEPT !.shut = x, !.probed = p] \in Shape(S \cup {x, p})
      /\ [h EXCEPT !.state = s, !.shut = x, !.failures = n] \in Shape(S \cup {s, x, n})
  BY <1>0 DEF Shape
<1>2. Snap([h EXCEPT !.probed = p])
  BY <1>1, Snaps
<1>3. Snap([h EXCEPT !.failures = n])
  BY <1>1, Snaps
<1>4. Snap([h EXCEPT !.shut = x, !.probed = p])
  BY <1>1, Snaps
<1>5. Snap([h EXCEPT !.state = s, !.shut = x, !.failures = n])
  BY <1>1, Snaps
<1>6. QED
  BY <1>2, <1>3, <1>4, <1>5

LEMMA SnapshotsStay ==
  ASSUME NEW h, Snap(h)
  PROVE  /\ Snap(Probing(h)) /\ Probing(h).state = h.state /\ Probing(h).shut = h.shut
         /\ Snap(Recovered(h))
         /\ \A kind, class, cools : Snap(Failed(h, kind, class, cools))
         /\ Snap(Later(h)) /\ Later(h).state = h.state
         /\ Later(h).shut = IF h.shut > 0 THEN h.shut - 1 ELSE 0
<1>0. PICK S : h \in Shape(S)
  BY DEF Snap
<1>1. Snap(Probing(h)) /\ Probing(h).state = h.state /\ Probing(h).shut = h.shut
  <2>1. Snap(Probing(h))
    BY ShapesStay DEF Probing
  <2>2. QED
    BY <1>0, <2>1 DEF Probing, Shape
<1>2. Snap(Recovered(h))
  BY ShapesStay DEF Recovered
<1>3. ASSUME NEW kind, NEW class, NEW cools PROVE Snap(Failed(h, kind, class, cools))
  <2> DEFINE n == Least(h.failures + 1, MaxFailures)
  <2> DEFINE time == Greatest(IF cools THEN PolicyCooldown ELSE 0, Escalated(n))
  <2>1. Failed(h, kind, class, cools) = IF Opens(kind, class)
           THEN [h EXCEPT !.state = "down", !.shut = time, !.failures = n]
           ELSE [h EXCEPT !.failures = n]
    BY DEF Failed
  <2> HIDE DEF n, time
  <2>2. /\ Snap([h EXCEPT !.state = "down", !.shut = time, !.failures = n])
        /\ Snap([h EXCEPT !.failures = n])
    BY ShapesStay
  <2>3. QED
    BY <2>1, <2>2
<1>4. /\ Snap(Later(h)) /\ Later(h).state = h.state
      /\ Later(h).shut = IF h.shut > 0 THEN h.shut - 1 ELSE 0
  <2> DEFINE x == IF h.shut > 0 THEN h.shut - 1 ELSE 0
  <2> DEFINE p == Least(h.probed + 1, ProbeInterval)
  <2>1. Later(h) = [h EXCEPT !.shut = x, !.probed = p]
    BY DEF Later
  <2> HIDE DEF x, p
  <2>2. Snap(Later(h))
    <3>1. Snap([h EXCEPT !.shut = x, !.probed = p])
      BY ShapesStay
    <3>2. QED
      BY <2>1, <3>1
  <2>3. Later(h).state = h.state /\ Later(h).shut = x
    BY <1>0, <2>1 DEF Shape
  <2>4. QED
    BY <2>2, <2>3 DEF x
<1>5. QED
  BY <1>1, <1>2, <1>3, <1>4

LEMMA RecordMirrors ==
  ASSUME NEW h, Snap(h), Record(h)
  PROVE  Mirrored'
  BY DEF Record, Mirrored, Snap, SameCircuit

LEMMA FailsMirrors ==
  ASSUME Mirrored, NEW c, NEW f, Fails(c, f)
  PROVE  Mirrored'
  BY SnapshotsStay, RecordMirrors DEF Fails, Mirrored

LEMMA StandsMirrors ==
  ASSUME Mirrored, UNCHANGED <<health, kept>>
  PROVE  Mirrored'
  BY DEF Mirrored, Snap, SameCircuit

LEMMA ChunkFailsMirrors ==
  ASSUME Mirrored, NEW c, NEW f, ChunkFails(c, f)
  PROVE  Mirrored'
  BY FailsMirrors, StandsMirrors DEF ChunkFails

LEMMA ContinueMirrors ==
  ASSUME Mirrored, NEW c, Continue(c)
  PROVE  Mirrored'
  BY SnapshotsStay, RecordMirrors, StandsMirrors DEF Continue, Mirrored

LEMMA GuardedMirrors ==
  ASSUME Mirrored, NEW c, NEW f, Guarded(c, f)
  PROVE  Mirrored'
  BY ChunkFailsMirrors, StandsMirrors DEF Guarded, Doubted

LEMMA MirroredStays == Mirrored /\ [Next]_vars => Mirrored'
<1> SUFFICES ASSUME Mirrored, [Next]_vars PROVE Mirrored'
  OBVIOUS
<1>1. ASSUME NEW c \in Caller, NEW m \in Message, Send(c, m) \/ Probe(c, m) PROVE Mirrored'
  <2>1. CASE Send(c, m)
    BY <2>1, StandsMirrors DEF Send
  <2>2. CASE Probe(c, m)
    <3>1. health' = Probing(health) /\ kept' = kept
      BY <2>2 DEF Probe
    <3>2. Snap(health') /\ health'.state = health.state /\ health'.shut = health.shut
      BY <3>1, SnapshotsStay DEF Mirrored
    <3>3. QED
      BY <3>1, <3>2 DEF Mirrored, Snap, SameCircuit
  <2>3. QED
    BY <1>1, <2>1, <2>2
<1>2. ASSUME NEW c \in Caller, Settles(c) PROVE Mirrored'
  <2>1. CASE ProbeGood(c) \/ ProbeBad(c)
    BY <2>1, SnapshotsStay, RecordMirrors DEF ProbeGood, ProbeBad, Mirrored
  <2>2. CASE Asks(c) \/ Builds(c) \/ ChecksAgain(c)
    BY <2>2, StandsMirrors DEF Asks, Builds, ChecksAgain
  <2>3. CASE BuildFails(c)
    BY <2>3, FailsMirrors DEF BuildFails
  <2>4. CASE Answered(c) \/ Adopts(c)
    BY <2>4, ContinueMirrors DEF Answered, Adopts
  <2>5. CASE Refused(c) \/ Lost(c)
    BY <2>5, GuardedMirrors DEF Refused, Lost
  <2>6. CASE Absent(c) \/ HistoryFails(c)
    BY <2>6, ChunkFailsMirrors DEF Absent, HistoryFails, Doubted
  <2>7. QED
    BY <1>2, <2>1, <2>2, <2>3, <2>4, <2>5, <2>6 DEF Settles
<1>3. CASE BridgeEvent
  BY <1>3, SnapshotsStay, RecordMirrors DEF BridgeEvent, Mirrored
<1>4. CASE Restart
  BY <1>4 DEF Restart, Mirrored, Snap, SameCircuit
<1>5. CASE Tick
  <2>1. health' = Later(health) /\ kept' = Later(kept)
    BY <1>5 DEF Tick
  <2>2. /\ Snap(Later(health)) /\ Snap(Later(kept))
        /\ Later(health).state = Later(kept).state /\ Later(health).shut = Later(kept).shut
    BY SnapshotsStay DEF Mirrored, SameCircuit
  <2>3. QED
    BY <2>1, <2>2 DEF Mirrored, Snap, SameCircuit
<1>6. ASSUME NEW m \in Message,
             (\E k \in 1 .. Chunks[m] : Lands(m, k)) \/ VerifyReads(m) \/ Ages(m)
      PROVE  Mirrored'
  BY <1>6, StandsMirrors DEF Lands, VerifyReads, Ages, client
<1>7. CASE VerifyWrites \/ UNCHANGED vars
  BY <1>7, StandsMirrors DEF VerifyWrites, vars, client
<1>8. QED
  BY <1>1, <1>2, <1>3, <1>4, <1>5, <1>6, <1>7 DEF Next

\* A restart neither opens the gate of a target nor shuts it: what the store
\* holds decides as the living board does, whichever sends, probes and events
\* of the bridge have moved it (QqHealthBoard persists every transition).
THEOREM CircuitSurvivesRestarts == Spec => []RestartKeepsCircuit
<1>1. Init => Mirrored
  <2>1. Snap(Healthy)
    <3>1. Healthy \in Shape({"ok", 0, ProbeInterval})
      BY DEF Healthy, Shape
    <3>2. QED
      BY <3>1 DEF Snap
  <2>2. QED
    BY <2>1 DEF Init, Mirrored, SameCircuit
<1>2. Mirrored => RestartKeepsCircuit
  BY DEF Mirrored, SameCircuit, RestartKeepsCircuit, Allowed
<1>3. QED
  BY <1>1, <1>2, MirroredStays, PTL DEF Spec

-----------------------------------------------------------------------------
(* The ledger under the sends.                                             *)

\* What is settled is never stale, so that writing a receipt back, which makes
\* the row fresh, changes nothing of it.
OnlySendingAges == \A m \in Message : row[m].stale => row[m].status = "sending"

LEMMA FailsOnTheLedger ==
  ASSUME NEW c \in Caller, NEW f, Fails(c, f) \/ ChunkFails(c, f)
  PROVE  LedgerNext \/ UNCHANGED ledger
<1>1. CASE Fails(c, f)
  <2>1. /\ Mark(c, IF task[c].ids THEN "partial" ELSE "failed")
        /\ (IF task[c].ids THEN "partial" ELSE "failed") \in Outcome
    BY <1>1 DEF Fails, Outcome, TerminalStatus
  <2>2. QED
    BY <2>1 DEF LedgerNext
<1>2. CASE ~Fails(c, f)
  BY <1>2 DEF ChunkFails
<1>3. QED
  BY <1>1, <1>2

LEMMA ContinueOnTheLedger ==
  ASSUME NEW c \in Caller, Continue(c)
  PROVE  LedgerNext \/ UNCHANGED ledger
<1>1. CASE Mark(c, "sent")
  BY <1>1 DEF LedgerNext, Outcome, TerminalStatus
<1>2. CASE UNCHANGED ledger
  BY <1>2
<1>3. QED
  BY <1>1, <1>2 DEF Continue

LEMMA EnterOnTheLedger ==
  ASSUME NEW c \in Caller, NEW m \in Message, Enter(c, m)
  PROVE  LedgerNext \/ UNCHANGED ledger
<1>1. CASE Claimed(c, m)
  BY <1>1, Constants DEF Claimed, LedgerNext
<1>2. CASE ClaimSettled(c, m) \/ ClaimDenied(c, m)
  BY <1>2 DEF ClaimSettled, ClaimDenied
<1>3. QED
  BY <1>1, <1>2 DEF Enter

LEMMA SettlesOnTheLedger ==
  ASSUME Basics, NEW c \in Caller, Settles(c)
  PROVE  LedgerNext \/ UNCHANGED ledger
<1>1. CASE ProbeGood(c) \/ ProbeBad(c)
  <2>1. Pass(c) /\ Msg(c) \in Message
    BY <1>1 DEF ProbeGood, ProbeBad, Basics, Sized
  <2>2. QED
    BY <2>1, EnterOnTheLedger DEF Pass
<1>2. CASE Asks(c) \/ Builds(c) \/ ChecksAgain(c)
  BY <1>2 DEF Asks, Builds, ChecksAgain
<1>3. CASE BuildFails(c)
  BY <1>3, FailsOnTheLedger DEF BuildFails
<1>4. CASE Answered(c) \/ Adopts(c)
  BY <1>4, ContinueOnTheLedger DEF Answered, Adopts
<1>5. CASE Refused(c) \/ Lost(c)
  BY <1>5, FailsOnTheLedger DEF Refused, Lost, Guarded, Doubted
<1>6. CASE Absent(c) \/ HistoryFails(c)
  BY <1>6, FailsOnTheLedger DEF Absent, HistoryFails, Doubted
<1>7. QED
  BY <1>1, <1>2, <1>3, <1>4, <1>5, <1>6 DEF Settles

\* A receipt is written back to a settled row: it says so already, and is fresh.
LEMMA WrittenBackIsThere ==
  ASSUME Basics, OnlySendingAges, VerifyWrites
  PROVE  UNCHANGED ledger
<1> DEFINE m == verify.message
<1> DEFINE R == [status : Outcome \cup {"none", "sending"}, attempts : Nat, stale : BOOLEAN]
<1>1. /\ m \in Message /\ Done(m) /\ verify.status = row[m].status
      /\ row' = [row EXCEPT ![m].status = verify.status, ![m].stale = FALSE]
      /\ holds' = holds /\ row \in [Message -> R]
  BY DEF VerifyWrites, Basics, Receipted, Typed
<1>2. row[m] \in R /\ row[m].stale = FALSE
  BY <1>1 DEF OnlySendingAges, Done, TerminalStatus
<1> HIDE DEF m
<1>3. row' = [row EXCEPT ![m] = [row[m] EXCEPT !.status = row[m].status, !.stale = FALSE]]
  BY <1>1
<1>4. [row[m] EXCEPT !.status = row[m].status, !.stale = FALSE] = row[m]
  BY <1>2
<1>5. row' = row
  BY <1>1, <1>3, <1>4
<1>6. QED
  BY <1>1, <1>5 DEF ledger

LEMMA SendsOnTheLedger ==
  ASSUME Basics, OnlySendingAges, [Next]_vars
  PROVE  LedgerNext \/ UNCHANGED ledger
<1>1. ASSUME NEW c \in Caller, NEW m \in Message, Send(c, m) \/ Probe(c, m)
      PROVE  LedgerNext \/ UNCHANGED ledger
  BY <1>1, EnterOnTheLedger DEF Send, Probe
<1>2. ASSUME NEW c \in Caller, Settles(c) PROVE LedgerNext \/ UNCHANGED ledger
  BY <1>2, SettlesOnTheLedger
<1>3. ASSUME NEW m \in Message, Ages(m) PROVE LedgerNext \/ UNCHANGED ledger
  BY <1>3, Constants DEF Ages, LedgerNext
<1>4. ASSUME NEW m \in Message, (\E k \in 1 .. Chunks[m] : Lands(m, k)) \/ VerifyReads(m)
      PROVE  UNCHANGED ledger
  BY <1>4 DEF Lands, VerifyReads
<1>5. CASE BridgeEvent \/ Tick \/ UNCHANGED vars
  BY <1>5 DEF BridgeEvent, Tick, vars
<1>6. CASE Restart
  BY <1>6 DEF Restart, LedgerNext
<1>7. CASE VerifyWrites
  BY <1>7, WrittenBackIsThere
<1>8. QED
  BY <1>1, <1>2, <1>3, <1>4, <1>5, <1>6, <1>7 DEF Next

LEMMA OnlySendingStillAges ==
  ASSUME Basics, OnlySendingAges, LedgerNext \/ UNCHANGED ledger
  PROVE  OnlySendingAges'
<1> USE Constants DEF OnlySendingAges, Basics, Typed
<1>1. ASSUME NEW c \in Caller, NEW k \in RowKey, Claim(c, k) PROVE OnlySendingAges'
  BY <1>1 DEF Claim
<1>2. ASSUME NEW c \in Caller, NEW outcome \in Outcome, Mark(c, outcome) PROVE OnlySendingAges'
  BY <1>2 DEF Mark
<1>3. ASSUME NEW k \in RowKey, Age(k) PROVE OnlySendingAges'
  BY <1>3 DEF Age
<1>4. CASE Abandon \/ UNCHANGED ledger
  BY <1>4 DEF Abandon, ledger
<1>5. QED
  BY <1>1, <1>2, <1>3, <1>4 DEF LedgerNext

\* Sends, second attempts, reconciliations, receipts and restarts of a QQ
\* target touch the ledger by its own operations only: what verifyReceipts
\* writes back after its await, whatever was marked meanwhile, is what the row
\* says.
THEOREM QqSendsUseTheLedger == Spec => LedgerSpec
<1> DEFINE Inv == Basics /\ OnlySendingAges
<1>1. Init => Inv /\ LedgerInit
  BY BasicsAtFirst, Constants DEF Init, LedgerInit, OnlySendingAges
<1>2. Inv /\ [Next]_vars => Inv' /\ [LedgerNext]_ledger
  BY BasicsHold, SendsOnTheLedger, OnlySendingStillAges
<1>3. QED
  <2> HIDE DEF Inv
  <2> QED BY <1>1, <1>2, PTL DEF Spec, LedgerSpec

\* So no two sends of a QQ target hand out the same message at a time, none is
\* tried more often than its budget, restarts included, and a row that is
\* settled stays so, the receipts that are verified later notwithstanding.
THEOREM QqSendsKeepTheLedger == Spec => []OneHolder /\ []BudgetIsKept /\ TerminalIsFinal
BY QqSendsUseTheLedger, ClaimsExclude, BudgetHolds, SettledForGood

=============================================================================
