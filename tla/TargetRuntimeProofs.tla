------------------------- MODULE TargetRuntimeProofs -------------------------
(***************************************************************************)
(* What a QQ target keeps of the articles it took, for any number of       *)
(* articles, flushes, windows, slots, refusals and crashes.                *)
(***************************************************************************)
EXTENDS TargetRuntime, OutboundProofs, FiniteSetTheorems, SequenceTheorems

Working(c) == task[c].pc \in {"call", "sending", "after", "throw"}

\* The message in a caller's hand, and the row it goes by.
Carries(c) ==
  LET t == task[c]
  IN  /\ t.batch # <<>>
      /\ c = Router => t.article \in Article
      /\ \/ /\ t.kind \in {"plain", "digest"} /\ ~Summary /\ c = Router
            /\ t.key = <<"route", Head(t.batch)>>
         \/ /\ t.kind = "first" /\ Summary /\ c = Router /\ t.win \in DOMAIN windows
            /\ t.batch = <<t.article>> /\ t.key = <<"route", Head(t.batch)>>
         \/ /\ t.kind = "card" /\ Summary /\ t.win \in DOMAIN windows
            /\ t.key = <<"card", t.win>>
         \/ /\ t.kind = "items" /\ Summary /\ t.win \in DOMAIN windows
            /\ t.key = <<"item", Head(t.batch)>>

\* A caller holds the row of its message exactly while it sends it.
AtWork(c) ==
  /\ Working(c) => Carries(c)
  /\ holds[c] = IF At(c, "sending") THEN task[c].key ELSE NoKey
  /\ At(c, "after") => Settled(task[c].key)
  /\ At(c, "done") => c = Router /\ task[c].article \in Article

AllAtWork == \A c \in Caller : AtWork(c)

\* Only a summary collects articles in windows.
SummariesCollect == ~Summary => DOMAIN windows = {}

TargetInv == TypeOK /\ LedgerInv /\ AllAtWork /\ SummariesCollect

-----------------------------------------------------------------------------
(* How a step changes the task of its caller.                              *)

Others(c) == \A d \in Caller \ {c} : task'[d] = task[d]

Moves(c, pc) ==
  /\ task'[c].pc = pc
  /\ task'[c].kind = task[c].kind /\ task'[c].article = task[c].article
  /\ task'[c].key = task[c].key /\ task'[c].win = task[c].win
  /\ task'[c].batch = task[c].batch
  /\ Others(c)

Begins(c, article, m) ==
  /\ task'[c].pc = m.pc /\ task'[c].kind = m.kind /\ task'[c].article = article
  /\ task'[c].key = m.key /\ task'[c].win = m.win /\ task'[c].batch = m.batch
  /\ Others(c)

Rests(c) == task'[c] = Idle /\ Others(c)

LEMMA IdleIsATask == Idle \in Task
BY EmptySeq DEF Idle, Task

LEMMA MovesTo ==
  ASSUME task \in [Caller -> Task], NEW c \in Caller,
         NEW pc \in {"idle", "call", "sending", "after", "throw", "done"}, Goto(c, pc)
  PROVE  task' \in [Caller -> Task] /\ Moves(c, pc)
<1> DEFINE t == [task[c] EXCEPT !.pc = pc]
<1>1. task[c] \in Task
  OBVIOUS
<1>2. t \in Task /\ t.pc = pc /\ t.kind = task[c].kind /\ t.article = task[c].article
      /\ t.key = task[c].key /\ t.win = task[c].win /\ t.batch = task[c].batch
  BY <1>1 DEF Task
<1>3. task' = [task EXCEPT ![c] = t]
  BY DEF Goto
<1> HIDE DEF t
<1> QED BY <1>2, <1>3 DEF Moves, Others

LEMMA BeginsWith ==
  ASSUME task \in [Caller -> Task], NEW c \in Caller, NEW article \in Article \cup {NoArticle},
         NEW kind \in {"plain", "digest", "first", "card", "items"}, NEW key \in RowKey,
         NEW win \in Nat, NEW batch \in Seq(Article),
         Call(c, article, Message(kind, key, win, batch))
  PROVE  /\ task' \in [Caller -> Task]
         /\ Begins(c, article, Message(kind, key, win, batch))
<1> DEFINE t == [pc |-> "call", kind |-> kind, article |-> article, key |-> key, win |-> win,
                 batch |-> batch]
<1>1. t \in Task
  BY DEF Task
<1>2. task' = [task EXCEPT ![c] = t]
  BY DEF Call, Message
<1>3. task'[c] = t /\ Others(c)
  BY <1>2 DEF Others
<1>4. Begins(c, article, Message(kind, key, win, batch))
  BY <1>3 DEF Begins, Message
<1> HIDE DEF t
<1> QED BY <1>1, <1>2, <1>4

LEMMA RestsNow ==
  ASSUME task \in [Caller -> Task], NEW c \in Caller, task' = [task EXCEPT ![c] = Idle]
  PROVE  task' \in [Caller -> Task] /\ Rests(c)
BY IdleIsATask DEF Rests, Others

LEMMA EndsWell ==
  ASSUME task \in [Caller -> Task], NEW c \in Caller, End(c)
  PROVE  /\ task' \in [Caller -> Task]
         /\ IF c = Router THEN Moves(c, "done") ELSE Rests(c)
BY MovesTo, RestsNow DEF End

-----------------------------------------------------------------------------
(* The windows: only an open window of the current slot collects.          *)

Grown(ws, vs) ==
  /\ vs \in Seq(Window) /\ Len(ws) <= Len(vs)
  /\ \A n \in DOMAIN ws :
       /\ vs[n].slot = ws[n].slot /\ vs[n].base = ws[n].base /\ vs[n].open = ws[n].open
       /\ Members(ws[n].items) \subseteq Members(vs[n].items)
       /\ ws[n].slot # slot \/ ~ws[n].open => vs[n].items = ws[n].items
  /\ \A n \in DOMAIN vs \ DOMAIN ws : vs[n].slot = slot /\ vs[n].open

LEMMA SeqDomain ==
  ASSUME NEW S, NEW s \in Seq(S)
  PROVE  Len(s) \in Nat /\ DOMAIN s = 1 .. Len(s) /\ \A n \in DOMAIN s : s[n] \in S
BY ElementOfSeq

LEMMA WindowsGrow ==
  ASSUME NEW ws \in Seq(Window), NEW vs, NEW us, Grown(ws, vs), Grown(vs, us)
  PROVE  Grown(ws, us)
<1>1. /\ vs \in Seq(Window) /\ us \in Seq(Window)
      /\ Len(ws) \in Nat /\ Len(vs) \in Nat /\ Len(us) \in Nat
      /\ Len(ws) <= Len(vs) /\ Len(vs) <= Len(us)
      /\ DOMAIN ws = 1 .. Len(ws) /\ DOMAIN vs = 1 .. Len(vs) /\ DOMAIN us = 1 .. Len(us)
  BY SeqDomain DEF Grown
<1>2. DOMAIN ws \subseteq DOMAIN vs /\ DOMAIN vs \subseteq DOMAIN us
  BY <1>1
<1>3. ASSUME NEW n \in DOMAIN ws
      PROVE  /\ us[n].slot = ws[n].slot /\ us[n].base = ws[n].base /\ us[n].open = ws[n].open
             /\ Members(ws[n].items) \subseteq Members(us[n].items)
             /\ ws[n].slot # slot \/ ~ws[n].open => us[n].items = ws[n].items
  <2>1. /\ vs[n].slot = ws[n].slot /\ vs[n].base = ws[n].base /\ vs[n].open = ws[n].open
        /\ Members(ws[n].items) \subseteq Members(vs[n].items)
        /\ ws[n].slot # slot \/ ~ws[n].open => vs[n].items = ws[n].items
    BY DEF Grown
  <2>2. /\ us[n].slot = vs[n].slot /\ us[n].base = vs[n].base /\ us[n].open = vs[n].open
        /\ Members(vs[n].items) \subseteq Members(us[n].items)
        /\ vs[n].slot # slot \/ ~vs[n].open => us[n].items = vs[n].items
    BY <1>2 DEF Grown
  <2> QED BY <2>1, <2>2, ZenonT(30)
<1>4. ASSUME NEW n \in DOMAIN us \ DOMAIN ws PROVE us[n].slot = slot /\ us[n].open
  BY <1>2 DEF Grown
<1>5. Len(ws) <= Len(us)
  BY <1>1
<1> QED BY <1>1, <1>3, <1>4, <1>5, Zenon DEF Grown

LEMMA EnsureWindowGives ==
  ASSUME slot \in Nat, NEW ws \in Seq(Window), NEW e, e = EnsureWindow(ws)
  PROVE  /\ Grown(ws, e.windows) /\ Len(e.windows) <= Len(ws) + 1
         /\ e.id \in DOMAIN e.windows
         /\ e.windows[e.id].open /\ e.windows[e.id].slot = slot
<1> DEFINE base == {n \in DOMAIN ws : ws[n].slot = slot /\ ws[n].base}
           open == {n \in base : ws[n].open}
           new == [slot |-> slot, base |-> base = {}, open |-> TRUE, items |-> <<>>]
<1>1. Len(ws) \in Nat /\ DOMAIN ws = 1 .. Len(ws)
  BY SeqDomain
<1>2. CASE open # {}
  <2>1. e.windows = ws /\ e.id \in open
    BY <1>2 DEF EnsureWindow
  <2> QED BY <1>1, <2>1 DEF Grown
<1>3. CASE open = {}
  <2>1. e.windows = Append(ws, new) /\ e.id = Len(ws) + 1
    BY <1>3 DEF EnsureWindow
  <2>2. new \in Window /\ new.slot = slot /\ new.open
    BY EmptySeq DEF Window
  <2> HIDE DEF new
  <2>3. /\ e.windows \in Seq(Window) /\ Len(e.windows) = Len(ws) + 1
        /\ DOMAIN e.windows = 1 .. Len(ws) + 1
        /\ e.windows[Len(ws) + 1] = new
        /\ \A n \in DOMAIN ws : e.windows[n] = ws[n]
    BY <1>1, <2>1, <2>2, AppendProperties
  <2>4. DOMAIN e.windows \ DOMAIN ws = {Len(ws) + 1}
    BY <1>1, <2>3
  <2> QED BY <1>1, <2>1, <2>2, <2>3, <2>4 DEF Grown
<1> QED BY <1>2, <1>3

LEMMA MembersOfAppended ==
  ASSUME NEW s \in Seq(Article), NEW a \in Article
  PROVE  Append(s, a) \in Seq(Article) /\ Members(Append(s, a)) = Members(s) \cup {a}
<1>1. /\ Len(s) \in Nat /\ DOMAIN s = 1 .. Len(s)
      /\ Append(s, a) \in Seq(Article) /\ DOMAIN Append(s, a) = 1 .. Len(s) + 1
      /\ Append(s, a)[Len(s) + 1] = a
      /\ \A n \in 1 .. Len(s) : Append(s, a)[n] = s[n]
  BY SeqDomain, AppendProperties
<1>2. 1 .. Len(s) + 1 = (1 .. Len(s)) \cup {Len(s) + 1}
  BY <1>1
<1> HIDE DEF Members
<1>3. Members(Append(s, a)) = {Append(s, a)[n] : n \in (1 .. Len(s)) \cup {Len(s) + 1}}
  BY <1>1, <1>2 DEF Members
<1> QED BY <1>1, <1>3 DEF Members

LEMMA EnqueueGives ==
  ASSUME NEW ws \in Seq(Window), NEW n \in DOMAIN ws, ws[n].slot = slot, ws[n].open,
         NEW a \in Article, NEW vs, vs = Enqueue(ws, n, a)
  PROVE  /\ Grown(ws, vs) /\ Len(vs) = Len(ws)
         /\ ~Full(ws[n]) => a \in Members(vs[n].items)
<1>1. Len(ws) \in Nat /\ DOMAIN ws = 1 .. Len(ws) /\ ws[n] \in Window
  BY SeqDomain
<1> ws[n].items \in Seq(Article)
  BY <1>1 DEF Window
<1>2. CASE Full(ws[n]) \/ a \in Members(ws[n].items)
  BY <1>1, <1>2 DEF Enqueue, Grown
<1>3. CASE ~(Full(ws[n]) \/ a \in Members(ws[n].items))
  <2> DEFINE w == [ws[n] EXCEPT !.items = Append(ws[n].items, a)]
  <2>1. vs = [ws EXCEPT ![n] = w]
    BY <1>3 DEF Enqueue
  <2>2. Append(ws[n].items, a) \in Seq(Article)
        /\ Members(Append(ws[n].items, a)) = Members(ws[n].items) \cup {a}
    BY <1>1, MembersOfAppended
  <2>3. /\ w \in Window /\ w.slot = ws[n].slot /\ w.base = ws[n].base /\ w.open = ws[n].open
        /\ w.items = Append(ws[n].items, a)
    BY <1>1, <2>2 DEF Window
  <2> HIDE DEF w
  <2>4. /\ vs \in Seq(Window) /\ Len(vs) = Len(ws) /\ vs[n] = w
        /\ \A m \in DOMAIN ws \ {n} : vs[m] = ws[m]
    BY <1>1, <2>1, <2>3, ExceptSeq
  <2>5. DOMAIN vs = DOMAIN ws
    BY <1>1, <2>4, SeqDomain
  <2>6. Members(ws[n].items) \subseteq Members(vs[n].items) /\ a \in Members(vs[n].items)
    BY <2>2, <2>3, <2>4
  <2>7. ASSUME NEW m \in DOMAIN ws
        PROVE  /\ vs[m].slot = ws[m].slot /\ vs[m].base = ws[m].base /\ vs[m].open = ws[m].open
               /\ Members(ws[m].items) \subseteq Members(vs[m].items)
               /\ ws[m].slot # slot \/ ~ws[m].open => vs[m].items = ws[m].items
    <3>1. CASE m = n
      BY <2>3, <2>4, <2>6, <3>1
    <3>2. CASE m # n
      BY <2>4, <3>2
    <3> QED BY <3>1, <3>2
  <2> QED BY <1>1, <2>4, <2>5, <2>6, <2>7 DEF Grown
<1> QED BY <1>2, <1>3

-----------------------------------------------------------------------------
(* What the callers have in hand is well-typed.                            *)

LEMMA KeysAreRows ==
  /\ \A a \in Article : <<"route", a>> \in RowKey /\ <<"item", a>> \in RowKey
  /\ \A n \in WindowId : <<"card", n>> \in RowKey
BY TargetAssumption

LEMMA WindowsAreNumbered == TypeOK => DOMAIN windows \subseteq WindowId
BY SeqDomain, TargetAssumption DEF TypeOK, WindowId

LEMMA HandIsTyped ==
  ASSUME TypeOK, NEW c \in Caller, Working(c), Carries(c)
  PROVE  /\ task[c] \in Task /\ task[c].batch \in Seq(Article)
         /\ Head(task[c].batch) \in Article /\ Tail(task[c].batch) \in Seq(Article)
         /\ task[c].key \in RowKey /\ task[c].key # NoKey
<1>1. task[c] \in Task
  BY DEF TypeOK
<1>2. task[c].batch \in Seq(Article) /\ task[c].batch # <<>>
  BY <1>1 DEF Task, Carries
<1>3. Head(task[c].batch) \in Article /\ Tail(task[c].batch) \in Seq(Article)
  BY <1>2, HeadTailProperties
<1>4. task[c].key \in RowKey
  <2>1. CASE task[c].key = <<"route", Head(task[c].batch)>>
    BY <1>3, <2>1, KeysAreRows
  <2>2. CASE task[c].key = <<"item", Head(task[c].batch)>>
    BY <1>3, <2>2, KeysAreRows
  <2>3. CASE task[c].win \in DOMAIN windows /\ task[c].key = <<"card", task[c].win>>
    BY <2>3, KeysAreRows, WindowsAreNumbered
  <2> QED BY <2>1, <2>2, <2>3 DEF Carries
<1> QED BY <1>1, <1>2, <1>3, <1>4, LedgerAssumption

LEMMA CountIsNatural ==
  ASSUME NEW s \in Seq(Article), NEW a
  PROVE  Count(s, a) \in Nat /\ (a \in Members(s) => Count(s, a) > 0)
<1> DEFINE S == {n \in DOMAIN s : s[n] = a}
<1>1. IsFiniteSet(1 .. Len(s)) /\ S \subseteq 1 .. Len(s)
  <2>1. Len(s) \in Nat /\ DOMAIN s = 1 .. Len(s)
    BY SeqDomain
  <2> QED BY <2>1, FS_Interval
<1>2. IsFiniteSet(S)
  BY <1>1, FS_Subset
<1>3. Cardinality(S) \in Nat /\ (Cardinality(S) = 0 <=> S = {})
  BY <1>2, FS_CardinalityType, FS_EmptySet
<1>4. a \in Members(s) => S # {}
  BY DEF Members
<1> HIDE DEF S
<1>5. Count(s, a) = Cardinality(S)
  BY DEF Count, S
<1> QED BY <1>3, <1>4, <1>5

LEMMA BodyIsTyped ==
  ASSUME TypeOK, NEW c \in Caller, Working(c), Carries(c)
  PROVE  Body(c) \in Seq(Article)
<1>1. Head(task[c].batch) \in Article /\ task[c].batch \in Seq(Article)
  BY HandIsTyped
<1> QED BY <1>1 DEF Body

LEMMA StepOfTheLedger ==
  ASSUME TargetInv, [Next]_vars
  PROVE  [LedgerNext]_ledger
<1>1. ASSUME NEW c \in Caller, Claimed(c) PROVE LedgerNext
  <2>1. task[c].key \in RowKey
    BY <1>1, HandIsTyped DEF Claimed, TargetInv, AllAtWork, AtWork, Working, At
  <2> QED BY <1>1, <2>1 DEF Claimed, LedgerNext
<1>2. ASSUME NEW c \in Caller, Accepted(c) \/ Refused(c) PROVE LedgerNext
  BY <1>2 DEF Accepted, Refused, LedgerNext, Outcome, TerminalStatus
<1>3. ASSUME NEW c \in Caller,
             GateShut(c) \/ ClaimSettled(c) \/ ClaimDenied(c) \/ Sent(c) \/ SentAhead(c)
               \/ NextItem(c) \/ Flushed(c) \/ FlushFails(c)
      PROVE  UNCHANGED ledger
  BY <1>3 DEF GateShut, ClaimSettled, ClaimDenied, Sent, SentAhead, NextItem, Flushed, FlushFails
<1>4. ASSUME NEW a \in Article, Send(a) PROVE UNCHANGED ledger
  BY <1>4 DEF Send, SendPlain, SendDigest, SendAhead, SendQueued
<1>5. ASSUME SendReturns \/ SendThrows \/ Tick \/ UNCHANGED vars PROVE UNCHANGED ledger
  BY <1>5 DEF SendReturns, SendThrows, Tick, vars
<1>6. ASSUME NEW n \in WindowId, Sweep(n) PROVE UNCHANGED ledger
  BY <1>6 DEF Sweep, SweepDrops, SweepFlushes
<1>7. ASSUME NEW k \in RowKey, ClaimAges(k) PROVE LedgerNext
  BY <1>7 DEF ClaimAges, LedgerNext
<1>8. CASE Crash
  BY <1>8 DEF Crash, LedgerNext
<1> QED BY <1>1, <1>2, <1>3, <1>4, <1>5, <1>6, <1>7, <1>8 DEF Next, Verdict, Resume

-----------------------------------------------------------------------------
(* What send() and the sweep begin.                                        *)

\* The article is taken without a message.
Takes(a) ==
  /\ task'[Router].pc = "done" /\ task'[Router].article = a
  /\ task'[Router].batch = task[Router].batch
  /\ Others(Router)

LEMMA TakesArticle ==
  ASSUME TypeOK, NEW a \in Article,
         task' = [task EXCEPT ![Router].pc = "done", ![Router].article = a]
  PROVE  task' \in [Caller -> Task] /\ Takes(a)
<1> DEFINE s == [task[Router] EXCEPT !.pc = "done"]
           t == [s EXCEPT !.article = a]
<1>1. task \in [Caller -> Task] /\ Router \in Caller /\ task[Router] \in Task
  BY TargetAssumption DEF TypeOK
<1>2. t \in Task /\ t.pc = "done" /\ t.article = a /\ t.batch = task[Router].batch
  BY <1>1 DEF Task
<1>3. task' = [task EXCEPT ![Router] = t]
  OBVIOUS
<1> HIDE DEF t
<1> QED BY <1>1, <1>2, <1>3 DEF Takes, Others

LEMMA FlushIsCard ==
  ASSUME NEW n, NEW items, Len(items) >= Threshold
  PROVE  Flush(n, items) = Message("card", <<"card", n>>, n, items)
BY DEF Flush

LEMMA ModeIsTyped == TypeOK => Threshold \in Nat \ {0} /\ (mode.kind = "digest" => Threshold > 1)
BY TargetAssumption DEF TypeOK, Mode, Threshold

\* An open window of the slot has collected the article, or was full.
Collects(a) ==
  /\ Grown(windows, windows') /\ Len(windows') <= MaxWindows
  /\ capped' \in {capped, capped \cup {a}}
  /\ a \in capped' \/ \E n \in DOMAIN windows' : a \in Members(windows'[n].items)

LEMMA QueuedCollects ==
  ASSUME TypeOK, NEW a \in Article, SendQueued(a)
  PROVE  /\ Collects(a) /\ task' \in [Caller -> Task]
         /\ \/ \E n \in DOMAIN windows' :
                 /\ windows'[n].items # <<>> /\ windows'[n].items \in Seq(Article)
                 /\ Begins(Router, a, Message("card", <<"card", n>>, n, windows'[n].items))
            \/ Takes(a)
<1> DEFINE e == EnsureWindow(windows)
<1> USE TargetAssumption
<1>1. /\ slot \in Nat /\ windows \in Seq(Window) /\ Len(windows) \in Nat
      /\ task \in [Caller -> Task] /\ Router \in Caller
      /\ Len(windows) + 1 < MaxWindows
  BY SeqDomain DEF TypeOK, SendQueued
<1>2. /\ Grown(windows, e.windows) /\ Len(e.windows) <= Len(windows) + 1
      /\ e.id \in DOMAIN e.windows /\ e.windows[e.id].open /\ e.windows[e.id].slot = slot
  BY <1>1, EnsureWindowGives
<1>3. PICK again \in EnsureAgain(e) :
        /\ windows' = Enqueue(again.windows, again.id, a)
        /\ capped' = IF Full(again.windows[again.id]) THEN capped \cup {a} ELSE capped
        /\ IF Len(windows'[e.id].items) >= Threshold
             THEN Call(Router, a, Flush(e.id, windows'[e.id].items))
             ELSE task' = [task EXCEPT ![Router].pc = "done", ![Router].article = a]
  BY DEF SendQueued
<1> HIDE DEF e
<1>4. e.windows \in Seq(Window) /\ Len(e.windows) \in Nat
  BY <1>2, SeqDomain DEF Grown
<1>5. /\ Grown(e.windows, again.windows) /\ Len(again.windows) <= Len(e.windows) + 1
      /\ again.id \in DOMAIN again.windows
      /\ again.windows[again.id].open /\ again.windows[again.id].slot = slot
  <2>1. CASE again = e
    BY <1>2, <1>4, <2>1 DEF Grown
  <2>2. CASE again = EnsureWindow(e.windows)
    BY <1>1, <1>4, <2>2, EnsureWindowGives
  <2> QED BY <1>3, <2>1, <2>2 DEF EnsureAgain
<1>6. again.windows \in Seq(Window) /\ Len(again.windows) \in Nat
  BY <1>5, SeqDomain DEF Grown
<1>7. /\ Grown(again.windows, windows') /\ Len(windows') = Len(again.windows)
      /\ ~Full(again.windows[again.id]) => a \in Members(windows'[again.id].items)
  BY <1>3, <1>5, <1>6, EnqueueGives
<1>8. Grown(windows, windows') /\ Grown(e.windows, windows')
  BY <1>1, <1>2, <1>4, <1>5, <1>6, <1>7, WindowsGrow
<1>9. Len(windows') <= MaxWindows
  BY <1>1, <1>2, <1>4, <1>5, <1>6, <1>7
<1>10. again.id \in DOMAIN windows' /\ e.id \in DOMAIN windows'
  BY <1>2, <1>4, <1>5, <1>6, <1>7, <1>8, SeqDomain DEF Grown
<1>11. Collects(a)
  BY <1>3, <1>7, <1>8, <1>9, <1>10 DEF Collects
<1>12. CASE Len(windows'[e.id].items) >= Threshold
  <2>1. windows'[e.id] \in Window
    BY <1>8, <1>10, SeqDomain DEF Grown
  <2>2. windows'[e.id].items \in Seq(Article)
    BY <2>1 DEF Window
  <2>3. windows'[e.id].items # <<>>
    BY <1>12, <2>2, ModeIsTyped, EmptySeq
  <2>4. windows' \in Seq(Window) /\ DOMAIN windows' = 1 .. Len(windows') /\ Len(windows') \in Nat
    BY <1>8, SeqDomain DEF Grown
  <2>5. e.id \in Nat /\ e.id \in WindowId
    BY <1>1, <1>9, <1>10, <2>4 DEF WindowId
  <2>6. /\ task' \in [Caller -> Task]
        /\ Begins(Router, a, Message("card", <<"card", e.id>>, e.id, windows'[e.id].items))
    BY <1>1, <1>3, <1>12, <2>2, <2>5, FlushIsCard, BeginsWith, KeysAreRows
  <2> QED BY <1>10, <1>11, <2>2, <2>3, <2>6
<1>13. CASE ~(Len(windows'[e.id].items) >= Threshold)
  BY <1>3, <1>11, <1>13, TakesArticle
<1> QED BY <1>12, <1>13

LEMMA AheadBegins ==
  ASSUME TypeOK, NEW a \in Article, SendAhead(a)
  PROVE  /\ Grown(windows, windows') /\ Len(windows') <= MaxWindows
         /\ task' \in [Caller -> Task]
         /\ \E n \in DOMAIN windows' :
              Begins(Router, a, Message("first", <<"route", a>>, n, <<a>>))
<1> DEFINE e == EnsureWindow(windows)
<1> USE TargetAssumption
<1>1. /\ slot \in Nat /\ windows \in Seq(Window) /\ Len(windows) \in Nat
      /\ task \in [Caller -> Task] /\ Router \in Caller /\ Len(windows) < MaxWindows
  BY SeqDomain DEF TypeOK, SendAhead
<1>2. /\ Grown(windows, e.windows) /\ Len(e.windows) <= Len(windows) + 1
      /\ e.id \in DOMAIN e.windows
  BY <1>1, EnsureWindowGives
<1>3. windows' = e.windows /\ Call(Router, a, Message("first", <<"route", a>>, e.id, <<a>>))
  BY DEF SendAhead
<1> HIDE DEF e
<1>4. windows' \in Seq(Window) /\ Len(windows') \in Nat /\ DOMAIN windows' = 1 .. Len(windows')
  BY <1>2, <1>3, SeqDomain DEF Grown
<1>5. e.id \in Nat /\ <<a>> \in Seq(Article)
  BY <1>2, <1>3, <1>4
<1>6. Grown(windows, windows') /\ Len(windows') <= MaxWindows /\ e.id \in DOMAIN windows'
  BY <1>1, <1>2, <1>3, <1>4
<1>7. /\ task' \in [Caller -> Task]
      /\ Begins(Router, a, Message("first", <<"route", a>>, e.id, <<a>>))
  BY <1>1, <1>3, <1>5, BeginsWith, KeysAreRows
<1> QED BY <1>6, <1>7

LEMMA SweepBegins ==
  ASSUME TypeOK, NEW c \in Caller, NEW n \in WindowId, SweepFlushes(c, n)
  PROVE  /\ task' \in [Caller -> Task] /\ n \in DOMAIN windows /\ windows[n].items # <<>>
         /\ windows[n].items \in Seq(Article)
         /\ \/ Begins(c, NoArticle, Message("card", <<"card", n>>, n, windows[n].items))
            \/ Begins(c, NoArticle, Message("items", <<"item", Head(windows[n].items)>>, n,
                                            windows[n].items))
<1>1. /\ n \in DOMAIN windows /\ n \in Nat /\ windows[n] \in Window /\ windows[n].items # <<>>
      /\ task \in [Caller -> Task]
  BY SeqDomain DEF SweepFlushes, TypeOK, WindowId
<1>2. windows[n].items \in Seq(Article)
  BY <1>1 DEF Window
<1>3. Head(windows[n].items) \in Article
  BY <1>1, <1>2, HeadTailProperties
<1>4. CASE Len(windows[n].items) >= Threshold
  <2>1. Call(c, NoArticle, Message("card", <<"card", n>>, n, windows[n].items))
    BY <1>4 DEF SweepFlushes, Flush
  <2> QED BY <1>1, <1>2, <2>1, BeginsWith, KeysAreRows
<1>5. CASE ~(Len(windows[n].items) >= Threshold)
  <2>1. Call(c, NoArticle, Message("items", <<"item", Head(windows[n].items)>>, n,
                                   windows[n].items))
    BY <1>5 DEF SweepFlushes, Flush
  <2> QED BY <1>1, <1>2, <1>3, <2>1, BeginsWith, KeysAreRows
<1> QED BY <1>4, <1>5

LEMMA NextItemMoves ==
  ASSUME TypeOK, NEW c \in Caller, Working(c), Carries(c), NextItem(c)
  PROVE  /\ task' \in [Caller -> Task] /\ Others(c)
         /\ Tail(task[c].batch) \in Seq(Article) /\ Tail(task[c].batch) # <<>>
         /\ task'[c].pc = "call" /\ task'[c].kind = "items" /\ task[c].kind = "items"
         /\ task'[c].article = task[c].article /\ task'[c].win = task[c].win
         /\ task'[c].batch = Tail(task[c].batch)
         /\ task'[c].key = <<"item", Head(Tail(task[c].batch))>>
<1> DEFINE rest == Tail(task[c].batch)
           s == [task[c] EXCEPT !.pc = "call"]
           r == [s EXCEPT !.batch = rest]
           t == [r EXCEPT !.key = <<"item", Head(rest)>>]
<1>1. /\ task \in [Caller -> Task] /\ task[c] \in Task /\ task[c].batch \in Seq(Article)
      /\ rest \in Seq(Article)
  BY HandIsTyped DEF TypeOK
<1>2. rest # <<>> /\ Head(rest) \in Article
  <2>1. Len(task[c].batch) > 1 /\ Len(rest) = Len(task[c].batch) - 1
    BY <1>1, HeadTailProperties DEF NextItem
  <2> HIDE DEF rest
  <2>2. Len(task[c].batch) \in Nat /\ (rest = <<>> => Len(rest) = 0)
    BY <1>1, SeqDomain, EmptySeq
  <2>3. rest # <<>>
    BY <2>1, <2>2
  <2> QED BY <1>1, <2>3, HeadTailProperties
<1> HIDE DEF rest
<1>3. s \in Task /\ s.pc = "call" /\ s.kind = task[c].kind /\ s.article = task[c].article
      /\ s.win = task[c].win
  BY <1>1 DEF Task
<1> HIDE DEF s
<1>4. r \in Task /\ r.pc = "call" /\ r.kind = task[c].kind /\ r.article = task[c].article
      /\ r.win = task[c].win /\ r.batch = rest
  BY <1>1, <1>3 DEF Task
<1> HIDE DEF r
<1>5. t \in Task /\ t.pc = "call" /\ t.kind = task[c].kind /\ t.article = task[c].article
      /\ t.win = task[c].win /\ t.batch = rest /\ t.key = <<"item", Head(rest)>>
  BY <1>2, <1>4, KeysAreRows DEF Task
<1>6. task' = [task EXCEPT ![c] = t]
  BY DEF NextItem, s, r, rest
<1> HIDE DEF t
<1>7. task[c].kind = "items"
  BY DEF NextItem
<1> QED BY <1>1, <1>2, <1>5, <1>6, <1>7 DEF Others, rest

-----------------------------------------------------------------------------
(* Type correctness.                                                       *)

LEMMA WindowsClose ==
  ASSUME TypeOK, NEW n \in DOMAIN windows, windows' = Closed(n)
  PROVE  /\ windows' \in Seq(Window) /\ Len(windows') = Len(windows)
         /\ DOMAIN windows' = DOMAIN windows
         /\ ~windows'[n].open
         /\ \A m \in DOMAIN windows :
              /\ windows'[m].slot = windows[m].slot /\ windows'[m].items = windows[m].items
              /\ m # n => windows'[m] = windows[m]
<1> DEFINE w == [windows[n] EXCEPT !.open = FALSE]
<1>1. windows \in Seq(Window) /\ windows[n] \in Window /\ n \in 1 .. Len(windows)
  BY SeqDomain DEF TypeOK
<1>2. w \in Window /\ ~w.open /\ w.slot = windows[n].slot /\ w.items = windows[n].items
  BY <1>1 DEF Window
<1>3. windows' = [windows EXCEPT ![n] = w]
  BY DEF Closed
<1> HIDE DEF w
<1>4. /\ windows' \in Seq(Window) /\ Len(windows') = Len(windows)
      /\ \A m \in 1 .. Len(windows) : windows'[m] = IF m = n THEN w ELSE windows[m]
  BY <1>1, <1>2, <1>3, ExceptSeq
<1>5. DOMAIN windows' = DOMAIN windows /\ DOMAIN windows = 1 .. Len(windows)
  BY <1>1, <1>4, SeqDomain
<1> QED BY <1>1, <1>2, <1>4, <1>5

LEMMA TypeStep ==
  ASSUME TargetInv, [Next]_vars
  PROVE  TypeOK'
<1>1. LedgerTypeOK'
  BY StepOfTheLedger, LedgerStep DEF TargetInv, LedgerInv
<1> USE <1>1, TargetAssumption DEF TargetInv
<1>2. ASSUME NEW c \in Caller, GateShut(c) \/ Verdict(c) PROVE TypeOK'
  <2>1. task' \in [Caller -> Task]
    BY <1>2, MovesTo DEF GateShut, Verdict, ClaimSettled, ClaimDenied, Claimed, TypeOK
  <2> QED BY <1>2, <2>1 DEF GateShut, Verdict, ClaimSettled, ClaimDenied, Claimed, TypeOK,
                            clock, memory, fate, chat
<1>3. ASSUME NEW c \in Caller, Accepted(c) PROVE TypeOK'
  <2>1. task' \in [Caller -> Task]
    BY <1>3, MovesTo DEF Accepted, TypeOK
  <2>2. Body(c) \in Seq(Article)
    BY <1>3, BodyIsTyped DEF Accepted, AllAtWork, AtWork, Working, At
  <2>3. \A a \in Article : shown[a] + Count(Body(c), a) \in Nat
    BY <2>2, CountIsNatural DEF TypeOK
  <2>4. shown' \in [Article -> Nat]
    BY <1>3, <2>3 DEF Accepted
  <2>5. firsts' \in [WindowId -> Nat]
    <3>1. firsts \in [WindowId -> Nat]
      BY DEF TypeOK
    <3>2. firsts' = firsts \/ firsts' = [firsts EXCEPT ![task[c].win] = @ + 1]
      BY <1>3 DEF Accepted
    <3> QED BY <3>1, <3>2
  <2> QED BY <1>3, <2>1, <2>4, <2>5 DEF Accepted, TypeOK, clock, memory, fate
<1>4. ASSUME NEW c \in Caller, Refused(c) PROVE TypeOK'
  <2>1. task' \in [Caller -> Task]
    BY <1>4, MovesTo DEF Refused, TypeOK
  <2> QED BY <1>4, <2>1 DEF Refused, TypeOK, clock, memory, fate, chat
<1>5. ASSUME NEW c \in Caller, Sent(c) PROVE TypeOK'
  <2>1. task' \in [Caller -> Task]
    BY <1>5, EndsWell DEF Sent, TypeOK
  <2> QED BY <1>5, <2>1 DEF Sent, TypeOK, clock, memory, fate, chat
<1>6. ASSUME NEW c \in Caller, SentAhead(c) PROVE TypeOK'
  <2>1. task' \in [Caller -> Task]
    BY <1>6, EndsWell DEF SentAhead, TypeOK
  <2>2. task[c].win \in WindowId
    BY <1>6, WindowsAreNumbered DEF SentAhead, AllAtWork, AtWork, Working, At, Carries
  <2> QED BY <1>6, <2>1, <2>2 DEF SentAhead, MarkFirst, TypeOK, clock, fate, chat
<1>7. ASSUME NEW c \in Caller, NextItem(c) PROVE TypeOK'
  <2>1. task' \in [Caller -> Task]
    BY <1>7, NextItemMoves DEF NextItem, AllAtWork, AtWork, Working, At
  <2> QED BY <1>7, <2>1 DEF NextItem, TypeOK, clock, memory, fate, chat
<1>8. ASSUME NEW c \in Caller, Flushed(c) PROVE TypeOK'
  <2>1. task' \in [Caller -> Task]
    BY <1>8, EndsWell DEF Flushed, TypeOK
  <2>2. task[c].win \in DOMAIN windows /\ windows' = Closed(task[c].win)
    BY <1>8 DEF Flushed, AllAtWork, AtWork, Working, At, Carries
  <2>3. windows' \in Seq(Window) /\ Len(windows') <= MaxWindows
    BY <2>2, WindowsClose DEF TypeOK
  <2> QED BY <1>8, <2>1, <2>3 DEF Flushed, TypeOK, clock, memory, fate, chat
<1>9. ASSUME NEW c \in Caller, FlushFails(c) PROVE TypeOK'
  <2>1. task' \in [Caller -> Task]
    BY <1>9, RestsNow DEF FlushFails, TypeOK
  <2> QED BY <1>9, <2>1 DEF FlushFails, TypeOK, clock, memory, fate, chat
<1>10. ASSUME NEW a \in Article, SendPlain(a) PROVE TypeOK'
  <2>1. <<a>> \in Seq(Article) /\ 0 \in Nat /\ Call(Router, a, Message("plain", <<"route", a>>, 0, <<a>>))
    BY <1>10 DEF SendPlain
  <2>2. task' \in [Caller -> Task]
    BY <2>1, BeginsWith, KeysAreRows DEF TypeOK
  <2> QED BY <1>10, <2>2 DEF SendPlain, TypeOK, clock, memory, fate, chat
<1>11. ASSUME NEW a \in Article, SendDigest(a) PROVE TypeOK'
  <2> DEFINE batch == Append(buffer, a)
  <2>1. batch \in Seq(Article) /\ batch # <<>> /\ Head(batch) \in Article
    <3>1. buffer \in Seq(Article)
      BY DEF TypeOK
    <3>2. batch \in Seq(Article) /\ batch # <<>>
      BY <3>1, AppendProperties
    <3> HIDE DEF batch
    <3> QED BY <3>2, HeadTailProperties
  <2>2. buffer' \in Seq(Article) /\ storedBuffer' \in Seq(Article)
    BY <1>11, <2>1, EmptySeq DEF SendDigest, BufferAfter
  <2>3. task' \in [Caller -> Task]
    <3>1. CASE Len(batch) >= Threshold
      <4>1. Call(Router, a, Message("digest", <<"route", Head(batch)>>, 0, batch))
        BY <1>11, <3>1 DEF SendDigest
      <4> HIDE DEF batch
      <4> QED BY <2>1, <4>1, BeginsWith, KeysAreRows DEF TypeOK
    <3>2. CASE ~(Len(batch) >= Threshold)
      BY <1>11, <3>2, TakesArticle DEF SendDigest
    <3> QED BY <3>1, <3>2
  <2> QED BY <1>11, <2>2, <2>3 DEF SendDigest, TypeOK, clock, fate, chat
<1>12. ASSUME NEW a \in Article, SendAhead(a) PROVE TypeOK'
  BY <1>12, AheadBegins DEF SendAhead, TypeOK, Grown, clock, memory, fate, chat
<1>13. ASSUME NEW a \in Article, SendQueued(a) PROVE TypeOK'
  BY <1>13, QueuedCollects DEF Collects, SendQueued, TypeOK, Grown, clock, memory, fate, chat
<1>14. CASE SendReturns \/ SendThrows
  <2>1. task' \in [Caller -> Task]
    BY <1>14, RestsNow DEF SendReturns, SendThrows, TypeOK
  <2>2. task[Router].article \in Article
    BY <1>14 DEF SendReturns, SendThrows, AllAtWork, AtWork, Working, At, Carries
  <2>3. /\ tries' \in [Article -> Nat] /\ forwarded' \subseteq Article
        /\ dropped' \subseteq Article
    <3>1. CASE SendReturns
      BY <2>2, <3>1 DEF SendReturns, TypeOK
    <3>2. CASE SendThrows
      <4>1. /\ tries' = tries \/ tries' = [tries EXCEPT ![task[Router].article] = @ + 1]
            /\ dropped' = dropped \/ dropped' = dropped \cup {task[Router].article}
            /\ forwarded' = forwarded
        BY <3>2 DEF SendThrows
      <4>2. tries \in [Article -> Nat] /\ forwarded \subseteq Article /\ dropped \subseteq Article
        BY DEF TypeOK
      <4> QED BY <2>2, <4>1, <4>2
    <3> QED BY <1>14, <3>1, <3>2
  <2>4. UNCHANGED <<mode, clock, windows, memory, capped, chat, crashes>>
    BY <1>14 DEF SendReturns, SendThrows
  <2> QED BY <2>1, <2>3, <2>4 DEF TypeOK, clock, memory, chat
<1>15. ASSUME NEW n \in WindowId, Sweep(n) PROVE TypeOK'
  <2>1. CASE SweepDrops(n)
    <3>1. windows' \in Seq(Window) /\ Len(windows') <= MaxWindows
      BY <2>1, WindowsClose DEF SweepDrops, TypeOK
    <3> QED BY <2>1, <3>1 DEF SweepDrops, TypeOK, clock, memory, fate, chat
  <2>2. ASSUME NEW c \in Caller, SweepFlushes(c, n) PROVE TypeOK'
    <3>1. task' \in [Caller -> Task]
      BY <2>2, SweepBegins
    <3> QED BY <2>2, <3>1 DEF SweepFlushes, TypeOK, clock, memory, fate, chat
  <2> QED BY <1>15, <2>1, <2>2 DEF Sweep
<1>16. CASE Tick
  <2>1. slot' \in 0 .. MaxSlot /\ late' \in BOOLEAN
    <3>1. slot < MaxSlot /\ slot' \in {slot, slot + 1} /\ late' \in {TRUE, FALSE}
      BY <1>16, Zenon DEF Tick
    <3>2. slot \in 0 .. MaxSlot
      BY DEF TypeOK
    <3>3. slot' \in 0 .. MaxSlot
      BY <3>1, <3>2
    <3> QED BY <3>1, <3>3
  <2> QED BY <1>16, <2>1 DEF Tick, TypeOK, memory, fate, chat
<1>17. ASSUME NEW k \in RowKey, ClaimAges(k) PROVE TypeOK'
  BY <1>17 DEF ClaimAges, TypeOK, clock, memory, fate, chat
<1>18. CASE Crash
  BY <1>18, IdleIsATask DEF Crash, TypeOK, clock, chat
<1>19. CASE UNCHANGED vars
  BY <1>19 DEF vars, TypeOK, clock, memory, fate, chat
<1> QED BY <1>2, <1>3, <1>4, <1>5, <1>6, <1>7, <1>8, <1>9, <1>10, <1>11, <1>12, <1>13, <1>14,
           <1>15, <1>16, <1>17, <1>18, <1>19 DEF Next, Send, Resume

-----------------------------------------------------------------------------
(* What no step takes back.                                                *)

Onward ==
  /\ mode' = mode /\ slot <= slot' /\ crashes <= crashes'
  /\ forwarded \subseteq forwarded' /\ capped \subseteq capped'
  /\ DOMAIN windows \subseteq DOMAIN windows'
  /\ \A n \in DOMAIN windows :
       /\ windows'[n].slot = windows[n].slot
       /\ Members(windows[n].items) \subseteq Members(windows'[n].items)
  /\ \A a \in Article : shown[a] <= shown'[a]

LEMMA GrownIsOnward ==
  ASSUME TypeOK, Grown(windows, windows')
  PROVE  /\ DOMAIN windows \subseteq DOMAIN windows'
         /\ \A n \in DOMAIN windows :
              /\ windows'[n].slot = windows[n].slot
              /\ Members(windows[n].items) \subseteq Members(windows'[n].items)
<1>1. /\ windows \in Seq(Window) /\ windows' \in Seq(Window) /\ Len(windows) <= Len(windows')
  BY DEF Grown, TypeOK
<1>2. /\ DOMAIN windows = 1 .. Len(windows) /\ DOMAIN windows' = 1 .. Len(windows')
      /\ Len(windows) \in Nat /\ Len(windows') \in Nat
  BY <1>1, SeqDomain
<1>3. DOMAIN windows \subseteq DOMAIN windows'
  BY <1>1, <1>2
<1> QED BY <1>3, Zenon DEF Grown

LEMMA StepsOnward ==
  ASSUME TargetInv, [Next]_vars
  PROVE  Onward
<1> USE TargetAssumption DEF TargetInv
<1> slot \in Nat /\ crashes \in Nat /\ shown \in [Article -> Nat]
  BY DEF TypeOK
<1>1. ASSUME NEW c \in Caller,
             GateShut(c) \/ Verdict(c) \/ Refused(c) \/ Sent(c) \/ SentAhead(c) \/ NextItem(c)
               \/ FlushFails(c)
      PROVE  Onward
  BY <1>1 DEF GateShut, Verdict, ClaimSettled, ClaimDenied, Claimed, Refused, Sent, SentAhead,
              NextItem, FlushFails, Onward, clock, fate, chat
<1>2. ASSUME NEW c \in Caller, Accepted(c) PROVE Onward
  <2>1. Body(c) \in Seq(Article)
    BY <1>2, BodyIsTyped DEF Accepted, AllAtWork, AtWork, Working, At
  <2>2. ASSUME NEW a \in Article PROVE shown[a] <= shown'[a]
    <3>1. Count(Body(c), a) \in Nat /\ shown'[a] = shown[a] + Count(Body(c), a)
      BY <1>2, <2>1, CountIsNatural DEF Accepted
    <3> QED BY <3>1
  <2> QED BY <1>2, <2>2 DEF Accepted, Onward, clock, fate
<1>3. ASSUME NEW n \in DOMAIN windows, windows' = Closed(n),
             UNCHANGED <<mode, clock, fate, capped, chat, crashes>>
      PROVE  Onward
  BY <1>3, WindowsClose DEF Onward, clock, fate, chat
<1>4. ASSUME NEW c \in Caller, Flushed(c) PROVE Onward
  BY <1>3, <1>4 DEF Flushed, AllAtWork, AtWork, Working, At, Carries
<1>5. ASSUME NEW a \in Article, SendPlain(a) \/ SendDigest(a) PROVE Onward
  BY <1>5 DEF SendPlain, SendDigest, Onward, clock, fate, chat
<1>6. ASSUME NEW a \in Article, SendAhead(a) PROVE Onward
  <2>1. UNCHANGED <<mode, clock, fate, capped, chat, crashes>>
    BY <1>6 DEF SendAhead
  <2>2. Grown(windows, windows')
    BY <1>6, AheadBegins
  <2> QED BY <2>1, <2>2, GrownIsOnward DEF Onward, clock, fate, chat
<1>7. ASSUME NEW a \in Article, SendQueued(a) PROVE Onward
  <2>1. UNCHANGED <<mode, clock, fate, chat, crashes>>
    BY <1>7 DEF SendQueued
  <2>2. capped \subseteq capped' /\ Grown(windows, windows')
    BY <1>7, QueuedCollects DEF Collects
  <2> QED BY <2>1, <2>2, GrownIsOnward DEF Onward, clock, fate, chat
<1>8. CASE SendReturns \/ SendThrows \/ UNCHANGED vars
  BY <1>8 DEF SendReturns, SendThrows, vars, Onward, clock, fate, chat
<1>9. ASSUME NEW n \in WindowId, Sweep(n) PROVE Onward
  <2>1. CASE SweepDrops(n)
    BY <1>3, <2>1 DEF SweepDrops
  <2>2. ASSUME NEW c \in Caller, SweepFlushes(c, n) PROVE Onward
    BY <2>2 DEF SweepFlushes, Onward, clock, fate, chat
  <2> QED BY <1>9, <2>1, <2>2 DEF Sweep
<1>10. CASE Tick
  <2>1. slot' \in {slot, slot + 1}
    BY <1>10, Zenon DEF Tick
  <2> QED BY <1>10, <2>1 DEF Tick, Onward, fate, chat
<1>11. ASSUME NEW k \in RowKey, ClaimAges(k) PROVE Onward
  BY <1>11 DEF ClaimAges, Onward, clock, fate, chat
<1>12. CASE Crash
  BY <1>12 DEF Crash, Onward, clock, chat
<1> QED BY <1>1, <1>2, <1>4, <1>5, <1>6, <1>7, <1>8, <1>9, <1>10, <1>11, <1>12
        DEF Next, Send, Resume

-----------------------------------------------------------------------------
(* The callers and their rows.                                             *)

LEMMA StaysAtWork ==
  ASSUME TargetInv, [Next]_vars, NEW c \in Caller, task'[c] = task[c], holds'[c] = holds[c]
  PROVE  AtWork(c)'
<1>1. AtWork(c) /\ Onward
  BY StepsOnward DEF TargetInv, AllAtWork
<1>2. Working(c)' => Carries(c)'
  BY <1>1 DEF AtWork, Working, Carries, Onward, Summary
<1>3. At(c, "after")' => Settled(task[c].key)'
  <2> SUFFICES ASSUME At(c, "after") PROVE Settled(task[c].key)'
    BY DEF At
  <2>1. Settled(task[c].key) /\ task[c].key \in RowKey
    BY <1>1, HandIsTyped DEF AtWork, Working, At, TargetInv
  <2> QED BY <2>1, SettledStays, StepOfTheLedger DEF TargetInv
<1> QED BY <1>1, <1>2, <1>3 DEF AtWork, At

\* A caller that puts its message aside, or begins one, holds nothing.
LEMMA MovesAtWork ==
  ASSUME TargetInv, [Next]_vars, NEW c \in Caller, Working(c), UNCHANGED holds,
         ~At(c, "sending"), NEW pc \in {"after", "throw", "done"}, Moves(c, pc),
         pc = "after" => Settled(task[c].key)', pc = "done" => c = Router
  PROVE  AtWork(c)'
<1>1. AtWork(c) /\ Onward
  BY StepsOnward DEF TargetInv, AllAtWork
<1>2. Working(c)' => Carries(c)'
  BY <1>1 DEF AtWork, Working, Carries, Onward, Summary, Moves
<1> QED BY <1>1, <1>2 DEF AtWork, At, Moves, Carries

LEMMA OthersAtWork ==
  ASSUME TargetInv, [Next]_vars, NEW c \in Caller, Others(c),
         \A d \in Caller \ {c} : holds'[d] = holds[d], AtWork(c)'
  PROVE  AllAtWork'
BY StaysAtWork DEF Others, AllAtWork

LEMMA BeginsAtWork ==
  ASSUME TargetInv, [Next]_vars, NEW c \in Caller, UNCHANGED holds, At(c, "idle"),
         NEW article, NEW m, m.pc = "call", Begins(c, article, m), Carries(c)'
  PROVE  AllAtWork'
<1>1. AtWork(c)'
  BY DEF TargetInv, AllAtWork, AtWork, Begins, At, Working
<1> QED BY <1>1, OthersAtWork DEF Begins

LEMMA RestsAtWork ==
  ASSUME TargetInv, [Next]_vars, NEW c \in Caller, UNCHANGED holds, ~At(c, "sending"), Rests(c)
  PROVE  AllAtWork'
<1>1. AtWork(c)'
  BY DEF TargetInv, AllAtWork, AtWork, Rests, Idle, At, Working
<1> QED BY <1>1, OthersAtWork DEF Rests

LEMMA SummariesStep ==
  ASSUME TargetInv, [Next]_vars
  PROVE  SummariesCollect'
<1> SUFFICES ASSUME ~Summary PROVE DOMAIN windows' = {}
  BY StepsOnward DEF Onward, Summary, SummariesCollect
<1>1. DOMAIN windows = {}
  BY DEF TargetInv, SummariesCollect
<1>2. ASSUME NEW n \in DOMAIN windows, windows' = Closed(n) PROVE FALSE
  BY <1>1, <1>2
<1>3. ASSUME NEW c \in Caller, Flushed(c) PROVE FALSE
  BY <1>1, <1>3 DEF TargetInv, AllAtWork, AtWork, Working, At, Flushed, Carries
<1>4. ASSUME NEW n \in WindowId, SweepDrops(n) PROVE FALSE
  BY <1>1, <1>4 DEF SweepDrops
<1>5. ASSUME NEW a \in Article, SendAhead(a) \/ SendQueued(a) PROVE FALSE
  BY <1>5 DEF SendAhead, SendQueued, Summary
<1>6. UNCHANGED windows
  BY <1>3, <1>4, <1>5 DEF Next, Send, SendPlain, SendDigest, GateShut, Verdict, ClaimSettled,
     ClaimDenied, Claimed, Resume, Accepted, Refused, Sent, SentAhead, NextItem, FlushFails,
     SendReturns, SendThrows, Sweep, SweepFlushes, Tick, Crash, ClaimAges, vars
<1> QED BY <1>1, <1>6

LEMMA WorkStep ==
  ASSUME TargetInv, [Next]_vars
  PROVE  AllAtWork'
<1> USE TargetAssumption DEF TargetInv
<1>1. /\ Onward /\ TypeOK /\ TypeOK' /\ AllAtWork
      /\ task \in [Caller -> Task] /\ holds \in [Caller -> RowKey \cup {NoKey}]
      /\ row \in [RowKey -> [status : Outcome \cup {"none", "sending"}, attempts : Nat,
                             stale : BOOLEAN]]
  BY StepsOnward, TypeStep DEF TypeOK, LedgerTypeOK
<1>2. ASSUME NEW c \in Caller, GateShut(c) \/ ClaimSettled(c) \/ ClaimDenied(c)
      PROVE  AllAtWork'
  <2>1. /\ At(c, "call") /\ UNCHANGED holds
        /\ \/ Goto(c, "throw")
           \/ Goto(c, "after") /\ Settled(task[c].key) /\ UNCHANGED row
    BY <1>2 DEF GateShut, ClaimSettled, ClaimDenied, ledger, Settled
  <2>2. /\ Working(c) /\ ~At(c, "sending")
        /\ \/ Moves(c, "throw")
           \/ Moves(c, "after") /\ Settled(task[c].key) /\ UNCHANGED row
    BY <1>1, <2>1, MovesTo DEF Working, At
  <2>3. Moves(c, "after") /\ Settled(task[c].key) /\ UNCHANGED row => Settled(task[c].key)'
    BY DEF Settled, Done, Exhausted, Live, Moves
  <2>4. AtWork(c)'
    BY <2>1, <2>2, <2>3, MovesAtWork
  <2> QED BY <2>1, <2>2, <2>4, OthersAtWork DEF Moves
<1>3. ASSUME NEW c \in Caller, Claimed(c) PROVE AllAtWork'
  <2>1. /\ At(c, "call") /\ Moves(c, "sending") /\ Working(c)
        /\ holds' = [holds EXCEPT ![c] = task[c].key]
    BY <1>1, <1>3, MovesTo DEF Claimed, Claim, Working, At
  <2>2. Carries(c)' /\ holds'[c] = task[c].key
    BY <1>1, <2>1 DEF AllAtWork, AtWork, Carries, Onward, Summary, Moves
  <2>3. AtWork(c)'
    BY <2>1, <2>2 DEF AtWork, At, Moves
  <2> QED BY <1>1, <2>1, <2>3, OthersAtWork DEF Moves
<1>4. ASSUME NEW c \in Caller, Accepted(c) \/ Refused(c) PROVE AllAtWork'
  <2>1. /\ At(c, "sending") /\ Working(c)
        /\ \/ Moves(c, "after") /\ Mark(c, "sent")
           \/ Moves(c, "throw") /\ Mark(c, "failed")
    BY <1>1, <1>4, MovesTo DEF Accepted, Refused, Working, At
  <2>2. task[c].key \in RowKey /\ holds[c] = task[c].key /\ Carries(c)
    BY <1>1, <2>1, HandIsTyped DEF AllAtWork, AtWork
  <2>3. holds' = [holds EXCEPT ![c] = NoKey]
    BY <2>1 DEF Mark
  <2>4. Moves(c, "after") /\ Mark(c, "sent") => Settled(task[c].key)'
    BY <1>1, <2>2 DEF Mark, Settled, Done, TerminalStatus, Moves
  <2>5. Carries(c)'
    BY <1>1, <2>1, <2>2 DEF Carries, Onward, Summary, Moves
  <2>6. AtWork(c)'
    BY <1>1, <2>1, <2>3, <2>4, <2>5 DEF AtWork, At, Moves
  <2> QED BY <1>1, <2>1, <2>3, <2>6, OthersAtWork DEF Moves
<1>5. ASSUME NEW c \in Caller, At(c, "after"), UNCHANGED holds, End(c) PROVE AllAtWork'
  <2>1. Working(c) /\ ~At(c, "sending")
    BY <1>5 DEF Working, At
  <2>2. CASE c = Router
    <3>1. Moves(c, "done")
      BY <1>1, <1>5, <2>2, EndsWell
    <3>2. AtWork(c)'
      BY <1>5, <2>1, <2>2, <3>1, MovesAtWork
    <3> QED BY <1>5, <3>1, <3>2, OthersAtWork DEF Moves
  <2>3. CASE c # Router
    BY <1>1, <1>5, <2>1, <2>3, EndsWell, RestsAtWork
  <2> QED BY <2>2, <2>3
<1>6. ASSUME NEW c \in Caller, Sent(c) \/ SentAhead(c) \/ Flushed(c) PROVE AllAtWork'
  BY <1>5, <1>6 DEF Sent, SentAhead, Flushed, ledger
<1>7. ASSUME NEW c \in Caller, NextItem(c) PROVE AllAtWork'
  <2>1. At(c, "after") /\ Working(c) /\ Carries(c) /\ UNCHANGED holds /\ holds[c] = NoKey
    BY <1>1, <1>7 DEF NextItem, AllAtWork, AtWork, Working, At, ledger
  <2>2. Carries(c)' /\ task'[c].pc = "call" /\ Others(c)
    BY <1>1, <1>7, <2>1, NextItemMoves, Zenon DEF Carries, Onward, Summary
  <2>3. AtWork(c)'
    BY <2>1, <2>2 DEF AtWork, At
  <2> QED BY <2>1, <2>2, <2>3, OthersAtWork
<1>8. ASSUME NEW c \in Caller, FlushFails(c) PROVE AllAtWork'
  <2>1. /\ Rests(c) /\ UNCHANGED holds /\ ~At(c, "sending")
    BY <1>1, <1>8, RestsNow DEF FlushFails, At, ledger
  <2> QED BY <2>1, RestsAtWork
<1>9. CASE SendReturns \/ SendThrows
  <2>1. /\ Rests(Router) /\ UNCHANGED holds /\ ~At(Router, "sending")
    BY <1>1, <1>9, RestsNow DEF SendReturns, SendThrows, At, ledger
  <2> QED BY <2>1, RestsAtWork
<1>10. ASSUME NEW a \in Article, SendPlain(a) PROVE AllAtWork'
  <2>1. /\ At(Router, "idle") /\ UNCHANGED <<holds, mode>> /\ ~Summary
        /\ Call(Router, a, Message("plain", <<"route", a>>, 0, <<a>>))
    BY <1>10 DEF SendPlain, Asked, ledger, Summary
  <2>2. Begins(Router, a, Message("plain", <<"route", a>>, 0, <<a>>))
    <3>1. <<a>> \in Seq(Article) /\ 0 \in Nat
      OBVIOUS
    <3> QED BY <1>1, <2>1, <3>1, BeginsWith, KeysAreRows
  <2>3. Carries(Router)' /\ Message("plain", <<"route", a>>, 0, <<a>>).pc = "call"
    BY <2>1, <2>2 DEF Begins, Message, Carries, Summary
  <2> QED BY <2>1, <2>2, <2>3, BeginsAtWork
<1>11. ASSUME NEW a \in Article, Takes(a), UNCHANGED holds, At(Router, "idle") PROVE AllAtWork'
  <2>1. AtWork(Router)'
    BY <1>1, <1>11 DEF Takes, AllAtWork, AtWork, At, Working
  <2> QED BY <1>11, <2>1, OthersAtWork DEF Takes
<1>12. ASSUME NEW a \in Article, SendDigest(a) PROVE AllAtWork'
  <2> DEFINE batch == Append(buffer, a)
  <2>1. /\ At(Router, "idle") /\ UNCHANGED <<holds, mode>> /\ ~Summary
        /\ IF Len(batch) >= Threshold
             THEN Call(Router, a, Message("digest", <<"route", Head(batch)>>, 0, batch))
             ELSE task' = [task EXCEPT ![Router].pc = "done", ![Router].article = a]
    BY <1>12 DEF SendDigest, Asked, ledger, Summary
  <2>2. batch \in Seq(Article) /\ batch # <<>>
    <3>1. buffer \in Seq(Article)
      BY <1>1 DEF TypeOK
    <3> QED BY <3>1, AppendProperties
  <2> HIDE DEF batch
  <2>3. Head(batch) \in Article
    BY <2>2, HeadTailProperties
  <2>4. CASE Call(Router, a, Message("digest", <<"route", Head(batch)>>, 0, batch))
    <3>1. Begins(Router, a, Message("digest", <<"route", Head(batch)>>, 0, batch))
      BY <1>1, <2>2, <2>3, <2>4, BeginsWith, KeysAreRows
    <3>2. Carries(Router)' /\ Message("digest", <<"route", Head(batch)>>, 0, batch).pc = "call"
      BY <2>1, <2>2, <3>1 DEF Begins, Message, Carries, Summary
    <3> QED BY <2>1, <3>1, <3>2, BeginsAtWork
  <2>5. CASE task' = [task EXCEPT ![Router].pc = "done", ![Router].article = a]
    BY <1>1, <1>11, <2>1, <2>5, TakesArticle
  <2> QED BY <2>1, <2>4, <2>5
<1>13. ASSUME NEW a \in Article, SendAhead(a) PROVE AllAtWork'
  <2>1. /\ At(Router, "idle") /\ UNCHANGED <<holds, mode>> /\ Summary
    BY <1>13 DEF SendAhead, Asked, ledger, Summary
  <2>2. PICK n \in DOMAIN windows' : Begins(Router, a, Message("first", <<"route", a>>, n, <<a>>))
    BY <1>13, AheadBegins
  <2>3. Head(<<a>>) = a /\ <<a>> # <<>>
    OBVIOUS
  <2>4. Carries(Router)' /\ Message("first", <<"route", a>>, n, <<a>>).pc = "call"
    BY <2>1, <2>2, <2>3 DEF Begins, Message, Carries, Summary
  <2> QED BY <2>1, <2>2, <2>4, BeginsAtWork
<1>14. ASSUME NEW a \in Article, SendQueued(a) PROVE AllAtWork'
  <2>1. /\ At(Router, "idle") /\ UNCHANGED <<holds, mode>> /\ Summary
    BY <1>14 DEF SendQueued, Asked, ledger, Summary
  <2>2. CASE Takes(a)
    BY <1>11, <2>1, <2>2
  <2>3. ASSUME NEW n \in DOMAIN windows', windows'[n].items # <<>>,
               Begins(Router, a, Message("card", <<"card", n>>, n, windows'[n].items))
        PROVE  AllAtWork'
    <3>1. /\ Carries(Router)'
          /\ Message("card", <<"card", n>>, n, windows'[n].items).pc = "call"
      BY <2>1, <2>3 DEF Begins, Message, Carries, Summary
    <3> QED BY <2>1, <2>3, <3>1, BeginsAtWork
  <2> QED BY <1>14, <2>2, <2>3, QueuedCollects
<1>15. ASSUME NEW n \in WindowId, NEW c \in Caller, SweepFlushes(c, n) PROVE AllAtWork'
  <2>1. At(c, "idle") /\ UNCHANGED <<holds, mode, windows>> /\ c # Router
    BY <1>15 DEF SweepFlushes, ledger
  <2>2. n \in DOMAIN windows /\ windows[n].items # <<>> /\ Summary
    BY <1>15, SweepBegins DEF SummariesCollect
  <2>3. CASE Begins(c, NoArticle, Message("card", <<"card", n>>, n, windows[n].items))
    <3>1. Carries(c)' /\ Message("card", <<"card", n>>, n, windows[n].items).pc = "call"
      BY <2>1, <2>2, <2>3 DEF Begins, Message, Carries, Summary
    <3> QED BY <2>1, <2>3, <3>1, BeginsAtWork
  <2> DEFINE items == windows[n].items
  <2>4. CASE Begins(c, NoArticle, Message("items", <<"item", Head(items)>>, n, items))
    <3>1. Carries(c)' /\ Message("items", <<"item", Head(items)>>, n, items).pc = "call"
      BY <2>1, <2>2, <2>4 DEF Begins, Message, Carries, Summary
    <3> QED BY <2>1, <2>4, <3>1, BeginsAtWork
  <2> QED BY <1>15, <2>3, <2>4, SweepBegins
<1>16. ASSUME UNCHANGED <<task, holds>> PROVE AllAtWork'
  BY <1>16, StaysAtWork DEF AllAtWork
<1>17. CASE Crash
  BY <1>1, <1>17, IdleIsATask DEF Crash, Abandon, AllAtWork, AtWork, Working, At, Idle
<1>18. ASSUME NEW k \in RowKey, ClaimAges(k) PROVE AllAtWork'
  BY <1>16, <1>18 DEF ClaimAges, Age
<1>19. CASE Tick \/ UNCHANGED vars \/ \E n \in WindowId : SweepDrops(n)
  BY <1>16, <1>19 DEF Tick, vars, SweepDrops, ledger
<1> QED BY <1>2, <1>3, <1>4, <1>6, <1>7, <1>8, <1>9, <1>10, <1>12, <1>13, <1>14, <1>15, <1>17,
           <1>18, <1>19 DEF Next, Send, Verdict, Resume, Sweep

LEMMA TargetInitially == Init => TargetInv
<1> SUFFICES ASSUME Init PROVE TargetInv
  OBVIOUS
<1>1. LedgerInv
  BY LedgerInitially DEF Init
<1>2. \A c \in Caller : task[c] = Idle /\ holds[c] = NoKey
  BY DEF Init, LedgerInit
<1>3. AllAtWork
  BY <1>2 DEF AllAtWork, AtWork, Working, At, Idle
<1>4. windows \in Seq(Window) /\ DOMAIN windows = {} /\ Len(windows) = 0
  BY EmptySeq DEF Init
<1>5. TypeOK
  <2>1. /\ LedgerTypeOK /\ mode \in Modes /\ slot \in 0 .. MaxSlot /\ late \in BOOLEAN
        /\ windows \in Seq(Window) /\ Len(windows) <= MaxWindows
        /\ buffer \in Seq(Article) /\ storedBuffer \in Seq(Article)
    <3>1. windows = <<>> /\ buffer = <<>> /\ storedBuffer = <<>> /\ slot = 0 /\ late = FALSE
          /\ mode \in Modes
      BY DEF Init
    <3>2. <<>> \in Seq(Article) /\ 0 \in 0 .. MaxSlot /\ 0 <= MaxWindows
      BY TargetAssumption
    <3> QED BY <1>1, <1>4, <3>1, <3>2 DEF LedgerInv
  <2>2. task \in [Caller -> Task]
    BY IdleIsATask DEF Init
  <2> QED BY <2>1, <2>2 DEF Init, TypeOK
<1> QED BY <1>1, <1>3, <1>4, <1>5 DEF TargetInv, SummariesCollect

LEMMA TargetStep == TargetInv /\ [Next]_vars => TargetInv'
BY StepOfTheLedger, LedgerStep, TypeStep, WorkStep, SummariesStep DEF TargetInv

LEMMA TargetInvariant == Spec => []TargetInv
BY TargetInitially, TargetStep, PTL DEF Spec

\* The target's variables keep their types (send, flush, startFlushLoop).
THEOREM TargetIsTyped == Spec => []TypeOK
<1>1. TargetInv => TypeOK
  BY DEF TargetInv
<1> QED BY <1>1, TargetInvariant, PTL

\* A target and its sweeps use the ledger as Outbound specifies it (rawSend in
\* target-qq.ts, claim and mark in outbound.ts).
THEOREM TargetKeepsTheLedger == Spec => LedgerSpec
<1>1. Init => LedgerInit
  BY DEF Init
<1>2. TargetInv /\ [Next]_vars => [LedgerNext]_ledger
  BY StepOfTheLedger
<1> QED BY <1>1, <1>2, TargetInvariant, PTL DEF Spec, LedgerSpec

-----------------------------------------------------------------------------
(* A window that is being flushed does not change under its flush: the     *)
(* router, which alone adds items, is the flusher, or the window belongs   *)
(* to an earlier slot.                                                     *)

Whole(c) ==
  Working(c) =>
    /\ task[c].kind \in {"card", "items"} => c = Router \/ windows[task[c].win].slot < slot
    /\ task[c].kind = "card" => task[c].batch = windows[task[c].win].items

NobodyIsLate == late = FALSE /\ \A n \in DOMAIN windows : windows[n].slot <= slot

FrozenInv == NobodyIsLate /\ \A c \in Caller : Whole(c)

\* What a step does to a window that is there already.
LEMMA WindowsStep ==
  ASSUME TargetInv, [Next]_vars, NEW n \in DOMAIN windows
  PROVE  /\ n \in DOMAIN windows' /\ windows'[n].slot = windows[n].slot
         /\ windows'[n].open => windows[n].open
         /\ \/ windows'[n].items = windows[n].items
            \/ At(Router, "idle") /\ windows[n].slot = slot /\ windows[n].open /\ UNCHANGED slot
<1> USE DEF TargetInv
<1>1. n \in DOMAIN windows' /\ windows'[n].slot = windows[n].slot
  BY StepsOnward DEF Onward
<1>2. ASSUME NEW m \in DOMAIN windows, windows' = Closed(m)
      PROVE  (windows'[n].open => windows[n].open) /\ windows'[n].items = windows[n].items
  BY <1>2, WindowsClose
<1>3. ASSUME NEW c \in Caller, Flushed(c)
      PROVE  (windows'[n].open => windows[n].open) /\ windows'[n].items = windows[n].items
  BY <1>2, <1>3 DEF AllAtWork, AtWork, Working, At, Flushed, Carries
<1>4. ASSUME NEW m \in WindowId, SweepDrops(m)
      PROVE  (windows'[n].open => windows[n].open) /\ windows'[n].items = windows[n].items
  BY <1>2, <1>4 DEF SweepDrops
<1>5. ASSUME NEW a \in Article, SendAhead(a) \/ SendQueued(a)
      PROVE  /\ windows'[n].open => windows[n].open
             /\ \/ windows'[n].items = windows[n].items
                \/ At(Router, "idle") /\ windows[n].slot = slot /\ windows[n].open
                   /\ UNCHANGED slot
  <2>1. Grown(windows, windows')
    BY <1>5, AheadBegins, QueuedCollects DEF Collects
  <2>2. At(Router, "idle") /\ UNCHANGED slot
    BY <1>5 DEF SendAhead, SendQueued, Asked, clock
  <2> QED BY <2>1, <2>2, Zenon DEF Grown
<1>6. CASE UNCHANGED windows
  BY <1>6
<1> QED BY <1>1, <1>3, <1>4, <1>5, <1>6 DEF Next, Send, SendPlain, SendDigest, GateShut, Verdict,
     ClaimSettled, ClaimDenied, Claimed, Resume, Accepted, Refused, Sent, SentAhead, NextItem,
     FlushFails, SendReturns, SendThrows, Sweep, SweepFlushes, Tick, Crash, ClaimAges, vars

LEMMA NewWindows ==
  ASSUME TargetInv, [Next]_vars, NEW n \in DOMAIN windows' \ DOMAIN windows
  PROVE  windows'[n].slot = slot /\ windows'[n].open /\ slot' = slot
<1> USE DEF TargetInv
<1>1. ASSUME NEW m \in DOMAIN windows, windows' = Closed(m) PROVE FALSE
  BY <1>1, WindowsClose
<1>2. ASSUME NEW c \in Caller, Flushed(c) PROVE FALSE
  BY <1>1, <1>2 DEF AllAtWork, AtWork, Working, At, Flushed, Carries
<1>3. ASSUME NEW m \in WindowId, SweepDrops(m) PROVE FALSE
  BY <1>1, <1>3 DEF SweepDrops
<1>4. ASSUME NEW a \in Article, SendAhead(a) \/ SendQueued(a)
      PROVE  windows'[n].slot = slot /\ windows'[n].open /\ slot' = slot
  <2>1. Grown(windows, windows')
    BY <1>4, AheadBegins, QueuedCollects DEF Collects
  <2>2. slot' = slot
    BY <1>4 DEF SendAhead, SendQueued, clock
  <2> QED BY <2>1, <2>2, Zenon DEF Grown
<1> QED BY <1>2, <1>3, <1>4 DEF Next, Send, SendPlain, SendDigest, GateShut, Verdict,
     ClaimSettled, ClaimDenied, Claimed, Resume, Accepted, Refused, Sent, SentAhead, NextItem,
     FlushFails, SendReturns, SendThrows, Sweep, SweepFlushes, Tick, Crash, ClaimAges, vars

LEMMA HandsStep ==
  ASSUME TargetInv, [Next]_vars, NEW c \in Caller
  PROVE  \/ task'[c] = task[c]
         \/ ~Working(c)'
         \/ Working(c) /\ \E pc : Moves(c, pc)
         \/ NextItem(c)
         \/ c = Router /\ \E a \in Article : Send(a)
         \/ \E n \in WindowId : SweepFlushes(c, n)
<1> USE TargetAssumption DEF TargetInv
<1> task \in [Caller -> Task]
  BY DEF TypeOK
<1>1. ASSUME NEW d \in Caller,
             GateShut(d) \/ Verdict(d) \/ Accepted(d) \/ Refused(d)
      PROVE  Working(d) /\ \E pc : Moves(d, pc)
  BY <1>1, MovesTo DEF GateShut, Verdict, ClaimSettled, ClaimDenied, Claimed, Accepted, Refused,
                       Working, At
<1>2. ASSUME NEW d \in Caller, Sent(d) \/ SentAhead(d) \/ Flushed(d) \/ FlushFails(d)
      PROVE  ~Working(d)' /\ Others(d)
  BY <1>2, EndsWell, RestsNow DEF Sent, SentAhead, Flushed, FlushFails, Moves, Rests, Idle, Working
<1>3. ASSUME NEW d \in Caller, NextItem(d) PROVE Others(d)
  BY <1>3, NextItemMoves DEF NextItem, AllAtWork, AtWork, Working, At
<1>4. ASSUME SendReturns \/ SendThrows PROVE ~Working(Router)' /\ Others(Router)
  BY <1>4, RestsNow DEF SendReturns, SendThrows, Rests, Idle, Working
<1>5. ASSUME NEW a \in Article, Send(a) PROVE Others(Router)
  <2>1. \A t : task' = [task EXCEPT ![Router] = t] => Others(Router)
    BY DEF Others
  <2>2. ASSUME SendPlain(a) \/ SendDigest(a) PROVE Others(Router)
    BY <2>2 DEF SendPlain, SendDigest, Call, Others
  <2>3. ASSUME SendAhead(a) PROVE Others(Router)
    BY <2>3, AheadBegins DEF Begins
  <2>4. ASSUME SendQueued(a) PROVE Others(Router)
    BY <2>4, QueuedCollects DEF Begins, Takes
  <2> QED BY <1>5, <2>2, <2>3, <2>4 DEF Send
<1>6. ASSUME NEW d \in Caller, NEW n \in WindowId, SweepFlushes(d, n) PROVE Others(d)
  BY <1>6, SweepBegins DEF Begins
<1>7. CASE Crash
  BY <1>7 DEF Crash, Working, Idle
<1>8. CASE Tick \/ UNCHANGED vars \/ (\E k \in RowKey : ClaimAges(k))
           \/ (\E n \in WindowId : SweepDrops(n))
  BY <1>8 DEF Tick, vars, ClaimAges, SweepDrops
<1>9. ASSUME NEW d \in Caller, GateShut(d) \/ Verdict(d) \/ Resume(d)
      PROVE  \/ task'[c] = task[c] \/ ~Working(c)'
             \/ Working(c) /\ (\E pc : Moves(c, pc))
             \/ NextItem(c)
  <2>1. CASE d = c
    BY <1>1, <1>2, <1>9, <2>1 DEF Resume
  <2>2. CASE d # c
    BY <1>1, <1>2, <1>3, <1>9, <2>2 DEF Resume, Others, Moves
  <2> QED BY <2>1, <2>2
<1>10. ASSUME NEW a \in Article, Send(a) PROVE c = Router \/ task'[c] = task[c]
  BY <1>5, <1>10 DEF Others
<1>11. ASSUME NEW n \in WindowId, Sweep(n)
       PROVE  task'[c] = task[c] \/ SweepFlushes(c, n)
  BY <1>6, <1>8, <1>11 DEF Sweep, SweepDrops, Others
<1>12. ASSUME SendReturns \/ SendThrows PROVE ~Working(c)' \/ task'[c] = task[c]
  BY <1>4, <1>12 DEF Others
<1> QED BY <1>7, <1>8, <1>9, <1>10, <1>11, <1>12 DEF Next

LEMMA WholeStays ==
  ASSUME TargetInv, FrozenInv, [Next]_vars, NEW c \in Caller, Working(c),
         task'[c].kind = task[c].kind, task'[c].win = task[c].win,
         task'[c].batch = task[c].batch \/ task[c].kind = "items"
  PROVE  /\ Whole(c)'
         /\ task[c].kind \in {"card", "items"} =>
              /\ task[c].win \in DOMAIN windows
              /\ windows'[task[c].win].items = windows[task[c].win].items
<1> DEFINE n == task[c].win
<1>1. CASE ~(task[c].kind \in {"card", "items"})
  BY <1>1 DEF Whole
<1>2. CASE task[c].kind \in {"card", "items"}
  <2>1. n \in DOMAIN windows
    BY <1>2 DEF TargetInv, AllAtWork, AtWork, Carries
  <2>2. /\ windows[n].slot \in Nat /\ slot \in Nat /\ slot' \in Nat
    <3>1. windows[n] \in Window /\ slot \in Nat
      BY <2>1, SeqDomain, TargetAssumption DEF TargetInv, TypeOK
    <3>2. slot' \in Nat
      BY TypeStep, TargetAssumption DEF TypeOK
    <3> QED BY <3>1, <3>2 DEF Window
  <2>3. c = Router \/ windows[n].slot < slot
    BY <1>2 DEF FrozenInv, Whole
  <2>4. windows'[n].slot = windows[n].slot /\ windows'[n].items = windows[n].items
    BY <2>1, <2>2, <2>3, WindowsStep DEF Working, At
  <2>5. slot <= slot'
    BY StepsOnward DEF Onward
  <2>6. c = Router \/ windows'[n].slot < slot'
    BY <2>2, <2>3, <2>4, <2>5
  <2> QED BY <1>2, <2>1, <2>4, <2>6 DEF FrozenInv, Whole
<1> QED BY <1>1, <1>2

LEMMA FrozenStep ==
  ASSUME ~Aligned, TargetInv, FrozenInv, [Next]_vars
  PROVE  FrozenInv'
<1>1. late' = FALSE
  <2>1. late = FALSE
    BY DEF FrozenInv, NobodyIsLate
  <2>2. CASE Tick
    BY <2>2, Zenon DEF Tick
  <2>3. CASE UNCHANGED late
    BY <2>1, <2>3
  <2> QED BY <2>2, <2>3 DEF Next, Send, SendPlain, SendDigest, SendAhead, SendQueued, GateShut,
       Verdict, ClaimSettled, ClaimDenied, Claimed, Resume, Accepted, Refused, Sent, SentAhead,
       NextItem, Flushed, FlushFails, SendReturns, SendThrows, Sweep, SweepDrops, SweepFlushes,
       Crash, ClaimAges, vars, clock
<1>2. slot \in Nat /\ slot' \in Nat /\ slot <= slot'
  <2>1. slot \in 0 .. MaxSlot /\ slot' \in 0 .. MaxSlot
    BY TypeStep DEF TargetInv, TypeOK
  <2> QED BY <2>1, StepsOnward, TargetAssumption DEF Onward
<1>3. ASSUME NEW n \in DOMAIN windows' PROVE windows'[n].slot <= slot'
  <2>1. CASE n \in DOMAIN windows
    <3>1. windows[n].slot <= slot /\ windows'[n].slot = windows[n].slot
      BY <2>1, WindowsStep DEF FrozenInv, NobodyIsLate
    <3>2. windows[n].slot \in Nat
      <4>1. windows[n] \in Window
        BY <2>1, SeqDomain DEF TargetInv, TypeOK
      <4> QED BY <4>1 DEF Window
    <3> QED BY <1>2, <3>1, <3>2
  <2>2. CASE n \notin DOMAIN windows
    BY <1>2, <2>2, NewWindows
  <2> QED BY <2>1, <2>2
<1>4. ASSUME NEW c \in Caller PROVE Whole(c)'
  <2>1. CASE task'[c] = task[c]
    BY <2>1, WholeStays DEF Whole, Working
  <2>2. CASE ~Working(c)'
    BY <2>2 DEF Whole
  <2>3. ASSUME Working(c), NEW pc, Moves(c, pc) PROVE Whole(c)'
    BY <2>3, WholeStays DEF Moves
  <2>4. CASE NextItem(c)
    <3>1. Working(c) /\ Carries(c) /\ TypeOK
      BY <2>4 DEF NextItem, Working, At, TargetInv, AllAtWork, AtWork
    <3>2. task'[c].kind = task[c].kind /\ task'[c].win = task[c].win /\ task[c].kind = "items"
      BY <2>4, <3>1, NextItemMoves
    <3> QED BY <3>1, <3>2, WholeStays
  <2>5. ASSUME c = Router, NEW a \in Article, Send(a) PROVE Whole(c)'
    <3>1. ASSUME SendPlain(a) \/ SendDigest(a) PROVE Whole(c)'
      <4> SUFFICES ASSUME Working(c)', task'[c].kind = "card" PROVE FALSE
        BY <2>5 DEF Whole
      <4>1. TargetInv' /\ UNCHANGED mode /\ ~Summary
        BY <3>1, TargetStep DEF SendPlain, SendDigest, Summary
      <4> QED BY <4>1 DEF TargetInv, AllAtWork, AtWork, Carries, Summary
    <3>2. ASSUME SendAhead(a) PROVE Whole(c)'
      <4>1. task'[Router].kind = "first"
        BY <3>2, AheadBegins DEF TargetInv, Begins, Message
      <4> QED BY <2>5, <4>1 DEF Whole
    <3>3. ASSUME SendQueued(a) PROVE Whole(c)'
      <4>1. CASE Takes(a)
        BY <2>5, <4>1 DEF Takes, Whole, Working
      <4>2. ASSUME NEW n, Begins(Router, a, Message("card", <<"card", n>>, n, windows'[n].items))
            PROVE  Whole(c)'
        BY <2>5, <4>2 DEF Begins, Message, Whole
      <4> QED BY <3>3, <4>1, <4>2, QueuedCollects DEF TargetInv
    <3> QED BY <2>5, <3>1, <3>2, <3>3 DEF Send
  <2>6. ASSUME NEW n \in WindowId, SweepFlushes(c, n) PROVE Whole(c)'
    <3>1. /\ UNCHANGED <<windows, slot>> /\ n \in DOMAIN windows
          /\ windows[n].slot < slot
      BY <2>6 DEF SweepFlushes, Due, clock, FrozenInv, NobodyIsLate
    <3>2. task'[c].win = n /\ task'[c].batch = windows[n].items
      BY <2>6, SweepBegins DEF TargetInv, Begins, Message
    <3> QED BY <3>1, <3>2 DEF Whole
  <2> QED BY <2>1, <2>2, <2>3, <2>4, <2>5, <2>6, HandsStep
<1> QED BY <1>1, <1>3, <1>4 DEF FrozenInv, NobodyIsLate

LEMMA FrozenInvariant ==
  ASSUME ~Aligned
  PROVE  Spec => [](TargetInv /\ FrozenInv)
<1>1. Init => FrozenInv
  BY DEF Init, FrozenInv, NobodyIsLate, Whole, Working, Idle
<1>2. TargetInv /\ FrozenInv /\ [Next]_vars => FrozenInv'
  BY FrozenStep
<1> QED BY <1>1, <1>2, TargetInvariant, PTL DEF Spec

-----------------------------------------------------------------------------
(* What a row says of its articles: when the row is settled, the chat shows *)
(* them, or the row has given them up, or a crash cut its window short.     *)

Covered(a) == shown[a] > 0 \/ GivenUp(a)

Served(a) == Covered(a) \/ CutShort(a)

\* While no crash has come in between, the card of a window shows all of it, and
\* only its flusher has yet to close it.
CardShows(n) ==
  /\ n \in DOMAIN windows
  /\ crashes = 0 =>
       /\ \A a \in Members(windows[n].items) : shown[a] > 0
       /\ windows[n].open /\ windows[n].slot = slot =>
            At(Router, "after") /\ task[Router].kind = "card" /\ task[Router].win = n

DoneIsShown ==
  \A k \in RowKey : Done(k) => IF k[1] = "card" THEN CardShows(k[2]) ELSE shown[k[2]] > 0

ClosedIsServed ==
  \A n \in DOMAIN windows :
    ~windows[n].open => \A a \in Members(windows[n].items) : Served(a)

\* The items a flush has gone past.
PastIsCovered ==
  \A c \in Caller :
    Working(c) /\ task[c].kind = "items" =>
      \A a \in Members(windows[task[c].win].items) : a \in Members(task[c].batch) \/ Covered(a)

\* What the router took for a summary.
Taken(a) ==
  a \in capped \/ Covered(a) \/ \E n \in DOMAIN windows : a \in Members(windows[n].items)

Promises ==
  At(Router, "done") \/ (Working(Router) /\ task[Router].kind \in {"card", "items"})

Promised(a) == a \in forwarded \/ (Promises /\ task[Router].article = a)

TakenForGood == Summary => \A a \in Article : Promised(a) => Taken(a)

ServedInv == DoneIsShown /\ ClosedIsServed /\ PastIsCovered /\ TakenForGood

LEMMA DoneStays ==
  ASSUME LedgerInv, [LedgerNext]_ledger, NEW k \in RowKey, Done(k)
  PROVE  Done(k)'
<1> USE LedgerAssumption DEF LedgerInv, LedgerTypeOK, Done, TerminalStatus
<1>1. ASSUME NEW c \in Caller, NEW l \in RowKey, Claim(c, l) PROVE Done(k)'
  BY <1>1 DEF Claim, Free, Live
<1>2. ASSUME NEW c \in Caller, NEW outcome \in Outcome, Mark(c, outcome) PROVE Done(k)'
  BY <1>2 DEF Mark, OneHolder
<1>3. ASSUME NEW l \in RowKey, Age(l) PROVE Done(k)'
  BY <1>3 DEF Age
<1>4. CASE Abandon \/ UNCHANGED ledger
  BY <1>4 DEF Abandon, ledger
<1> QED BY <1>1, <1>2, <1>3, <1>4 DEF LedgerNext

LEMMA MembersAreArticles ==
  /\ \A s \in Seq(Article) : Members(s) \subseteq Article
  /\ TypeOK => \A n \in DOMAIN windows : windows[n].items \in Seq(Article)
<1>1. ASSUME NEW s \in Seq(Article) PROVE Members(s) \subseteq Article
  BY SeqDomain DEF Members
<1>2. ASSUME TypeOK, NEW n \in DOMAIN windows PROVE windows[n].items \in Seq(Article)
  <2>1. windows[n] \in Window
    BY <1>2, SeqDomain DEF TypeOK
  <2> QED BY <2>1 DEF Window
<1> QED BY <1>1, <1>2

\* Only an accepted message settles a row for good, and it shows what the row is about.
LEMMA AcceptedShows ==
  ASSUME TargetInv, FrozenInv, NEW c \in Caller, Accepted(c)
  PROVE  /\ task[c].key \in RowKey /\ holds[c] = task[c].key /\ Working(c)
         /\ \A a \in Members(Body(c)) : shown'[a] > 0
         /\ task[c].key[1] # "card" => task[c].key[2] \in Members(Body(c))
         /\ task[c].key[1] = "card" =>
              /\ task[c].kind = "card" /\ task[c].win = task[c].key[2]
              /\ task[c].win \in DOMAIN windows
              /\ Members(windows[task[c].win].items) \subseteq Members(Body(c))
<1> DEFINE t == task[c]
<1>1. At(c, "sending") /\ Working(c) /\ Carries(c) /\ holds[c] = t.key /\ TypeOK
  BY DEF Accepted, TargetInv, AllAtWork, AtWork, Working, At
<1>2. t.key \in RowKey /\ Body(c) \in Seq(Article) /\ t.batch \in Seq(Article) /\ t.batch # <<>>
  BY <1>1, HandIsTyped, BodyIsTyped DEF Carries
<1>3. ASSUME NEW a \in Members(Body(c)) PROVE shown'[a] > 0
  <2>1. a \in Article /\ Count(Body(c), a) \in Nat /\ Count(Body(c), a) > 0
    BY <1>2, MembersAreArticles, CountIsNatural
  <2>2. shown'[a] = shown[a] + Count(Body(c), a) /\ shown[a] \in Nat
    BY <1>1, <2>1 DEF Accepted, TypeOK
  <2> QED BY <2>1, <2>2
<1>4. Head(t.batch) \in Members(t.batch)
  <2>1. 1 \in DOMAIN t.batch /\ Head(t.batch) = t.batch[1]
    BY <1>2
  <2> QED BY <2>1 DEF Members
<1>5. Head(t.batch) \in Members(Body(c))
  <2>1. Members(<<Head(t.batch)>>) = {Head(t.batch)}
    BY DEF Members
  <2> QED BY <1>4, <2>1 DEF Body
<1>6. \/ t.kind \in {"plain", "digest", "first"} /\ t.key = <<"route", Head(t.batch)>>
      \/ t.kind = "items" /\ t.key = <<"item", Head(t.batch)>>
      \/ t.kind = "card" /\ t.key = <<"card", t.win>> /\ t.win \in DOMAIN windows
  BY <1>1 DEF Carries
<1>7. CASE t.kind = "card"
  <2>1. t.batch = windows[t.win].items /\ Body(c) = t.batch
    BY <1>1, <1>7 DEF FrozenInv, Whole, Body
  <2> QED BY <1>1, <1>2, <1>3, <1>6, <1>7, <2>1
<1>8. CASE t.kind # "card"
  BY <1>1, <1>2, <1>3, <1>5, <1>6, <1>8
<1> QED BY <1>7, <1>8

LEMMA RowSettles ==
  ASSUME TargetInv, [Next]_vars, NEW k \in RowKey, ~Done(k), Done(k)'
  PROVE  \E c \in Caller : Accepted(c) /\ holds[c] = k
<1> USE DEF TargetInv
<1>1. LedgerTypeOK
  BY DEF LedgerInv
<1>2. ASSUME NEW c \in Caller, Claimed(c) PROVE FALSE
  BY <1>1, <1>2 DEF Claimed, Claim, Done, TerminalStatus, LedgerTypeOK
<1>3. ASSUME NEW c \in Caller, Refused(c) PROVE FALSE
  BY <1>1, <1>3 DEF Refused, Mark, Done, TerminalStatus, LedgerTypeOK
<1>4. ASSUME NEW c \in Caller, Accepted(c) PROVE holds[c] = k
  BY <1>1, <1>4 DEF Accepted, Mark, Done, TerminalStatus, LedgerTypeOK
<1>5. ASSUME NEW l \in RowKey, ClaimAges(l) PROVE FALSE
  BY <1>1, <1>5 DEF ClaimAges, Age, Done, TerminalStatus, LedgerTypeOK
<1>6. CASE UNCHANGED row
  BY <1>6 DEF Done
<1> QED BY <1>2, <1>3, <1>4, <1>5, <1>6 DEF Next, Send, SendPlain, SendDigest, SendAhead,
     SendQueued, GateShut, Verdict, ClaimSettled, ClaimDenied, Resume, Sent, SentAhead, NextItem,
     Flushed, FlushFails, SendReturns, SendThrows, Sweep, SweepDrops, SweepFlushes, Tick, Crash,
     Abandon, vars, ledger

LEMMA CoveredStays ==
  ASSUME TargetInv, FrozenInv, [Next]_vars, NEW a \in Article, Covered(a)
  PROVE  Covered(a)'
<1>1. Onward /\ shown \in [Article -> Nat] /\ shown' \in [Article -> Nat]
  BY StepsOnward, TypeStep DEF TargetInv, TypeOK
<1>2. CASE shown[a] > 0
  BY <1>1, <1>2 DEF Covered, Onward
<1>3. CASE GivenUp(a)
  <2>1. PICK k \in RowKey :
          /\ Exhausted(k)
          /\ IF k[1] = "card" THEN k[2] \in DOMAIN windows /\ a \in Members(windows[k[2]].items)
                              ELSE k[2] = a
    BY <1>3 DEF GivenUp
  <2>2. CASE Exhausted(k)'
    <3>1. k[1] = "card" =>
            k[2] \in DOMAIN windows' /\ a \in Members(windows'[k[2]].items)
      BY <1>1, <2>1 DEF Onward
    <3> QED BY <2>1, <2>2, <3>1 DEF Covered, GivenUp
  <2>3. CASE ~Exhausted(k)'
    <3>1. Done(k)' /\ ~Done(k)
      BY <2>1, <2>3, SettledStays, StepOfTheLedger
         DEF Settled, TargetInv, Exhausted, Live, Done, TerminalStatus
    <3>2. PICK c \in Caller : Accepted(c) /\ holds[c] = k
      BY <3>1, RowSettles
    <3>3. a \in Members(Body(c))
      BY <2>1, <3>2, AcceptedShows
    <3>4. shown'[a] > 0
      BY <3>2, <3>3, AcceptedShows
    <3> QED BY <3>4 DEF Covered
  <2> QED BY <2>2, <2>3
<1> QED BY <1>2, <1>3 DEF Covered

LEMMA ServedStays ==
  ASSUME TargetInv, FrozenInv, [Next]_vars, NEW a \in Article
  PROVE  (Served(a) => Served(a)') /\ (Taken(a) => Taken(a)')
<1>1. Onward
  BY StepsOnward
<1>2. Covered(a) => Covered(a)'
  BY CoveredStays
<1>3. ASSUME CutShort(a) PROVE CutShort(a)'
  <2>1. crashes > 0 /\ crashes' > 0
    <3>1. crashes \in Nat /\ crashes' \in Nat /\ crashes <= crashes' /\ crashes > 0
      BY <1>1, <1>3, TypeStep DEF Onward, TargetInv, TypeOK, CutShort
    <3> QED BY <3>1
  <2>2. PICK n \in DOMAIN windows : Done(<<"card", n>>) /\ a \in Members(windows[n].items)
    BY <1>3 DEF CutShort
  <2>3. <<"card", n>> \in RowKey
    BY KeysAreRows, WindowsAreNumbered DEF TargetInv
  <2>4. Done(<<"card", n>>)'
    BY <2>2, <2>3, DoneStays, StepOfTheLedger DEF TargetInv
  <2>5. n \in DOMAIN windows' /\ a \in Members(windows'[n].items)
    BY <1>1, <2>2 DEF Onward
  <2> QED BY <2>1, <2>4, <2>5 DEF CutShort
<1>4. Taken(a) => Taken(a)'
  BY <1>1, <1>2 DEF Taken, Onward
<1> QED BY <1>2, <1>3, <1>4 DEF Served

LEMMA SettledIsServed ==
  ASSUME TargetInv, DoneIsShown, NEW k \in RowKey, Settled(k)
  PROVE  /\ k[1] # "card" => Covered(k[2])
         /\ k[1] = "card" /\ k[2] \in DOMAIN windows =>
              \A a \in Members(windows[k[2]].items) : Served(a)
<1>1. CASE Exhausted(k)
  BY <1>1 DEF Covered, Served, GivenUp
<1>2. CASE Done(k)
  <2>1. IF k[1] = "card" THEN CardShows(k[2]) ELSE shown[k[2]] > 0
    BY <1>2 DEF DoneIsShown
  <2>2. CASE k[1] # "card"
    BY <2>1, <2>2 DEF Covered
  <2>3. CASE k[1] = "card"
    <3> SUFFICES ASSUME k[2] \in DOMAIN windows, NEW a \in Members(windows[k[2]].items)
                 PROVE  Served(a)
      BY <2>3
    <3>1. CASE crashes = 0
      BY <2>1, <2>3, <3>1 DEF CardShows, Served, Covered
    <3>2. CASE crashes # 0
      <4>1. crashes > 0
        BY <3>2 DEF TargetInv, TypeOK
      <4>2. k = <<"card", k[2]>>
        BY <2>3, TargetAssumption
      <4> QED BY <1>2, <4>1, <4>2 DEF Served, CutShort
    <3> QED BY <3>1, <3>2
  <2> QED BY <2>2, <2>3
<1> QED BY <1>1, <1>2 DEF Settled

\* The router does not leave the card it has sent but to close its window.
LEMMA RouterCloses ==
  ASSUME TargetInv, [Next]_vars, At(Router, "after"), task[Router].kind = "card"
  PROVE  task'[Router] = task[Router] \/ Flushed(Router) \/ crashes' # 0
<1> USE TargetAssumption DEF TargetInv
<1> task \in [Caller -> Task] /\ crashes \in Nat
  BY DEF TypeOK
<1>1. ASSUME NEW c \in Caller, GateShut(c) \/ Verdict(c) \/ Accepted(c) \/ Refused(c)
      PROVE  task'[Router] = task[Router]
  <2>1. c # Router /\ \E pc : Goto(c, pc)
    BY <1>1 DEF GateShut, Verdict, ClaimSettled, ClaimDenied, Claimed, Accepted, Refused, At
  <2> QED BY <2>1 DEF Goto
<1>2. ASSUME NEW c \in Caller, Sent(c) \/ SentAhead(c) \/ Flushed(c) \/ FlushFails(c)
      PROVE  task'[Router] = task[Router] \/ Flushed(Router)
  <2>1. CASE c = Router
    BY <1>2, <2>1 DEF Sent, SentAhead, FlushFails
  <2>2. CASE c # Router
    <3>1. task' = [task EXCEPT ![c] = Idle]
      BY <1>2, <2>2 DEF Sent, SentAhead, Flushed, FlushFails, End
    <3> QED BY <2>2, <3>1
  <2> QED BY <2>1, <2>2
<1>3. ASSUME NEW c \in Caller, NextItem(c) PROVE task'[Router] = task[Router]
  <2>1. c # Router
    BY <1>3 DEF NextItem
  <2> QED BY <1>3, <2>1, NextItemMoves DEF NextItem, AllAtWork, AtWork, Working, At, Others
<1>4. ASSUME NEW a \in Article, Send(a) PROVE FALSE
  BY <1>4 DEF Send, SendPlain, SendDigest, SendAhead, SendQueued, Asked, At
<1>5. ASSUME SendReturns \/ SendThrows PROVE FALSE
  BY <1>5 DEF SendReturns, SendThrows, At
<1>6. ASSUME NEW n \in WindowId, Sweep(n) PROVE task'[Router] = task[Router]
  <2>1. CASE SweepDrops(n)
    BY <2>1 DEF SweepDrops
  <2>2. ASSUME NEW c \in Caller, SweepFlushes(c, n) PROVE task'[Router] = task[Router]
    BY <2>2, SweepBegins DEF SweepFlushes, Begins, Others
  <2> QED BY <1>6, <2>1, <2>2 DEF Sweep
<1>7. CASE Crash
  BY <1>7 DEF Crash
<1>8. CASE Tick \/ UNCHANGED vars \/ (\E k \in RowKey : ClaimAges(k))
  BY <1>8 DEF Tick, vars, ClaimAges
<1> QED BY <1>1, <1>2, <1>3, <1>4, <1>5, <1>6, <1>7, <1>8 DEF Next, Resume

LEMMA DoneStep ==
  ASSUME TargetInv, FrozenInv, DoneIsShown, [Next]_vars
  PROVE  DoneIsShown'
<1> SUFFICES ASSUME NEW k \in RowKey, Done(k)'
             PROVE  IF k[1] = "card" THEN CardShows(k[2])' ELSE shown'[k[2]] > 0
  BY DEF DoneIsShown
<1>1. /\ Onward /\ shown \in [Article -> Nat] /\ shown' \in [Article -> Nat] /\ TypeOK /\ TypeOK'
      /\ crashes \in Nat /\ crashes' \in Nat /\ slot \in Nat /\ slot' \in Nat
  <2>1. slot \in 0 .. MaxSlot /\ slot' \in 0 .. MaxSlot
    BY TypeStep DEF TargetInv, TypeOK
  <2>2. slot \in Nat /\ slot' \in Nat
    BY <2>1, TargetAssumption
  <2>3. /\ shown \in [Article -> Nat] /\ shown' \in [Article -> Nat]
        /\ crashes \in Nat /\ crashes' \in Nat
    BY TypeStep DEF TargetInv, TypeOK
  <2> QED BY <2>2, <2>3, StepsOnward, TypeStep DEF TargetInv
<1>2. CASE Done(k)
  <2>1. CASE k[1] # "card"
    <3>1. k[2] \in Article
      BY <2>1, TargetAssumption
    <3> QED BY <1>1, <1>2, <2>1, <3>1 DEF DoneIsShown, Onward
  <2>2. CASE k[1] = "card"
    <3> DEFINE n == k[2]
    <3>1. CardShows(n) /\ n \in DOMAIN windows
      BY <1>2, <2>2 DEF DoneIsShown, CardShows
    <3>2. n \in DOMAIN windows'
      BY <3>1, WindowsStep
    <3>3. ASSUME crashes' = 0
          PROVE  /\ \A a \in Members(windows'[n].items) : shown'[a] > 0
                 /\ windows'[n].open /\ windows'[n].slot = slot' =>
                      At(Router, "after")' /\ task'[Router].kind = "card" /\ task'[Router].win = n
      <4>1. crashes = 0
        BY <1>1, <3>3 DEF Onward
      <4>2. /\ \A a \in Members(windows[n].items) : shown[a] > 0
            /\ windows[n].open /\ windows[n].slot = slot =>
                 At(Router, "after") /\ task[Router].kind = "card" /\ task[Router].win = n
        BY <3>1, <4>1 DEF CardShows
      <4>3. windows'[n].items = windows[n].items
        BY <3>1, <4>2, WindowsStep DEF At
      <4>4. ASSUME NEW a \in Members(windows'[n].items) PROVE shown'[a] > 0
        <5>1. a \in Article
          BY <1>1, <3>1, <4>3, MembersAreArticles
        <5> QED BY <1>1, <4>2, <4>3, <5>1 DEF Onward
      <4>5. ASSUME windows'[n].open, windows'[n].slot = slot'
            PROVE  At(Router, "after")' /\ task'[Router].kind = "card" /\ task'[Router].win = n
        <5>1. windows[n].open /\ windows[n].slot = slot'
          BY <3>1, <4>5, WindowsStep
        <5>2. windows[n].slot <= slot /\ slot <= slot'
          BY <1>1, <3>1 DEF FrozenInv, NobodyIsLate, Onward
        <5>3. windows[n].slot = slot
          BY <1>1, <5>1, <5>2
        <5>4. At(Router, "after") /\ task[Router].kind = "card" /\ task[Router].win = n
          BY <4>2, <5>1, <5>3
        <5>5. ~Flushed(Router)
          <6> SUFFICES ASSUME Flushed(Router) PROVE FALSE
            OBVIOUS
          <6>1. windows' = Closed(n)
            BY <5>4 DEF Flushed
          <6> QED BY <1>1, <3>1, <4>5, <6>1, WindowsClose
        <5>6. task'[Router] = task[Router]
          BY <3>3, <5>4, <5>5, RouterCloses
        <5> QED BY <5>4, <5>6 DEF At
      <4> QED BY <4>4, <4>5
    <3> QED BY <2>2, <3>2, <3>3 DEF CardShows
  <2> QED BY <2>1, <2>2
<1>3. CASE ~Done(k)
  <2>1. PICK c \in Caller : Accepted(c) /\ holds[c] = k
    BY <1>3, RowSettles
  <2>2. k = task[c].key /\ Working(c)
    BY <2>1, AcceptedShows
  <2>3. CASE k[1] # "card"
    BY <2>1, <2>2, <2>3, AcceptedShows
  <2>4. CASE k[1] = "card"
    <3> DEFINE n == k[2]
    <3>1. /\ task[c].kind = "card" /\ task[c].win = n /\ n \in DOMAIN windows
          /\ \A a \in Members(windows[n].items) : shown'[a] > 0
      BY <2>1, <2>2, <2>4, AcceptedShows
    <3>2. UNCHANGED <<windows, slot>> /\ Goto(c, "after")
      BY <2>1 DEF Accepted, clock
    <3>3. Moves(c, "after")
      BY <1>1, <3>2, MovesTo DEF TypeOK
    <3>4. windows[n].slot = slot => c = Router
      <4>1. c = Router \/ windows[n].slot < slot
        BY <2>2, <3>1 DEF FrozenInv, Whole
      <4> QED BY <1>1, <4>1
    <3>5. windows[n].slot = slot =>
            At(Router, "after")' /\ task'[Router].kind = "card" /\ task'[Router].win = n
      BY <3>1, <3>3, <3>4 DEF Moves, At
    <3> QED BY <2>4, <3>1, <3>2, <3>5 DEF CardShows
  <2> QED BY <2>3, <2>4
<1> QED BY <1>2, <1>3

LEMMA ClosedStep ==
  ASSUME TargetInv, FrozenInv, ServedInv, [Next]_vars
  PROVE  ClosedIsServed'
<1> SUFFICES ASSUME NEW n \in DOMAIN windows', ~windows'[n].open,
                    NEW a \in Members(windows'[n].items)
             PROVE  Served(a)'
  BY DEF ClosedIsServed
<1>1. n \in DOMAIN windows
  BY NewWindows
<1>2. a \in Article
  <2>1. windows' \in Seq(Window)
    BY TypeStep DEF TypeOK
  <2>2. windows'[n] \in Window
    BY <2>1, SeqDomain
  <2>3. windows'[n].items \in Seq(Article)
    BY <2>2 DEF Window
  <2> QED BY <2>3, MembersAreArticles
<1>3. CASE ~windows[n].open
  <2>1. windows'[n].items = windows[n].items
    BY <1>1, <1>3, WindowsStep
  <2> QED BY <1>1, <1>2, <1>3, <2>1, ServedStays DEF ServedInv, ClosedIsServed
<1>4. CASE windows[n].open
  <2>1. ASSUME NEW m \in DOMAIN windows, windows' = Closed(m)
        PROVE  m = n /\ windows'[n].items = windows[n].items
    BY <1>1, <1>4, <2>1, WindowsClose DEF TargetInv
  <2>2. ASSUME NEW c \in Caller, Flushed(c) PROVE Served(a)'
    <3> DEFINE t == task[c]
    <3>1. Working(c) /\ Carries(c) /\ At(c, "after") /\ windows' = Closed(t.win) /\ Settled(t.key)
      BY <2>2 DEF Flushed, TargetInv, AllAtWork, AtWork, Working, At
    <3>2. t.win = n /\ a \in Members(windows[n].items) /\ t.key \in RowKey
      BY <2>1, <2>2, <3>1, HandIsTyped DEF Carries, Flushed, TargetInv
    <3>3. CASE t.kind = "card"
      <4>1. t.key = <<"card", n>>
        BY <3>1, <3>2, <3>3 DEF Carries
      <4>2. Served(a)
        BY <1>1, <3>1, <3>2, <4>1, SettledIsServed DEF ServedInv
      <4> QED BY <1>2, <4>2, ServedStays
    <3>4. CASE t.kind = "items" /\ Len(t.batch) = 1
      <4>1. t.key = <<"item", Head(t.batch)>>
        BY <3>1, <3>4 DEF Carries
      <4>2. Covered(Head(t.batch))
        BY <3>1, <3>2, <4>1, SettledIsServed DEF ServedInv
      <4>3. Members(t.batch) = {Head(t.batch)}
        <5>1. t.batch \in Seq(Article) /\ t.batch # <<>>
          BY <3>1, HandIsTyped DEF Carries, TargetInv
        <5>2. DOMAIN t.batch = {1} /\ Head(t.batch) = t.batch[1]
          BY <3>4, <5>1
        <5> QED BY <5>2 DEF Members
      <4>4. a \in Members(t.batch) \/ Covered(a)
        BY <3>1, <3>2, <3>4 DEF ServedInv, PastIsCovered
      <4>5. Served(a)
        BY <4>2, <4>3, <4>4 DEF Served
      <4> QED BY <1>2, <4>5, ServedStays
    <3> QED BY <2>2, <3>3, <3>4 DEF Flushed
  <2>3. ASSUME NEW m \in WindowId, SweepDrops(m) PROVE FALSE
    <3>1. m = n /\ windows'[n].items = <<>>
      BY <2>1, <2>3 DEF SweepDrops
    <3> QED BY <3>1 DEF Members
  <2>4. ASSUME NEW b \in Article, SendAhead(b) \/ SendQueued(b) PROVE FALSE
    <3>1. Grown(windows, windows')
      BY <2>4, AheadBegins, QueuedCollects DEF Collects, TargetInv
    <3> QED BY <1>1, <1>4, <3>1 DEF Grown
  <2>5. CASE UNCHANGED windows
    BY <1>4, <2>5
  <2> QED BY <2>2, <2>3, <2>4, <2>5 DEF Next, Send, SendPlain, SendDigest, GateShut, Verdict,
       ClaimSettled, ClaimDenied, Claimed, Resume, Accepted, Refused, Sent, SentAhead, NextItem,
       FlushFails, SendReturns, SendThrows, Sweep, SweepFlushes, Tick, Crash, ClaimAges, vars
<1> QED BY <1>3, <1>4

LEMMA PastStays ==
  ASSUME TargetInv, FrozenInv, ServedInv, [Next]_vars, NEW c \in Caller, Working(c),
         task'[c].kind = task[c].kind, task'[c].win = task[c].win,
         task'[c].batch = task[c].batch, task[c].kind = "items",
         NEW a \in Members(windows'[task[c].win].items)
  PROVE  a \in Members(task'[c].batch) \/ Covered(a)'
<1>1. windows'[task[c].win].items = windows[task[c].win].items /\ task[c].win \in DOMAIN windows
  BY WholeStays
<1>2. a \in Article
  BY <1>1, MembersAreArticles DEF TargetInv
<1>3. a \in Members(task[c].batch) \/ Covered(a)
  BY <1>1 DEF ServedInv, PastIsCovered
<1> QED BY <1>2, <1>3, CoveredStays

LEMMA PastStep ==
  ASSUME TargetInv, FrozenInv, ServedInv, [Next]_vars
  PROVE  PastIsCovered'
<1> SUFFICES ASSUME NEW c \in Caller, Working(c)', task'[c].kind = "items",
                    NEW a \in Members(windows'[task'[c].win].items)
             PROVE  a \in Members(task'[c].batch) \/ Covered(a)'
  BY DEF PastIsCovered
<1>1. CASE task'[c] = task[c]
  <2>1. Working(c)
    BY <1>1 DEF Working
  <2> QED BY <1>1, <2>1, PastStays
<1>2. ASSUME Working(c), NEW pc, Moves(c, pc) PROVE a \in Members(task'[c].batch) \/ Covered(a)'
  BY <1>2, PastStays DEF Moves
<1>3. CASE NextItem(c)
  <2> DEFINE t == task[c]
  <2>1. Working(c) /\ Carries(c) /\ TypeOK /\ At(c, "after") /\ Settled(t.key)
    BY <1>3 DEF NextItem, Working, At, TargetInv, AllAtWork, AtWork
  <2>2. /\ task'[c].kind = t.kind /\ task'[c].win = t.win /\ t.kind = "items"
        /\ task'[c].batch = Tail(t.batch)
    BY <1>3, <2>1, NextItemMoves
  <2>3. windows'[t.win].items = windows[t.win].items /\ t.win \in DOMAIN windows
    BY <2>1, <2>2, WholeStays
  <2>4. a \in Article
    BY <2>2, <2>3, MembersAreArticles DEF TargetInv
  <2>5. a \in Members(t.batch) \/ Covered(a)
    BY <2>1, <2>2, <2>3 DEF ServedInv, PastIsCovered
  <2>6. t.key = <<"item", Head(t.batch)>> /\ t.key \in RowKey
    BY <2>1, <2>2, HandIsTyped DEF Carries
  <2>7. Covered(Head(t.batch))
    BY <2>1, <2>6, SettledIsServed DEF ServedInv
  <2>8. ASSUME a \in Members(t.batch), a # Head(t.batch) PROVE a \in Members(Tail(t.batch))
    <3>1. t.batch \in Seq(Article) /\ t.batch # <<>>
      BY <2>1, HandIsTyped DEF Carries
    <3>2. PICK m \in 1 .. Len(t.batch) : t.batch[m] = a
      BY <2>8, <3>1 DEF Members
    <3>3. m # 1 /\ Len(t.batch) \in Nat /\ m \in Nat
      BY <2>8, <3>1, <3>2
    <3> DEFINE rest == Tail(t.batch)
    <3>4. rest \in Seq(Article) /\ Len(rest) = Len(t.batch) - 1
          /\ \A i \in 1 .. Len(t.batch) - 1 : rest[i] = t.batch[i + 1]
      BY <3>1
    <3>5. m - 1 \in 1 .. Len(t.batch) - 1 /\ (m - 1) + 1 = m
      BY <3>2, <3>3
    <3> HIDE DEF rest
    <3>6. m - 1 \in DOMAIN rest /\ rest[m - 1] = a
      BY <3>2, <3>4, <3>5, SeqDomain
    <3>7. a \in Members(rest)
      BY <3>6 DEF Members
    <3> QED BY <3>7 DEF rest
  <2> QED BY <2>2, <2>4, <2>5, <2>7, <2>8, CoveredStays
<1>4. ASSUME c = Router, NEW b \in Article, Send(b) PROVE FALSE
  <2>1. ASSUME SendPlain(b) \/ SendDigest(b) PROVE FALSE
    <3>1. TargetInv' /\ UNCHANGED mode /\ ~Summary
      BY <2>1, TargetStep DEF SendPlain, SendDigest, Summary
    <3> QED BY <3>1 DEF TargetInv, AllAtWork, AtWork, Carries, Summary
  <2>2. ASSUME SendAhead(b) PROVE FALSE
    BY <1>4, <2>2, AheadBegins DEF TargetInv, Begins, Message
  <2>3. ASSUME SendQueued(b) PROVE FALSE
    BY <1>4, <2>3, QueuedCollects DEF TargetInv, Begins, Message, Takes, Working
  <2> QED BY <1>4, <2>1, <2>2, <2>3 DEF Send
<1>5. ASSUME NEW n \in WindowId, SweepFlushes(c, n) PROVE a \in Members(task'[c].batch)
  <2>1. UNCHANGED windows /\ task'[c].win = n /\ task'[c].batch = windows[n].items
    BY <1>5, SweepBegins DEF TargetInv, SweepFlushes, Begins, Message
  <2> QED BY <2>1
<1> QED BY <1>1, <1>2, <1>3, <1>4, <1>5, HandsStep

LEMMA TakenStep ==
  ASSUME TargetInv, FrozenInv, ServedInv, [Next]_vars
  PROVE  TakenForGood'
<1> DEFINE t == task[Router]
<1> USE TargetAssumption
<1> SUFFICES ASSUME Summary, NEW b \in Article, Promised(b)' PROVE Taken(b)'
  BY StepsOnward DEF Onward, Summary, TakenForGood
<1>1. /\ TypeOK /\ task \in [Caller -> Task] /\ forwarded \subseteq Article
      /\ Promised(b) => Taken(b)'
  BY ServedStays DEF TargetInv, TypeOK, ServedInv, TakenForGood
<1> SUFFICES ASSUME ~Promised(b) PROVE Taken(b)'
  BY <1>1
<1>2. ASSUME forwarded' = forwarded, task'[Router].article = t.article, Promises' => Promises
      PROVE  FALSE
  BY <1>2 DEF Promised
<1>3. ASSUME forwarded' = forwarded, ~Promises' PROVE FALSE
  BY <1>3 DEF Promised
<1>4. ASSUME NEW c \in Caller, GateShut(c) \/ Verdict(c) \/ Accepted(c) \/ Refused(c)
      PROVE  FALSE
  <2>1. forwarded' = forwarded /\ Working(c) /\ \E pc \in {"sending", "after", "throw"} : Moves(c, pc)
    BY <1>1, <1>4, MovesTo DEF GateShut, Verdict, ClaimSettled, ClaimDenied, Claimed, Accepted,
       Refused, Working, At, fate
  <2>2. task'[Router].article = t.article /\ (Promises' => Promises)
    <3>1. CASE c = Router
      BY <2>1, <3>1 DEF Moves, Promises, Working, At
    <3>2. CASE c # Router
      BY <2>1, <3>2 DEF Moves, Others, Promises, Working, At
    <3> QED BY <3>1, <3>2
  <2> QED BY <1>2, <2>1, <2>2
<1>5. ASSUME NEW c \in Caller, Sent(c) \/ SentAhead(c) \/ NextItem(c) \/ Flushed(c) \/ FlushFails(c)
      PROVE  Taken(b)'
  <2>1. forwarded' = forwarded /\ Working(c) /\ Carries(c) /\ AtWork(c)
    BY <1>1, <1>5 DEF Sent, SentAhead, NextItem, Flushed, FlushFails, fate, Working, At,
                      TargetInv, AllAtWork, AtWork
  <2>2. CASE c # Router
    <3>1. task'[Router] = t
      BY <1>1, <1>5, <2>1, <2>2, EndsWell, RestsNow, NextItemMoves
         DEF Sent, SentAhead, Flushed, FlushFails, Others, Rests
    <3> QED BY <1>2, <2>1, <3>1 DEF Promises, Working, At
  <2>3. CASE c = Router /\ NextItem(c)
    BY <1>1, <1>2, <2>1, <2>3, NextItemMoves DEF Promises, Working, At
  <2>4. CASE c = Router /\ Sent(c)
    BY <2>1, <2>4 DEF Sent, Carries
  <2>5. CASE c = Router /\ Flushed(c)
    <3>1. Moves(Router, "done") /\ t.kind \in {"card", "items"}
      BY <1>1, <2>5, EndsWell DEF Flushed
    <3> QED BY <1>2, <2>1, <2>5, <3>1 DEF Moves, Promises
  <2>6. CASE c = Router /\ SentAhead(c)
    <3>1. Moves(Router, "done") /\ t.kind = "first" /\ Settled(t.key)
      BY <1>1, <2>1, <2>6, EndsWell DEF SentAhead, AtWork, At
    <3>2. t.batch = <<t.article>> /\ t.key = <<"route", Head(t.batch)>> /\ t.key \in RowKey
      BY <1>1, <2>1, <2>6, <3>1, HandIsTyped DEF Carries
    <3>3. Head(t.batch) = b
      <4>1. t.article = b
        BY <2>1, <3>1 DEF Promised, Moves
      <4> QED BY <3>2, <4>1
    <3>4. Covered(b)
      BY <3>1, <3>2, <3>3, SettledIsServed DEF ServedInv
    <3> QED BY <3>4, CoveredStays DEF Taken
  <2> QED BY <1>5, <2>2, <2>3, <2>4, <2>5, <2>6 DEF FlushFails
<1>6. ASSUME NEW a \in Article, Send(a) PROVE Taken(b)'
  <2>1. ASSUME SendAhead(a) PROVE FALSE
    <3>1. forwarded' = forwarded
      BY <2>1 DEF SendAhead, fate
    <3>2. ~Promises'
      BY <1>1, <2>1, AheadBegins DEF Begins, Message, Promises, At
    <3> QED BY <1>3, <3>1, <3>2
  <2>2. ASSUME SendQueued(a) PROVE Taken(b)'
    <3>1. forwarded' = forwarded /\ task'[Router].article = a /\ Collects(a)
      BY <1>1, <2>2, QueuedCollects DEF SendQueued, fate, Begins, Takes
    <3>2. a = b
      BY <3>1 DEF Promised
    <3> QED BY <3>1, <3>2 DEF Collects, Taken
  <2> QED BY <1>6, <2>1, <2>2 DEF Send, SendPlain, SendDigest, Summary
<1>7. CASE SendReturns \/ SendThrows
  <2>1. Rests(Router)
    BY <1>1, <1>7, RestsNow DEF SendReturns, SendThrows
  <2>2. ~Promises'
    BY <2>1 DEF Rests, Idle, Promises, At, Working
  <2>3. CASE SendReturns
    BY <2>2, <2>3 DEF SendReturns, Promised, Promises
  <2>4. CASE SendThrows
    BY <1>3, <2>2, <2>4 DEF SendThrows
  <2> QED BY <1>7, <2>3, <2>4
<1>8. ASSUME NEW n \in WindowId, Sweep(n) PROVE FALSE
  <2>1. CASE SweepDrops(n)
    BY <1>2, <2>1 DEF SweepDrops, fate, Promises, Working, At
  <2>2. ASSUME NEW c \in Caller, SweepFlushes(c, n) PROVE FALSE
    <3>1. task'[Router] = t /\ forwarded' = forwarded
      BY <1>1, <2>2, SweepBegins DEF SweepFlushes, Begins, Others, fate
    <3> QED BY <1>2, <3>1 DEF Promises, Working, At
  <2> QED BY <1>8, <2>1, <2>2 DEF Sweep
<1>9. CASE Crash
  <2>1. forwarded' = forwarded /\ task'[Router] = Idle
    BY <1>9 DEF Crash
  <2>2. ~Promises'
    BY <2>1 DEF Idle, Promises, At, Working
  <2> QED BY <1>3, <2>1, <2>2
<1>10. CASE Tick \/ UNCHANGED vars \/ (\E k \in RowKey : ClaimAges(k))
  BY <1>2, <1>10 DEF Tick, vars, ClaimAges, fate, Promises, Working, At
<1> QED BY <1>4, <1>5, <1>6, <1>7, <1>8, <1>9, <1>10 DEF Next, Resume

LEMMA ServedInvariant ==
  ASSUME ~Aligned
  PROVE  Spec => [](TargetInv /\ FrozenInv /\ ServedInv)
<1>1. Init => ServedInv
  <2> SUFFICES ASSUME Init PROVE ServedInv
    OBVIOUS
  <2>1. DoneIsShown
    BY DEF Init, LedgerInit, DoneIsShown, Done, TerminalStatus
  <2>2. DOMAIN windows = {} /\ task[Router] = Idle /\ forwarded = {}
    BY TargetAssumption DEF Init
  <2>3. ClosedIsServed /\ TakenForGood
    BY <2>2 DEF ClosedIsServed, TakenForGood, Promised, Promises, Working, At, Idle
  <2>4. PastIsCovered
    BY DEF Init, PastIsCovered, Working, Idle
  <2> QED BY <2>1, <2>3, <2>4 DEF ServedInv
<1>2. TargetInv /\ FrozenInv /\ ServedInv /\ [Next]_vars => ServedInv'
  BY DoneStep, ClosedStep, PastStep, TakenStep DEF ServedInv
<1> QED BY <1>1, <1>2, FrozenInvariant, PTL DEF Spec

\* Where a window ends with its slot, no flush, however many run beside each
\* other, no threshold, refusal or crash strands an article the router recorded
\* as forwarded, but for a crash between a card and the closing of its window
\* (enqueue, ensureWindow and close in aggregation.ts, flush in
\* target-runtime.ts).
THEOREM NothingIsStranded == ASSUME ~Aligned PROVE Spec => []NoItemIsStranded
<1>1. TargetInv /\ ServedInv => NoItemIsStranded
  <2> SUFFICES ASSUME TargetInv, ServedInv, Summary, NEW a \in forwarded \ capped
               PROVE  \/ shown[a] > 0 \/ GivenUp(a)
                      \/ \E n \in DOMAIN windows :
                           windows[n].open /\ a \in Members(windows[n].items)
                      \/ CutShort(a)
    BY DEF NoItemIsStranded
  <2>1. Covered(a) \/ \E n \in DOMAIN windows : a \in Members(windows[n].items)
    BY DEF ServedInv, TakenForGood, Promised, Taken, TargetInv, TypeOK
  <2> QED BY <2>1 DEF ServedInv, ClosedIsServed, Served, Covered
<1> QED BY <1>1, ServedInvariant, PTL

-----------------------------------------------------------------------------
(* Outside the windows an article has a copy to give away: it is in the    *)
(* chat, in the buffer or in the router's hand, or the router may still    *)
(* ask for it.  A crash gives it one more.                                 *)

InHand(a) ==
  IF task[Router].pc \in {"call", "sending", "throw"} THEN Count(task[Router].batch, a) ELSE 0

ToAsk(a) ==
  IF a \in forwarded \cup dropped \/ (~At(Router, "idle") /\ task[Router].article = a) THEN 0 ELSE 1

OneCopy ==
  ~Summary =>
    /\ storedBuffer = buffer
    /\ Working(Router) => task[Router].article \in Members(task[Router].batch)
    /\ \A a \in Article : shown[a] + Count(buffer, a) + InHand(a) + ToAsk(a) <= 1 + crashes

LEMMA CountOfAppended ==
  ASSUME NEW s \in Seq(Article), NEW b \in Article, NEW a
  PROVE  Count(Append(s, b), a) = Count(s, a) + (IF a = b THEN 1 ELSE 0)
<1> DEFINE S == {n \in DOMAIN s : s[n] = a}
           T == {n \in DOMAIN Append(s, b) : Append(s, b)[n] = a}
           z == Len(s) + 1
<1>1. Len(s) \in Nat /\ DOMAIN s = 1 .. Len(s)
  BY SeqDomain
<1>2. /\ Append(s, b) \in Seq(Article) /\ Append(s, b)[z] = b
      /\ \A n \in 1 .. Len(s) : Append(s, b)[n] = s[n]
      /\ DOMAIN Append(s, b) = 1 .. z
  BY <1>1, AppendProperties
<1>3. IsFiniteSet(S) /\ Cardinality(S) \in Nat
  <2>1. IsFiniteSet(1 .. Len(s)) /\ S \subseteq 1 .. Len(s)
    BY <1>1, FS_Interval
  <2> QED BY <2>1, FS_Subset, FS_CardinalityType
<1>4. 1 .. z = (1 .. Len(s)) \cup {z} /\ z \notin DOMAIN s
  BY <1>1
<1>5. T = IF a = b THEN S \cup {z} ELSE S
  BY <1>1, <1>2, <1>4
<1>6. z \notin S
  BY <1>4
<1>7. Count(Append(s, b), a) = Cardinality(T) /\ Count(s, a) = Cardinality(S)
  BY DEF Count
<1> HIDE DEF S, T, z
<1>8. Cardinality(S \cup {z}) = Cardinality(S) + 1
  BY <1>3, <1>6, FS_AddElement
<1> QED BY <1>3, <1>5, <1>7, <1>8

LEMMA CountOfNone == ASSUME NEW a PROVE Count(<<>>, a) = 0
<1>1. {n \in DOMAIN <<>> : <<>>[n] = a} = {}
  OBVIOUS
<1> QED BY <1>1, FS_EmptySet DEF Count

LEMMA CountOfOne ==
  ASSUME NEW b \in Article, NEW a
  PROVE  Count(<<b>>, a) = IF a = b THEN 1 ELSE 0
<1>1. <<>> \in Seq(Article) /\ Append(<<>>, b) = <<b>>
  OBVIOUS
<1>2. Count(Append(<<>>, b), a) = Count(<<>>, a) + (IF a = b THEN 1 ELSE 0)
  BY <1>1, CountOfAppended
<1> QED BY <1>1, <1>2, CountOfNone

LEMMA OnlyTheRouterWorks ==
  ASSUME TargetInv, ~Summary, NEW c \in Caller, ~At(c, "idle")
  PROVE  c = Router /\ (Working(c) => task[c].kind \in {"plain", "digest"} /\ Body(c) = task[c].batch)
<1>1. task[c] \in Task
  BY DEF TargetInv, TypeOK
<1>2. task[c].pc \in {"idle", "call", "sending", "after", "throw", "done"}
  BY <1>1 DEF Task
<1> QED BY <1>2 DEF TargetInv, AllAtWork, AtWork, Working, At, Carries, Body

LEMMA CopyStep ==
  ASSUME TargetInv, OneCopy, [Next]_vars
  PROVE  OneCopy'
<1> DEFINE t == task[Router]
<1> USE TargetAssumption
<1>1. mode' = mode
  BY StepsOnward DEF Onward
<1> SUFFICES ASSUME ~Summary PROVE OneCopy'
  BY <1>1 DEF OneCopy, Summary
<1>2. /\ TypeOK /\ TypeOK' /\ task \in [Caller -> Task] /\ buffer \in Seq(Article)
      /\ buffer' \in Seq(Article) /\ crashes \in Nat /\ crashes' \in Nat
      /\ shown \in [Article -> Nat] /\ shown' \in [Article -> Nat]
      /\ t \in Task /\ t.batch \in Seq(Article)
      /\ task' \in [Caller -> Task]
  BY TypeStep DEF TargetInv, TypeOK, Task
<1>3. /\ storedBuffer = buffer /\ (Working(Router) => t.article \in Members(t.batch))
      /\ \A a \in Article : shown[a] + Count(buffer, a) + InHand(a) + ToAsk(a) <= 1 + crashes
  BY DEF OneCopy
<1>4. \A a \in Article :
        /\ shown[a] \in Nat /\ shown'[a] \in Nat /\ Count(buffer, a) \in Nat
        /\ Count(buffer', a) \in Nat /\ Count(t.batch, a) \in Nat
        /\ InHand(a) \in Nat /\ ToAsk(a) \in {0, 1}
        /\ shown[a] + Count(buffer, a) + InHand(a) + ToAsk(a) <= 1 + crashes
        /\ crashes \in Nat
  BY <1>2, <1>3, CountIsNatural DEF InHand, ToAsk
<1>5. ASSUME storedBuffer' = buffer',
             Working(Router)' => task'[Router].article \in Members(task'[Router].batch),
             \A a \in Article :
               shown'[a] + Count(buffer', a) + InHand(a)' + ToAsk(a)' <= 1 + crashes'
      PROVE  OneCopy'
  BY <1>5 DEF OneCopy
<1>6. ASSUME NEW c \in Caller, GateShut(c) \/ Verdict(c) \/ Refused(c) PROVE OneCopy'
  <2>1. /\ ~At(c, "idle") /\ Working(c)
        /\ UNCHANGED <<buffer, storedBuffer, shown, crashes, forwarded, dropped>>
        /\ \/ t.pc = "call" /\ \E pc \in {"sending", "after", "throw"} : Goto(c, pc)
           \/ t.pc = "sending" /\ Goto(c, "throw")
    BY <1>6, OnlyTheRouterWorks DEF GateShut, Verdict, ClaimSettled, ClaimDenied, Claimed, Refused,
       At, Working, memory, chat, fate
  <2>2. c = Router
    BY <2>1, OnlyTheRouterWorks
  <2>3. \E pc \in {"sending", "after", "throw"} : Moves(Router, pc)
    BY <1>2, <2>1, <2>2, MovesTo
  <2>4. ASSUME NEW a \in Article PROVE InHand(a)' <= InHand(a) /\ InHand(a)' \in Nat /\ ToAsk(a)' = ToAsk(a)
    BY <1>4, <2>1, <2>2, <2>3 DEF InHand, ToAsk, Moves, At
  <2>5. Working(Router)' => task'[Router].article \in Members(task'[Router].batch)
    BY <1>3, <2>1, <2>2, <2>3 DEF Moves
  <2>6. ASSUME NEW a \in Article
        PROVE  shown'[a] + Count(buffer', a) + InHand(a)' + ToAsk(a)' <= 1 + crashes'
    <3>1. shown'[a] = shown[a] /\ Count(buffer', a) = Count(buffer, a) /\ crashes' = crashes
      BY <2>1
    <3> QED BY <1>4, <2>4, <3>1
  <2> QED BY <1>3, <1>5, <2>1, <2>5, <2>6
<1>7. ASSUME NEW c \in Caller, Accepted(c) PROVE OneCopy'
  <2>1. /\ ~At(c, "idle") /\ Working(c) /\ At(c, "sending") /\ Goto(c, "after")
        /\ UNCHANGED <<buffer, storedBuffer, crashes, forwarded, dropped>>
    BY <1>7 DEF Accepted, At, Working, memory, fate
  <2>2. c = Router /\ Body(c) = t.batch
    BY <2>1, OnlyTheRouterWorks
  <2>3. Moves(Router, "after")
    BY <1>2, <2>1, <2>2, MovesTo
  <2>4. ASSUME NEW a \in Article
        PROVE  shown'[a] = shown[a] + InHand(a) /\ InHand(a)' = 0 /\ ToAsk(a)' = ToAsk(a)
    BY <1>2, <1>7, <2>1, <2>2, <2>3 DEF Accepted, InHand, ToAsk, Moves, At
  <2>5. Working(Router)' => task'[Router].article \in Members(task'[Router].batch)
    BY <1>3, <2>1, <2>2, <2>3 DEF Moves
  <2> QED BY <1>3, <1>4, <1>5, <2>1, <2>4, <2>5
<1>8. ASSUME NEW c \in Caller, Sent(c) \/ SentAhead(c) \/ NextItem(c) \/ Flushed(c) \/ FlushFails(c)
      PROVE  OneCopy'
  <2>1. ~At(c, "idle") /\ Working(c)
    BY <1>8 DEF Sent, SentAhead, NextItem, Flushed, FlushFails, At, Working
  <2>2. c = Router /\ Sent(c)
    BY <1>8, <2>1, OnlyTheRouterWorks DEF SentAhead, NextItem, Flushed, FlushFails
  <2>3. Moves(Router, "done") /\ t.pc = "after"
    BY <1>2, <2>2, EndsWell DEF Sent, At
  <2>4. UNCHANGED <<buffer, storedBuffer, shown, crashes, forwarded, dropped>>
    BY <2>2 DEF Sent, memory, chat, fate
  <2>5. ASSUME NEW a \in Article PROVE InHand(a)' = 0 /\ InHand(a) = 0 /\ ToAsk(a)' = ToAsk(a)
    BY <2>3, <2>4 DEF InHand, ToAsk, Moves, At
  <2>6. ~Working(Router)'
    BY <2>3 DEF Moves, Working
  <2> QED BY <1>3, <1>4, <1>5, <2>4, <2>5, <2>6
<1>9. ASSUME NEW b \in Article, SendPlain(b) PROVE OneCopy'
  <2>1. /\ At(Router, "idle") /\ b \notin forwarded \cup dropped
        /\ UNCHANGED <<buffer, storedBuffer, shown, crashes, forwarded, dropped>>
    BY <1>9 DEF SendPlain, Asked, memory, chat, fate
  <2>2. Begins(Router, b, Message("plain", <<"route", b>>, 0, <<b>>))
    <3>1. <<b>> \in Seq(Article) /\ 0 \in Nat
      OBVIOUS
    <3> QED BY <1>2, <1>9, <3>1, BeginsWith, KeysAreRows DEF SendPlain
  <2>3. task'[Router].pc = "call" /\ task'[Router].article = b /\ task'[Router].batch = <<b>>
    BY <2>2 DEF Begins, Message
  <2>4. ASSUME NEW a \in Article PROVE InHand(a)' + ToAsk(a)' = InHand(a) + ToAsk(a)
    <3>1. InHand(a)' = IF a = b THEN 1 ELSE 0
      BY <2>3, CountOfOne DEF InHand
    <3>2. InHand(a) = 0
      BY <2>1 DEF InHand, At
    <3>3. CASE a = b
      BY <2>1, <2>3, <3>1, <3>2, <3>3 DEF ToAsk, At
    <3>4. CASE a # b
      BY <2>1, <2>3, <3>1, <3>2, <3>4 DEF ToAsk, At
    <3> QED BY <3>3, <3>4
  <2>5. b \in Members(<<b>>)
    BY DEF Members
  <2>6. ASSUME NEW a \in Article PROVE InHand(a)' \in Nat /\ ToAsk(a)' \in {0, 1}
    BY <2>3, CountOfOne DEF InHand, ToAsk
  <2> QED BY <1>3, <1>4, <1>5, <2>1, <2>3, <2>4, <2>5, <2>6
<1>10. ASSUME NEW b \in Article, SendDigest(b) PROVE OneCopy'
  <2> DEFINE batch == Append(buffer, b)
  <2>1. /\ At(Router, "idle") /\ b \notin forwarded \cup dropped
        /\ UNCHANGED <<shown, crashes, forwarded, dropped>>
        /\ buffer' = BufferAfter(batch) /\ storedBuffer' = buffer'
        /\ IF Len(batch) >= Threshold
             THEN Call(Router, b, Message("digest", <<"route", Head(batch)>>, 0, batch))
             ELSE task' = [task EXCEPT ![Router].pc = "done", ![Router].article = b]
    BY <1>10 DEF SendDigest, Asked, chat, fate
  <2>2. /\ batch \in Seq(Article) /\ batch # <<>> /\ b \in Members(batch)
        /\ \A a \in Article : Count(batch, a) = Count(buffer, a) + (IF a = b THEN 1 ELSE 0)
    <3>1. batch \in Seq(Article) /\ batch # <<>>
      <4>1. PICK s \in Seq(Article) : s = buffer
        BY <1>2
      <4>2. Append(s, b) \in Seq(Article) /\ Append(s, b) # <<>>
        BY AppendProperties
      <4> QED BY <4>1, <4>2
    <3>2. b \in Members(batch)
      BY <1>2, MembersOfAppended
    <3>3. \A a \in Article : Count(batch, a) = Count(buffer, a) + (IF a = b THEN 1 ELSE 0)
      BY <1>2, CountOfAppended
    <3> HIDE DEF batch
    <3> QED BY <3>1, <3>2, <3>3
  <2> HIDE DEF batch
  <2>3. CASE Len(batch) >= Threshold
    <3>1. Head(batch) \in Article
      BY <2>2, HeadTailProperties
    <3>2. Begins(Router, b, Message("digest", <<"route", Head(batch)>>, 0, batch))
      BY <1>2, <2>1, <2>2, <2>3, <3>1, BeginsWith, KeysAreRows
    <3>3. task'[Router].pc = "call" /\ task'[Router].article = b /\ task'[Router].batch = batch
      BY <3>2 DEF Begins, Message
    <3>4. buffer' = <<>>
      BY <2>1, <2>3 DEF BufferAfter
    <3>5. ASSUME NEW a \in Article
          PROVE  /\ Count(buffer', a) = 0 /\ InHand(a) = 0
                 /\ InHand(a)' = Count(buffer, a) + (IF a = b THEN 1 ELSE 0)
                 /\ ToAsk(a)' = IF a = b THEN 0 ELSE ToAsk(a)
                 /\ a = b => ToAsk(a) = 1
      <4>1. Count(buffer', a) = 0
        BY <3>4, CountOfNone
      <4>2. InHand(a) = 0
        BY <2>1 DEF InHand, At
      <4>3. InHand(a)' = Count(batch, a)
        BY <3>3 DEF InHand
      <4>4. ToAsk(a)' = IF a = b THEN 0 ELSE ToAsk(a)
        BY <2>1, <3>3 DEF ToAsk, At
      <4>5. a = b => ToAsk(a) = 1
        BY <2>1 DEF ToAsk, At
      <4> QED BY <2>2, <4>1, <4>2, <4>3, <4>4, <4>5
    <3>6. ASSUME NEW a \in Article
          PROVE  shown'[a] + Count(buffer', a) + InHand(a)' + ToAsk(a)' <= 1 + crashes'
      <4>1. shown'[a] = shown[a] /\ crashes' = crashes
        BY <2>1
      <4> QED BY <1>4, <3>5, <4>1
    <3> QED BY <1>5, <2>1, <2>2, <3>3, <3>6
  <2>4. CASE ~(Len(batch) >= Threshold)
    <3>1. Takes(b)
      BY <1>2, <2>1, <2>4, TakesArticle
    <3>2. task'[Router].pc = "done" /\ task'[Router].article = b
      BY <3>1 DEF Takes
    <3>3. buffer' = batch
      BY <2>1, <2>4 DEF BufferAfter
    <3>4. ASSUME NEW a \in Article
          PROVE  /\ Count(buffer', a) = Count(buffer, a) + (IF a = b THEN 1 ELSE 0)
                 /\ InHand(a) = 0 /\ InHand(a)' = 0
                 /\ ToAsk(a)' = IF a = b THEN 0 ELSE ToAsk(a)
                 /\ a = b => ToAsk(a) = 1
      BY <2>1, <2>2, <3>2, <3>3 DEF InHand, ToAsk, At
    <3>5. ASSUME NEW a \in Article
          PROVE  shown'[a] + Count(buffer', a) + InHand(a)' + ToAsk(a)' <= 1 + crashes'
      <4>1. shown'[a] = shown[a] /\ crashes' = crashes
        BY <2>1
      <4>2. Count(buffer', a) = Count(buffer, a) + (IF a = b THEN 1 ELSE 0)
        BY <3>4
      <4> QED BY <1>4, <3>4, <4>1, <4>2
    <3>6. ~Working(Router)'
      BY <3>2 DEF Working
    <3> QED BY <1>5, <2>1, <3>5, <3>6
  <2> QED BY <2>3, <2>4
<1>11. ASSUME NEW b \in Article, Send(b) PROVE OneCopy'
  BY <1>9, <1>10, <1>11 DEF Send, SendAhead, SendQueued, Summary
<1>12. CASE SendReturns \/ SendThrows
  <2>1. /\ Rests(Router) /\ UNCHANGED <<buffer, storedBuffer, shown, crashes>>
    BY <1>2, <1>12, RestsNow DEF SendReturns, SendThrows, memory, chat
  <2>2. task'[Router].pc = "idle" /\ ~Working(Router)'
    BY <2>1 DEF Rests, Idle, Working
  <2>3. ASSUME NEW a \in Article PROVE InHand(a)' = 0 /\ ToAsk(a)' <= InHand(a) + ToAsk(a)
                                      /\ ToAsk(a)' \in {0, 1}
    <3>1. InHand(a)' = 0 /\ ToAsk(a)' \in {0, 1}
      BY <2>2 DEF InHand, ToAsk
    <3>2. forwarded \subseteq forwarded' /\ dropped \subseteq dropped'
      BY <1>12 DEF SendReturns, SendThrows
    <3>3. CASE t.article # a
      <4>1. ToAsk(a)' <= ToAsk(a)
        BY <3>2, <3>3 DEF ToAsk
      <4> QED BY <1>4, <3>1, <4>1
    <3>4. CASE t.article = a /\ SendReturns
      BY <1>4, <3>1, <3>4 DEF SendReturns, ToAsk
    <3>5. CASE t.article = a /\ SendThrows
      <4>1. t.pc = "throw"
        BY <3>5 DEF SendThrows, At
      <4>2. a \in Members(t.batch)
        BY <1>3, <3>5, <4>1 DEF Working
      <4>3. InHand(a) > 0
        BY <1>2, <4>1, <4>2, CountIsNatural DEF InHand
      <4> QED BY <1>4, <3>1, <4>3
    <3> QED BY <1>12, <3>3, <3>4, <3>5
  <2>4. ASSUME NEW a \in Article
        PROVE  shown'[a] + Count(buffer', a) + InHand(a)' + ToAsk(a)' <= 1 + crashes'
    <3>1. shown'[a] = shown[a] /\ Count(buffer', a) = Count(buffer, a) /\ crashes' = crashes
      BY <2>1
    <3> QED BY <1>4, <2>3, <3>1
  <2> QED BY <1>3, <1>5, <2>1, <2>2, <2>4
<1>13. CASE Crash
  <2>1. /\ task'[Router] = Idle /\ buffer' = buffer /\ storedBuffer' = buffer'
        /\ UNCHANGED shown /\ crashes' = crashes + 1
    BY <1>3, <1>13 DEF Crash, chat
  <2>2. task'[Router].pc = "idle" /\ ~Working(Router)'
    BY <2>1 DEF Idle, Working
  <2>3. ASSUME NEW a \in Article PROVE InHand(a)' = 0 /\ ToAsk(a)' \in {0, 1}
    BY <2>2 DEF InHand, ToAsk
  <2>4. ASSUME NEW a \in Article
        PROVE  shown'[a] + Count(buffer', a) + InHand(a)' + ToAsk(a)' <= 1 + crashes'
    <3>1. /\ shown'[a] = shown[a] /\ Count(buffer', a) = Count(buffer, a)
          /\ crashes' = crashes + 1
      BY <2>1
    <3> QED BY <1>4, <2>3, <3>1
  <2> QED BY <1>5, <2>1, <2>2, <2>4
<1>14. ASSUME NEW n \in WindowId, Sweep(n) PROVE FALSE
  BY <1>14 DEF Sweep, SweepDrops, SweepFlushes, TargetInv, SummariesCollect
<1>15. CASE Tick \/ UNCHANGED vars \/ (\E k \in RowKey : ClaimAges(k))
  <2>1. UNCHANGED <<task, buffer, storedBuffer, shown, crashes, forwarded, dropped>>
    BY <1>15 DEF Tick, vars, ClaimAges, memory, chat, fate
  <2>2. \A a \in Article : InHand(a)' = InHand(a) /\ ToAsk(a)' = ToAsk(a)
    BY <2>1 DEF InHand, ToAsk, At
  <2> QED BY <1>3, <1>5, <2>1, <2>2 DEF Working
<1> QED BY <1>6, <1>7, <1>8, <1>11, <1>12, <1>13, <1>14, <1>15 DEF Next, Resume

\* A plain or digest target shows an article once, and once more for every crash
\* at most: a batch leaves the buffer before it is sent, and what is repeated
\* is what the router still had in hand (send in target-runtime.ts).
THEOREM ShownOnlyOnce == Spec => []ShownOnce
<1>1. Init => OneCopy
  <2> SUFFICES ASSUME Init PROVE OneCopy
    OBVIOUS
  <2>1. task[Router].pc = "idle" /\ buffer = <<>> /\ storedBuffer = <<>> /\ crashes = 0
    BY TargetAssumption DEF Init, Idle
  <2>2. ASSUME NEW a \in Article
        PROVE  shown[a] = 0 /\ Count(buffer, a) = 0 /\ InHand(a) = 0 /\ ToAsk(a) \in {0, 1}
    BY <2>1, CountOfNone DEF Init, InHand, ToAsk
  <2> QED BY <2>1, <2>2 DEF OneCopy, Working
<1>2. TargetInv /\ OneCopy /\ [Next]_vars => OneCopy'
  BY CopyStep
<1>3. TargetInv /\ OneCopy => ShownOnce
  <2> SUFFICES ASSUME TargetInv, OneCopy, ~Summary, NEW a \in Article
               PROVE  shown[a] <= 1 + crashes
    BY DEF ShownOnce
  <2>1. shown[a] + Count(buffer, a) + InHand(a) + ToAsk(a) <= 1 + crashes
    BY DEF OneCopy
  <2>2. /\ shown[a] \in Nat /\ crashes \in Nat /\ buffer \in Seq(Article)
        /\ task[Router].batch \in Seq(Article)
    BY TargetAssumption DEF TargetInv, TypeOK, Task
  <2>3. Count(buffer, a) \in Nat /\ InHand(a) \in Nat /\ ToAsk(a) \in {0, 1}
    BY <2>2, CountIsNatural DEF InHand, ToAsk
  <2> QED BY <2>1, <2>2, <2>3
<1> QED BY <1>1, <1>2, <1>3, TargetInvariant, PTL DEF Spec

=============================================================================
