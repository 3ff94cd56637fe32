--------------------------- MODULE DeliveryProofs ---------------------------
(***************************************************************************)
(* For any number of articles, targets, legs, restarts and crashes: the    *)
(* delivery uses the ledger as Outbound specifies it, a message is posted  *)
(* twice only where a crash cut its send off, nothing is forgotten, and    *)
(* the groups get what Courier promises them.                              *)
(***************************************************************************)
EXTENDS Delivery, OutboundProofs, FiniteSetTheorems, SequenceTheorems

\* What a drain has in hand: an event on a leg, and the claim of exactly that
\* leg while it sends.
Underway(i) ==
  /\ task[i].pc # "idle" => task[i].event \in Event
  /\ task[i].leg \in Nat \ {0}
  /\ task[i].pc \in {"send", "chunk", "return"} => task[i].leg <= Len(Legs)
  /\ task[i].chunk \in 1 .. Chunks
  /\ IF task[i].pc = "chunk" THEN holds[i] = Key(i) ELSE holds[i] = NoKey

AllUnderway == \A i \in Inc : Underway(i)

\* A copy beyond the crashes is accounted for: its row is settled, or the
\* holder of the row has got past that chunk.
CopiesAreAccounted ==
  \A k \in RowKey, n \in 1 .. Chunks :
    \/ copies[k][n] <= torn[k]
    \/ /\ copies[k][n] <= torn[k] + 1
       /\ Done(k) \/ \E i \in Inc : holds[i] = k /\ n < task[i].chunk

DeliveryInv == TypeOK /\ LedgerInv /\ AllUnderway

LEMMA LegIsTyped ==
  ASSUME NEW n \in Nat \ {0}, n <= Len(Legs)
  PROVE  /\ Legs[n].to \in Target
         /\ \A a \in Article : <<Legs[n], a>> \in RowKey
<1>1. Legs \in Seq([via : Formatter, to : Target])
  BY DeliveryAssumption
<1>2. Len(Legs) \in Nat /\ DOMAIN Legs = 1 .. Len(Legs)
  BY <1>1
<1>3. n \in 1 .. Len(Legs)
  BY <1>2
<1>4. Legs[n] \in [via : Formatter, to : Target]
  BY <1>1, <1>3, ElementOfSeq
<1>5. QED
  BY <1>3, <1>4, DeliveryAssumption

LEMMA KeyIsTyped ==
  ASSUME NEW i \in Inc, Underway(i), task[i].pc \in {"send", "chunk", "return"}
  PROVE  Key(i) \in RowKey /\ To(i) \in Target /\ Here(i) \in Article
BY LegIsTyped DEF Underway, Key, To, Here, Event

LEMMA ChunksAreBounded == ASSUME NEW t \in Target PROVE ChunksOf(t) \in 1 .. Chunks
BY DeliveryAssumption DEF ChunksOf

-----------------------------------------------------------------------------
(* Every step of the delivery is a step of the ledger, or leaves it alone. *)

LEMMA StepOfTheLedger ==
  ASSUME DeliveryInv, [Next]_vars
  PROVE  [LedgerNext]_ledger
<1> USE DEF DeliveryInv
<1>1. ASSUME NEW i \in Inc, Claimed(i) PROVE LedgerNext
  BY <1>1, KeyIsTyped, DeliveryAssumption DEF Claimed, LedgerNext, AllUnderway, At
<1>2. ASSUME NEW i \in Inc, NEW status \in Outcome, Mark(i, status) PROVE LedgerNext
  BY <1>2, DeliveryAssumption DEF LedgerNext
<1>3. {"sent", "partial", "skipped", "failed"} = Outcome
  BY DEF Outcome, TerminalStatus
<1>4. ASSUME NEW i \in Inc, Drain(i) PROVE [LedgerNext]_ledger
  <2>1. CASE Claimed(i)
    BY <2>1, <1>1
  <2>2. CASE NothingToSend(i)
    BY <2>2, <1>2, <1>3 DEF NothingToSend
  <2>3. CASE LastChunkSent(i)
    BY <2>3, <1>2, <1>3 DEF LastChunkSent
  <2>4. CASE ChunkRefused(i)
    BY <2>4, <1>2, <1>3 DEF ChunkRefused, MarkFailure
  <2>5. CASE ChunkDoubtful(i)
    BY <2>5, <1>2, <1>3 DEF ChunkDoubtful, MarkFailure
  <2>6. CASE Take(i) \/ DispatchReturns(i) \/ DispatchThrows(i) \/ LegDone(i)
    BY <2>6 DEF Take, DispatchReturns, DispatchThrows, LegDone
  <2>7. CASE LegDeferred(i) \/ LegRendered(i) \/ SendSkips(i) \/ GateShut(i)
    BY <2>7 DEF LegDeferred, LegRendered, SendSkips, GateShut
  <2>8. CASE ClaimDenied(i) \/ ChunkSent(i) \/ SendReturns(i)
    BY <2>8 DEF ClaimDenied, ChunkSent, SendReturns
  <2>9. QED
    BY <1>4, <2>1, <2>2, <2>3, <2>4, <2>5, <2>6, <2>7, <2>8 DEF Drain
<1>5. CASE Crash
  BY <1>5 DEF Crash, LedgerNext
<1>6. ASSUME NEW k \in RowKey, ClaimAges(k) PROVE LedgerNext
  BY <1>6 DEF ClaimAges, LedgerNext
<1>7. ASSUME NEW a \in Article, Publish(a) PROVE UNCHANGED ledger
  BY <1>7 DEF Publish
<1>8. CASE Start \/ Teardown \/ UNCHANGED vars
  BY <1>8 DEF Start, Teardown, vars
<1>9. ASSUME NEW t \in Target, Mount(t) PROVE UNCHANGED ledger
  BY <1>9 DEF Mount
<1>10. ASSUME NEW i \in Inc, StartDrain(i) PROVE UNCHANGED ledger
  BY <1>10 DEF StartDrain
<1>11. QED
  BY <1>4, <1>5, <1>6, <1>7, <1>8, <1>9, <1>10 DEF Next

-----------------------------------------------------------------------------
(* The types, and what a drain has in hand.                                *)

LEMMA EventQueues ==
  ASSUME NEW q \in Seq(Event)
  PROVE  /\ Articles(q) \subseteq Article
         /\ \A e \in Event : /\ Append(q, e) \in Seq(Event)
                             /\ Articles(Append(q, e)) = Articles(q) \cup {e.article}
         /\ q # <<>> => /\ Head(q) \in Event
                        /\ Tail(q) \in Seq(Event)
                        /\ Articles(Tail(q)) \subseteq Articles(q)
<1>1. Articles(q) \subseteq Article
  <2>1. \A n \in 1 .. Len(q) : q[n] \in Event
    BY ElementOfSeq
  <2>2. QED
    BY <2>1 DEF Articles, Event
<1>2. ASSUME NEW e \in Event
      PROVE  /\ Append(q, e) \in Seq(Event)
             /\ Articles(Append(q, e)) = Articles(q) \cup {e.article}
  <2>1. Len(q) \in Nat
    BY LenProperties
  <2>2. QED
    BY <2>1, AppendProperties DEF Articles
<1>3. ASSUME q # <<>>
      PROVE  /\ Head(q) \in Event
             /\ Tail(q) \in Seq(Event)
             /\ Articles(Tail(q)) \subseteq Articles(q)
  <2>1. Len(q) \in Nat
    BY LenProperties
  <2>2. \A m \in 1 .. Len(Tail(q)) : m + 1 \in 1 .. Len(q) /\ Tail(q)[m] = q[m + 1]
    BY <1>3, <2>1, HeadTailProperties
  <2>3. QED
    BY <1>3, <2>2, HeadTailProperties DEF Articles
<1>4. QED
  BY <1>1, <1>2, <1>3

LEMMA OthersUnderway ==
  ASSUME AllUnderway, NEW i \in Inc, Underway(i)',
         \A j \in Inc \ {i} : task'[j] = task[j] /\ holds'[j] = holds[j]
  PROVE  AllUnderway'
BY DEF AllUnderway, Underway, Key, Here

\* Requeue and LetGo keep the queues and empty the drain's hand.
LEMMA HandIsEmptied ==
  ASSUME DeliveryInv, NEW i \in Inc, task[i].event \in Event, task[i].pc # "chunk",
         UNCHANGED holds,
         \/ \E event \in Event : Requeue(i, event)
         \/ LetGo(i)
  PROVE  /\ queue' \in [Inc -> Seq(Event)] /\ stored' \subseteq Article
         /\ task' \in [Inc -> Task] /\ AllUnderway'
<1> USE DEF DeliveryInv, TypeOK
<1>1. queue[i] \in Seq(Event)
  OBVIOUS
<1>2. queue' \in [Inc -> Seq(Event)] /\ stored' \subseteq Article
  <2>1. ASSUME NEW q \in Seq(Event), Persist(i, q) PROVE stored' \subseteq Article
    BY <2>1, EventQueues DEF Persist
  <2>2. ASSUME NEW event \in Event, Requeue(i, event)
        PROVE  queue' \in [Inc -> Seq(Event)] /\ stored' \subseteq Article
    <3>1. Append(queue[i], event) \in Seq(Event)
      BY <1>1, EventQueues
    <3>2. QED
      BY <2>1, <2>2, <3>1 DEF Requeue
  <2>3. CASE LetGo(i)
    BY <1>1, <2>1, <2>3 DEF LetGo
  <2>4. QED
    BY <2>2, <2>3
<1>3. task' = [task EXCEPT ![i] = Idle]
  BY DEF Requeue, LetGo
<1>4. Idle \in Task
  BY DeliveryAssumption DEF Idle, Task, NoEvent
<1>5. task' \in [Inc -> Task]
  BY <1>3, <1>4
<1>6. Underway(i)'
  BY <1>3, DeliveryAssumption DEF Underway, AllUnderway, Idle
<1>7. QED
  BY <1>2, <1>3, <1>5, <1>6, OthersUnderway

\* DispatchReturns and DispatchThrows: whatever becomes of the event.
LEMMA EventIsDisposed ==
  ASSUME DeliveryInv, NEW i \in Inc, DispatchReturns(i) \/ DispatchThrows(i)
  PROVE  /\ UNCHANGED holds
         /\ \/ UNCHANGED dropped
            \/ dropped' = dropped \cup {Here(i)}
         /\ task[i].event \in Event /\ task[i].pc # "chunk"
         /\ \/ \E event \in Event : event.article = Here(i) /\ Requeue(i, event)
            \/ LetGo(i)
<1> DEFINE e == task[i].event
<1>1. e \in Event /\ task[i].pc # "chunk"
  BY DEF DeliveryInv, AllUnderway, Underway, DispatchReturns, DispatchThrows, At
<1>2. /\ [e EXCEPT !.defers = @ + 1] \in Event /\ [e EXCEPT !.defers = @ + 1].article = e.article
      /\ [e EXCEPT !.attempts = @ + 1] \in Event
      /\ [e EXCEPT !.attempts = @ + 1].article = e.article
  BY <1>1 DEF Event
<1>3. UNCHANGED holds
  BY DEF DispatchReturns, DispatchThrows, ledger
<1>4. UNCHANGED dropped \/ dropped' = dropped \cup {Here(i)}
  BY DEF DispatchReturns, DispatchThrows, Defer, Requeue, GiveUp
<1>5. \/ LetGo(i)
      \/ Requeue(i, [e EXCEPT !.defers = @ + 1])
      \/ Requeue(i, [e EXCEPT !.attempts = @ + 1])
  BY DEF DispatchReturns, DispatchThrows, Defer, GiveUp
<1>6. QED
  BY <1>1, <1>2, <1>3, <1>4, <1>5 DEF Here

\* What a hand may hold on its way.
Fits(t) ==
  /\ t \in Task
  /\ t.pc # "idle" => t.event \in Event
  /\ t.leg # 0 /\ t.chunk \in 1 .. Chunks
  /\ t.pc \in {"send", "chunk", "return"} => t.leg <= Len(Legs)

\* A hand on another chunk, and one on another leg.
LEMMA ChunkOfHand ==
  ASSUME NEW h \in Task, NEW c \in Nat
  PROVE  LET t == [h EXCEPT !.chunk = c]
         IN  t \in Task /\ t.pc = h.pc /\ t.leg = h.leg /\ t.event = h.event /\ t.chunk = c
BY SMTT(30) DEF Task

LEMMA LegOfHand ==
  ASSUME NEW h \in Task, NEW l \in Nat
  PROVE  LET t == [h EXCEPT !.leg = l]
         IN  t \in Task /\ t.pc = h.pc /\ t.leg = l /\ t.event = h.event /\ t.chunk = h.chunk
BY SMTT(30) DEF Task

\* A step of one drain that leaves an event in its hand.
LEMMA HandMoves ==
  ASSUME DeliveryInv, NEW i \in Inc, NEW t, Fits(t), task' = [task EXCEPT ![i] = t],
         holds'[i] = IF t.pc = "chunk" THEN <<Legs[t.leg], t.event.article>> ELSE NoKey,
         \A j \in Inc \ {i} : holds'[j] = holds[j]
  PROVE  task' \in [Inc -> Task] /\ AllUnderway'
<1> USE DEF DeliveryInv, TypeOK, Fits
<1>1. task' \in [Inc -> Task]
  OBVIOUS
<1>2. task'[i] = t
  OBVIOUS
<1>3. t.leg \in Nat \ {0}
  BY DEF Task
<1>4. Underway(i)'
  BY <1>2, <1>3 DEF Underway, Key, Here
<1>5. QED
  BY <1>1, <1>4, OthersUnderway

LEMMA VisibleIsTyped ==
  ASSUME DeliveryInv, NEW i \in Inc, Key(i) \in RowKey, Visible(i)
  PROVE  copies' \in [RowKey -> [1 .. Chunks -> Nat]]
<1>1. task[i].chunk \in 1 .. Chunks /\ copies \in [RowKey -> [1 .. Chunks -> Nat]]
  BY DEF DeliveryInv, AllUnderway, Underway, TypeOK
<1> DEFINE f == [copies[Key(i)] EXCEPT ![task[i].chunk] = @ + 1]
<1>2. f \in [1 .. Chunks -> Nat]
  <2>1. copies[Key(i)] \in [1 .. Chunks -> Nat]
    BY <1>1
  <2>2. QED
    BY <1>1, <2>1
<1>3. copies' = [copies EXCEPT ![Key(i)] = f]
  BY DEF Visible
<1>4. QED
  BY <1>1, <1>2, <1>3

\* The ways a hand moves without another leg: Goto, Throw, and back from the chunks.
LEMMA MovesFit ==
  ASSUME DeliveryInv, NEW i \in Inc, task[i].pc \in {"leg", "send", "chunk"},
         task[i].leg <= Len(Legs)
  PROVE  /\ \A pc \in {"send", "chunk", "return"} :
              Goto(i, pc) => \E t : Fits(t) /\ task' = [task EXCEPT ![i] = t] /\ t.pc = pc
                                     /\ t.leg = task[i].leg /\ t.event = task[i].event
         /\ \A why \in {"later", "retry", "never"} :
              Throw(i, why) => \E t : Fits(t) /\ task' = [task EXCEPT ![i] = t]
                                      /\ t.pc = "throw"
         /\ task' = [task EXCEPT ![i].pc = "return", ![i].chunk = 1] =>
              \E t : Fits(t) /\ task' = [task EXCEPT ![i] = t] /\ t.pc = "return"
<1> DEFINE k == task[i]
<1>1. /\ k \in Task /\ task \in [Inc -> Task] /\ k.event \in Event
      /\ k.leg # 0 /\ k.chunk \in 1 .. Chunks /\ 1 \in 1 .. Chunks
  BY DeliveryAssumption DEF DeliveryInv, TypeOK, AllUnderway, Underway
<1>2. ASSUME NEW pc \in {"send", "chunk", "return"}, Goto(i, pc)
      PROVE  \E t : Fits(t) /\ task' = [task EXCEPT ![i] = t] /\ t.pc = pc
                    /\ t.leg = task[i].leg /\ t.event = task[i].event
  <2> DEFINE t == [k EXCEPT !.pc = pc]
  <2>1. task' = [task EXCEPT ![i] = t]
    BY <1>2 DEF Goto
  <2>2. Fits(t) /\ t.pc = pc /\ t.leg = k.leg /\ t.event = k.event
    BY <1>1, DeliveryAssumption DEF Fits, Task
  <2>3. QED
    BY <2>1, <2>2
<1>3. ASSUME NEW why \in {"later", "retry", "never"}, Throw(i, why)
      PROVE  \E t : Fits(t) /\ task' = [task EXCEPT ![i] = t] /\ t.pc = "throw"
  <2> DEFINE t1 == [k EXCEPT !.pc = "throw"]
             t2 == [t1 EXCEPT !.why = why]
             t3 == [t2 EXCEPT !.chunk = 1]
  <2>1. task' = [task EXCEPT ![i] = t3]
    BY <1>1, <1>3 DEF Throw, Task
  <2>2. t1 \in Task /\ t1.pc = "throw" /\ t1.leg = k.leg /\ t1.event = k.event
    BY <1>1 DEF Task
  <2>3. t2 \in Task /\ t2.pc = "throw" /\ t2.leg = k.leg /\ t2.event = k.event
    <3> HIDE DEF t1
    <3> QED BY <2>2 DEF Task
  <2>4. t3 \in Task /\ t3.pc = "throw" /\ t3.leg = k.leg /\ t3.event = k.event /\ t3.chunk = 1
    <3> HIDE DEF t2
    <3> QED BY <2>3 DEF Task
  <2>5. QED
    <3> HIDE DEF t3
    <3> QED BY <1>1, <2>1, <2>4 DEF Fits
<1>4. ASSUME task' = [task EXCEPT ![i].pc = "return", ![i].chunk = 1]
      PROVE  \E t : Fits(t) /\ task' = [task EXCEPT ![i] = t] /\ t.pc = "return"
  <2> DEFINE t1 == [k EXCEPT !.pc = "return"]
             t3 == [t1 EXCEPT !.chunk = 1]
  <2>1. task' = [task EXCEPT ![i] = t3]
    BY <1>1, <1>4 DEF Task
  <2>2. t1 \in Task /\ t1.pc = "return" /\ t1.leg = k.leg /\ t1.event = k.event
    BY <1>1 DEF Task
  <2>3. t3 \in Task /\ t3.pc = "return" /\ t3.leg = k.leg /\ t3.event = k.event /\ t3.chunk = 1
    <3> HIDE DEF t1
    <3> QED BY <2>2 DEF Task
  <2>4. QED
    <3> HIDE DEF t3
    <3> QED BY <1>1, <2>1, <2>3 DEF Fits
<1>5. QED
  BY <1>2, <1>3, <1>4

LEMMA DrainIsTyped ==
  ASSUME DeliveryInv, LedgerTypeOK', NEW i \in Inc, Drain(i)
  PROVE  TypeOK' /\ AllUnderway'
<1> DEFINE k == task[i]
<1>1. /\ k \in Task /\ task \in [Inc -> Task] /\ Underway(i)
      /\ k.pc # "idle" => k.event \in Event
      /\ k.leg \in Nat \ {0} /\ Len(Legs) \in Nat
      /\ k.pc \in {"send", "chunk", "return"} => /\ Key(i) \in RowKey /\ k.leg <= Len(Legs)
                                                 /\ To(i) \in Target /\ Here(i) \in Article
      /\ IF k.pc = "chunk" THEN holds[i] = Key(i) ELSE holds[i] = NoKey
      /\ k.chunk \in 1 .. Chunks
  BY KeyIsTyped, DeliveryAssumption, LenProperties
     DEF DeliveryInv, TypeOK, AllUnderway, Underway
<1>2. CASE DispatchReturns(i) \/ DispatchThrows(i)
  <2>1. dropped' \subseteq Article
    BY <1>2, EventIsDisposed DEF DeliveryInv, TypeOK, Here, Event
  <2>2. /\ queue' \in [Inc -> Seq(Event)] /\ stored' \subseteq Article
        /\ task' \in [Inc -> Task] /\ AllUnderway'
    BY <1>2, EventIsDisposed, HandIsEmptied
  <2>3. QED
    BY <1>2, <2>1, <2>2
       DEF DispatchReturns, DispatchThrows, DeliveryInv, TypeOK, bus, world
<1>3. CASE Take(i)
  <2>1. Head(queue[i]) \in Event /\ Tail(queue[i]) \in Seq(Event)
    BY <1>3, EventQueues DEF Take, DeliveryInv, TypeOK
  <2>2. queue' \in [Inc -> Seq(Event)] /\ budget' \in [Inc -> Nat]
    BY <1>3, <2>1 DEF Take, DeliveryInv, TypeOK
  <2> DEFINE s == [k EXCEPT !.pc = "leg"]
             t == [s EXCEPT !.event = Head(queue[i])]
  <2>3. s \in Task /\ s.pc = "leg" /\ s.leg = k.leg /\ s.chunk = k.chunk
    BY <1>1 DEF Task
  <2>4. Fits(t) /\ t.pc = "leg"
    <3> HIDE DEF s
    <3> QED BY <1>1, <2>1, <2>3 DEF Task, Fits
  <2>5. task' = [task EXCEPT ![i] = t]
    BY <1>1, <1>3 DEF Take, Task
  <2>6. k.pc = "idle" /\ UNCHANGED holds
    BY <1>3 DEF Take, At, ledger
  <2>7. task' \in [Inc -> Task] /\ AllUnderway'
    <3> HIDE DEF t
    <3> QED BY <1>1, <2>4, <2>5, <2>6, HandMoves
  <2>8. QED
    BY <1>3, <2>2, <2>7 DEF Take, DeliveryInv, TypeOK, bus, ledger, outcome, world
<1>4. ASSUME UNCHANGED <<bus, up, inc, queue, stored, budget, dropped, world>>,
             forwarded' \subseteq Article \X Target,
             copies' \in [RowKey -> [1 .. Chunks -> Nat]],
             NEW t, Fits(t), task' = [task EXCEPT ![i] = t],
             holds'[i] = IF t.pc = "chunk" THEN <<Legs[t.leg], t.event.article>> ELSE NoKey,
             \A j \in Inc \ {i} : holds'[j] = holds[j]
      PROVE  TypeOK' /\ AllUnderway'
  <2>1. task' \in [Inc -> Task] /\ AllUnderway'
    BY <1>4, HandMoves
  <2>2. QED
    BY <1>4, <2>1 DEF DeliveryInv, TypeOK, bus, world
<1>5. CASE LegDone(i) \/ LegDeferred(i) \/ SendReturns(i)
  <2>1. /\ UNCHANGED <<bus, up, inc, queue, stored, budget, dropped, copies, holds, world>>
        /\ k.pc \in {"leg", "return"}
    BY <1>5 DEF LegDone, LegDeferred, SendReturns, outcome, ledger, OnLeg, At
  <2>2. forwarded' \subseteq Article \X Target
    <3>1. CASE LegDone(i) \/ LegDeferred(i)
      BY <3>1 DEF LegDone, LegDeferred, outcome, DeliveryInv, TypeOK
    <3>2. CASE SendReturns(i)
      <4>1. <<Here(i), To(i)>> \in Article \X Target
        BY <1>1, <3>2 DEF SendReturns, At
      <4>2. QED
        BY <3>2, <4>1 DEF SendReturns, DeliveryInv, TypeOK
    <3>3. QED
      BY <1>5, <3>1, <3>2
  <2>3. PICK d \in BOOLEAN : NextLeg(i, d)
    BY <1>1, <1>5 DEF LegDone, LegDeferred, SendReturns, Task
  <2> DEFINE s == [k EXCEPT !.pc = "leg"]
             r == [s EXCEPT !.leg = @ + 1]
             t == [r EXCEPT !.deferred = d]
  <2>4. s \in Task /\ s.pc = "leg" /\ s.leg = k.leg /\ s.chunk = k.chunk /\ s.event = k.event
    BY <1>1 DEF Task
  <2>5. /\ r \in Task /\ r.pc = "leg" /\ r.leg = k.leg + 1 /\ r.chunk = k.chunk
        /\ r.event = k.event
    <3> HIDE DEF s
    <3>1. s.leg + 1 \in Nat
      BY <2>4 DEF Task
    <3> QED BY <2>4, <3>1, LegOfHand
  <2>6. Fits(t) /\ t.pc = "leg"
    <3> HIDE DEF r
    <3>1. t.pc = "leg" /\ t.leg = k.leg + 1 /\ t.chunk = k.chunk /\ t.event = k.event
      BY <2>5 DEF Task
    <3>2. t \in Task
      BY <2>5, Zenon DEF Task
    <3>3. QED
      <4> HIDE DEF t
      <4> QED BY <1>1, <2>1, <3>1, <3>2 DEF Fits
  <2>7. task' = [task EXCEPT ![i] = t]
    BY <1>1, <2>3, SMTT(30) DEF NextLeg, Task
  <2>8. QED
    <3> HIDE DEF t
    <3> QED BY <1>1, <1>4, <2>1, <2>2, <2>6, <2>7 DEF DeliveryInv, TypeOK
<1>6. CASE LegRendered(i) \/ GateShut(i) \/ SendSkips(i) \/ ClaimDenied(i)
  <2>1. /\ UNCHANGED <<bus, up, inc, queue, stored, budget, forwarded, dropped, copies, holds,
                       world>>
        /\ k.pc \in {"leg", "send"} /\ k.leg <= Len(Legs)
    BY <1>1, <1>6 DEF LegRendered, GateShut, SendSkips, ClaimDenied, outcome, ledger, OnLeg, At
  <2>2. \/ Goto(i, "send") \/ Goto(i, "return")
        \/ Throw(i, "later") \/ Throw(i, "retry")
    BY <1>6 DEF LegRendered, GateShut, SendSkips, ClaimDenied
  <2>3. PICK t : Fits(t) /\ task' = [task EXCEPT ![i] = t] /\ t.pc # "chunk"
    BY <2>1, <2>2, MovesFit
  <2>4. QED
    BY <1>1, <1>4, <2>1, <2>3 DEF DeliveryInv, TypeOK
<1>7. CASE Claimed(i)
  <2>1. /\ UNCHANGED <<bus, up, inc, queue, stored, budget, forwarded, dropped, copies, world>>
        /\ k.pc = "send" /\ k.leg <= Len(Legs) /\ Goto(i, "chunk")
    BY <1>1, <1>7 DEF Claimed, outcome, At
  <2>2. holds'[i] = Key(i) /\ \A j \in Inc \ {i} : holds'[j] = holds[j]
    BY <1>7, DeliveryAssumption DEF Claimed, Claim, DeliveryInv, TypeOK, LedgerTypeOK
  <2>3. PICK t : /\ Fits(t) /\ task' = [task EXCEPT ![i] = t] /\ t.pc = "chunk"
                 /\ t.leg = k.leg /\ t.event = k.event
    <3>1. /\ DeliveryInv /\ i \in Inc /\ task[i].pc \in {"leg", "send", "chunk"}
          /\ task[i].leg <= Len(Legs) /\ "chunk" \in {"send", "chunk", "return"}
      BY <2>1
    <3>2. Goto(i, "chunk") => \E t : Fits(t) /\ task' = [task EXCEPT ![i] = t] /\ t.pc = "chunk"
                                    /\ t.leg = task[i].leg /\ t.event = task[i].event
      BY <3>1, MovesFit
    <3> QED BY <2>1, <3>2
  <2>4. QED
    BY <1>4, <2>1, <2>2, <2>3 DEF DeliveryInv, TypeOK, Key, Here
<1>8. CASE ChunkSent(i)
  <2>1. /\ UNCHANGED <<bus, up, inc, queue, stored, budget, forwarded, dropped, holds, world>>
        /\ k.pc = "chunk" /\ Visible(i)
    BY <1>8 DEF ChunkSent, Sendable, At, ledger
  <2>2. copies' \in [RowKey -> [1 .. Chunks -> Nat]]
    BY <1>1, <2>1, VisibleIsTyped
  <2>3. k.chunk + 1 \in 1 .. Chunks
    <3>1. k.chunk < ChunksOf(To(i))
      BY <1>8 DEF ChunkSent
    <3>2. ChunksOf(To(i)) \in 1 .. Chunks /\ Chunks \in Nat
      BY <1>1, <2>1, ChunksAreBounded, DeliveryAssumption
    <3>3. k.chunk \in Nat
      BY <1>1 DEF Task
    <3> QED BY <3>1, <3>2, <3>3
  <2> DEFINE t == [k EXCEPT !.chunk = @ + 1]
  <2>4. Fits(t) /\ t.pc = "chunk" /\ t.leg = k.leg /\ t.event = k.event
    <3>1. k.chunk + 1 \in Nat
      BY <2>3, DeliveryAssumption
    <3>2. t \in Task /\ t.pc = k.pc /\ t.leg = k.leg /\ t.event = k.event /\ t.chunk = k.chunk + 1
      BY <1>1, <3>1, ChunkOfHand
    <3> HIDE DEF t
    <3> QED BY <1>1, <2>1, <2>3, <3>2 DEF Fits
  <2>5. task' = [task EXCEPT ![i] = t]
    BY <1>8 DEF ChunkSent
  <2>6. holds'[i] = <<Legs[t.leg], t.event.article>>
    BY <1>1, <2>1, <2>4 DEF Key, Here
  <2>7. QED
    <3> HIDE DEF t
    <3> QED BY <1>4, <2>1, <2>2, <2>4, <2>5, <2>6 DEF DeliveryInv, TypeOK
<1>9. CASE NothingToSend(i) \/ LastChunkSent(i) \/ ChunkRefused(i) \/ ChunkDoubtful(i)
  <2>1. /\ UNCHANGED <<bus, up, inc, queue, stored, budget, forwarded, dropped, world>>
        /\ k.pc = "chunk" /\ k.leg <= Len(Legs)
        /\ UNCHANGED copies \/ Visible(i)
    BY <1>1, <1>9 DEF NothingToSend, LastChunkSent, ChunkRefused, ChunkDoubtful, Sendable,
                      At, outcome
  <2>2. copies' \in [RowKey -> [1 .. Chunks -> Nat]]
    BY <1>1, <2>1, VisibleIsTyped DEF DeliveryInv, TypeOK
  <2>3. holds'[i] = NoKey /\ \A j \in Inc \ {i} : holds'[j] = holds[j]
    BY <1>9, DeliveryAssumption
       DEF NothingToSend, LastChunkSent, ChunkRefused, ChunkDoubtful, MarkFailure, Mark,
           DeliveryInv, TypeOK, LedgerTypeOK
  <2>4. \/ Goto(i, "return") \/ Throw(i, "retry") \/ Throw(i, "never")
        \/ task' = [task EXCEPT ![i].pc = "return", ![i].chunk = 1]
    BY <1>9 DEF NothingToSend, LastChunkSent, ChunkRefused, ChunkDoubtful
  <2>5. PICK t : Fits(t) /\ task' = [task EXCEPT ![i] = t] /\ t.pc # "chunk"
    BY <2>1, <2>4, MovesFit
  <2>6. QED
    BY <1>4, <2>1, <2>2, <2>3, <2>5 DEF DeliveryInv, TypeOK
<1>10. QED
  BY <1>2, <1>3, <1>5, <1>6, <1>7, <1>8, <1>9 DEF Drain

LEMMA OrdersAreQueues ==
  ASSUME NEW S \in SUBSET Article, NEW s \in Orders(S)
  PROVE  LET q == [n \in DOMAIN s |-> Fresh(s[n])]
         IN  q \in Seq(Event) /\ Articles(q) \subseteq S
<1> DEFINE q == [n \in DOMAIN s |-> Fresh(s[n])]
<1>1. Cardinality(S) \in Nat
  BY DeliveryAssumption, FS_Subset, FS_CardinalityType
<1>2. s \in [1 .. Cardinality(S) -> S]
  BY DEF Orders
<1>3. q \in [1 .. Cardinality(S) -> Event]
  BY <1>2 DEF Fresh, Event
<1>4. q \in Seq(Event) /\ Len(q) = Cardinality(S)
  BY <1>1, <1>3
<1>5. Articles(q) \subseteq S
  BY <1>2, <1>4 DEF Articles, Fresh
<1>6. QED
  BY <1>4, <1>5

LEMMA InitIsTyped == Init => DeliveryInv
<1> SUFFICES ASSUME Init PROVE DeliveryInv
  OBVIOUS
<1>1. LedgerInv
  BY LedgerInitially DEF Init
<1>2. Idle \in Task
  BY DeliveryAssumption DEF Idle, Task, NoEvent
<1>3. task \in [Inc -> Task] /\ queue \in [Inc -> Seq(Event)] /\ inc \in 0 .. MaxInc
  BY <1>2, DeliveryAssumption, EmptySeq DEF Init
<1>4. TypeOK
  BY <1>1, <1>3, DeliveryAssumption DEF Init, TypeOK, LedgerInv
<1>5. AllUnderway
  BY DeliveryAssumption DEF Init, LedgerInit, AllUnderway, Underway, Idle
<1>6. QED
  BY <1>1, <1>4, <1>5 DEF DeliveryInv

LEMMA StepIsTyped ==
  ASSUME DeliveryInv, [Next]_vars
  PROVE  DeliveryInv'
<1>1. LedgerInv'
  BY StepOfTheLedger, LedgerStep DEF DeliveryInv
<1>2. LedgerTypeOK'
  BY <1>1 DEF LedgerInv
<1>3. ASSUME UNCHANGED <<task, holds>> PROVE AllUnderway'
  BY <1>3 DEF DeliveryInv, AllUnderway, Underway, Key, Here
<1> SUFFICES TypeOK' /\ AllUnderway'
  BY <1>1 DEF DeliveryInv
<1>4. ASSUME NEW a \in Article, Publish(a) PROVE TypeOK' /\ AllUnderway'
  <2>1. Fresh(a) \in Event
    BY DEF Fresh, Event
  <2>2. CASE up
    <3> DEFINE q == Append(queue[inc], Fresh(a))
    <3>1. inc \in Inc /\ queue[inc] \in Seq(Event)
      BY <2>2, DeliveryAssumption DEF DeliveryInv, TypeOK, Inc
    <3>2. q \in Seq(Event) /\ Articles(q) \subseteq Article
      BY <2>1, <3>1, EventQueues
    <3>3. queue' = [queue EXCEPT ![inc] = q] /\ Persist(inc, q) /\ UNCHANGED missed
      BY <1>4, <2>2 DEF Publish
    <3>4. queue' \in [Inc -> Seq(Event)] /\ stored' \subseteq Article
      BY <3>2, <3>3 DEF Persist, DeliveryInv, TypeOK
    <3>5. QED
      BY <1>2, <1>3, <1>4, <3>3, <3>4
         DEF Publish, ledger, outcome, world, DeliveryInv, TypeOK
  <2>3. CASE ~up
    BY <1>2, <1>3, <1>4, <2>3 DEF Publish, ledger, outcome, world, DeliveryInv, TypeOK
  <2>4. QED
    BY <2>2, <2>3
<1>5. CASE Start
  <2>1. inc + 1 \in Inc /\ inc' = inc + 1
    BY <1>5, DeliveryAssumption DEF Start, Inc, DeliveryInv, TypeOK
  <2>2. stored' \in SUBSET Article
    BY <1>5 DEF Start, DeliveryInv, TypeOK
  <2>3. PICK s \in Orders(stored') :
          queue' = [queue EXCEPT ![inc + 1] = [n \in DOMAIN s |-> Fresh(s[n])]]
    BY <1>5 DEF Start
  <2>4. queue' \in [Inc -> Seq(Event)]
    <3>1. [n \in DOMAIN s |-> Fresh(s[n])] \in Seq(Event)
      BY <2>2, OrdersAreQueues
    <3>2. QED
      BY <2>1, <2>3, <3>1 DEF DeliveryInv, TypeOK
  <2>5. inc' \in 0 .. MaxInc /\ inc' > 0
    BY <2>1, DeliveryAssumption DEF Inc
  <2>6. QED
    BY <1>2, <1>3, <1>5, <2>2, <2>4, <2>5
       DEF Start, bus, ledger, outcome, world, DeliveryInv, TypeOK
<1>6. CASE Teardown
  BY <1>2, <1>3, <1>6 DEF Teardown, bus, ledger, outcome, world, DeliveryInv, TypeOK
<1>7. CASE Crash
  <2>1. Idle \in Task
    BY DeliveryAssumption DEF Idle, Task, NoEvent
  <2>2. queue' \in [Inc -> Seq(Event)] /\ budget' \in [Inc -> Nat] /\ task' \in [Inc -> Task]
    BY <1>7, <2>1, EmptySeq DEF Crash
  <2>3. torn' \in [RowKey -> Nat] /\ crashes' \in Nat /\ up' = FALSE
    BY <1>7 DEF Crash, DeliveryInv, TypeOK
  <2>4. AllUnderway'
    BY <1>7, DeliveryAssumption DEF Crash, Abandon, AllUnderway, Underway, Idle
  <2>5. QED
    BY <1>2, <1>7, <2>2, <2>3, <2>4 DEF Crash, bus, outcome, DeliveryInv, TypeOK
<1>8. ASSUME NEW t \in Target, Mount(t) PROVE TypeOK' /\ AllUnderway'
  BY <1>2, <1>3, <1>8 DEF Mount, bus, router, ledger, outcome, DeliveryInv, TypeOK
<1>9. ASSUME NEW i \in Inc, StartDrain(i) PROVE TypeOK' /\ AllUnderway'
  <2>1. Len(queue[i]) \in Nat
    BY LenProperties DEF DeliveryInv, TypeOK
  <2>2. QED
    BY <1>2, <1>3, <1>9, <2>1
       DEF StartDrain, bus, ledger, outcome, world, DeliveryInv, TypeOK
<1>10. ASSUME NEW k \in RowKey, ClaimAges(k) PROVE TypeOK' /\ AllUnderway'
  BY <1>2, <1>3, <1>10 DEF ClaimAges, Age, bus, router, outcome, world, DeliveryInv, TypeOK
<1>11. CASE UNCHANGED vars
  BY <1>2, <1>3, <1>11
     DEF vars, bus, router, ledger, outcome, world, DeliveryInv, TypeOK
<1>12. QED
  BY <1>2, <1>4, <1>5, <1>6, <1>7, <1>8, <1>9, <1>10, <1>11, DrainIsTyped DEF Next

LEMMA DeliveryInvariant == Spec => []DeliveryInv
BY InitIsTyped, StepIsTyped, PTL DEF Spec

\* The delivery is typed: what a drain holds is always an event of the bus, on
\* a leg of its routes (router.ts).
THEOREM DeliveryIsTyped == Spec => []TypeOK
<1>1. DeliveryInv => TypeOK
  BY DEF DeliveryInv
<1>2. QED
  BY <1>1, DeliveryInvariant, PTL

\* Every router incarnation, however long a torn-down one drains on, goes
\* through claim and mark of outbound.ts as the ledger expects.
THEOREM DeliveryUsesTheLedger == Spec => LedgerSpec
<1>1. Init => LedgerInit
  BY DEF Init
<1>2. DeliveryInv /\ [Next]_vars => [LedgerNext]_ledger
  BY StepOfTheLedger
<1>3. QED
  BY <1>1, <1>2, DeliveryInvariant, PTL DEF Spec, LedgerSpec

\* So no two incarnations send the same message at a time, no message is tried
\* more often than its budget, and a settled row stays settled.
THEOREM DeliveryKeepsTheLedger ==
  Spec => []OneHolder /\ []BudgetIsKept /\ TerminalIsFinal
BY DeliveryUsesTheLedger, ClaimsExclude, BudgetHolds, SettledForGood

-----------------------------------------------------------------------------
(* Nothing is posted twice without a crash.                                *)

LEMMA CopiesInitially == Init => CopiesAreAccounted
BY DEF Init, CopiesAreAccounted

\* The chunks of one send, seen from the row it holds.
LEMMA CopiesStep ==
  ASSUME ~Doubt, DeliveryInv, CopiesAreAccounted, [Next]_vars
  PROVE  CopiesAreAccounted'
<1> DEFINE Accounted(k, n) ==
             \/ copies[k][n] <= torn[k]
             \/ /\ copies[k][n] <= torn[k] + 1
                /\ Done(k) \/ \E i \in Inc : holds[i] = k /\ n < task[i].chunk
<1> SUFFICES ASSUME NEW k \in RowKey, NEW n \in 1 .. Chunks
             PROVE  Accounted(k, n)'
  BY DEF CopiesAreAccounted
<1>1. /\ Accounted(k, n)
      /\ copies \in [RowKey -> [1 .. Chunks -> Nat]] /\ copies[k][n] \in Nat
      /\ torn \in [RowKey -> Nat] /\ torn[k] \in Nat
  <2>1. Accounted(k, n)
    BY DEF CopiesAreAccounted
  <2>2. copies \in [RowKey -> [1 .. Chunks -> Nat]] /\ torn \in [RowKey -> Nat]
    BY DEF DeliveryInv, TypeOK
  <2>3. copies[k] \in [1 .. Chunks -> Nat]
    BY <2>2
  <2>4. QED
    <3> HIDE DEF Accounted
    <3> QED BY <2>1, <2>2, <2>3
<1>2. /\ holds \in [Inc -> RowKey \cup {NoKey}] /\ NoKey \notin RowKey
      /\ task \in [Inc -> Task] /\ row \in [RowKey -> [status : Outcome \cup {"none", "sending"},
                                                       attempts : Nat, stale : BOOLEAN]]
  BY DeliveryAssumption, LedgerAssumption DEF DeliveryInv, TypeOK, LedgerTypeOK
<1>3. ASSUME NEW i \in Inc, holds[i] = k
      PROVE  row[k].status = "sending" /\ ~Done(k) /\ \A j \in Inc : holds[j] = k => j = i
  BY <1>2, <1>3, DeliveryAssumption
     DEF DeliveryInv, LedgerInv, OneHolder, Done, TerminalStatus
<1>4. ASSUME UNCHANGED <<copies, torn, row, holds>>,
             \A i \in Inc : holds[i] # NoKey => task'[i].chunk = task[i].chunk
      PROVE  Accounted(k, n)'
  BY <1>1, <1>2, <1>4 DEF Done
<1>5. ASSUME NEW i \in Inc, Drain(i) PROVE Accounted(k, n)'
  <2>1. /\ IF task[i].pc = "chunk" THEN holds[i] = Key(i) ELSE holds[i] = NoKey
        /\ task[i].chunk \in 1 .. Chunks
        /\ task[i].pc \in {"send", "chunk", "return"} => Key(i) \in RowKey
    BY KeyIsTyped DEF DeliveryInv, AllUnderway, Underway
  <2>2. CASE DispatchReturns(i) \/ DispatchThrows(i)
    <3>1. UNCHANGED <<copies, torn, row, holds>> /\ task[i].pc # "chunk"
      BY <2>2 DEF DispatchReturns, DispatchThrows, ledger, world, At
    <3>2. task' = [task EXCEPT ![i] = Idle]
      BY <2>2 DEF DispatchReturns, DispatchThrows, Defer, GiveUp, LetGo, Requeue
    <3>3. QED
      BY <1>2, <1>4, <2>1, <3>1, <3>2
  <2>3. CASE \/ Take(i) \/ LegDone(i) \/ LegDeferred(i) \/ LegRendered(i) \/ SendSkips(i)
             \/ GateShut(i) \/ ClaimDenied(i) \/ SendReturns(i)
    <3>1. UNCHANGED <<copies, torn, row, holds>> /\ task[i].pc # "chunk"
      BY <2>3 DEF Take, LegDone, LegDeferred, LegRendered, SendSkips, GateShut, ClaimDenied,
                  SendReturns, ledger, world, outcome, OnLeg, At
    <3>2. \A j \in Inc \ {i} : task'[j] = task[j]
      BY <1>2, <2>3 DEF Take, LegDone, LegDeferred, LegRendered, SendSkips, GateShut,
                        ClaimDenied, SendReturns, NextLeg, Goto, Throw
    <3>3. QED
      BY <1>4, <2>1, <3>1, <3>2
  <2>4. CASE Claimed(i)
    <3>1. UNCHANGED <<copies, torn>> /\ Claim(i, Key(i)) /\ Key(i) \in RowKey
      BY <2>1, <2>4 DEF Claimed, At, outcome, world
    <3>2. \A j \in Inc \ {i} : task'[j] = task[j] /\ holds'[j] = holds[j]
      BY <1>2, <2>4, <3>1 DEF Claimed, Goto, Claim
    <3>3. CASE k = Key(i)
      <4>1. ~Done(k) /\ \A j \in Inc : holds[j] # k
        BY <1>2, <1>3, <3>1, <3>3, DeliveryAssumption
           DEF Claim, Free, Live, Done, TerminalStatus, DeliveryInv, LedgerInv, HeldIsFresh
      <4>2. QED
        BY <1>1, <3>1, <4>1
    <3>4. CASE k # Key(i)
      <4>1. row'[k] = row[k] /\ holds[i] = NoKey
        BY <1>2, <3>1, <3>4 DEF Claim
      <4>2. QED
        BY <1>1, <1>2, <3>1, <3>2, <4>1 DEF Done
    <3>5. QED
      BY <3>3, <3>4
  <2>5. CASE ChunkSent(i)
    <3>1. /\ UNCHANGED <<torn, row, holds>> /\ holds[i] = Key(i) /\ Key(i) \in RowKey
          /\ copies' = [copies EXCEPT ![Key(i)][task[i].chunk] = @ + 1]
          /\ task' = [task EXCEPT ![i].chunk = @ + 1]
      BY <2>1, <2>5 DEF ChunkSent, Sendable, At, ledger, world, Visible
    <3>2. task'[i].chunk = task[i].chunk + 1 /\ \A j \in Inc \ {i} : task'[j] = task[j]
      BY <1>2, <3>1 DEF Task
    <3>3. CASE k = Key(i)
      <4>1. ~Done(k) /\ \A j \in Inc : holds[j] = k => j = i
        BY <1>3, <3>1, <3>3
      <4>2. n >= task[i].chunk => copies[k][n] <= torn[k]
        BY <1>1, <2>1, <4>1
      <4>3. copies'[k][n] = IF n = task[i].chunk THEN copies[k][n] + 1 ELSE copies[k][n]
        BY <1>1, <2>1, <3>1, <3>3
      <4>4. CASE n >= task[i].chunk
        <5>1. CASE n = task[i].chunk
          BY <1>1, <2>1, <3>1, <3>2, <3>3, <4>2, <4>3, <5>1
        <5>2. CASE n > task[i].chunk
          BY <1>1, <2>1, <3>1, <4>2, <4>3, <5>2
        <5>3. QED
          BY <2>1, <4>4, <5>1, <5>2
      <4>5. CASE n < task[i].chunk
        BY <1>1, <2>1, <3>1, <3>2, <3>3, <4>3, <4>5
      <4>6. QED
        BY <2>1, <4>4, <4>5
    <3>4. CASE k # Key(i)
      <4>1. copies'[k] = copies[k]
        BY <1>1, <3>1, <3>4
      <4>2. QED
        BY <1>1, <3>1, <3>2, <3>4, <4>1 DEF Done
    <3>5. QED
      BY <3>3, <3>4
  <2>6. CASE NothingToSend(i) \/ LastChunkSent(i) \/ ChunkRefused(i)
    <3>1. /\ UNCHANGED torn /\ holds[i] = Key(i) /\ Key(i) \in RowKey
          /\ \A j \in Inc \ {i} : task'[j] = task[j]
      BY <1>2, <2>1, <2>6 DEF NothingToSend, LastChunkSent, ChunkRefused, Goto, Throw, Sendable,
                              At, world
    <3>2. PICK o \in Outcome :
            /\ Mark(i, o)
            /\ o = "failed" => UNCHANGED copies /\ task[i].chunk <= 1
            /\ \/ UNCHANGED copies
               \/ copies' = [copies EXCEPT ![Key(i)][task[i].chunk] = @ + 1]
                    /\ task[i].chunk = ChunksOf(To(i))
      BY <2>1, <2>6 DEF NothingToSend, LastChunkSent, ChunkRefused, MarkFailure, Visible,
                        Outcome, TerminalStatus, outcome
    <3>3. holds' = [holds EXCEPT ![i] = NoKey] /\ \A l \in RowKey \ {Key(i)} : row'[l] = row[l]
      BY <1>2, <3>1, <3>2 DEF Mark
    <3>4. CASE k = Key(i)
      <4>1. ~Done(k) /\ \A j \in Inc : holds[j] = k => j = i
        BY <1>3, <3>1, <3>4
      <4>2. n >= task[i].chunk => copies[k][n] <= torn[k]
        BY <1>1, <2>1, <4>1
      <4>3. copies'[k][n] <= torn[k] + 1
        <5>1. CASE UNCHANGED copies
          BY <1>1, <5>1
        <5>2. CASE copies' = [copies EXCEPT ![Key(i)][task[i].chunk] = @ + 1]
          <6>1. copies'[k][n] = IF n = task[i].chunk THEN copies[k][n] + 1 ELSE copies[k][n]
            BY <1>1, <2>1, <3>4, <5>2
          <6>2. QED
            BY <1>1, <4>2, <6>1
        <5>3. QED
          BY <3>2, <5>1, <5>2
      <4>4. row'[k].status = o
        BY <1>2, <3>1, <3>2, <3>4 DEF Mark
      <4>5. CASE o = "failed"
        BY <1>1, <2>1, <3>1, <3>2, <4>2, <4>5
      <4>6. CASE o # "failed"
        BY <3>1, <4>3, <4>4, <4>6 DEF Done, Outcome
      <4>7. QED
        BY <4>5, <4>6
    <3>5. CASE k # Key(i)
      <4>1. copies'[k] = copies[k] /\ row'[k] = row[k]
        BY <1>1, <3>1, <3>2, <3>3, <3>5
      <4>2. QED
        BY <1>1, <1>2, <3>1, <3>3, <3>5, <4>1 DEF Done
    <3>6. QED
      BY <3>4, <3>5
  <2>7. QED
    BY <1>5, <2>2, <2>3, <2>4, <2>5, <2>6 DEF Drain, ChunkDoubtful
<1>6. CASE Crash
  <2>1. /\ UNCHANGED <<copies, row>>
        /\ torn'[k] = IF \E i \in Inc : holds[i] = k THEN torn[k] + 1 ELSE torn[k]
    BY <1>6 DEF Crash, Abandon, outcome
  <2>2. QED
    BY <1>1, <2>1 DEF Done
<1>7. ASSUME NEW l \in RowKey, ClaimAges(l) PROVE Accounted(k, n)'
  <2>1. UNCHANGED <<copies, torn, holds, task>> /\ row'[k].status = row[k].status
    BY <1>2, <1>7 DEF ClaimAges, Age, outcome, world, router
  <2>2. QED
    BY <1>1, <2>1 DEF Done
<1>8. ASSUME UNCHANGED <<copies, torn, row, holds, task>> PROVE Accounted(k, n)'
  BY <1>4, <1>8
<1>9. ASSUME NEW a \in Article, Publish(a) PROVE Accounted(k, n)'
  BY <1>8, <1>9 DEF Publish, ledger, outcome, world
<1>10. CASE Start \/ Teardown \/ UNCHANGED vars
  BY <1>8, <1>10 DEF Start, Teardown, ledger, outcome, world, vars, router
<1>11. ASSUME NEW t \in Target, Mount(t) PROVE Accounted(k, n)'
  BY <1>8, <1>11 DEF Mount, ledger, outcome, router
<1>12. ASSUME NEW i \in Inc, StartDrain(i) PROVE Accounted(k, n)'
  BY <1>8, <1>12 DEF StartDrain, ledger, outcome, world
<1>13. QED
  BY <1>5, <1>6, <1>7, <1>9, <1>10, <1>11, <1>12 DEF Next

\* However often the router is torn down and applied again under its drains,
\* and whatever the provider refuses: where every answer tells whether the
\* message went out, a message is visible once, and once more for every crash
\* that cut its send off (outbound.ts, target-qq.ts, target-bilibili.ts).
THEOREM NoDuplicateWithoutACrash ==
  ASSUME ~Doubt
  PROVE  Spec => []DuplicatesNeedACrash
<1>1. DeliveryInv /\ CopiesAreAccounted => DuplicatesNeedACrash
  <2> SUFFICES ASSUME DeliveryInv, CopiesAreAccounted, NEW k \in RowKey, NEW n \in 1 .. Chunks
               PROVE  copies[k][n] <= 1 + torn[k]
    BY DEF DuplicatesNeedACrash
  <2>1. copies[k] \in [1 .. Chunks -> Nat] /\ torn[k] \in Nat
    BY DEF DeliveryInv, TypeOK
  <2>2. copies[k][n] \in Nat
    BY <2>1
  <2>3. QED
    BY <2>1, <2>2 DEF CopiesAreAccounted
<1>2. DeliveryInv /\ CopiesAreAccounted /\ [Next]_vars => CopiesAreAccounted'
  BY CopiesStep
<1>3. QED
  BY <1>1, <1>2, CopiesInitially, DeliveryInvariant, PTL DEF Spec

-----------------------------------------------------------------------------
(* What the router writes through.                                         *)

LEMMA QueuedInitially == Init => QueuedIsStored
BY DEF Init, QueuedIsStored

LEMMA QueuedStep ==
  ASSUME DeliveryInv, QueuedIsStored, [Next]_vars
  PROVE  QueuedIsStored'
<1>1. queue \in [Inc -> Seq(Event)] /\ (up => inc \in Inc) /\ MaxInc \in Nat
  BY DeliveryAssumption DEF DeliveryInv, TypeOK, Inc
<1>2. ASSUME UNCHANGED <<up, inc>>, NEW i \in Inc, NEW q, queue' = [queue EXCEPT ![i] = q],
             Persist(i, q)
      PROVE  QueuedIsStored'
  BY <1>1, <1>2 DEF QueuedIsStored, Persist, Alive
<1>3. ASSUME UNCHANGED <<up, inc, queue, stored>> PROVE QueuedIsStored'
  BY <1>3 DEF QueuedIsStored, Articles
<1>4. ASSUME NEW i \in Inc, Drain(i) PROVE QueuedIsStored'
  <2>1. CASE DispatchReturns(i) \/ DispatchThrows(i)
    <3>1. UNCHANGED <<up, inc>>
      BY <2>1 DEF DispatchReturns, DispatchThrows
    <3>2. LetGo(i) \/ \E event \in Event : Requeue(i, event)
      BY <2>1, EventIsDisposed
    <3>3. ASSUME LetGo(i) PROVE QueuedIsStored'
      BY <1>1, <3>1, <3>3 DEF LetGo, Persist, Alive, QueuedIsStored
    <3>4. ASSUME NEW event \in Event, Requeue(i, event) PROVE QueuedIsStored'
      BY <1>2, <3>1, <3>4 DEF Requeue
    <3>5. QED
      BY <3>2, <3>3, <3>4
  <2>2. CASE Take(i)
    <3>1. UNCHANGED <<up, inc, stored>> /\ queue' = [queue EXCEPT ![i] = Tail(queue[i])]
      BY <2>2 DEF Take
    <3>2. Articles(Tail(queue[i])) \subseteq Articles(queue[i])
      BY <1>1, <2>2, EventQueues DEF Take
    <3>3. up => Articles(queue'[inc]) \subseteq Articles(queue[inc])
      BY <1>1, <3>1, <3>2
    <3>4. QED
      BY <3>1, <3>3 DEF QueuedIsStored
  <2>3. CASE ~(DispatchReturns(i) \/ DispatchThrows(i) \/ Take(i))
    BY <1>3, <1>4, <2>3
       DEF Drain, LegDone, LegDeferred, LegRendered, SendSkips, GateShut, ClaimDenied, Claimed,
           NothingToSend, ChunkSent, LastChunkSent, ChunkRefused, ChunkDoubtful, SendReturns
  <2>4. QED
    BY <2>1, <2>2, <2>3
<1>5. ASSUME NEW a \in Article, Publish(a) PROVE QueuedIsStored'
  <2>1. CASE up
    BY <1>1, <1>2, <1>5, <2>1 DEF Publish
  <2>2. CASE ~up
    BY <1>5, <2>2 DEF Publish, QueuedIsStored
  <2>3. QED
    BY <2>1, <2>2
<1>6. CASE Start
  <2>1. stored' \in SUBSET Article /\ inc' = inc + 1 /\ inc + 1 \in Inc
    BY <1>6, DeliveryAssumption DEF Start, Inc, DeliveryInv, TypeOK
  <2>2. PICK s \in Orders(stored') :
          queue' = [queue EXCEPT ![inc + 1] = [n \in DOMAIN s |-> Fresh(s[n])]]
    BY <1>6 DEF Start
  <2>3. Articles([n \in DOMAIN s |-> Fresh(s[n])]) \subseteq stored'
    BY <2>1, OrdersAreQueues
  <2>4. queue'[inc'] = [n \in DOMAIN s |-> Fresh(s[n])]
    BY <1>1, <2>1, <2>2
  <2>5. QED
    BY <2>3, <2>4 DEF QueuedIsStored, Articles
<1>7. CASE Teardown \/ Crash
  BY <1>7 DEF Teardown, Crash, QueuedIsStored
<1>8. CASE UNCHANGED vars
  BY <1>3, <1>8 DEF vars, router
<1>9. ASSUME NEW t \in Target, Mount(t) PROVE QueuedIsStored'
  BY <1>3, <1>9 DEF Mount, router
<1>10. ASSUME NEW i \in Inc, StartDrain(i) PROVE QueuedIsStored'
  BY <1>3, <1>10 DEF StartDrain
<1>11. ASSUME NEW k \in RowKey, ClaimAges(k) PROVE QueuedIsStored'
  BY <1>3, <1>11 DEF ClaimAges, router
<1>12. QED
  BY <1>4, <1>5, <1>6, <1>7, <1>8, <1>9, <1>10, <1>11 DEF Next

\* A crash at any moment leaves every queued event of the living router in
\* service_state, even while a torn-down router's drain still requeues its own
\* (persistQueue and its `alive' guard in router.ts).
THEOREM NoQueuedEventIsLost == Spec => []QueuedIsStored
<1>1. DeliveryInv /\ QueuedIsStored /\ [Next]_vars => QueuedIsStored'
  BY QueuedStep
<1>2. QED
  BY <1>1, QueuedInitially, DeliveryInvariant, PTL DEF Spec

-----------------------------------------------------------------------------
(* What forward_by may say, where every target is a QQ group.              *)

\* A send that returned has settled its row, or the policies stopped it.
ReturnIsSettled ==
  \A i \in Inc : task[i].pc = "return" =>
    <<Here(i), To(i)>> \in Filtered \/ Settled(Key(i))

LEMMA ForwardedInitially == Init => ForwardedIsSettled /\ ReturnIsSettled
BY DEF Init, ForwardedIsSettled, ReturnIsSettled, Idle

LEMMA SettledRowsStay ==
  ASSUME DeliveryInv, [Next]_vars, NEW k \in RowKey, Settled(k)
  PROVE  Settled(k)'
BY StepOfTheLedger, SettledStays DEF DeliveryInv

LEMMA ReturnStep ==
  ASSUME Guarded = Target, DeliveryInv, ReturnIsSettled, [Next]_vars
  PROVE  ReturnIsSettled'
<1>1. task \in [Inc -> Task]
  BY DEF DeliveryInv, TypeOK
<1>2. ASSUME NEW j \in Inc, task'[j] = task[j] \/ task'[j].pc # "return",
             task'[j].pc = "return"
      PROVE  (<<Here(j), To(j)>> \in Filtered \/ Settled(Key(j)))'
  <2>1. task[j].pc = "return" /\ task'[j] = task[j]
    BY <1>2
  <2>2. CASE <<Here(j), To(j)>> \in Filtered
    BY <2>1, <2>2 DEF Here, To
  <2>3. CASE Settled(Key(j))
    <3>1. Key(j) \in RowKey /\ Key(j)' = Key(j)
      BY <2>1, KeyIsTyped DEF DeliveryInv, AllUnderway, Key, Here
    <3>2. Settled(Key(j))'
      BY <2>3, <3>1, SettledRowsStay DEF Settled, Done, Exhausted, Live
    <3>3. QED
      BY <3>2
  <2>4. QED
    BY <2>1, <2>2, <2>3 DEF ReturnIsSettled
<1>3. ASSUME NEW i \in Inc, SendSkips(i) \/ NothingToSend(i) \/ LastChunkSent(i),
             task'[i].pc = "return"
      PROVE  (<<Here(i), To(i)>> \in Filtered \/ Settled(Key(i)))'
  <2>1. /\ Key(i) \in RowKey
        /\ task[i].pc = "chunk" => holds[i] = Key(i)
    BY <1>3, KeyIsTyped DEF SendSkips, NothingToSend, LastChunkSent, Sendable, At, DeliveryInv,
                            AllUnderway, Underway
  <2>2. Here(i)' = Here(i) /\ To(i)' = To(i) /\ Key(i)' = Key(i)
    BY <1>1, <1>3 DEF SendSkips, NothingToSend, LastChunkSent, Goto, Here, To, Key, Task
  <2>3. CASE SendSkips(i)
    BY <2>1, <2>2, <2>3, SettledRowsStay DEF SendSkips, Settled, Done, Exhausted, Live
  <2>4. CASE NothingToSend(i) \/ LastChunkSent(i)
    <3>1. PICK o \in TerminalStatus : Mark(i, o)
      BY <2>4 DEF NothingToSend, LastChunkSent, TerminalStatus
    <3>2. holds[i] = Key(i)
      BY <2>1, <2>4 DEF NothingToSend, LastChunkSent, Sendable, At
    <3>3. row'[Key(i)].status \in TerminalStatus
      BY <2>1, <3>1, <3>2 DEF Mark, DeliveryInv, TypeOK, LedgerTypeOK
    <3>4. QED
      BY <2>2, <3>3 DEF Settled, Done
  <2>5. QED
    BY <1>3, <2>3, <2>4
<1>4. ASSUME NEW i \in Inc, Drain(i) PROVE ReturnIsSettled'
  <2>1. \A j \in Inc \ {i} : task'[j] = task[j]
    BY <1>1, <1>4
       DEF Drain, DispatchReturns, DispatchThrows, Defer, GiveUp, LetGo, Requeue, Take, LegDone,
           LegDeferred, LegRendered, SendSkips, GateShut, ClaimDenied, Claimed, NothingToSend,
           ChunkSent, LastChunkSent, ChunkRefused, ChunkDoubtful, SendReturns, NextLeg, Goto,
           Throw
  <2>2. CASE SendSkips(i) \/ NothingToSend(i) \/ LastChunkSent(i)
    BY <1>2, <1>3, <2>1, <2>2 DEF ReturnIsSettled
  <2>3. CASE \/ DispatchReturns(i) \/ DispatchThrows(i)
    <3>1. task'[i] = Idle
      BY <1>1, <2>3 DEF DispatchReturns, DispatchThrows, Defer, GiveUp, LetGo, Requeue
    <3>2. QED
      BY <1>2, <2>1, <3>1 DEF ReturnIsSettled, Idle
  <2>4. CASE \/ Take(i) \/ LegDone(i) \/ LegDeferred(i) \/ LegRendered(i) \/ SendReturns(i)
             \/ GateShut(i) \/ ClaimDenied(i) \/ Claimed(i) \/ ChunkSent(i)
             \/ ChunkRefused(i) \/ ChunkDoubtful(i)
    <3>1. task'[i].pc # "return"
      <4>1. ClaimDenied(i) => Throw(i, "later")
        BY KeyIsTyped DEF ClaimDenied, At, DeliveryInv, AllUnderway
      <4>2. CASE Take(i)
        BY <1>1, <4>2 DEF Take, Task
      <4>3. CASE LegDone(i) \/ LegDeferred(i) \/ SendReturns(i)
        BY <1>1, <4>3 DEF LegDone, LegDeferred, SendReturns, NextLeg, Task
      <4>4. CASE LegRendered(i) \/ GateShut(i) \/ ClaimDenied(i) \/ Claimed(i)
        BY <1>1, <4>1, <4>4 DEF LegRendered, GateShut, Claimed, Goto, Throw, Task
      <4>5. CASE ChunkSent(i)
        BY <1>1, <4>5 DEF ChunkSent, Sendable, At, Task
      <4>6. CASE ChunkRefused(i) \/ ChunkDoubtful(i)
        BY <1>1, <4>6 DEF ChunkRefused, ChunkDoubtful, Throw, Task
      <4>7. QED
        BY <2>4, <4>2, <4>3, <4>4, <4>5, <4>6
    <3>2. QED
      BY <1>2, <2>1, <3>1 DEF ReturnIsSettled
  <2>5. QED
    BY <1>4, <2>2, <2>3, <2>4 DEF Drain
<1>5. ASSUME UNCHANGED task PROVE ReturnIsSettled'
  BY <1>2, <1>5 DEF ReturnIsSettled
<1>6. CASE Crash
  BY <1>6 DEF Crash, ReturnIsSettled, Idle
<1>7. CASE UNCHANGED vars \/ Start \/ Teardown
  BY <1>5, <1>7 DEF vars, router, Start, Teardown
<1>8. ASSUME NEW a \in Article, Publish(a) PROVE UNCHANGED task
  BY <1>8 DEF Publish
<1>9. ASSUME NEW t \in Target, Mount(t) PROVE UNCHANGED task
  BY <1>9 DEF Mount, router
<1>10. ASSUME NEW i \in Inc, StartDrain(i) PROVE UNCHANGED task
  BY <1>10 DEF StartDrain
<1>11. ASSUME NEW k \in RowKey, ClaimAges(k) PROVE UNCHANGED task
  BY <1>11 DEF ClaimAges, router
<1>12. QED
  BY <1>4, <1>5, <1>6, <1>7, <1>8, <1>9, <1>10, <1>11 DEF Next

LEMMA ForwardedStep ==
  ASSUME DeliveryInv, ReturnIsSettled, ForwardedIsSettled, [Next]_vars
  PROVE  ForwardedIsSettled'
<1>1. ASSUME NEW x \in forwarded \ Filtered
      PROVE  \E k \in RowKey : k[2] = x[1] /\ k[1].to = x[2] /\ Settled(k)'
  BY SettledRowsStay DEF ForwardedIsSettled, Settled
<1>2. ASSUME UNCHANGED forwarded PROVE ForwardedIsSettled'
  BY <1>1, <1>2 DEF ForwardedIsSettled, Settled
<1>3. ASSUME NEW i \in Inc, SendReturns(i) PROVE ForwardedIsSettled'
  <2>1. Key(i) \in RowKey /\ Key(i)[2] = Here(i) /\ Key(i)[1].to = To(i)
    BY <1>3, KeyIsTyped DEF SendReturns, At, DeliveryInv, AllUnderway, Key, To
  <2>2. <<Here(i), To(i)>> \notin Filtered => Settled(Key(i))
    BY <1>3 DEF SendReturns, At, ReturnIsSettled
  <2>3. <<Here(i), To(i)>> \notin Filtered =>
          \E k \in RowKey : k[2] = Here(i) /\ k[1].to = To(i) /\ Settled(k)'
    BY <2>1, <2>2, SettledRowsStay
  <2>4. forwarded' = forwarded \cup {<<Here(i), To(i)>>}
    BY <1>3 DEF SendReturns
  <2>5. QED
    BY <1>1, <2>3, <2>4 DEF ForwardedIsSettled, Settled
<1>4. ASSUME NEW i \in Inc, Drain(i), ~SendReturns(i) PROVE UNCHANGED forwarded
  BY <1>4
     DEF Drain, DispatchReturns, DispatchThrows, Take, LegDone, LegDeferred, LegRendered,
         SendSkips, GateShut, ClaimDenied, Claimed, NothingToSend, ChunkSent, LastChunkSent,
         ChunkRefused, ChunkDoubtful, outcome
<1>5. CASE Crash \/ Start \/ Teardown \/ UNCHANGED vars
  BY <1>2, <1>5 DEF Crash, Start, Teardown, vars, outcome
<1>6. ASSUME NEW a \in Article, Publish(a) PROVE UNCHANGED forwarded
  BY <1>6 DEF Publish, outcome
<1>7. ASSUME NEW t \in Target, Mount(t) PROVE UNCHANGED forwarded
  BY <1>7 DEF Mount, outcome
<1>8. ASSUME NEW i \in Inc, StartDrain(i) PROVE UNCHANGED forwarded
  BY <1>8 DEF StartDrain, outcome
<1>9. ASSUME NEW k \in RowKey, ClaimAges(k) PROVE UNCHANGED forwarded
  BY <1>9 DEF ClaimAges, outcome
<1>10. QED
  BY <1>2, <1>3, <1>4, <1>5, <1>6, <1>7, <1>8, <1>9 DEF Next

\* Where every target is a QQ group, forward_by says "forwarded" only of what
\* is settled, so nothing is skipped before it was sent or given up
\* (target-qq.ts: a claim in progress defers, it does not return).
THEOREM QqForwardsWhatIsSettled ==
  ASSUME Guarded = Target
  PROVE  Spec => []ForwardedIsSettled
<1>1. DeliveryInv /\ ReturnIsSettled /\ [Next]_vars => ReturnIsSettled'
  BY ReturnStep
<1>2. DeliveryInv /\ ReturnIsSettled /\ ForwardedIsSettled /\ [Next]_vars => ForwardedIsSettled'
  BY ForwardedStep
<1>3. QED
  BY <1>1, <1>2, ForwardedInitially, DeliveryInvariant, PTL DEF Spec

-----------------------------------------------------------------------------
(***************************************************************************)
(* Who still has an article to deliver.  A rebuild or a crash may lose the *)
(* event in the drain's hand once an arrival has written the shortened     *)
(* queue through (router.ts:49); as long as none strikes then, nothing is  *)
(* forgotten.                                                              *)
(***************************************************************************)
HandIsStored == up => At(inc, "idle") \/ Here(inc) \in stored

\* Neither a rebuild nor a crash falls into a drive whose event is in no store.
Gentle == Teardown \/ Crash => HandIsStored

\* The legs behind a drain are forwarded, or it knows better.
Walked(i) ==
  IF At(i, "idle")
    THEN task[i] = Idle
    ELSE ~task[i].deferred /\ ~At(i, "throw") =>
           \A n \in 1 .. Len(Legs) : n < task[i].leg => <<Here(i), Legs[n].to>> \in forwarded

AllWalked == \A i \in Inc : Walked(i)

\* The living router has article a in hand or queued; between two routers the
\* stored queue has it.
Waits(a) ==
  IF up THEN (~At(inc, "idle") /\ Here(inc) = a) \/ a \in Articles(queue[inc])
        ELSE a \in stored

EverybodyWaits == \A a \in published \ (missed \cup dropped) : Undelivered(a) => Waits(a)

\* What a step does to the hand of the drain that takes it.
TakesUp(i) ==
  /\ At(i, "idle") /\ queue[i] # <<>>
  /\ task'[i].pc = "leg" /\ task'[i].event = Head(queue[i])
  /\ task'[i].leg = task[i].leg
  /\ queue' = [queue EXCEPT ![i] = Tail(@)]

LetsGo(i) ==
  /\ ~At(i, "idle") /\ task'[i] = Idle
  /\ \/ \E event \in Event : event.article = Here(i) /\ Requeue(i, event)
     \/ LetGo(i) /\ Here(i) \in dropped'
     \/ LetGo(i) /\ At(i, "leg") /\ task[i].leg > Len(Legs) /\ ~task[i].deferred

StepsOn(i) ==
  /\ ~At(i, "idle") /\ task'[i].pc = "leg"
  /\ task'[i].event = task[i].event /\ task'[i].leg = task[i].leg + 1
  /\ \/ task'[i].deferred
     \/ /\ task'[i].deferred = task[i].deferred /\ ~At(i, "throw")
        /\ <<Here(i), To(i)>> \in forwarded'
  /\ UNCHANGED queue

HoldsOn(i) ==
  /\ ~At(i, "idle") /\ ~At(i, "throw") /\ task'[i].pc # "idle"
  /\ task'[i].event = task[i].event /\ task'[i].leg = task[i].leg
  /\ task'[i].deferred = task[i].deferred
  /\ UNCHANGED queue

LEMMA DrainSteps ==
  ASSUME DeliveryInv, NEW i \in Inc, Drain(i)
  PROVE  /\ TakesUp(i) \/ LetsGo(i) \/ StepsOn(i) \/ HoldsOn(i)
         /\ \A j \in Inc \ {i} : task'[j] = task[j]
         /\ \A j \in Inc \ {i} : queue'[j] = queue[j]
         /\ ~Alive(i) => stored' = stored
         /\ dropped \subseteq dropped' /\ forwarded \subseteq forwarded'
         /\ UNCHANGED <<bus, up, inc>>
<1>1. /\ task \in [Inc -> Task] /\ task[i] \in Task
      /\ queue \in [Inc -> Seq(Event)] /\ DOMAIN queue = Inc
      /\ task[i].pc \in {"send", "chunk", "return"} => Key(i) \in RowKey
  BY KeyIsTyped DEF DeliveryInv, TypeOK, AllUnderway
<1> DEFINE Goal == /\ TakesUp(i) \/ LetsGo(i) \/ StepsOn(i) \/ HoldsOn(i)
                   /\ \A j \in Inc \ {i} : task'[j] = task[j]
                   /\ \A j \in Inc \ {i} : queue'[j] = queue[j]
                   /\ ~Alive(i) => stored' = stored
                   /\ dropped \subseteq dropped' /\ forwarded \subseteq forwarded'
                   /\ UNCHANGED <<bus, up, inc>>
<1>2. CASE DispatchReturns(i) \/ DispatchThrows(i)
  <2>1. /\ \/ \E event \in Event : event.article = Here(i) /\ Requeue(i, event)
           \/ LetGo(i)
        /\ UNCHANGED dropped \/ dropped' = dropped \cup {Here(i)}
    BY <1>2, EventIsDisposed
  <2>2. /\ task' = [task EXCEPT ![i] = Idle]
        /\ \A j \in Inc \ {i} : queue'[j] = queue[j]
        /\ ~Alive(i) => stored' = stored
    BY <1>1, <2>1 DEF Requeue, LetGo, Persist
  <2>3. UNCHANGED <<bus, up, inc, forwarded>> /\ ~At(i, "idle")
    BY <1>2 DEF DispatchReturns, DispatchThrows, At
  <2>4. \/ \E event \in Event : event.article = Here(i) /\ Requeue(i, event)
        \/ LetGo(i) /\ Here(i) \in dropped'
        \/ LetGo(i) /\ At(i, "leg") /\ task[i].leg > Len(Legs) /\ ~task[i].deferred
    <3>1. CASE DispatchThrows(i)
      <4>1. GiveUp(i) \/ \E event : Requeue(i, event)
        BY <3>1 DEF DispatchThrows, Defer
      <4>2. CASE GiveUp(i)
        BY <4>2 DEF GiveUp
      <4>3. ASSUME NEW event, Requeue(i, event), LetGo(i) PROVE FALSE
        <5>1. Len(Append(queue[i], event)) # Len(queue[i])
          BY <1>1, LenProperties
        <5> QED BY <1>1, <4>3, <5>1 DEF Requeue, LetGo
      <4> QED BY <2>1, <4>1, <4>2, <4>3
    <3>2. CASE DispatchReturns(i) /\ task[i].deferred
      <4>1. GiveUp(i) \/ \E event : Requeue(i, event)
        BY <3>2 DEF DispatchReturns, Defer
      <4>2. CASE GiveUp(i)
        BY <4>2 DEF GiveUp
      <4>3. ASSUME NEW event, Requeue(i, event), LetGo(i) PROVE FALSE
        <5>1. Len(Append(queue[i], event)) # Len(queue[i])
          BY <1>1, LenProperties
        <5> QED BY <1>1, <4>3, <5>1 DEF Requeue, LetGo
      <4> QED BY <2>1, <4>1, <4>2, <4>3
    <3>3. CASE DispatchReturns(i) /\ ~task[i].deferred
      BY <3>3 DEF DispatchReturns
    <3> QED BY <1>2, <3>1, <3>2, <3>3
  <2> QED BY <1>1, <2>1, <2>2, <2>3, <2>4 DEF LetsGo
<1>3. CASE Take(i)
  <2>1. TakesUp(i)
    BY <1>1, <1>3 DEF Take, TakesUp, Task, At
  <2> QED BY <1>1, <1>3, <2>1 DEF Take, outcome
<1>4. CASE LegDone(i) \/ LegDeferred(i) \/ SendReturns(i)
  <2>1. StepsOn(i)
    BY <1>1, <1>4 DEF LegDone, LegDeferred, SendReturns, OnLeg, NextLeg, StepsOn, Task, At,
                      outcome
  <2> QED BY <1>1, <1>4, <2>1 DEF LegDone, LegDeferred, SendReturns, NextLeg, outcome
<1>5. CASE \/ LegRendered(i) \/ SendSkips(i) \/ GateShut(i) \/ ClaimDenied(i) \/ Claimed(i)
           \/ NothingToSend(i) \/ ChunkSent(i) \/ LastChunkSent(i)
           \/ ChunkRefused(i) \/ ChunkDoubtful(i)
  <2>1. /\ ~At(i, "idle") /\ ~At(i, "throw")
        /\ \/ \E pc \in {"send", "chunk", "return"} : Goto(i, pc)
           \/ \E why : Throw(i, why)
           \/ task' = [task EXCEPT ![i].chunk = @ + 1]
           \/ task' = [task EXCEPT ![i].pc = "return", ![i].chunk = 1]
        /\ UNCHANGED <<bus, up, inc, queue, stored, forwarded, dropped>>
    BY <1>5 DEF LegRendered, OnLeg, SendSkips, GateShut, ClaimDenied, Claimed, NothingToSend,
                ChunkSent, LastChunkSent, ChunkRefused, ChunkDoubtful, Sendable, At, outcome
  <2>2. /\ task'[i].pc # "idle"
        /\ task'[i].event = task[i].event /\ task'[i].leg = task[i].leg
        /\ task'[i].deferred = task[i].deferred
        /\ \A j \in Inc \ {i} : task'[j] = task[j]
    <3> USE <1>1
    <3>1. CASE \E pc \in {"send", "chunk", "return"} : Goto(i, pc)
      <4> PICK pc \in {"send", "chunk", "return"} : Goto(i, pc)
        BY <3>1
      <4>1. task'[i] = [task[i] EXCEPT !.pc = pc] /\ \A j \in Inc \ {i} : task'[j] = task[j]
        BY DEF Goto
      <4> QED BY <4>1, ZenonT(30) DEF Task
    <3>2. CASE \E why : Throw(i, why)
      <4> PICK why : Throw(i, why)
        BY <3>2
      <4>1. /\ task'[i] = [task[i] EXCEPT !.pc = "throw", !.why = why, !.chunk = 1]
            /\ \A j \in Inc \ {i} : task'[j] = task[j]
        BY DEF Throw
      <4> QED BY <4>1, ZenonT(30) DEF Task
    <3>3. CASE task' = [task EXCEPT ![i].chunk = @ + 1]
      <4>1. /\ task'[i] = [task[i] EXCEPT !.chunk = task[i].chunk + 1]
            /\ \A j \in Inc \ {i} : task'[j] = task[j]
        BY <3>3
      <4> QED BY <2>1, <4>1, ZenonT(30) DEF Task, At
    <3>4. CASE task' = [task EXCEPT ![i].pc = "return", ![i].chunk = 1]
      <4>1. /\ task'[i] = [task[i] EXCEPT !.pc = "return", !.chunk = 1]
            /\ \A j \in Inc \ {i} : task'[j] = task[j]
        BY <3>4
      <4> QED BY <4>1, ZenonT(30) DEF Task
    <3> QED BY <2>1, <3>1, <3>2, <3>3, <3>4
  <2> QED BY <2>1, <2>2 DEF HoldsOn
<1> QED BY <1>2, <1>3, <1>4, <1>5 DEF Drain

LEMMA WalkedStep ==
  ASSUME DeliveryInv, AllWalked, [Next]_vars
  PROVE  AllWalked'
<1>1. ASSUME UNCHANGED task, forwarded \subseteq forwarded' PROVE AllWalked'
  BY <1>1 DEF AllWalked, Walked, At, Here
<1>2. ASSUME NEW i \in Inc, Drain(i) PROVE AllWalked'
  <2>1. /\ TakesUp(i) \/ LetsGo(i) \/ StepsOn(i) \/ HoldsOn(i)
        /\ \A j \in Inc \ {i} : task'[j] = task[j]
        /\ forwarded \subseteq forwarded'
    BY <1>2, DrainSteps
  <2>2. task[i] \in Task /\ task[i].leg \in Nat
    BY DEF DeliveryInv, TypeOK, Task
  <2>3. Walked(i)'
    <3>1. CASE TakesUp(i)
      BY <3>1 DEF TakesUp, AllWalked, Walked, At, Idle
    <3>2. CASE LetsGo(i)
      BY <3>2 DEF LetsGo, Walked, At, Idle
    <3>3. CASE StepsOn(i)
      <4> SUFFICES ASSUME ~task'[i].deferred, NEW n \in 1 .. Len(Legs), n < task'[i].leg
                   PROVE  <<task'[i].event.article, Legs[n].to>> \in forwarded'
        BY <3>3 DEF StepsOn, Walked, At, Here
      <4>1. ~task[i].deferred /\ <<Here(i), To(i)>> \in forwarded' /\ ~At(i, "throw")
            /\ ~At(i, "idle")
        BY <3>3 DEF StepsOn
      <4>2. n = task[i].leg \/ n < task[i].leg
        BY <2>2, <3>3, LenProperties, DeliveryAssumption DEF StepsOn
      <4>3. <<Here(i), Legs[n].to>> \in forwarded'
        BY <2>1, <4>1, <4>2 DEF AllWalked, Walked, To
      <4> QED BY <3>3, <4>3 DEF StepsOn, Here
    <3>4. CASE HoldsOn(i)
      BY <2>1, <3>4 DEF HoldsOn, AllWalked, Walked, At, Here
    <3> QED BY <2>1, <3>1, <3>2, <3>3, <3>4
  <2>4. ASSUME NEW j \in Inc, j # i PROVE Walked(j)'
    BY <2>1, <2>4 DEF AllWalked, Walked, At, Here
  <2> QED BY <2>3, <2>4 DEF AllWalked
<1>3. CASE Crash
  BY <1>3 DEF Crash, AllWalked, Walked, At, Idle
<1>4. CASE UNCHANGED vars \/ Start \/ Teardown
  BY <1>1, <1>4 DEF vars, router, outcome, Start, Teardown
<1>5. ASSUME NEW a \in Article, Publish(a) PROVE AllWalked'
  BY <1>1, <1>5 DEF Publish, outcome
<1>6. ASSUME NEW t \in Target, Mount(t) PROVE AllWalked'
  BY <1>1, <1>6 DEF Mount, router, outcome
<1>7. ASSUME NEW i \in Inc, StartDrain(i) PROVE AllWalked'
  BY <1>1, <1>7 DEF StartDrain, outcome
<1>8. ASSUME NEW k \in RowKey, ClaimAges(k) PROVE AllWalked'
  BY <1>1, <1>8 DEF ClaimAges, router, outcome
<1> QED BY <1>2, <1>3, <1>4, <1>5, <1>6, <1>7, <1>8 DEF Next

LEMMA QueueSplits ==
  ASSUME NEW q \in Seq(Event), q # <<>>, NEW a \in Articles(q)
  PROVE  a = Head(q).article \/ a \in Articles(Tail(q))
<1>1. PICK n \in 1 .. Len(q) : a = q[n].article
  BY DEF Articles
<1>2. Len(q) \in Nat /\ Head(q) = q[1] /\ Len(Tail(q)) = Len(q) - 1
      /\ \A m \in 1 .. Len(Tail(q)) : Tail(q)[m] = q[m + 1]
  BY LenProperties, HeadTailProperties
<1>3. CASE n = 1
  BY <1>1, <1>2, <1>3
<1>4. CASE n # 1
  <2>1. n - 1 \in 1 .. Len(Tail(q)) /\ Tail(q)[n - 1] = q[n]
    BY <1>2, <1>4
  <2> QED BY <1>1, <2>1 DEF Articles
<1> QED BY <1>3, <1>4

\* apply() queues the whole of what is stored, in any order.
LEMMA OrdersTakeAll ==
  ASSUME NEW S \in SUBSET Article, NEW s \in Orders(S)
  PROVE  Articles([n \in DOMAIN s |-> Fresh(s[n])]) = S
<1> DEFINE q == [n \in DOMAIN s |-> Fresh(s[n])]
<1>1. Cardinality(S) \in Nat /\ IsFiniteSet(S)
  BY DeliveryAssumption, FS_Subset, FS_CardinalityType
<1>2. /\ s \in [1 .. Cardinality(S) -> S]
      /\ \A m, n \in 1 .. Cardinality(S) : s[m] = s[n] => m = n
  BY DEF Orders
<1>3. s \in Injection(1 .. Cardinality(S), S)
  BY <1>2 DEF Injection, IsInjective
<1>4. Cardinality(1 .. Cardinality(S)) = Cardinality(S)
  BY <1>1, FS_Interval
<1>5. s \in Surjection(1 .. Cardinality(S), S)
  BY <1>1, <1>3, <1>4, FS_Injection
<1>6. q \in [1 .. Cardinality(S) -> Event] /\ DOMAIN q = 1 .. Cardinality(S)
  BY <1>2 DEF Fresh, Event
<1>7. q \in Seq(Event) /\ Len(q) = Cardinality(S)
  BY <1>1, <1>6
<1>8. ASSUME NEW a \in S PROVE \E n \in 1 .. Len(q) : q[n].article = a
  <2>1. PICK n \in 1 .. Cardinality(S) : s[n] = a
    BY <1>5, <1>8 DEF Surjection
  <2> QED BY <1>2, <1>7, <2>1 DEF Fresh
<1>9. S \subseteq Articles(q)
  BY <1>8 DEF Articles
<1>10. Articles(q) \subseteq S
  BY OrdersAreQueues
<1> QED BY <1>9, <1>10

LEMMA WaitStep ==
  ASSUME DeliveryInv, DeliveryInv', AllWalked, QueuedIsStored, EverybodyWaits,
         [Next]_vars, [Gentle]_vars
  PROVE  EverybodyWaits'
<1>0. /\ queue \in [Inc -> Seq(Event)] /\ (up => inc \in Inc) /\ MaxInc \in Nat
      /\ inc \in Nat
  <2>1. /\ queue \in [Inc -> Seq(Event)]
        /\ inc \in 0 .. MaxInc /\ (up => inc > 0)
    BY Zenon DEF DeliveryInv, TypeOK
  <2>2. MaxInc \in Nat
    BY DeliveryAssumption
  <2> QED BY <2>1, <2>2 DEF Inc
<1>1. ASSUME published' \ (missed' \cup dropped') \subseteq published \ (missed \cup dropped),
             forwarded \subseteq forwarded',
             \A a \in Article : Waits(a) /\ Undelivered(a)' => Waits(a)' \/ a \in dropped'
      PROVE  EverybodyWaits'
  <2> SUFFICES ASSUME NEW a \in published' \ (missed' \cup dropped'), Undelivered(a)'
               PROVE  Waits(a)'
    BY DEF EverybodyWaits
  <2>1. Undelivered(a) /\ a \in published \ (missed \cup dropped) /\ a \in Article
    BY <1>1 DEF Undelivered, DeliveryInv, TypeOK
  <2> QED BY <1>1, <2>1 DEF EverybodyWaits
<1>2. ASSUME UNCHANGED <<bus, up, inc, queue, stored, task, forwarded, dropped>>
      PROVE  EverybodyWaits'
  BY <1>2 DEF EverybodyWaits, Undelivered, Waits, At, Here, bus
<1>3. ASSUME NEW i \in Inc, Drain(i) PROVE EverybodyWaits'
  <2>1. /\ TakesUp(i) \/ LetsGo(i) \/ StepsOn(i) \/ HoldsOn(i)
        /\ \A j \in Inc \ {i} : task'[j] = task[j]
        /\ \A j \in Inc \ {i} : queue'[j] = queue[j]
        /\ ~Alive(i) => stored' = stored
        /\ dropped \subseteq dropped' /\ forwarded \subseteq forwarded'
        /\ UNCHANGED <<bus, up, inc>>
    BY <1>3, DrainSteps
  <2>2. ASSUME NEW a \in Article, Waits(a), Undelivered(a)'
        PROVE  Waits(a)' \/ a \in dropped'
    <3>1. CASE ~up
      BY <2>1, <2>2, <3>1 DEF Waits, Alive
    <3>2. CASE up /\ i # inc
      BY <1>0, <2>1, <2>2, <3>2 DEF Waits, At, Here
    <3>3. CASE up /\ i = inc /\ TakesUp(i)
      <4>1. queue[i] \in Seq(Event) /\ queue[i] # <<>> /\ queue'[i] = Tail(queue[i])
        BY <1>0, <3>3 DEF TakesUp
      <4>2. a \in Articles(queue[i])
        BY <2>2, <3>3 DEF Waits, TakesUp
      <4>3. a = Head(queue[i]).article \/ a \in Articles(Tail(queue[i]))
        BY <4>1, <4>2, QueueSplits
      <4> QED BY <2>1, <3>3, <4>1, <4>3 DEF Waits, TakesUp, At, Here
    <3>4. CASE up /\ i = inc /\ LetsGo(i)
      <4>1. queue[i] \in Seq(Event)
        BY <1>0
      <4>2. ASSUME NEW event \in Event, event.article = Here(i), Requeue(i, event)
            PROVE  Waits(a)'
        <5>1. queue'[i] = Append(queue[i], event)
          BY <1>0, <4>2 DEF Requeue
        <5>2. a = event.article \/ a \in Articles(queue[i])
          BY <2>2, <3>4, <4>2 DEF Waits
        <5>3. a \in Articles(queue'[i])
          BY <4>1, <5>1, <5>2, EventQueues
        <5> QED BY <2>1, <3>4, <5>3 DEF Waits
      <4>3. ASSUME LetGo(i), a # Here(i) PROVE Waits(a)'
        BY <2>1, <2>2, <3>4, <4>3 DEF LetGo, Waits
      <4>4. ASSUME At(i, "leg"), task[i].leg > Len(Legs), ~task[i].deferred, a = Here(i)
            PROVE  FALSE
        <5>1. \A n \in 1 .. Len(Legs) : n < task[i].leg
          BY <4>4, LenProperties, DeliveryAssumption DEF DeliveryInv, TypeOK, Task
        <5>2. \A n \in 1 .. Len(Legs) : <<a, Legs[n].to>> \in forwarded
          BY <4>4, <5>1 DEF AllWalked, Walked, At
        <5> QED BY <2>1, <2>2, <5>2 DEF Undelivered
      <4> QED BY <3>4, <4>2, <4>3, <4>4 DEF LetsGo
    <3>5. CASE up /\ i = inc /\ (StepsOn(i) \/ HoldsOn(i))
      BY <2>1, <2>2, <3>5 DEF Waits, StepsOn, HoldsOn, At, Here
    <3> QED BY <2>1, <3>1, <3>2, <3>3, <3>4, <3>5
  <2>3. published' \ (missed' \cup dropped') \subseteq published \ (missed \cup dropped)
    BY <2>1 DEF bus
  <2> QED BY <1>1, <2>1, <2>2, <2>3
<1>4. ASSUME NEW b \in Article, Publish(b) PROVE EverybodyWaits'
  <2>1. CASE ~up
    BY <1>4, <2>1 DEF Publish, EverybodyWaits, Undelivered, Waits, outcome
  <2>2. CASE up
    <3>1. /\ queue'[inc] = Append(queue[inc], Fresh(b)) /\ Fresh(b) \in Event
          /\ Fresh(b).article = b
          /\ UNCHANGED <<up, inc, task, missed, forwarded, dropped>>
          /\ published' = published \cup {b}
      BY <1>0, <1>4, <2>2 DEF Publish, Fresh, Event, outcome
    <3>2. Articles(queue'[inc]) = Articles(queue[inc]) \cup {b}
      BY <1>0, <2>2, <3>1, EventQueues
    <3> QED BY <2>2, <3>1, <3>2 DEF EverybodyWaits, Undelivered, Waits, At, Here
  <2> QED BY <2>1, <2>2
<1>5. CASE Start
  <2>1. stored' \in SUBSET Article /\ inc' = inc + 1 /\ inc + 1 \in Inc
    BY <1>5, DeliveryAssumption DEF Start, Inc, DeliveryInv, TypeOK
  <2>2. PICK s \in Orders(stored') :
          queue' = [queue EXCEPT ![inc + 1] = [n \in DOMAIN s |-> Fresh(s[n])]]
    BY <1>5 DEF Start
  <2>3. Articles(queue'[inc']) = stored'
    BY <1>0, <2>1, <2>2, OrdersTakeAll
  <2>4. ASSUME NEW a, Waits(a), Undelivered(a) PROVE Waits(a)'
    BY <1>5, <2>3, <2>4 DEF Start, Waits
  <2> QED BY <1>5, <2>4 DEF Start, EverybodyWaits, Undelivered, bus, outcome
<1>6. CASE Teardown \/ Crash
  <2>1. UNCHANGED <<bus, stored, forwarded, dropped>> /\ up' = FALSE
    BY <1>6 DEF Teardown, Crash, outcome
  <2>2. HandIsStored
    <3>1. vars' # vars \/ ~up
      BY <1>6 DEF Teardown, Crash, vars, router, world, DeliveryInv, TypeOK
    <3> QED BY <1>6, <3>1 DEF Gentle, HandIsStored
  <2>3. ASSUME NEW a \in Article, Waits(a) PROVE Waits(a)'
    BY <2>1, <2>2, <2>3 DEF Waits, HandIsStored, QueuedIsStored
  <2> QED BY <1>1, <2>1, <2>3 DEF bus
<1>7. CASE UNCHANGED vars
  BY <1>2, <1>7 DEF vars, router, outcome
<1>8. ASSUME NEW t \in Target, Mount(t) PROVE EverybodyWaits'
  BY <1>2, <1>8 DEF Mount, router, outcome
<1>9. ASSUME NEW i \in Inc, StartDrain(i) PROVE EverybodyWaits'
  BY <1>2, <1>9 DEF StartDrain, outcome
<1>10. ASSUME NEW k \in RowKey, ClaimAges(k) PROVE EverybodyWaits'
  BY <1>2, <1>10 DEF ClaimAges, router, outcome
<1> QED BY <1>3, <1>4, <1>5, <1>6, <1>7, <1>8, <1>9, <1>10 DEF Next

\* None of the articles the router took disappears in silence, through any number
\* of rebuilds and crashes that find the event in hand still stored: each is
\* delivered along every leg, given up with a taint, or carried by somebody
\* (enqueue, drain, dispatch and persistQueue in router.ts).
THEOREM NothingIsForgotten ==
  Spec /\ [][Gentle]_vars => []NothingForgotten
<1>1. Init => AllWalked /\ EverybodyWaits
  <2>1. Init => AllWalked
    BY DEF Init, AllWalked, Walked, At, Idle
  <2>2. Init => EverybodyWaits
    BY DEF Init, EverybodyWaits
  <2> QED BY <2>1, <2>2
<1>2. DeliveryInv /\ AllWalked /\ [Next]_vars => AllWalked'
  BY WalkedStep
<1>3. /\ DeliveryInv /\ DeliveryInv' /\ AllWalked /\ QueuedIsStored /\ EverybodyWaits
      /\ [Next]_vars /\ [Gentle]_vars
      => EverybodyWaits'
  BY WaitStep
<1>4. DeliveryInv /\ EverybodyWaits => NothingForgotten
  <2> SUFFICES ASSUME DeliveryInv, NEW a, Waits(a) PROVE Carried(a)
    BY DEF EverybodyWaits, NothingForgotten
  <2>1. up => inc \in Inc
    BY DeliveryAssumption DEF DeliveryInv, TypeOK, Inc
  <2> QED BY <2>1 DEF Waits, Carried, Alive
<1> QED BY <1>1, <1>2, <1>3, <1>4, DeliveryInvariant, NoQueuedEventIsLost, PTL DEF Spec


-----------------------------------------------------------------------------
(***************************************************************************)
(* The delivery implements Courier: a message goes out part by part, and   *)
(* its settlement is the settlement of its row.                            *)
(***************************************************************************)

\* A part is posted after the part it follows, by a holder that has posted the
\* part before the one in its hand; nobody else is past its first part.
InOrder ==
  /\ \A k \in RowKey : \A n \in 2 .. Chunks : copies[k][n] <= copies[k][n - 1]
  /\ \A i \in Inc : task[i].chunk > 1 =>
       Sendable(i) /\ copies[Key(i)][task[i].chunk] < copies[Key(i)][task[i].chunk - 1]

LEMMA OrderInitially == Init => InOrder
BY DeliveryAssumption DEF Init, InOrder, Idle

\* Nothing becomes visible, and every drain stays where it is or starts over.
LEMMA OrderKept ==
  ASSUME InOrder, UNCHANGED copies, DeliveryInv,
         \A j \in Inc : task'[j] = task[j] \/ task'[j].chunk = 1
  PROVE  InOrder'
<1>1. ASSUME NEW j \in Inc, task'[j].chunk > 1
      PROVE  Sendable(j)' /\ copies'[Key(j)'][task'[j].chunk] < copies'[Key(j)'][task'[j].chunk - 1]
  <2>1. task'[j] = task[j]
    BY <1>1
  <2>2. (Sendable(j)' <=> Sendable(j)) /\ Key(j)' = Key(j)
    BY <2>1 DEF Sendable, At, Here, To, Key
  <2>3. QED
    BY <1>1, <2>1, <2>2 DEF InOrder
<1>2. QED
  BY <1>1 DEF InOrder

\* The part in the hand of drain i becomes visible.
LEMMA OrderOfPost ==
  ASSUME InOrder, DeliveryInv, NEW i \in Inc, Sendable(i), Visible(i),
         \A j \in Inc \ {i} : task'[j] = task[j],
         \/ task'[i].chunk = 1
         \/ /\ task'[i] = [task[i] EXCEPT !.chunk = @ + 1]
            /\ task[i].chunk < ChunksOf(To(i))
  PROVE  InOrder'
<1> DEFINE k == Key(i)
           c == task[i].chunk
<1>1. /\ k \in RowKey /\ c \in 1 .. Chunks /\ Chunks \in Nat /\ holds[i] = k
      /\ task[i] \in Task
      /\ ChunksOf(To(i)) \in 1 .. Chunks
      /\ copies \in [RowKey -> [1 .. Chunks -> Nat]]
  BY KeyIsTyped, ChunksAreBounded, DeliveryAssumption
     DEF Sendable, At, DeliveryInv, AllUnderway, Underway, TypeOK
<1>2. /\ \A l \in RowKey : \A n \in 1 .. Chunks : copies[l][n] \in Nat
      /\ \A l \in RowKey : \A n \in 1 .. Chunks :
           copies'[l][n] = IF l = k /\ n = c THEN copies[l][n] + 1 ELSE copies[l][n]
  <2>1. \A l \in RowKey : copies[l] \in [1 .. Chunks -> Nat]
    BY <1>1
  <2>2. copies' = [copies EXCEPT ![k] = [copies[k] EXCEPT ![c] = @ + 1]]
    BY DEF Visible
  <2>3. \A l \in RowKey :
          copies'[l] = IF l = k THEN [copies[k] EXCEPT ![c] = @ + 1] ELSE copies[l]
    BY <1>1, <2>2
  <2> HIDE DEF k, c
  <2>4. ASSUME NEW l \in RowKey, NEW n \in 1 .. Chunks
        PROVE  copies'[l][n] = IF l = k /\ n = c THEN copies[l][n] + 1 ELSE copies[l][n]
    <3>1. CASE l # k
      BY <2>3, <3>1
    <3>2. CASE l = k
      BY <1>1, <2>1, <2>3, <3>2
    <3>3. QED
      BY <3>1, <3>2
  <2>5. ASSUME NEW l \in RowKey, NEW n \in 1 .. Chunks PROVE copies[l][n] \in Nat
    BY <2>1
  <2>6. QED
    BY <2>4, <2>5
<1>3. c > 1 => copies[k][c] < copies[k][c - 1]
  BY <1>1 DEF InOrder
<1>4. \A l \in RowKey : \A n \in 2 .. Chunks : copies[l][n] <= copies[l][n - 1]
  BY DEF InOrder
<1>5. ASSUME NEW l \in RowKey, NEW n \in 2 .. Chunks
      PROVE  copies'[l][n] <= copies'[l][n - 1]
  <2>1. n \in 1 .. Chunks /\ n - 1 \in 1 .. Chunks /\ n # n - 1
    BY <1>1
  <2>2. copies[l][n] <= copies[l][n - 1] /\ copies[l][n] \in Nat /\ copies[l][n - 1] \in Nat
    BY <1>2, <1>4, <2>1
  <2>3. l = k /\ n = c => copies[l][n] < copies[l][n - 1]
    BY <1>3, <1>1
  <2> HIDE DEF k, c
  <2>4. QED
    BY <1>2, <2>1, <2>2, <2>3
<1>6. ASSUME NEW j \in Inc \ {i}, task'[j].chunk > 1
      PROVE  Sendable(j)' /\ copies'[Key(j)'][task'[j].chunk] < copies'[Key(j)'][task'[j].chunk - 1]
  <2>1. task'[j] = task[j] /\ Sendable(j) /\ Sendable(j)' /\ Key(j)' = Key(j)
    <3>1. task'[j] = task[j] /\ task[j].chunk > 1
      BY <1>6
    <3>2. Sendable(j)
      BY <3>1 DEF InOrder
    <3>3. (Sendable(j)' <=> Sendable(j)) /\ Key(j)' = Key(j)
      BY <3>1 DEF Sendable, At, Here, To, Key
    <3>4. QED
      BY <3>1, <3>2, <3>3
  <2>2. Key(j) \in RowKey /\ holds[j] = Key(j) /\ task[j].chunk \in 1 .. Chunks
    BY <2>1, KeyIsTyped DEF Sendable, At, DeliveryInv, AllUnderway, Underway
  <2>3. Key(j) # k
    <3>1. holds[j] # NoKey /\ Caller = Inc
      BY <2>2, LedgerAssumption, DeliveryAssumption
    <3>2. holds[i] # holds[j]
      BY <3>1 DEF DeliveryInv, LedgerInv, OneHolder
    <3>3. QED
      BY <1>1, <2>2, <3>2
  <2>4. copies[Key(j)][task[j].chunk] < copies[Key(j)][task[j].chunk - 1]
    BY <1>6, <2>1 DEF InOrder
  <2>5. task[j].chunk - 1 \in 1 .. Chunks
    <3>1. task[j].chunk > 1 /\ task[j].chunk \in 1 .. Chunks
      BY <1>6, <2>1, <2>2
    <3>2. QED
      BY <1>1, <3>1
  <2> HIDE DEF k, c
  <2>6. QED
    BY <1>2, <2>1, <2>2, <2>3, <2>4, <2>5
<1>7. ASSUME task'[i].chunk > 1
      PROVE  Sendable(i)' /\ copies'[Key(i)'][task'[i].chunk] < copies'[Key(i)'][task'[i].chunk - 1]
  <2>1. task'[i] = [task[i] EXCEPT !.chunk = @ + 1] /\ c < ChunksOf(To(i))
    BY <1>7
  <2>2. /\ task'[i].chunk = c + 1 /\ task'[i].pc = task[i].pc /\ task'[i].leg = task[i].leg
        /\ task'[i].event = task[i].event
    BY <1>1, <2>1 DEF Task
  <2>3. Sendable(i)' /\ Key(i)' = k
    BY <2>2 DEF Sendable, At, Here, To, Key
  <2>4. c + 1 \in 2 .. Chunks /\ c + 1 \in 1 .. Chunks /\ c + 1 - 1 = c /\ c + 1 # c
    BY <1>1, <2>1
  <2>5. copies[k][c + 1] <= copies[k][c]
    BY <1>4, <2>4, <1>1
  <2>6. copies'[k][c + 1] = copies[k][c + 1] /\ copies'[k][c] = copies[k][c] + 1
    <3> HIDE DEF k, c
    <3> QED BY <1>1, <1>2, <2>4
  <2>7. copies[k][c + 1] \in Nat /\ copies[k][c] \in Nat
    BY <1>1, <1>2, <2>4
  <2> HIDE DEF k, c
  <2>8. copies'[k][c + 1] < copies'[k][c]
    BY <2>5, <2>6, <2>7
  <2>9. task'[i].chunk - 1 = c
    BY <1>1, <2>2
  <2>10. QED
    BY <2>2, <2>3, <2>8, <2>9
<1>8. QED
  BY <1>5, <1>6, <1>7 DEF InOrder

LEMMA OrderStep ==
  ASSUME DeliveryInv, InOrder, [Next]_vars
  PROVE  InOrder'
<1>1. task \in [Inc -> Task]
  BY DEF DeliveryInv, TypeOK
<1>2. ASSUME NEW i \in Inc, Drain(i) PROVE InOrder'
  <2>1. \A j \in Inc \ {i} : task'[j] = task[j]
    BY <1>2, DrainSteps
  <2>2. task[i] \in Task /\ task[i].chunk \in 1 .. Chunks
    BY <1>1 DEF DeliveryInv, AllUnderway, Underway
  <2>3. ~Sendable(i) => task[i].chunk = 1
    BY <2>2, DeliveryAssumption DEF InOrder
  <2>4. CASE DispatchReturns(i) \/ DispatchThrows(i)
    <3>1. UNCHANGED copies
      BY <2>4 DEF DispatchReturns, DispatchThrows
    <3>2. task' = [task EXCEPT ![i] = Idle]
      BY <2>4 DEF DispatchReturns, DispatchThrows, Defer, GiveUp, LetGo, Requeue
    <3>3. task'[i].chunk = 1
      BY <1>1, <3>2 DEF Idle
    <3>4. QED
      BY <2>1, <3>1, <3>3, OrderKept
  <2>5. CASE \/ Take(i) \/ LegDone(i) \/ LegDeferred(i) \/ LegRendered(i) \/ SendSkips(i)
             \/ GateShut(i) \/ ClaimDenied(i) \/ Claimed(i) \/ NothingToSend(i) \/ SendReturns(i)
    <3>1. UNCHANGED copies
      BY <2>5 DEF Take, LegDone, LegDeferred, LegRendered, SendSkips, GateShut, ClaimDenied,
                  Claimed, NothingToSend, SendReturns, outcome
    <3>2. ~Sendable(i)
      BY <2>5 DEF Take, LegDone, LegDeferred, LegRendered, SendSkips, GateShut, ClaimDenied,
                  Claimed, NothingToSend, SendReturns, OnLeg, Sendable, At
    <3>3. task'[i].chunk = 1
      <4>1. task[i].chunk = 1
        BY <2>3, <3>2
      <4>2. CASE Take(i)
        BY <1>1, <2>2, <4>1, <4>2 DEF Take, Task
      <4>3. CASE LegDone(i) \/ LegDeferred(i) \/ SendReturns(i)
        BY <1>1, <2>2, <4>1, <4>3 DEF LegDone, LegDeferred, SendReturns, NextLeg, Task
      <4>4. CASE LegRendered(i) \/ SendSkips(i) \/ GateShut(i) \/ ClaimDenied(i) \/ Claimed(i)
                 \/ NothingToSend(i)
        <5>1. (\E pc : Goto(i, pc)) \/ (\E why : Throw(i, why))
          BY <4>4 DEF LegRendered, SendSkips, GateShut, ClaimDenied, Claimed, NothingToSend
        <5>2. ASSUME NEW pc, Goto(i, pc) PROVE task'[i].chunk = 1
          BY <1>1, <2>2, <4>1, <5>2 DEF Goto, Task
        <5>3. ASSUME NEW why, Throw(i, why) PROVE task'[i].chunk = 1
          BY <1>1, <2>2, <5>3 DEF Throw, Task
        <5>4. QED
          BY <5>1, <5>2, <5>3
      <4>5. QED
        BY <2>5, <4>2, <4>3, <4>4
    <3>4. QED
      BY <2>1, <3>1, <3>3, OrderKept
  <2>6. CASE ChunkRefused(i)
    <3>1. UNCHANGED copies
      BY <2>6 DEF ChunkRefused, outcome
    <3>2. task'[i].chunk = 1
      BY <1>1, <2>2, <2>6 DEF ChunkRefused, Throw, Task
    <3>3. QED
      BY <2>1, <3>1, <3>2, OrderKept
  <2>7. CASE ChunkSent(i)
    <3>1. /\ Sendable(i) /\ Visible(i) /\ task[i].chunk < ChunksOf(To(i))
          /\ task' = [task EXCEPT ![i].chunk = @ + 1]
      BY <2>7 DEF ChunkSent
    <3>2. task'[i] = [task[i] EXCEPT !.chunk = @ + 1]
      BY <1>1, <2>2, <3>1 DEF Task
    <3>3. QED
      BY <2>1, <3>1, <3>2, OrderOfPost
  <2>8. CASE LastChunkSent(i) \/ ChunkDoubtful(i)
    <3>1. Sendable(i) /\ Visible(i)
      BY <2>8 DEF LastChunkSent, ChunkDoubtful
    <3>2. task'[i].chunk = 1
      BY <1>1, <2>2, <2>8 DEF LastChunkSent, ChunkDoubtful, Throw, Task
    <3>3. QED
      BY <2>1, <3>1, <3>2, OrderOfPost
  <2>9. QED
    BY <1>2, <2>4, <2>5, <2>6, <2>7, <2>8 DEF Drain
<1>3. ASSUME UNCHANGED <<copies, task>> PROVE InOrder'
  BY <1>3, OrderKept
<1>4. CASE Crash
  BY <1>4, OrderKept DEF Crash, Idle, outcome
<1>5. CASE UNCHANGED vars \/ Start \/ Teardown
  BY <1>3, <1>5 DEF vars, router, outcome, Start, Teardown
<1>6. ASSUME NEW a \in Article, Publish(a) PROVE InOrder'
  BY <1>3, <1>6 DEF Publish, outcome
<1>7. ASSUME NEW t \in Target, Mount(t) PROVE InOrder'
  BY <1>3, <1>7 DEF Mount, router, outcome
<1>8. ASSUME NEW i \in Inc, StartDrain(i) PROVE InOrder'
  BY <1>3, <1>8 DEF StartDrain, outcome
<1>9. ASSUME NEW k \in RowKey, ClaimAges(k) PROVE InOrder'
  BY <1>3, <1>9 DEF ClaimAges, router, outcome
<1>10. QED
  BY <1>2, <1>4, <1>5, <1>6, <1>7, <1>8, <1>9 DEF Next

\* The state of Courier, as the delivery's.
SettledRows == {k \in RowKey : Done(k)}

\* Nothing is posted, settled or cut.
LEMMA CourierRests ==
  ASSUME DeliveryInv, UNCHANGED <<copies, torn>>,
         \A k \in RowKey : row'[k].status = row[k].status
                             \/ (~Done(k) /\ row'[k].status = "sending")
  PROVE  UNCHANGED Promise!vars
<1>1. Posted' = Posted
  BY DEF Posted, ChunksOf
<1>2. SettledRows' = SettledRows
  BY DEF SettledRows, Done, TerminalStatus
<1>3. QED
  BY <1>1, <1>2 DEF Promise!vars, SettledRows

\* The part in the hand of drain i is one Courier may post.
LEMMA PartMayBePosted ==
  ASSUME DeliveryInv, CopiesAreAccounted, InOrder, NEW i \in Inc, Sendable(i), Visible(i),
         task[i].chunk <= ChunksOf(To(i))
  PROVE  LET k == Key(i) c == task[i].chunk
         IN  /\ k \in RowKey /\ c \in 1 .. ChunksOf(k[1].to) /\ k \notin SettledRows
             /\ Posted[k][c] <= torn[k]
             /\ c > 1 => Posted[k][c] < Posted[k][c - 1]
             /\ Posted' = [Posted EXCEPT ![k][c] = @ + 1]
<1> DEFINE k == Key(i)
           c == task[i].chunk
           Part(l) == 1 .. ChunksOf(l[1].to)
<1>1. /\ k \in RowKey /\ k[1].to = To(i) /\ c \in 1 .. Chunks /\ Chunks \in Nat /\ holds[i] = k
      /\ ChunksOf(To(i)) \in 1 .. Chunks
      /\ copies \in [RowKey -> [1 .. Chunks -> Nat]]
  BY KeyIsTyped, ChunksAreBounded, DeliveryAssumption
     DEF Sendable, At, DeliveryInv, AllUnderway, Underway, TypeOK, Key, To
<1>2. c \in Part(k) /\ (c > 1 => c - 1 \in Part(k))
  BY <1>1
<1>3. row[k].status = "sending" /\ \A j \in Inc : holds[j] = k => j = i
  BY <1>1, LedgerAssumption, DeliveryAssumption DEF DeliveryInv, LedgerInv, OneHolder
<1>4. k \notin SettledRows
  BY <1>3 DEF SettledRows, Done, TerminalStatus
<1>5. Posted[k] = [n \in Part(k) |-> copies[k][n]]
  BY <1>1 DEF Posted
<1>6. copies[k][c] <= torn[k]
  <2>1. ~\E j \in Inc : holds[j] = k /\ c < task[j].chunk
    BY <1>1, <1>3
  <2>2. QED
    BY <1>1, <1>3, <2>1 DEF CopiesAreAccounted, Done, TerminalStatus
<1>7. c > 1 => copies[k][c] < copies[k][c - 1]
  BY DEF InOrder
<1>8. Posted' = [Posted EXCEPT ![k] = [Posted[k] EXCEPT ![c] = @ + 1]]
  <2>1. Posted' = [l \in RowKey |-> [n \in Part(l) |-> copies'[l][n]]]
    BY DEF Posted, ChunksOf
  <2>2. copies' = [copies EXCEPT ![k] = [copies[k] EXCEPT ![c] = @ + 1]]
    BY DEF Visible
  <2>3. \A l \in RowKey : copies[l] \in [1 .. Chunks -> Nat]
    BY <1>1
  <2>4. ASSUME NEW l \in RowKey, l # k PROVE Posted'[l] = Posted[l]
    <3>1. copies'[l] = copies[l]
      BY <1>1, <2>2, <2>4
    <3>2. QED
      BY <2>1, <3>1 DEF Posted
  <2>5. Posted'[k] = [Posted[k] EXCEPT ![c] = @ + 1]
    <3>1. copies'[k] = [copies[k] EXCEPT ![c] = @ + 1]
      BY <1>1, <2>2
    <3>2. \A n \in Part(k) : n \in 1 .. Chunks
      BY <1>1
    <3> HIDE DEF c
    <3>3. \A n \in Part(k) : copies'[k][n] = IF n = c THEN copies[k][c] + 1 ELSE copies[k][n]
      BY <1>1, <2>3, <3>1, <3>2
    <3>4. Posted'[k] = [n \in Part(k) |-> copies'[k][n]]
      BY <1>1, <2>1
    <3> HIDE DEF k, Part
    <3>5. QED
      BY <1>2, <1>5, <3>3, <3>4
  <2>6. DOMAIN Posted = RowKey /\ Posted' = [l \in RowKey |-> Posted'[l]]
    BY <2>1 DEF Posted
  <2>7. Posted = [l \in RowKey |-> Posted[l]]
    BY DEF Posted
  <2> HIDE DEF k, c
  <2>8. QED
    BY <1>1, <2>4, <2>5, <2>6, <2>7
<1>9. QED
  BY <1>1, <1>2, <1>4, <1>5, <1>6, <1>7, <1>8

\* A claim is marked: its row is settled, or free again.
LEMMA MarkSettles ==
  ASSUME DeliveryInv, NEW i \in Inc, NEW status \in Outcome, Mark(i, status),
         NEW k \in RowKey, holds[i] = k
  PROVE  /\ k \notin SettledRows
         /\ SettledRows' = IF status = "failed" THEN SettledRows ELSE SettledRows \cup {k}
<1>1. /\ k # NoKey /\ k \in RowKey /\ row[k].status = "sending"
      /\ row \in [RowKey -> [status : Outcome \cup {"none", "sending"},
                             attempts : Nat, stale : BOOLEAN]]
  BY LedgerAssumption, DeliveryAssumption
     DEF DeliveryInv, TypeOK, LedgerTypeOK, LedgerInv, OneHolder
<1>2. row'[k].status = status /\ \A l \in RowKey \ {k} : row'[l] = row[l]
  BY <1>1 DEF Mark
<1>3. status = "failed" \/ status \in TerminalStatus
  BY DEF Outcome
<1>4. QED
  BY <1>1, <1>2, <1>3 DEF SettledRows, Done, TerminalStatus

LEMMA CourierStep ==
  ASSUME ~Doubt, DeliveryInv, CopiesAreAccounted, InOrder, [Next]_vars
  PROVE  [Promise!Next]_(Promise!vars)
<1> USE DEF SettledRows
<1>1. ASSUME NEW i \in Inc, Drain(i) PROVE [Promise!Next]_(Promise!vars)
  <2>1. CASE \/ DispatchReturns(i) \/ DispatchThrows(i) \/ Take(i) \/ LegDone(i) \/ LegDeferred(i)
             \/ LegRendered(i) \/ SendSkips(i) \/ GateShut(i) \/ ClaimDenied(i) \/ SendReturns(i)
    <3>1. UNCHANGED <<copies, torn, row>>
      BY <2>1 DEF DispatchReturns, DispatchThrows, Take, LegDone, LegDeferred, LegRendered,
                  SendSkips, GateShut, ClaimDenied, SendReturns, outcome, world, ledger
    <3>2. QED
      BY <3>1, CourierRests
  <2>2. CASE Claimed(i)
    <3>1. UNCHANGED <<copies, torn>> /\ Claim(i, Key(i)) /\ Key(i) \in RowKey
      BY <2>2, KeyIsTyped DEF Claimed, At, outcome, world, DeliveryInv, AllUnderway
    <3>2. ASSUME NEW k \in RowKey
          PROVE  row'[k].status = row[k].status \/ (~Done(k) /\ row'[k].status = "sending")
      BY <3>1 DEF Claim, Free, Live, Done, TerminalStatus, DeliveryInv, TypeOK, LedgerTypeOK
    <3>3. QED
      BY <3>1, <3>2, CourierRests
  <2>3. CASE ChunkSent(i)
    <3>1. /\ Sendable(i) /\ Visible(i) /\ UNCHANGED <<torn, row>>
          /\ task[i].chunk < ChunksOf(To(i))
      BY <2>3 DEF ChunkSent, ledger, world
    <3>2. SettledRows' = SettledRows
      BY <3>1 DEF Done
    <3>3. task[i].chunk <= ChunksOf(To(i))
      BY <3>1, KeyIsTyped, ChunksAreBounded, DeliveryAssumption
         DEF Sendable, At, DeliveryInv, AllUnderway, Underway
    <3>4. Promise!Post(Key(i), task[i].chunk)
      BY <3>1, <3>2, <3>3, PartMayBePosted DEF Promise!Post
    <3>5. QED
      BY <3>1, <3>3, <3>4, PartMayBePosted DEF Promise!Next
  <2>4. CASE LastChunkSent(i)
    <3>1. /\ Sendable(i) /\ Visible(i) /\ UNCHANGED torn /\ Mark(i, "sent")
          /\ task[i].chunk = ChunksOf(To(i))
      BY <2>4 DEF LastChunkSent, world
    <3>2. Key(i) \in RowKey /\ holds[i] = Key(i) /\ task[i].chunk <= ChunksOf(To(i))
      BY <3>1, KeyIsTyped, ChunksAreBounded, DeliveryAssumption
         DEF Sendable, At, DeliveryInv, AllUnderway, Underway
    <3>3. SettledRows' = SettledRows \cup {Key(i)}
      BY <3>1, <3>2, MarkSettles DEF Outcome, TerminalStatus
    <3>4. Promise!Post(Key(i), task[i].chunk)
      BY <3>1, <3>2, <3>3, PartMayBePosted DEF Promise!Post
    <3>5. QED
      BY <3>1, <3>2, <3>4, PartMayBePosted DEF Promise!Next
  <2>5. CASE NothingToSend(i) \/ ChunkRefused(i)
    <3>1. /\ UNCHANGED <<copies, torn>> /\ At(i, "chunk")
          /\ \E status \in Outcome : Mark(i, status)
      BY <2>5 DEF NothingToSend, ChunkRefused, MarkFailure, Sendable, Outcome, TerminalStatus,
                  outcome, world
    <3>2. PICK status \in Outcome : Mark(i, status)
      BY <3>1
    <3>3. Key(i) \in RowKey /\ holds[i] = Key(i)
      BY <3>1, KeyIsTyped DEF At, DeliveryInv, AllUnderway, Underway
    <3>4. /\ Key(i) \notin SettledRows
          /\ SettledRows' = SettledRows \/ SettledRows' = SettledRows \cup {Key(i)}
      BY <3>2, <3>3, MarkSettles
    <3>5. Posted' = Posted
      BY <3>1 DEF Posted, ChunksOf
    <3>6. CASE SettledRows' = SettledRows
      BY <3>1, <3>5, <3>6 DEF Promise!vars
    <3>7. CASE SettledRows' = SettledRows \cup {Key(i)}
      <4>1. Promise!Settle(Key(i))
        BY <3>1, <3>4, <3>5, <3>7 DEF Promise!Settle
      <4>2. QED
        BY <3>3, <4>1 DEF Promise!Next
    <3>8. QED
      BY <3>4, <3>6, <3>7
  <2>6. QED
    BY <1>1, <2>1, <2>2, <2>3, <2>4, <2>5 DEF Drain, ChunkDoubtful
<1>2. CASE Crash
  <2> DEFINE S == {k \in RowKey : \E i \in Inc : holds[i] = k}
  <2>1. /\ UNCHANGED <<copies, row>>
        /\ torn' = [k \in RowKey |-> IF k \in S THEN torn[k] + 1 ELSE torn[k]]
    BY <1>2 DEF Crash, Abandon, outcome
  <2>2. S \cap SettledRows = {}
    BY LedgerAssumption, DeliveryAssumption
       DEF DeliveryInv, LedgerInv, OneHolder, Done, TerminalStatus
  <2>3. Posted' = Posted /\ SettledRows' = SettledRows
    BY <2>1 DEF Posted, ChunksOf, Done
  <2>4. Promise!Cut(S)
    BY <2>1, <2>2, <2>3 DEF Promise!Cut
  <2>5. S \in SUBSET RowKey
    OBVIOUS
  <2>6. QED
    BY <2>4, <2>5 DEF Promise!Next
<1>3. ASSUME NEW k \in RowKey, ClaimAges(k) PROVE UNCHANGED Promise!vars
  <2>1. UNCHANGED <<copies, torn>> /\ \A l \in RowKey : row'[l].status = row[l].status
    BY <1>3 DEF ClaimAges, Age, outcome, world, DeliveryInv, TypeOK, LedgerTypeOK
  <2>2. QED
    BY <2>1, CourierRests
<1>4. ASSUME UNCHANGED <<copies, torn, row>> PROVE UNCHANGED Promise!vars
  BY <1>4, CourierRests
<1>5. ASSUME NEW a \in Article, Publish(a) PROVE UNCHANGED Promise!vars
  BY <1>4, <1>5 DEF Publish, ledger, outcome, world
<1>6. CASE Start \/ Teardown \/ UNCHANGED vars
  BY <1>4, <1>6 DEF Start, Teardown, ledger, outcome, world, vars
<1>7. ASSUME NEW t \in Target, Mount(t) PROVE UNCHANGED Promise!vars
  BY <1>4, <1>7 DEF Mount, ledger, outcome
<1>8. ASSUME NEW i \in Inc, StartDrain(i) PROVE UNCHANGED Promise!vars
  BY <1>4, <1>8 DEF StartDrain, ledger, outcome, world
<1>9. QED
  BY <1>1, <1>2, <1>3, <1>5, <1>6, <1>7, <1>8 DEF Next

\* Where every answer tells whether the message went out, the delivery keeps
\* Courier's promise: of any number of articles, groups, messages per article,
\* restarts and crashes, every message's parts go out in order and once each,
\* but for the crashes that cut it off (target-qq.ts, outbound.ts).
THEOREM DeliveryIsACourier ==
  ASSUME ~Doubt
  PROVE  Spec => PostsEachPartOnce
<1>1. Init => Promise!Init
  <2> SUFFICES ASSUME Init PROVE Promise!Init
    OBVIOUS
  <2>1. Posted = [k \in RowKey |-> [n \in 1 .. ChunksOf(k[1].to) |-> 0]]
    <3>1. ASSUME NEW k \in RowKey, NEW n \in 1 .. ChunksOf(k[1].to) PROVE copies[k][n] = 0
      <4>1. ChunksOf(k[1].to) \in {Chunks, 1} /\ Chunks \in Nat \ {0}
        BY DeliveryAssumption DEF ChunksOf
      <4>2. n \in 1 .. Chunks
        BY <4>1
      <4>3. QED
        BY <4>2 DEF Init
    <3>2. QED
      BY <3>1 DEF Posted
  <2>2. SettledRows = {} /\ torn = [k \in RowKey |-> 0]
    BY DEF Init, LedgerInit, SettledRows, Done, TerminalStatus
  <2>3. QED
    BY <2>1, <2>2 DEF Promise!Init, SettledRows
<1>2. DeliveryInv /\ CopiesAreAccounted /\ [Next]_vars => CopiesAreAccounted'
  BY CopiesStep
<1>3. DeliveryInv /\ InOrder /\ [Next]_vars => InOrder'
  BY OrderStep
<1>4. DeliveryInv /\ CopiesAreAccounted /\ InOrder /\ [Next]_vars => [Promise!Next]_(Promise!vars)
  BY CourierStep
<1>5. QED
  BY <1>1, <1>2, <1>3, <1>4, CopiesInitially, OrderInitially, DeliveryInvariant, PTL
     DEF Spec, PostsEachPartOnce, Promise!Spec

=============================================================================
