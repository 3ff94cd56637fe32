------------------------------ MODULE Delivery ------------------------------
(***************************************************************************)
(* How a new article reaches the groups: the bus hands it to the router    *)
(* (src/components/router.ts), whose drain drives it along the legs of its *)
(* routes, through a target's send (src/components/target-qq.ts,           *)
(* target-bilibili.ts) and the outbound ledger.                            *)
(*                                                                         *)
(* The router is a fiber: it may be torn down and applied again while its  *)
(* drain is in flight, and the old drain goes on, since nothing cancels a  *)
(* promise.  Each application is an incarnation here, with the queue and   *)
(* the drain its closure holds.  No step spans an await; what runs between *)
(* two awaits may take several steps, so the model interleaves more than   *)
(* the single thread does.                                                 *)
(*                                                                         *)
(* Abstracted: backoff times (a queued event is always due), the wording   *)
(* and classes of provider failures (a failure may be driven again or      *)
(* never), the health circuit (shut or not), rendering, and the order of   *)
(* the persisted queue: a new incarnation takes it over in any order.      *)
(* TargetRuntime is its plain path: neither summary windows nor a digest.  *)
(***************************************************************************)
EXTENDS Outbound, Sequences, FiniteSets

CONSTANTS
  Article, Formatter, Target, Guarded,
               \* Guarded: the targets that are QQ groups; the others are Bilibili
  Legs,        \* the routes of the crawler, flattened: <<[via, to], ...>>
  Filtered,    \* <<article, target>> pairs the target's text policies stop
  Empty,       \* articles without text and media
  Chunks,      \* messages an article is split into for a QQ group
  Doubt,       \* whether a send may fail after the provider took the message
  MaxDefers,   \* MAX_QUEUE_DEFERS
  MaxSends,    \* max_send_attempts
  MaxInc,      \* bound: how often the router is applied
  MaxCrashes,  \* bound: how often the process goes down
  NoArticle

Inc == 1 .. MaxInc

ASSUME DeliveryAssumption ==
  /\ IsFiniteSet(Article)
  /\ Guarded \subseteq Target
  /\ Legs \in Seq([via : Formatter, to : Target])
  /\ RowKey = {Legs[n] : n \in 1 .. Len(Legs)} \X Article
  /\ Caller = Inc
  /\ Filtered \subseteq Article \X Target
  /\ Empty \subseteq Article
  /\ Chunks \in Nat \ {0}
  /\ MaxDefers \in Nat \ {0} /\ MaxSends \in Nat \ {0}
  /\ MaxInc \in Nat /\ MaxCrashes \in Nat
  /\ NoArticle \notin Article

VARIABLES
  published, \* articles the crawler has saved and emitted
  missed,    \* those emitted while no router was subscribed
  up,        \* whether incarnation `inc' is alive
  inc,       \* the latest incarnation
  queue,     \* [Inc -> Seq(Event)]: the pending queue of its closure
  stored,    \* the persisted queue (service_state)
  budget,    \* [Inc -> Nat]: what is left of the pass of its drain
  task,      \* [Inc -> Task]: the event its drain has in hand
  forwarded, \* forward_by
  mounted,   \* the targets whose fiber is up
  copies,    \* [RowKey -> [1 .. Chunks -> Nat]]: messages visible at the target
  dropped,   \* articles given up with a taint
  torn,      \* [RowKey -> Nat]: claims a crash cut off
  crashes

bus == <<published, missed>>
router == <<up, inc, queue, stored, budget, task>>
outcome == <<forwarded, copies, dropped>>
world == <<mounted, torn, crashes>>
vars == <<bus, router, ledger, outcome, world>>

Event == [article : Article, defers : Nat, attempts : Nat]
NoEvent == [article |-> NoArticle, defers |-> 0, attempts |-> 0]

Task == [pc : {"idle", "leg", "send", "chunk", "return", "throw"},
         event : Event \cup {NoEvent}, leg : Nat, deferred : BOOLEAN,
         chunk : Nat, why : {"none", "later", "retry", "never"}]
Idle == [pc |-> "idle", event |-> NoEvent, leg |-> 1, deferred |-> FALSE,
         chunk |-> 1, why |-> "none"]

\* The type of every variable.
TypeOK ==
  /\ LedgerTypeOK
  /\ published \subseteq Article /\ missed \subseteq published
  /\ up \in BOOLEAN /\ inc \in 0 .. MaxInc /\ (up => inc > 0)
  /\ queue \in [Inc -> Seq(Event)]
  /\ stored \subseteq Article
  /\ budget \in [Inc -> Nat]
  /\ task \in [Inc -> Task]
  /\ forwarded \subseteq Article \X Target
  /\ mounted \subseteq Target
  /\ copies \in [RowKey -> [1 .. Chunks -> Nat]]
  /\ dropped \subseteq Article
  /\ torn \in [RowKey -> Nat] /\ crashes \in Nat

-----------------------------------------------------------------------------
Fresh(a) == [article |-> a, defers |-> 0, attempts |-> 0]
Articles(q) == {q[n].article : n \in 1 .. Len(q)}
Orders(S) == {s \in [1 .. Cardinality(S) -> S] :
                \A m, n \in 1 .. Cardinality(S) : s[m] = s[n] => m = n}

Undelivered(a) == \E n \in 1 .. Len(Legs) : <<a, Legs[n].to>> \notin forwarded

Alive(i) == up /\ i = inc

\* persistQueue(): only the living incarnation writes through.
Persist(i, q) == stored' = IF Alive(i) THEN Articles(q) ELSE stored

At(i, pc) == task[i].pc = pc
Here(i) == task[i].event.article
To(i) == Legs[task[i].leg].to
Key(i) == <<Legs[task[i].leg], Here(i)>>

Goto(i, pc) == task' = [task EXCEPT ![i].pc = pc]
Throw(i, why) == task' = [task EXCEPT ![i].pc = "throw", ![i].why = why, ![i].chunk = 1]

-----------------------------------------------------------------------------
(* The bus, the life of the router's fiber and of the targets' fibers.     *)

Publish(a) ==
  /\ a \notin published
  /\ published' = published \cup {a}
  /\ IF up THEN LET q == Append(queue[inc], Fresh(a))
                IN  /\ queue' = [queue EXCEPT ![inc] = q]
                    /\ Persist(inc, q)
                    /\ UNCHANGED missed
           ELSE /\ missed' = missed \cup {a}
                /\ UNCHANGED <<queue, stored>>
  /\ UNCHANGED <<up, inc, budget, task, ledger, outcome, world>>

\* apply(): what the stored queue still owes is taken over.
Start ==
  /\ ~up /\ inc < MaxInc
  /\ up' = TRUE /\ inc' = inc + 1
  /\ stored' = {a \in stored : Undelivered(a)}
  /\ \E s \in Orders(stored') :
       queue' = [queue EXCEPT ![inc + 1] = [n \in DOMAIN s |-> Fresh(s[n])]]
  /\ UNCHANGED <<bus, budget, task, ledger, outcome, world>>

\* The inverse: unsubscribe, stop the sweep, alive = false.  The last
\* incarnation of the bound stays.
Teardown ==
  /\ up /\ inc < MaxInc
  /\ up' = FALSE
  /\ UNCHANGED <<bus, inc, queue, stored, budget, task, ledger, outcome, world>>

Crash ==
  /\ crashes < MaxCrashes /\ inc > 0
  /\ crashes' = crashes + 1
  /\ up' = FALSE
  /\ queue' = [i \in Inc |-> <<>>]
  /\ budget' = [i \in Inc |-> 0]
  /\ task' = [i \in Inc |-> Idle]
  /\ torn' = [k \in RowKey |-> IF \E i \in Inc : holds[i] = k THEN torn[k] + 1 ELSE torn[k]]
  /\ Abandon
  /\ UNCHANGED <<bus, inc, stored, outcome, mounted>>

Mount(t) ==
  /\ mounted' = IF t \in mounted THEN mounted \ {t} ELSE mounted \cup {t}
  /\ UNCHANGED <<bus, router, ledger, outcome, torn, crashes>>

-----------------------------------------------------------------------------
(* drain(): one pass over the backlog.                                     *)

\* From the sweep, an arriving article or apply(); one drain at a time.
StartDrain(i) ==
  /\ Alive(i)
  /\ At(i, "idle") /\ budget[i] = 0
  /\ queue[i] # <<>>
  /\ budget' = [budget EXCEPT ![i] = Len(queue[i])]
  /\ UNCHANGED <<bus, up, inc, queue, stored, task, ledger, outcome, world>>

\* queue.shift(); the shift is not persisted.
Take(i) ==
  /\ At(i, "idle") /\ budget[i] > 0 /\ queue[i] # <<>>
  /\ budget' = [budget EXCEPT ![i] = @ - 1]
  /\ task' = [task EXCEPT ![i].pc = "leg", ![i].event = Head(queue[i])]
  /\ queue' = [queue EXCEPT ![i] = Tail(@)]
  /\ UNCHANGED <<bus, up, inc, stored, ledger, outcome, world>>

\* Bug: the queue is not written through when an event goes back.
RequeueUnsaved(i, event) ==
  /\ queue' = [queue EXCEPT ![i] = Append(@, event)]
  /\ stored' = IF Alive(i) THEN Articles(queue[i]) ELSE stored
  /\ task' = [task EXCEPT ![i] = Idle]
  /\ UNCHANGED dropped

\* The event leaves the drain's hand for the back of the queue, or for good.
Requeue(i, event) ==
  LET q == Append(queue[i], event)
  IN  /\ queue' = [queue EXCEPT ![i] = q]
      /\ Persist(i, q)
      /\ task' = [task EXCEPT ![i] = Idle]
      /\ UNCHANGED dropped

LetGo(i) ==
  /\ Persist(i, queue[i])
  /\ task' = [task EXCEPT ![i] = Idle]
  /\ UNCHANGED queue

GiveUp(i) == LetGo(i) /\ dropped' = dropped \cup {Here(i)}

\* Bug: defers are not counted.
DeferForEver(i) == Requeue(i, task[i].event)

Defer(i) ==
  LET event == task[i].event
  IN  IF event.defers + 1 >= MaxDefers
        THEN GiveUp(i)
        ELSE Requeue(i, [event EXCEPT !.defers = @ + 1])

DispatchReturns(i) ==
  /\ At(i, "leg") /\ task[i].leg > Len(Legs)
  /\ IF task[i].deferred THEN Defer(i) ELSE LetGo(i) /\ UNCHANGED dropped
  /\ UNCHANGED <<bus, up, inc, budget, ledger, forwarded, copies, world>>

DispatchThrows(i) ==
  /\ At(i, "throw")
  /\ LET event == task[i].event
     IN  \/ task[i].why = "never" /\ GiveUp(i)
         \/ task[i].why = "later" /\ Defer(i)
         \/ /\ task[i].why = "retry"
            /\ IF event.attempts + 1 >= MaxSends
                 THEN GiveUp(i)
                 ELSE Requeue(i, [event EXCEPT !.attempts = @ + 1])
  /\ UNCHANGED <<bus, up, inc, budget, ledger, forwarded, copies, world>>

-----------------------------------------------------------------------------
(* dispatch(): one leg after the other.                                    *)

NextLeg(i, deferred) ==
  task' = [task EXCEPT ![i].pc = "leg", ![i].leg = @ + 1, ![i].deferred = deferred]

OnLeg(i) == At(i, "leg") /\ task[i].leg <= Len(Legs)

LegDone(i) ==
  /\ OnLeg(i)
  /\ <<Here(i), To(i)>> \in forwarded
  /\ NextLeg(i, task[i].deferred)
  /\ UNCHANGED <<bus, up, inc, queue, stored, budget, ledger, outcome, world>>

LegDeferred(i) ==
  /\ OnLeg(i)
  /\ <<Here(i), To(i)>> \notin forwarded /\ To(i) \notin mounted
  /\ NextLeg(i, TRUE)
  /\ UNCHANGED <<bus, up, inc, queue, stored, budget, ledger, outcome, world>>

LegRendered(i) ==
  /\ OnLeg(i)
  /\ <<Here(i), To(i)>> \notin forwarded /\ To(i) \in mounted
  /\ Goto(i, "send") \/ Throw(i, "retry")
  /\ UNCHANGED <<bus, up, inc, queue, stored, budget, ledger, outcome, world>>

-----------------------------------------------------------------------------
(* target.send(): policies, gate, claim, the chunks, the mark.             *)

\* The policies stop the article, or its row is settled: send() just returns.
SendSkips(i) ==
  /\ At(i, "send")
  /\ <<Here(i), To(i)>> \in Filtered \/ Done(Key(i)) \/ Exhausted(Key(i))
  /\ Goto(i, "return")
  /\ UNCHANGED <<bus, up, inc, queue, stored, budget, ledger, outcome, world>>

\* The health gate of a QQ target is shut.
GateShut(i) ==
  /\ At(i, "send") /\ To(i) \in Guarded
  /\ <<Here(i), To(i)>> \notin Filtered
  /\ Throw(i, "later")
  /\ UNCHANGED <<bus, up, inc, queue, stored, budget, ledger, outcome, world>>

\* Bug: a row somebody else holds is taken for one that is settled.
ClaimDeniedQuietly(i) ==
  /\ At(i, "send")
  /\ <<Here(i), To(i)>> \notin Filtered /\ InProgress(Key(i))
  /\ Goto(i, "return")
  /\ UNCHANGED <<bus, up, inc, queue, stored, budget, ledger, outcome, world>>

\* The row is somebody else's: QQ comes back later, Bilibili returns.
ClaimDenied(i) ==
  /\ At(i, "send")
  /\ <<Here(i), To(i)>> \notin Filtered /\ InProgress(Key(i))
  /\ IF To(i) \in Guarded THEN Throw(i, "later") ELSE Goto(i, "return")
  /\ UNCHANGED <<bus, up, inc, queue, stored, budget, ledger, outcome, world>>

Claimed(i) ==
  /\ At(i, "send")
  /\ <<Here(i), To(i)>> \notin Filtered
  /\ Claim(i, Key(i))
  /\ Goto(i, "chunk")
  /\ UNCHANGED <<bus, up, inc, queue, stored, budget, outcome, world>>

ChunksOf(t) == IF t \in Guarded THEN Chunks ELSE 1

Visible(i) == copies' = [copies EXCEPT ![Key(i)][task[i].chunk] = @ + 1]

\* segments.length === 0; a Bilibili dynamic is created all the same.
NothingToSend(i) ==
  /\ At(i, "chunk") /\ Here(i) \in Empty /\ To(i) \in Guarded
  /\ Mark(i, "skipped")
  /\ Goto(i, "return")
  /\ UNCHANGED <<bus, up, inc, queue, stored, budget, outcome, world>>

Sendable(i) == At(i, "chunk") /\ ~(Here(i) \in Empty /\ To(i) \in Guarded)

ChunkSent(i) ==
  /\ Sendable(i) /\ task[i].chunk < ChunksOf(To(i))
  /\ Visible(i)
  /\ task' = [task EXCEPT ![i].chunk = @ + 1]
  /\ UNCHANGED <<bus, up, inc, queue, stored, budget, ledger, forwarded, dropped, world>>

LastChunkSent(i) ==
  /\ Sendable(i) /\ task[i].chunk = ChunksOf(To(i))
  /\ Visible(i)
  /\ Mark(i, "sent")
  /\ task' = [task EXCEPT ![i].pc = "return", ![i].chunk = 1]
  /\ UNCHANGED <<bus, up, inc, queue, stored, budget, forwarded, dropped, world>>

\* Bug: what went out before a failure is forgotten, the row can be claimed again.
MarkFailureAlways(i) == Mark(i, "failed")

\* Chunks that went out make the failure terminal.
MarkFailure(i) == Mark(i, IF task[i].chunk > 1 THEN "partial" ELSE "failed")

ChunkRefused(i) ==
  /\ Sendable(i)
  /\ MarkFailure(i)
  /\ Throw(i, "retry") \/ (To(i) \in Guarded /\ Throw(i, "never"))
  /\ UNCHANGED <<bus, up, inc, queue, stored, budget, outcome, world>>

\* The message is out but the answer is lost, and the history does not tell:
\* the OneBot client refuses to send it again, the Bilibili client cannot know.
ChunkDoubtful(i) ==
  /\ Doubt
  /\ Sendable(i)
  /\ Visible(i)
  /\ MarkFailure(i)
  /\ Throw(i, IF To(i) \in Guarded THEN "never" ELSE "retry")
  /\ UNCHANGED <<bus, up, inc, queue, stored, budget, forwarded, dropped, world>>

\* send() returned: markForwarded, in a statement of its own.
SendReturns(i) ==
  /\ At(i, "return")
  /\ forwarded' = forwarded \cup {<<Here(i), To(i)>>}
  /\ NextLeg(i, task[i].deferred)
  /\ UNCHANGED <<bus, up, inc, queue, stored, budget, ledger, copies, dropped, world>>

ClaimAges(k) ==
  /\ Age(k)
  /\ UNCHANGED <<bus, router, outcome, world>>

-----------------------------------------------------------------------------
Init ==
  /\ LedgerInit
  /\ published = {} /\ missed = {}
  /\ up = FALSE /\ inc = 0
  /\ queue = [i \in Inc |-> <<>>]
  /\ stored = {}
  /\ budget = [i \in Inc |-> 0]
  /\ task = [i \in Inc |-> Idle]
  /\ forwarded = {}
  /\ mounted = {}
  /\ copies = [k \in RowKey |-> [n \in 1 .. Chunks |-> 0]]
  /\ dropped = {}
  /\ torn = [k \in RowKey |-> 0]
  /\ crashes = 0

Drain(i) ==
  \/ Take(i) \/ DispatchReturns(i) \/ DispatchThrows(i)
  \/ LegDone(i) \/ LegDeferred(i) \/ LegRendered(i)
  \/ SendSkips(i) \/ GateShut(i) \/ ClaimDenied(i) \/ Claimed(i)
  \/ NothingToSend(i) \/ ChunkSent(i) \/ LastChunkSent(i)
  \/ ChunkRefused(i) \/ ChunkDoubtful(i) \/ SendReturns(i)

Next ==
  \/ \E a \in Article : Publish(a)
  \/ Start \/ Teardown \/ Crash
  \/ \E t \in Target : Mount(t)
  \/ \E i \in Inc : StartDrain(i) \/ Drain(i)
  \/ \E k \in RowKey : ClaimAges(k)

Spec == Init /\ [][Next]_vars

\* Promises are resolved or rejected, and the sweep's timer fires.
FairSpec == Spec /\ \A i \in Inc : WF_vars(StartDrain(i)) /\ WF_vars(Drain(i))

-----------------------------------------------------------------------------
\* A crash loses no queued event: the living router's queue is written through
\* (persistQueue after every push).  The event in the drain's hand is not in it.
QueuedIsStored ==
  up => Articles(queue[inc]) \subseteq stored

\* Who still has article a to deliver: the stored queue, or a drain at work.
Carried(a) ==
  \/ a \in stored
  \/ \E i \in Inc :
       \/ Here(i) = a
       \/ (Alive(i) \/ budget[i] > 0 \/ ~At(i, "idle")) /\ a \in Articles(queue[i])

\* An article the router took is delivered along every leg, given up with a
\* taint, or still carried by somebody: none disappears in silence.
NothingForgotten ==
  \A a \in published \ (missed \cup dropped) : Undelivered(a) => Carried(a)

\* forward_by never says "forwarded" of a message nobody has sent, settled or
\* given up: its absence is the only thing that brings an article back.
ForwardedIsSettled ==
  \A x \in forwarded \ Filtered :
    \E k \in RowKey : /\ k[2] = x[1] /\ k[1].to = x[2]
                      /\ Done(k) \/ Exhausted(k)

\* A message is visible twice only if a crash cut its send off in between:
\* neither a redrive, nor a second incarnation, nor a failed later chunk sends
\* it again.
DuplicatesNeedACrash ==
  \A k \in RowKey, n \in 1 .. Chunks : copies[k][n] <= 1 + torn[k]

\* Every article the router took is, in the end, forwarded along all its legs
\* or given up with a taint.
EveryArticleSettles ==
  \A a \in Article :
    (a \in published \ missed) ~> (a \in dropped \/ ~Undelivered(a))

-----------------------------------------------------------------------------
(* The promise to the groups: without doubtful sends, Courier.             *)

Posted == [k \in RowKey |-> [n \in 1 .. ChunksOf(k[1].to) |-> copies[k][n]]]

Promise == INSTANCE Courier WITH
  Message <- RowKey,
  Parts <- [k \in RowKey |-> ChunksOf(k[1].to)],
  posts <- Posted,
  settled <- {k \in RowKey : Done(k)},
  cuts <- torn

\* No part of a message is posted again, unless a crash cut the message off, none
\* before the parts it follows, and none after the message is settled.
PostsEachPartOnce == Promise!Spec

=============================================================================
