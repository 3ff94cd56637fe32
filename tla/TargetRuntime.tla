---------------------------- MODULE TargetRuntime ----------------------------
(***************************************************************************)
(* What a QQ target does with the articles it is asked to send             *)
(* (src/pipeline/target-runtime.ts, aggregation.ts): pass them on at once, *)
(* collect them into a digest, or collect them in the windows of a summary *)
(* that the sender flushes at a threshold and a sweep flushes when they    *)
(* have ended.  The router asks for one article at a time; each flush of a *)
(* sweep runs beside it.                                                   *)
(*                                                                         *)
(* Delivery.tla has the router, the chunks of a message and the Bilibili   *)
(* target; here a message is one chunk and a failed send may be repeated.  *)
(* Time is the slot a window belongs to and whether that window has ended  *)
(* within it, which only hour-aligned windows of less than an hour do.     *)
(* The text policies and the media visibility are left out, and so are     *)
(* items without text and media, which a flush passes over.                *)
(***************************************************************************)
EXTENDS Outbound, Sequences, FiniteSets

CONSTANTS
  Article,
  Router,      \* the caller that sends; the others are flushes of the sweep
  Modes,       \* configurations of the entry to look at
  MaxItems,    \* max_items
  Aligned,     \* align_to_hour with interval_seconds < 3600
  MaxTries,    \* how often the router drives an article
  MaxSlot,     \* bound: slots; nothing is sent in the last one
  MaxWindows,  \* bound: rows of aggregation_windows
  MaxCrashes,  \* bound: how often the process goes down
  NoArticle

WindowId == 1 .. MaxWindows

\* "ahead" is a summary with send_first_immediately; the threshold is that of
\* the summary, or of the digest, which there is from two on.
Mode == {m \in [kind : {"plain", "digest", "summary", "ahead"}, threshold : Nat \ {0}] :
           m.kind = "digest" => m.threshold > 1}

ASSUME TargetAssumption ==
  /\ IsFiniteSet(Article) /\ NoArticle \notin Article
  /\ Router \in Caller
  /\ Modes \subseteq Mode
  /\ MaxItems \in Nat \ {0}
  /\ MaxSlot \in Nat /\ MaxWindows \in Nat
  /\ RowKey = ({"route", "item"} \X Article) \cup ({"card"} \X WindowId)

VARIABLES
  mode,         \* what the entry is configured for; it never changes
  slot, late,   \* the clock: the current slot, whether its window has ended
  windows,      \* Seq(Window): aggregation_windows with their items
  first,        \* firstSentWindows, and as persisted
  storedFirst,
  buffer,       \* digestBuffer, and as persisted
  storedBuffer,
  task,         \* [Caller -> Task]
  tries,        \* [Article -> Nat]
  forwarded, dropped, capped,
                \* articles recorded as forwarded, given up by the router, and
                \* left out of a window that was full
  shown,        \* [Article -> Nat]: how often a message shows the article
  firsts,       \* [WindowId -> Nat]: messages sent ahead of a window
  crashes

clock == <<slot, late>>
memory == <<first, storedFirst, buffer, storedBuffer>>
fate == <<tries, forwarded, dropped>>
chat == <<shown, firsts>>
vars == <<mode, clock, windows, memory, task, fate, capped, chat, ledger, crashes>>

Window == [slot : Nat, base : BOOLEAN, open : BOOLEAN, items : Seq(Article)]
Task == [pc : {"idle", "call", "sending", "after", "throw", "done"},
         kind : {"none", "plain", "digest", "first", "card", "items"},
         article : Article \cup {NoArticle}, key : RowKey \cup {NoKey},
         win : Nat, batch : Seq(Article)]
Idle == [pc |-> "idle", kind |-> "none", article |-> NoArticle, key |-> NoKey,
         win |-> 0, batch |-> <<>>]

\* The type of every variable.
TypeOK ==
  /\ LedgerTypeOK
  /\ mode \in Modes
  /\ slot \in 0 .. MaxSlot /\ late \in BOOLEAN
  /\ windows \in Seq(Window) /\ Len(windows) <= MaxWindows
  /\ first \subseteq WindowId /\ storedFirst \subseteq WindowId
  /\ buffer \in Seq(Article) /\ storedBuffer \in Seq(Article)
  /\ task \in [Caller -> Task]
  /\ tries \in [Article -> Nat]
  /\ forwarded \subseteq Article /\ dropped \subseteq Article /\ capped \subseteq Article
  /\ shown \in [Article -> Nat] /\ firsts \in [WindowId -> Nat]
  /\ crashes \in Nat

-----------------------------------------------------------------------------
Summary == mode.kind \in {"summary", "ahead"}
Threshold == mode.threshold

Members(s) == {s[n] : n \in DOMAIN s}
Count(s, a) == Cardinality({n \in DOMAIN s : s[n] = a})

At(c, pc) == task[c].pc = pc
Goto(c, pc) == task' = [task EXCEPT ![c].pc = pc]

Message(kind, key, win, batch) ==
  [pc |-> "call", kind |-> kind, key |-> key, win |-> win, batch |-> batch]
Call(c, article, m) ==
  task' = [task EXCEPT ![c] = [pc |-> m.pc, kind |-> m.kind, article |-> article,
                               key |-> m.key, win |-> m.win, batch |-> m.batch]]

-----------------------------------------------------------------------------
(* The windows (Aggregator).                                               *)

\* The open window under the slot's own key, else a new one: under that key if
\* it is not taken, else under a key of the moment, where none finds it again.
EnsureWindow(ws) ==
  LET base == {n \in DOMAIN ws : ws[n].slot = slot /\ ws[n].base}
      open == {n \in base : ws[n].open}
  IN  IF open # {}
        THEN [windows |-> ws, id |-> CHOOSE n \in open : TRUE]
        ELSE [windows |-> Append(ws, [slot |-> slot, base |-> base = {}, open |-> TRUE,
                                      items |-> <<>>]),
              id |-> Len(ws) + 1]

\* enqueue() asks for the window again; only within one millisecond does a key
\* of the moment lead to the same one.
EnsureAgain(e) ==
  {e} \cup (IF e.windows[e.id].base THEN {} ELSE {EnsureWindow(e.windows)})

Full(w) == Len(w.items) >= MaxItems

Enqueue(ws, n, a) ==
  IF Full(ws[n]) \/ a \in Members(ws[n].items)
    THEN ws
    ELSE [ws EXCEPT ![n].items = Append(@, a)]

\* Bug: only a window that reached the threshold is swept.
DueAtThreshold(n) ==
  windows[n].open /\ windows[n].slot < slot /\ Len(windows[n].items) >= Threshold

Due(n) == windows[n].open /\ (windows[n].slot < slot \/ late)

Closed(n) == [windows EXCEPT ![n].open = FALSE]

\* flush() up to its first await: a card, or below the threshold the items one
\* after the other.
Flush(n, items) ==
  IF Len(items) >= Threshold
    THEN Message("card", <<"card", n>>, n, items)
    ELSE Message("items", <<"item", Head(items)>>, n, items)

-----------------------------------------------------------------------------
(* send(), as far as its first await.                                      *)

Asked(a) ==
  /\ At(Router, "idle")
  /\ a \notin forwarded \cup dropped
  /\ slot < MaxSlot

SendPlain(a) ==
  /\ mode.kind = "plain" /\ Asked(a)
  /\ Call(Router, a, Message("plain", <<"route", a>>, 0, <<a>>))
  /\ UNCHANGED <<mode, clock, windows, memory, fate, capped, chat, ledger, crashes>>

\* Bug: the batch stays in the buffer.
BufferAfterCopied(batch) == batch

\* digestBuffer.splice(): a full batch leaves the buffer before it is sent.
BufferAfter(batch) == IF Len(batch) >= Threshold THEN <<>> ELSE batch

SendDigest(a) ==
  /\ mode.kind = "digest" /\ Asked(a)
  /\ LET batch == Append(buffer, a)
     IN  /\ buffer' = BufferAfter(batch)
         /\ storedBuffer' = buffer'
         /\ IF Len(batch) >= Threshold
              THEN Call(Router, a, Message("digest", <<"route", Head(batch)>>, 0, batch))
              ELSE task' = [task EXCEPT ![Router].pc = "done", ![Router].article = a]
  /\ UNCHANGED <<mode, clock, windows, first, storedFirst, fate, capped, chat, ledger, crashes>>

\* The first article of a window goes out at once.
SendAhead(a) ==
  /\ mode.kind = "ahead" /\ Asked(a)
  /\ Len(windows) < MaxWindows
  /\ LET e == EnsureWindow(windows)
     IN  /\ e.id \notin first
         /\ windows' = e.windows
         /\ Call(Router, a, Message("first", <<"route", a>>, e.id, <<a>>))
  /\ UNCHANGED <<mode, clock, memory, fate, capped, chat, ledger, crashes>>

\* The others wait in the window, and the one that reaches the threshold
\* flushes it.
SendQueued(a) ==
  /\ Summary /\ Asked(a)
  /\ Len(windows) + 1 < MaxWindows
  /\ LET e == EnsureWindow(windows)
     IN  /\ mode.kind = "ahead" => e.id \in first
         /\ \E again \in EnsureAgain(e) :
              /\ windows' = Enqueue(again.windows, again.id, a)
              /\ capped' = IF Full(again.windows[again.id]) THEN capped \cup {a} ELSE capped
              /\ IF Len(windows'[e.id].items) >= Threshold
                   THEN Call(Router, a, Flush(e.id, windows'[e.id].items))
                   ELSE task' = [task EXCEPT ![Router].pc = "done", ![Router].article = a]
  /\ UNCHANGED <<mode, clock, memory, fate, chat, ledger, crashes>>

-----------------------------------------------------------------------------
(* rawSend() of target-qq.ts, for the router and for flushes alike.        *)

GateShut(c) ==
  /\ At(c, "call")
  /\ Goto(c, "throw")
  /\ UNCHANGED <<mode, clock, windows, memory, fate, capped, chat, ledger, crashes>>

ClaimSettled(c) ==
  /\ At(c, "call")
  /\ Done(task[c].key) \/ Exhausted(task[c].key)
  /\ Goto(c, "after")
  /\ UNCHANGED <<mode, clock, windows, memory, fate, capped, chat, ledger, crashes>>

ClaimDenied(c) ==
  /\ At(c, "call") /\ InProgress(task[c].key)
  /\ Goto(c, "throw")
  /\ UNCHANGED <<mode, clock, windows, memory, fate, capped, chat, ledger, crashes>>

Claimed(c) ==
  /\ At(c, "call")
  /\ Claim(c, task[c].key)
  /\ Goto(c, "sending")
  /\ UNCHANGED <<mode, clock, windows, memory, fate, capped, chat, crashes>>

Body(c) == IF task[c].kind = "items" THEN <<Head(task[c].batch)>> ELSE task[c].batch

Accepted(c) ==
  /\ At(c, "sending")
  /\ Mark(c, "sent")
  /\ shown' = [a \in Article |-> shown[a] + Count(Body(c), a)]
  /\ firsts' = IF task[c].kind = "first" THEN [firsts EXCEPT ![task[c].win] = @ + 1] ELSE firsts
  /\ Goto(c, "after")
  /\ UNCHANGED <<mode, clock, windows, memory, fate, capped, crashes>>

Refused(c) ==
  /\ At(c, "sending")
  /\ Mark(c, "failed")
  /\ Goto(c, "throw")
  /\ UNCHANGED <<mode, clock, windows, memory, fate, capped, chat, crashes>>

-----------------------------------------------------------------------------
(* What follows the await of rawSend().                                    *)

\* A flush of the sweep is nobody's promise.
End(c) == IF c = Router THEN Goto(c, "done") ELSE task' = [task EXCEPT ![c] = Idle]

Sent(c) ==
  /\ At(c, "after") /\ task[c].kind \in {"plain", "digest"}
  /\ End(c)
  /\ UNCHANGED <<mode, clock, windows, memory, fate, capped, chat, ledger, crashes>>

MarkFirst(n) ==
  /\ first' = first \cup {n}
  /\ storedFirst' = first'

SentAhead(c) ==
  /\ At(c, "after") /\ task[c].kind = "first"
  /\ MarkFirst(task[c].win)
  /\ End(c)
  /\ UNCHANGED <<mode, clock, windows, buffer, storedBuffer, fate, capped, chat, ledger, crashes>>

NextItem(c) ==
  /\ At(c, "after") /\ task[c].kind = "items" /\ Len(task[c].batch) > 1
  /\ LET rest == Tail(task[c].batch)
     IN  task' = [task EXCEPT ![c].pc = "call", ![c].batch = rest,
                              ![c].key = <<"item", Head(rest)>>]
  /\ UNCHANGED <<mode, clock, windows, memory, fate, capped, chat, ledger, crashes>>

Flushed(c) ==
  /\ At(c, "after")
  /\ task[c].kind = "card" \/ (task[c].kind = "items" /\ Len(task[c].batch) = 1)
  /\ windows' = Closed(task[c].win)
  /\ End(c)
  /\ UNCHANGED <<mode, clock, memory, fate, capped, chat, ledger, crashes>>

\* Bug: a flush that failed closes its window nevertheless.
FlushFailsAndCloses(c) ==
  /\ At(c, "throw") /\ c # Router
  /\ windows' = Closed(task[c].win)
  /\ task' = [task EXCEPT ![c] = Idle]
  /\ UNCHANGED <<mode, clock, memory, fate, capped, chat, ledger, crashes>>

\* The window stays open for a later sweep.
FlushFails(c) ==
  /\ At(c, "throw") /\ c # Router
  /\ task' = [task EXCEPT ![c] = Idle]
  /\ UNCHANGED <<mode, clock, windows, memory, fate, capped, chat, ledger, crashes>>

\* send() returned: markForwarded.
SendReturns ==
  /\ At(Router, "done")
  /\ forwarded' = forwarded \cup {task[Router].article}
  /\ task' = [task EXCEPT ![Router] = Idle]
  /\ UNCHANGED <<mode, clock, windows, memory, tries, dropped, capped, chat, ledger, crashes>>

\* send() threw: the router drives the article again, or gives it up.
SendThrows ==
  /\ At(Router, "throw")
  /\ LET a == task[Router].article
     IN  IF tries[a] + 1 >= MaxTries
           THEN dropped' = dropped \cup {a} /\ UNCHANGED tries
           ELSE tries' = [tries EXCEPT ![a] = @ + 1] /\ UNCHANGED dropped
  /\ task' = [task EXCEPT ![Router] = Idle]
  /\ UNCHANGED <<mode, clock, windows, memory, forwarded, capped, chat, ledger, crashes>>

-----------------------------------------------------------------------------
(* The sweep, the clock and the process.                                   *)

SweepFlushes(c, n) ==
  /\ c # Router /\ At(c, "idle")
  /\ n \in DOMAIN windows /\ Due(n) /\ windows[n].items # <<>>
  /\ Call(c, NoArticle, Flush(n, windows[n].items))
  /\ UNCHANGED <<mode, clock, windows, memory, fate, capped, chat, ledger, crashes>>

SweepDrops(n) ==
  /\ n \in DOMAIN windows /\ Due(n) /\ windows[n].items = <<>>
  /\ windows' = Closed(n)
  /\ UNCHANGED <<mode, clock, memory, task, fate, capped, chat, ledger, crashes>>

\* An aligned window ends before its slot does.
Tick ==
  /\ slot < MaxSlot
  /\ IF Aligned /\ ~late
       THEN late' = TRUE /\ UNCHANGED slot
       ELSE late' = FALSE /\ slot' = slot + 1
  /\ UNCHANGED <<mode, windows, memory, task, fate, capped, chat, ledger, crashes>>

ClaimAges(k) ==
  /\ Age(k)
  /\ UNCHANGED <<mode, clock, windows, memory, task, fate, capped, chat, crashes>>

Crash ==
  /\ crashes < MaxCrashes
  /\ crashes' = crashes + 1
  /\ task' = [c \in Caller |-> Idle]
  /\ first' = storedFirst /\ buffer' = storedBuffer
  /\ tries' = [a \in Article |-> 0]
  /\ Abandon
  /\ UNCHANGED <<mode, clock, windows, storedFirst, storedBuffer, forwarded, dropped,
                 capped, chat>>

-----------------------------------------------------------------------------
Init ==
  /\ LedgerInit
  /\ mode \in Modes
  /\ slot = 0 /\ late = FALSE
  /\ windows = <<>>
  /\ first = {} /\ storedFirst = {}
  /\ buffer = <<>> /\ storedBuffer = <<>>
  /\ task = [c \in Caller |-> Idle]
  /\ tries = [a \in Article |-> 0]
  /\ forwarded = {} /\ dropped = {} /\ capped = {}
  /\ shown = [a \in Article |-> 0]
  /\ firsts = [n \in WindowId |-> 0]
  /\ crashes = 0

Send(a) == SendPlain(a) \/ SendDigest(a) \/ SendAhead(a) \/ SendQueued(a)

Verdict(c) == ClaimSettled(c) \/ ClaimDenied(c) \/ Claimed(c)

Resume(c) ==
  \/ Accepted(c) \/ Refused(c)
  \/ Sent(c) \/ SentAhead(c) \/ NextItem(c) \/ Flushed(c) \/ FlushFails(c)

Sweep(n) == SweepDrops(n) \/ \E c \in Caller : SweepFlushes(c, n)

Next ==
  \/ \E a \in Article : Send(a)
  \/ \E c \in Caller : GateShut(c) \/ Verdict(c) \/ Resume(c)
  \/ SendReturns \/ SendThrows
  \/ \E n \in WindowId : Sweep(n)
  \/ Tick \/ Crash
  \/ \E k \in RowKey : ClaimAges(k)

Spec == Init /\ [][Next]_vars

\* Promises settle, the timer of the sweep fires, time passes, and the health
\* gate is not shut for ever, whichever message of a flush comes to it.
FairSpec ==
  /\ Spec
  /\ \A c \in Caller : WF_vars(Resume(c))
  /\ \A n \in 1 .. MaxItems :
       SF_vars(\E c \in Caller \ {Router} : Len(task[c].batch) = n /\ Verdict(c))
  /\ WF_vars(SendReturns) /\ WF_vars(SendThrows)
  /\ \A n \in WindowId : WF_vars(Sweep(n))
  /\ WF_vars(Tick)
  /\ \A k \in RowKey : WF_vars(ClaimAges(k))

-----------------------------------------------------------------------------
\* What became of an article in a row that ran out of attempts.
GivenUp(a) ==
  \E k \in RowKey :
    /\ Exhausted(k)
    /\ IF k[1] = "card" THEN k[2] \in DOMAIN windows /\ a \in Members(windows[k[2]].items)
                        ELSE k[2] = a

\* A crash fell between the card of a window and its closing: the window goes on
\* collecting, and the row of its card is settled.
CutShort(a) ==
  /\ crashes > 0
  /\ \E n \in DOMAIN windows : Done(<<"card", n>>) /\ a \in Members(windows[n].items)

\* An article recorded as forwarded in summary mode is in the chat or waits in
\* an open window, which the sweep will find: a flush, the threshold, a second
\* flush of the same window or a crash strands none (the comment in
\* ensureWindow), unless the crash cut a window short.
NoItemIsStranded ==
  Summary =>
    \A a \in forwarded \ capped :
      \/ shown[a] > 0 \/ GivenUp(a)
      \/ \E n \in DOMAIN windows : windows[n].open /\ a \in Members(windows[n].items)
      \/ CutShort(a)

\* Outside the windows an article is shown once, crashes aside.
ShownOnce == ~Summary => \A a \in Article : shown[a] <= 1 + crashes

\* "The digest batch is not lost" (TargetRuntime's constructor): what a digest
\* took is shown, waits in the stored buffer, or is being sent.
DigestKeepsItsBatch ==
  mode.kind = "digest" =>
    \A a \in forwarded :
      \/ shown[a] > 0 \/ a \in Members(storedBuffer) \/ a \in Members(task[Router].batch)
      \/ GivenUp(a)

\* Every window is closed in the end: its items are sent, or their rows ran out
\* of attempts (startFlushLoop).
EveryWindowCloses ==
  \A n \in WindowId : (n \in DOMAIN windows) ~> (n \in DOMAIN windows /\ ~windows[n].open)

=============================================================================
