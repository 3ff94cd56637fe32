----------------------------- MODULE QqInbound -----------------------------
(***************************************************************************)
(* How the events of one chat reach the reactions: the webhook endpoint,   *)
(* its ledger and its recovery passes (src/components/qq-ingress.ts and    *)
(* src/pipeline/qq-inbound-store.ts), the history mirror they read         *)
(* (src/components/qq-history-sync.ts, src/pipeline/qq-messages.ts) and    *)
(* the dispatch of the rules (src/pipeline/qq-reactions.ts).               *)
(*                                                                         *)
(* Body[n] is the n-th message of the chat; its id and its time are n.     *)
(* The bridge may post it to the webhook never, once or more often.  A     *)
(* worker is the handler of a webhook, Hook, or a recovery pass: a pass    *)
(* started by the timer does not wait for the one before it.               *)
(***************************************************************************)
EXTENDS QqEvents, SequencesExt

CONSTANTS Hook, Passes,       \* the workers
          Body,               \* the messages of the chat, oldest first
          Rules, Admins,      \* the configuration of the endpoint
          KnownSelf,          \* its self_ids
          Count, MaxPages,    \* messages per page of history, pages per run
          Budget,             \* rows a recovery pass reads from the mirror
          Scenes              \* bounds: [length, passes, posts, restarts, slips]

ASSUME InboundAssumption ==
  /\ Hook \notin Passes
  /\ {Count, MaxPages, Budget} \subseteq Nat \ {0}
  /\ Body \in Seq(ToSet(Body)) /\ Rules \in Seq(ToSet(Rules))
  /\ \A r \in DOMAIN Rules : Rules[r].actions \in Seq(ToSet(Rules[r].actions))
  /\ \A n \in DOMAIN Body : Body[n].id = n /\ Normalizable(Body[n])
  /\ ValidRules(Rules)
  /\ \A s \in Scenes : s.length \in 1 .. Len(Body) /\ Len(s.posts) = s.length /\ s.passes \subseteq Passes

VARIABLES
  scene,     \* how long the chat gets, which passes run, how often a message is posted,
             \* the process restarts and the bridge fails
  last,      \* how many messages the chat has so far
  posts,     \* how often each was posted to the webhook
  ledger,    \* the row of each message: [status, stale, raw]
  mirror,    \* the messages in qq_messages
  cursor,    \* the persisted cursor of the history sync
  sync,      \* its run: [pc, from, top, anchor, page, by]
  selfIds,   \* what the endpoint knows to be itself
  hits,      \* the quota gate: fires of each rule in its window
  work,      \* what each worker is at
  claims,    \* the outbound row of each action of each message
  shown,     \* how often each such action reached the chat
  restarts, slips,
  beyond     \* (history) what lay deeper than the budget of a finished run, or was overtaken by
             \* a live message while a run paged

vars == <<scene, last, posts, ledger, mirror, cursor, sync, selfIds, hits, work, claims, shown, restarts, slips, beyond>>

stores == <<ledger, mirror, cursor>>
world == <<scene, last, posts, restarts, slips>>
sends == <<claims, shown>>

Workers == {Hook} \cup Passes

Messages == DOMAIN Body

Actions == UNION {{<<r, a>> : a \in DOMAIN Rules[r].actions} : r \in DOMAIN Rules}

NoRow == [status |-> "none", stale |-> FALSE, raw |-> "object"]

IdleSync == [pc |-> "idle", from |-> 0, top |-> 0, anchor |-> 0, page |-> 0, by |-> Hook]

Idle == [pc |-> "idle", n |-> 0, recovered |-> FALSE, rule |-> 0, action |-> 0,
         failed |-> FALSE, quick |-> {}, todo |-> {}, phase |-> "live"]

Init ==
  /\ scene \in Scenes
  /\ last = 0
  /\ posts = [n \in Messages |-> 0]
  /\ ledger = [n \in Messages |-> NoRow]
  /\ mirror = {}
  /\ cursor = 0
  /\ sync = IdleSync
  /\ selfIds = KnownSelf
  /\ hits = [r \in DOMAIN Rules |-> 0]
  /\ work = [w \in Workers |-> Idle]
  /\ claims = [n \in Messages |-> [k \in Actions |-> "none"]]
  /\ shown = [n \in Messages |-> [k \in Actions |-> 0]]
  /\ restarts = 0
  /\ slips = 0
  /\ beyond = {}

-----------------------------------------------------------------------------
(* One event.  A replayed event is built from its mirror row: it has no    *)
(* self id, and its payload is the string the row holds.                   *)

Event == [n \in Messages |-> Normalize(Body[n])]

EventOf(n, recovered) ==
  IF recovered
  THEN [Event[n] EXCEPT !.kind = "message", !.self = Missing, !.mentions = {}, !.recovered = TRUE]
  ELSE Event[n]

IsSelfEcho(event, self) ==
  \/ event.kind = "message_sent"
  \/ event.kind = "message" /\ event.user # Missing /\ (event.user = event.self \/ event.user \in self)

Learned(event) == IF event.self = Missing THEN selfIds ELSE selfIds \cup {event.self}

\* process() up to its first await; `rows' is the ledger it finds, `todo' the messages its worker goes on with.
Process(w, n, recovered, rows, todo, phase) ==
  LET event == EventOf(n, recovered)
      next == [Idle EXCEPT !.pc = IF phase = "live" THEN "idle" ELSE phase, !.todo = todo, !.phase = phase]
  IN  /\ selfIds' = Learned(event)
      /\ IF IsSelfEcho(event, selfIds')
         THEN /\ ledger' = [rows EXCEPT ![n].status = "skipped"]
              /\ work' = [work EXCEPT ![w] = next]
              /\ UNCHANGED <<mirror, beyond>>
         ELSE /\ ledger' = [rows EXCEPT ![n].status = "dispatching"]
              /\ mirror' = mirror \cup {n}
              /\ work' = [work EXCEPT ![w] = [next EXCEPT !.pc = "rule", !.n = n, !.recovered = recovered, !.rule = 1]]
              /\ beyond' = IF sync.pc = "page" THEN beyond \cup ((sync.top + 1) .. (n - 1)) ELSE beyond

Recorded(n, raw) == [ledger EXCEPT ![n] = [status |-> "received", stale |-> FALSE, raw |-> raw]]

\* The chat goes on.
Say ==
  /\ last < scene.length
  /\ last' = last + 1
  /\ UNCHANGED <<stores, sync, selfIds, hits, work, sends, scene, posts, restarts, slips, beyond>>

\* ingest: a post whose message has a row already is answered and dropped.
Post(n) ==
  /\ n \in 1 .. last /\ posts[n] < scene.posts[n]
  /\ work[Hook].pc = "idle"
  /\ posts' = [posts EXCEPT ![n] = @ + 1]
  /\ IF ledger[n].status # "none"
     THEN UNCHANGED <<ledger, mirror, selfIds, work, beyond>>
     ELSE Process(Hook, n, FALSE, Recorded(n, "object"), {}, "live")
  /\ UNCHANGED <<cursor, sync, hits, sends, scene, last, restarts, slips>>

-----------------------------------------------------------------------------
(* dispatchActions: the rules in turn, every action of a rule that fires.  *)

NextRule(w) == [work[w] EXCEPT !.pc = "rule", !.rule = @ + 1, !.action = 0]

NextAction(w, failed) ==
  IF work[w].action < Len(Rules[work[w].rule].actions)
  THEN [work[w] EXCEPT !.pc = "act", !.action = @ + 1, !.failed = @ \/ failed]
  ELSE [NextRule(w) EXCEPT !.failed = @ \/ failed]

Allowed(r) == Rules[r].max = 0 \/ hits[r] < Rules[r].max

Rule(w) ==
  /\ work[w].pc = "rule" /\ work[w].rule \in DOMAIN Rules
  /\ LET r == work[w].rule
         fires == RuleMatches(Rules[r], EventOf(work[w].n, work[w].recovered), Admins) /\ Allowed(r)
     IN  /\ work' = [work EXCEPT ![w] = IF fires THEN [@ EXCEPT !.pc = "act", !.action = 1] ELSE NextRule(w)]
         /\ hits' = [hits EXCEPT ![r] = IF fires /\ Rules[r].max # 0 THEN @ + 1 ELSE @]
  /\ UNCHANGED <<stores, sync, selfIds, sends, world, beyond>>

ActionAt(w) == Rules[work[w].rule].actions[work[w].action]

\* A quick operation is planned, the first one wins.
Quick(w) ==
  /\ work[w].pc = "act" /\ ActionAt(w).type = "quick_operation"
  /\ LET planned == QuickOperation(EventOf(work[w].n, work[w].recovered), ActionAt(w))
     IN  work' = [work EXCEPT ![w] = [NextAction(w, FALSE) EXCEPT !.quick = IF @ = {} THEN planned ELSE @]]
  /\ UNCHANGED <<stores, sync, selfIds, hits, sends, world, beyond>>

\* (mutant) a claim in progress passes for an answer
BeginTrusts(w) ==
  /\ work[w].pc = "act" /\ ActionAt(w).type # "quick_operation"
  /\ LET n == work[w].n
         k == <<work[w].rule, work[w].action>>
     IN  IF claims[n][k] \in {"none", "failed"}
         THEN /\ claims' = [claims EXCEPT ![n][k] = "sending"]
              /\ work' = [work EXCEPT ![w].pc = "send"]
         ELSE /\ work' = [work EXCEPT ![w] = NextAction(w, FALSE)]
              /\ UNCHANGED claims
  /\ UNCHANGED <<stores, sync, selfIds, hits, shown, world, beyond>>

\* A send is claimed and begun.  A reply that has nowhere to go fails; to forward to nobody is done.
Begin(w) ==
  /\ work[w].pc = "act" /\ ActionAt(w).type # "quick_operation"
  /\ LET n == work[w].n
         k == <<work[w].rule, work[w].action>>
         to == Destinations(ActionAt(w), EventOf(n, work[w].recovered), Admins)
         failed == IF to = {} THEN ActionAt(w).type # "forward" ELSE claims[n][k] = "sending"
     IN  \/ /\ to # {} /\ claims[n][k] \in {"none", "failed"}
            /\ claims' = [claims EXCEPT ![n][k] = "sending"]
            /\ work' = [work EXCEPT ![w].pc = "send"]
         \/ /\ to = {} \/ claims[n][k] \in {"sending", "sent"}
            /\ work' = [work EXCEPT ![w] = NextAction(w, failed)]
            /\ UNCHANGED claims
  /\ UNCHANGED <<stores, sync, selfIds, hits, shown, world, beyond>>

End(w) ==
  /\ work[w].pc = "send"
  /\ LET n == work[w].n
         k == <<work[w].rule, work[w].action>>
     IN  \/ /\ claims' = [claims EXCEPT ![n][k] = "sent"]
            /\ shown' = [shown EXCEPT ![n][k] = 1]
            /\ work' = [work EXCEPT ![w] = NextAction(w, FALSE)]
            /\ UNCHANGED slips
         \/ /\ slips < scene.slips
            /\ claims' = [claims EXCEPT ![n][k] = "failed"]
            /\ work' = [work EXCEPT ![w] = NextAction(w, TRUE)]
            /\ slips' = slips + 1
            /\ UNCHANGED shown
  /\ UNCHANGED <<stores, sync, selfIds, hits, scene, last, posts, restarts, beyond>>

\* The verdict; a pass goes on with its list.
Verdict(w) ==
  /\ work[w].pc = "rule" /\ work[w].rule \notin DOMAIN Rules
  /\ ledger' = [ledger EXCEPT ![work[w].n].status = IF work[w].failed THEN "error" ELSE "ok"]
  /\ work' = [work EXCEPT ![w] = [Idle EXCEPT !.pc = IF work[w].phase = "live" THEN "idle" ELSE work[w].phase,
                                              !.todo = work[w].todo, !.phase = work[w].phase]]
  /\ UNCHANGED <<mirror, cursor, sync, selfIds, hits, sends, world, beyond>>

-----------------------------------------------------------------------------
(* The history sync: one run at a time; a call during a run returns.       *)

PageFrom(newest) == {n \in 1 .. newest : n > newest - Count}

StartSync(by) == sync' = [IdleSync EXCEPT !.pc = "first", !.from = cursor, !.by = by]

SyncTimer ==
  /\ sync.pc = "idle"
  /\ StartSync(Hook)
  /\ UNCHANGED <<stores, selfIds, hits, work, sends, world, beyond>>

\* The owner's await ends with the run: it goes on, or its pass is rejected.
Released(failed) ==
  IF sync.by \in Passes
  THEN [work EXCEPT ![sync.by] = IF failed THEN Idle ELSE [Idle EXCEPT !.pc = "list", !.phase = "replay"]]
  ELSE work

\* How deep a run can heal: its first page, and pages that hold their anchor again.
Reach == Count + MaxPages * (Count - 1)

\* The cursor moves to the newest row of the mirror; `lost' is what lay too deep for the run.
Finish(rows, lost) ==
  LET newest == Max(rows \cup {0})
  IN  /\ cursor' = IF newest > cursor THEN newest ELSE cursor
      /\ beyond' = beyond \cup lost
      /\ sync' = IdleSync
      /\ work' = Released(FALSE)

\* (mutant) the cursor moves before the gap below the page is healed
FirstPageEager ==
  /\ sync.pc = "first"
  /\ LET page == PageFrom(last)
         oldest == Min(page)
     IN  /\ mirror' = mirror \cup page
         /\ cursor' = Max(mirror' \cup {0})
         /\ IF sync.from > 0 /\ page # {} /\ oldest > sync.from
            THEN /\ sync' = [sync EXCEPT !.pc = "page", !.top = last, !.anchor = oldest]
                 /\ UNCHANGED <<work, beyond>>
            ELSE /\ sync' = IdleSync
                 /\ work' = Released(FALSE)
                 /\ beyond' = beyond \cup (IF sync.from = 0 THEN 1 .. (last - Count) ELSE {})
  /\ UNCHANGED <<ledger, selfIds, hits, sends, world>>

\* The newest page, the only one of the first run ever.
FirstPage ==
  /\ sync.pc = "first"
  /\ LET page == PageFrom(last)
         oldest == Min(page)
     IN  /\ mirror' = mirror \cup page
         /\ IF sync.from > 0 /\ page # {} /\ oldest > sync.from
            THEN /\ sync' = [sync EXCEPT !.pc = "page", !.top = last, !.anchor = oldest]
                 /\ UNCHANGED <<cursor, work, beyond>>
            ELSE Finish(mirror', IF sync.from = 0 THEN 1 .. (last - Count) ELSE {})
  /\ UNCHANGED <<ledger, selfIds, hits, sends, world>>

\* Backwards from the anchor, which the page holds again.
OlderPage ==
  /\ sync.pc = "page"
  /\ LET page == PageFrom(sync.anchor)
         oldest == Min(page)
     IN  /\ mirror' = mirror \cup page
         /\ IF oldest > sync.from /\ oldest # sync.anchor /\ sync.page + 1 < MaxPages
            THEN /\ sync' = [sync EXCEPT !.anchor = oldest, !.page = @ + 1]
                 /\ UNCHANGED <<cursor, work, beyond>>
            ELSE Finish(mirror', (sync.from + 1) .. (sync.top - Reach))
  /\ UNCHANGED <<ledger, selfIds, hits, sends, world>>

\* The bridge is down: the run throws, the cursor stays.
SyncFails ==
  /\ sync.pc # "idle" /\ slips < scene.slips
  /\ slips' = slips + 1
  /\ sync' = IdleSync
  /\ work' = Released(TRUE)
  /\ UNCHANGED <<stores, selfIds, hits, sends, scene, last, posts, restarts, beyond>>

-----------------------------------------------------------------------------
(* recover()                                                               *)

PassBegins(w) ==
  /\ w \in scene.passes /\ work[w].pc = "idle"
  /\ IF sync.pc = "idle"
     THEN StartSync(w) /\ work' = [work EXCEPT ![w] = [Idle EXCEPT !.pc = "sync", !.phase = "replay"]]
     ELSE work' = [work EXCEPT ![w] = [Idle EXCEPT !.pc = "list", !.phase = "replay"]] /\ UNCHANGED sync
  /\ UNCHANGED <<stores, selfIds, hits, sends, world, beyond>>

\* The oldest rows of the mirror, as many as the budget, handled or not; they
\* are worked through in the order of the chat.
Listed == {n \in mirror : Cardinality({m \in mirror : m < n}) < Budget}

List(w) ==
  /\ work[w].pc = "list"
  /\ work' = [work EXCEPT ![w] = [@ EXCEPT !.pc = "replay", !.todo = Listed]]
  /\ UNCHANGED <<stores, sync, selfIds, hits, sends, world, beyond>>

Skips(n) == Body[n].user \in selfIds \/ ledger[n].status # "none"

Replay(w) ==
  /\ work[w].pc = "replay" /\ work[w].todo # {}
  /\ LET n == Min(work[w].todo)
         rest == work[w].todo \ {n}
     IN  IF Skips(n)
         THEN /\ work' = [work EXCEPT ![w].todo = rest]
              /\ UNCHANGED <<ledger, mirror, selfIds, beyond>>
         ELSE Process(w, n, TRUE, Recorded(n, "string"), rest, "replay")
  /\ UNCHANGED <<cursor, sync, hits, sends, world>>

\* (mutant) a dispatch that was begun counts as done
DiedUnbegun(n) == ledger[n].status = "received"

Died(n) == ledger[n].status = "received" \/ (ledger[n].status = "dispatching" /\ ledger[n].stale)

\* pending(): read once, then worked through whatever happens to its rows.
Pending(w) ==
  /\ work[w].pc = "replay" /\ work[w].todo = {}
  /\ work' = [work EXCEPT ![w] = [Idle EXCEPT !.pc = "pending", !.phase = "pending",
                                              !.todo = {n \in Messages : Died(n)}]]
  /\ UNCHANGED <<stores, sync, selfIds, hits, sends, world, beyond>>

Redispatch(w) ==
  /\ work[w].pc = "pending" /\ work[w].todo # {}
  /\ LET n == Min(work[w].todo)
         rest == work[w].todo \ {n}
     IN  IF ledger[n].raw = "string"
         THEN /\ ledger' = [ledger EXCEPT ![n].status = "bad"]
              /\ work' = [work EXCEPT ![w].todo = rest]
              /\ UNCHANGED <<mirror, selfIds, beyond>>
         ELSE Process(w, n, FALSE, ledger, rest, "pending")
  /\ UNCHANGED <<cursor, sync, hits, sends, world>>

PassEnds(w) ==
  /\ work[w].pc = "pending" /\ work[w].todo = {}
  /\ work' = [work EXCEPT ![w] = Idle]
  /\ UNCHANGED <<stores, sync, selfIds, hits, sends, world, beyond>>

-----------------------------------------------------------------------------
(* Time and restarts                                                       *)

\* A dispatch is five minutes old.
Age(n) ==
  /\ ledger[n].status = "dispatching" /\ ~ledger[n].stale
  /\ ledger' = [ledger EXCEPT ![n].stale = TRUE]
  /\ UNCHANGED <<mirror, cursor, sync, selfIds, hits, work, sends, world, beyond>>

\* A claim whose sender died becomes free again; the send may have reached the chat.
Stale(n, k) ==
  /\ claims[n][k] = "sending" /\ ledger[n].stale
  /\ ~ \E w \in Workers : work[w].n = n /\ work[w].pc = "send" /\ k = <<work[w].rule, work[w].action>>
  /\ claims' = [claims EXCEPT ![n][k] = IF shown[n][k] > 0 THEN "sent" ELSE "failed"]
  /\ UNCHANGED <<stores, sync, selfIds, hits, work, shown, world, beyond>>

\* The window of a quota slides on.
WindowSlides ==
  /\ \E r \in DOMAIN Rules : hits[r] > 0
  /\ hits' = [r \in DOMAIN Rules |-> 0]
  /\ UNCHANGED <<stores, sync, selfIds, work, sends, world, beyond>>

\* The process dies wherever it is, a send perhaps after it was shown.
Restart ==
  /\ restarts < scene.restarts
  /\ restarts' = restarts + 1
  /\ work' = [w \in Workers |-> Idle]
  /\ sync' = IdleSync
  /\ selfIds' = KnownSelf
  /\ hits' = [r \in DOMAIN Rules |-> 0]
  /\ UNCHANGED <<stores, claims, scene, last, posts, slips, beyond>>
  /\ \/ UNCHANGED shown
     \/ \E w \in Workers :
          /\ work[w].pc = "send"
          /\ shown' = [shown EXCEPT ![work[w].n][<<work[w].rule, work[w].action>>] = 1]

Dispatch(w) == Rule(w) \/ Quick(w) \/ Begin(w) \/ End(w) \/ Verdict(w)

Pass(w) == PassBegins(w) \/ List(w) \/ Replay(w) \/ Pending(w) \/ Redispatch(w) \/ PassEnds(w)

Sync == SyncTimer \/ FirstPage \/ OlderPage

Next ==
  \/ Say
  \/ \E n \in Messages : Post(n) \/ Age(n)
  \/ \E w \in Workers : Dispatch(w) \/ Pass(w)
  \/ Sync \/ SyncFails
  \/ \E n \in Messages, k \in Actions : Stale(n, k)
  \/ WindowSlides
  \/ Restart

Spec == Init /\ [][Next]_vars

(* The endpoint's timers and awaits go on, rows age; the bridge answers    *)
(* in the end since its failures are bounded.                              *)
Fairness ==
  /\ \A w \in Workers : WF_vars(Dispatch(w) \/ Pass(w))
  /\ WF_vars(Sync)
  /\ WF_vars(\E n \in Messages : Age(n))

FairSpec == Spec /\ Fairness

-----------------------------------------------------------------------------
(* Properties                                                              *)

TypeOK ==
  /\ last \in 0 .. Len(Body)
  /\ mirror \subseteq Messages /\ beyond \subseteq Messages
  /\ cursor \in 0 .. Len(Body)
  /\ \A n \in Messages :
       /\ ledger[n].status \in {"none", "received", "dispatching", "ok", "error", "skipped", "bad"}
       /\ \A k \in Actions : claims[n][k] \in {"none", "sending", "sent", "failed"} /\ shown[n][k] \in 0 .. 1
  /\ \A w \in Workers : work[w].pc \in {"idle", "sync", "list", "replay", "pending", "rule", "act", "send"}

Own(n) == Body[n].post = "message_sent" \/ Body[n].user \in KnownSelf

\* What the cursor of the history sync has passed is in the mirror, unless it lay deeper than the
\* Reach newest messages of the run that passed it (the Count newest of the first run), or was said
\* while a run paged and overtaken by a live message.  So within its budget a run heals every gap,
\* whatever fails, dies or comes in live on the way; past it, the cursor moves all the same.
CursorIsHonest == 1 .. cursor \subseteq mirror \cup beyond

\* A row is `ok' only when every message its unlimited rules had to send was sent, whichever
\* deliveries, passes, failures and crashes it went through (a forward to nobody sends none).
OkMeansAnswered ==
  \A n \in Messages : ledger[n].status = "ok" =>
    \A k \in Actions :
      LET event == EventOf(n, ledger[n].raw = "string")
          action == Rules[k[1]].actions[k[2]]
      IN  /\ Rules[k[1]].max = 0 /\ RuleMatches(Rules[k[1]], event, Admins)
          /\ action.type # "quick_operation"
          /\ action.type = "forward" => Destinations(action, event, Admins) # {}
          => claims[n][k] = "sent" /\ shown[n][k] > 0

\* Every message of the chat is handled in the end, however often its post was lost, the history
\* failed or the process died: it has a verdict, it is the bot's own, or it lay beyond the runs.
EveryMessageIsHandled ==
  []<>(scene.passes # {} => \A n \in 1 .. last :
         ledger[n].status \in {"ok", "error", "skipped", "bad"} \/ Own(n) \/ n \in beyond \ mirror)

=============================================================================
