# kyestu in TLA+

kyestu crawls social platforms and relays new posts to chat groups and feeds. The program is a
tree of *fibers*: components that are mounted, find each other through keys of a coeffect store,
and are loaded and unloaded as the keys they need come and go. On top of that core runs the
pipeline: crawlers store and announce articles, a router drives them along configured routes,
targets send them, and a ledger in SQLite remembers what has been sent.

The whole program is one thread. What makes it hard is everything that happens between two
`await`s: fibers are torn down while their promises are still in flight, timers fire, sends fail
after they succeeded, the process dies. The modules here model that control; text, media and
rendering are left out.

Contents: 1 the system, 2 modules and code, 3 runs, 4 fairness, 5 proofs, 6 what the runs found,
7 what is abstracted, 8 what is not modelled, 9 plan.

## 1. The system

| component (src/src/) | state | operations | who it talks to |
|---|---|---|---|
| fiber runtime, `core/runtime.ts` | registered fibers; per fiber its state, target, committed view, generation and accumulator of inverses; the coeffect store | `use`, `dispose`, `reset`, `ctx.set`, `ctx.effect`, `refresh`, `startLoad`, `startUnload`, `waitDependents`, `runInverses`, `notify` | every component is a fiber; owners and dependents meet in the store |
| loader, `loader/loader.ts` | entries and their fibers | `load`, `reconcile`, `rebuild` | mounts and disposes fibers |
| bus, `components/bus.ts`, `core/emitter.ts` | subscribers | synchronous `emit` | crawler to router, qq channels, session states |
| crawler, `components/crawler.ts` | the round in flight, its generation, the `CooldownMap` | rounds, `persistOne`, post-processors | platforms, database, bus, the session board |
| router, `components/router.ts` | pending queue (memory and `service_state`), `draining`, `alive` | `enqueue`, `drain`, `dispatch`, `persistQueue`, the 15 s sweep | formatters, targets, `forward_by` |
| outbound ledger, `pipeline/outbound.ts` | a row per target and message: status, attempts, age | `claim`, `mark`, `prune` | all targets |
| QQ target, `components/target-qq.ts` | pacing, health circuit | `send`, `rawSend`, `verifyReceipts`, `recall` | OneBot, ledger |
| Bilibili target, `components/target-bilibili.ts` | pacing | `send`, `rawSend`, video upload | Bilibili, ledger, pairing |
| target runtime, `pipeline/target-runtime.ts`, `aggregation.ts` | digest buffer, marks of first messages, aggregation windows and their items | `send`, `flush`, the 30 s sweep | `rawSend` of its target |
| onebot client, `components/onebot.ts`, `pipeline/onebot-*.ts` | capabilities of the bridge | `sendGuarded`, `reconcileAmbiguousSend`, uploads, classification | the bridge, QQ targets |
| qq health circuit, `pipeline/qq-health.ts` | ok, suspect or open, and until when | `gate`, `recordFailure`, `recordSuccess`, `runProbe` | QQ targets, OneBot, store |
| cooldown, `pipeline/cooldown.ts` | expiry and level of a url, memory and `service_state` | `check`, `hit`, `succeed` | crawlers, store |
| session health, `pipeline/session-health.ts` | a slot per session, memory and `service_state` | `guard`, `record`, `snapshot` | crawlers, keepalive, bus, store |
| keepalive, `components/cookie-keepalive.ts` | timers, disarmed jobs, jobs in flight; publishes the board | `arm`, `runJob`, the 15 s ticker | browser, board, bus |
| browser pool, `components/browser-pool.ts` | sessions, pending launches, backoff, closing | `createPage`, `evictSession`, `closeAll` | crawlers, spiders |
| LLM processor, `components/llm-openai.ts` | per provider: circuit, failures in a row, last error | `process`, `unfreeze` | store, crawlers |
| qq inbound, `components/qq-ingress.ts`, `qq-history-sync.ts`, `pipeline/qq-*.ts` | ledger of events, mirror of the chats, cursor of the history, quotas | webhook, `recover`, `sync`, `dispatchActions` | the bridge, outbound ledger |
| short videos, `pipeline/short-video-dedup.ts`, `pairing.ts`, `bilibili-reconcile.ts` | claims, teasers waiting, the marker of a restored database | `check`, `claim`, `hold`, `findPending`, reconciliation | Bilibili target |
| spiders (src/packages/spider/src/spiders/), `x.ts`, `instagram.ts`, `tiktok.ts`, `youtube.ts` | caches of ids, rejections and profiles, breakers, the rotation of a list | `crawl` | platforms, browser pool; called by crawlers |
| loader, host pacer, live relay, content, configuration, api, render | timers and data | see section 8 | everybody |

What has to be right, component by component:

- *Runtime*. A fiber runs exactly on the owners it was loaded against. A provider cleans up only
  after its dependents have left. Inverses of one load never touch the bindings of another. A
  disposal ends and leaves nothing behind.
- *Ledger*. A message has one sender at a time, a bounded number of attempts, and a terminal
  status is final.
- *Router*. An article is delivered along every leg, or given up with a taint, whatever is rebuilt
  meanwhile. `forward_by` is the only thing that stops an article from coming back, so it must not
  be written for a message that nobody sent.
- *Targets*. A part of a message appears once.
- *Crawler and keepalive*. A url that cools down and a session in quarantine are left alone, also right
  after a rebuild or a restart, by rounds and jobs that a rebuild does not cancel. An article is announced
  once. A job has one timer, and comes back when its session does.
- *QQ sends*. A request whose answer was lost is not repeated before the history of the chat has been
  asked; every message settles although the circuit opens and closes; a restart keeps the circuit.
- *QQ inbound*. Every message gets a verdict however its post fares, `ok` is only said of what was answered,
  and within the page budget of a run the cursor of the history passes nothing that is not in the mirror.
- *Videos*. Twins from two platforms are not both uploaded, none is dropped in favour of one that is never
  shown, and a restored database learns what the accounts already show.
- *Spiders*. What one source has yielded survives the failure of the next; a failed membership look-up never
  opens a list; callers that share a look-up are all served, once; a rotation reaches everybody.
- *Browser pool, LLM circuit*. No browser without an owner; a restart forgets no failure.
- *Target runtime*. An article that counts as forwarded is in the chat, or in a window or a buffer
  that somebody will send.

The hazards behind these, line by line, are the `hazards` of `PROJECT.json`.

## 2. Modules and code

```
FiberRuntime <- FiberGenerations <- FiberRuntimeProofs, MCFiberGenerations; FiberRuntime <- MCFiberRuntime

Outbound <- OutboundProofs
Outbound <- Delivery (implements Courier) <- DeliveryProofs (over OutboundProofs), MCDelivery
Outbound <- TargetRuntime <- TargetRuntimeProofs (over OutboundProofs), MCTargetRuntime

Cooldown, SessionHealth <- Crawl <- CrawlProofs, MCCrawl
Outbound, OneBotSemantics, QqHealth <- QqSends <- QqSendsProofs (over OutboundProofs), MCQqSends
QqEvents <- QqInbound <- QqInboundProofs, MCQqInbound
ShortVideoDedup <- Videos <- MCVideos

Filters <- XList, XPage
BrowserPool, XList, XApi, XPage, TikTok, Instagram, YouTube, LlmCircuit <- Spiders <- MCSpiders
Videos, Spiders, Filters <- SpiderProofs
```

**FiberRuntime** (`core/runtime.ts`). `state`, `retired`, `target`, `committed`, `generation` and
`acc` are the fields of `Fiber` with those names (`targetDigest` and `digestAtStart` are the views
`target` and `committed`); `store` is `Root.store`; `phase` says at which `await` the transition in
flight stands: `applying` inside `apply()`, `waiting` in `waitDependents()`, `draining` in
`runInverses()`. The code recurses synchronously through `notify`, `refresh`, `kick`,
`startUnload`, `notify`. Here that recursion is a worklist, `pending`: while it is not empty only
`Refresh` is enabled, so a handler still runs to completion, but in any order of the fibers it
reaches, which is more than the code does. `zombies` are the accumulators a guard detached while
a drain still holds them. `Recover`, `Unset`, `DisposeChild` and `ChildDisposed` are the kinds of
inverse: that of an effect, that of `ctx.set`, and the two halves of that of `use`.

**FiberGenerations** adds a history variable that records which load of each owner a fiber was
loaded against. The code compares owners by uid only; the module asks whether that is enough.

**Outbound** (`pipeline/outbound.ts`). `row` is the table; `holds` says which caller got which
claim and has not marked it. `Claim`, `Done`, `Exhausted` and `InProgress` are the outcomes of
`claim()`, `Mark` is `mark()`, `Age` is the passing of the stale window, `Abandon` is the end of
the process. `LedgerSpec` closes it under any caller, so that it can be proved about on its own.

**Delivery** (`router.ts`, `target-qq.ts`, `target-bilibili.ts` and the ledger). Each application
of the router is an incarnation with a queue and a drain of its own, because nothing cancels a
drain that is in flight when the fiber is disposed: `alive` only stops it from persisting. A task
walks `leg -> send -> chunk -> return`, or to `throw`, one step for each `await`: `Take` is
`queue.shift()`, `LegDone`, `LegDeferred` and `LegRendered` are `dispatch()`, `SendSkips` to
`ChunkDoubtful` are `send()` and `rawSend()`, `SendReturns` is `markForwarded`, `DispatchReturns` and
`DispatchThrows` are the two ends of the `try` in `drain()`.

**Courier** is the abstract specification: the parts of a message are posted in order and once each, once more
for every crash that cut the message off, and nothing is posted after the message is settled, whether it is
complete, cut short by a failed part, or given up.
`Delivery` implements it, crashes and rebuilds included, where every answer of the platform is
definite (`Promise == INSTANCE Courier WITH ...`, checked as `PostsEachPartOnce`).

**TargetRuntime** (`target-runtime.ts`, `aggregation.ts`, again over `Outbound`). One caller is the
router; the others are flushes a sweep has started and not awaited. `windows` is the table of
aggregation windows with their items. `mode` chooses between passing on, digest, summary, and
summary with `send_first_immediately` (called `ahead`). Delivery composes the ledger with the
router; this module composes the same ledger with what lies between the two.

**Cooldown** and **SessionHealth** (`cooldown.ts`, `session-health.ts`) are the two ladders as operators on
an entry and on a slot: `Hit`, `Recorded`, `Looked` are `hit()`, `record()` and the lifting of a
quarantine inside `guard()` and `snapshot()`. Absolute times are what is left of them.

**Crawl** (`crawler.ts`, `cookie-keepalive.ts`, `articles.ts` over the ladders). A round is kept for every
generation of a crawler, since a rebuild cancels none: `StartRound` and `Proceed` are the gates before a url
(`Visit`), `Fetched` or `Retry` and `Fail` the ends of the fetch, `Process` the await on the processor
inside `persistOne` and `Save` what follows it, `Succeed` and `Fail` the bookkeeping, which `Books`
leaves to the current generation. `memory` is the `CooldownMap` of each generation, `kept` its rows. `boards` are the
`SessionHealthBoard`s the keepalive published one after another, `stored` the rows they share. `RunJob`,
`Probed` and `Settle` are one run of a job, `Resume` the ticker, `Outlive` the end of a job whose
application is gone. `Write` sends each transition to fresh to the bus, where `Woken` arms what is disarmed, whichever board
it comes from.

**OneBotSemantics** (`onebot-semantics.ts`, `onebot-media.ts`, the send classes of `cooldown.ts`) is the table that reads
an answer: kind, class, retry now, drive again. A wording is the set of patterns it matches. **QqHealth** (`qq-health.ts`)
is the board as operators on a snapshot, with times as what is left of them.

**QqSends** (`target-qq.ts`, `onebot.ts`, `onebot-send-reconcile.ts`, over the two and the ledger). A `task` is one
`rawSend`, one step per await: `Send`, `Probe`, `Pass` are the gate, `Claimed` to `ClaimDenied` the claim, `Asks` the capability
probe, `Builds` the segments, `Answered`, `Refused` and `Lost` the outcome of the request, `Guarded`, `Doubted`,
`Adopts`, `ChecksAgain`, `Absent` and `HistoryFails` the reconciliation against `history`, which is the chat as the bridge
shows it. `landing` is what the bridge took and has not shown; `Lands` shows it. `VerifyReads` and `VerifyWrites` are the
two halves of `verifyReceipts`, `BridgeEvent` is `noteBridgeEvent`. `kept` is the stored circuit, `health` the living one.

**QqEvents** (`qq-events.ts`, `qq-reactions.ts`) are the pure parts: what a webhook body means, which rules it fires,
what they plan. **QqInbound** (`qq-ingress.ts`, `qq-inbound-store.ts`, `qq-messages.ts`, `qq-history-sync.ts`) drives them. `Post`
is a delivery of the webhook, `Process` its record in the `ledger` and the start of the dispatch, `Begin` and `End` an
action of a rule with its claim in the outbound ledger (`claims`; a forward that finds nobody to go to is `ok` and claims nothing), `Verdict` the mark after the last one. `PassBegins`, `List`, `Replay`,
`Pending` and `Redispatch` are `recover()`, `StartSync`, `FirstPage`, `OlderPage`, `Finish` are `sync()`, and `Reach` is how many of the newest messages one run can get to. A stored row
remembers whether its payload is an object or, as for what came from the history, a string.

**ShortVideoDedup** (`short-video-dedup.ts`, `pairing.ts`): fingerprints, recall keys and the judgment over posts whose
words are given. **Videos** (`target-bilibili.ts` from `sendVideo` on, `biliup.ts`, `bilibili-reconcile.ts`): `Hold` keeps a teaser,
`Drop` leaves a duplicate out, `Begin` claims and starts the upload with the pending teaser merged, `Succeed`, `Fail` and
`Rejected` end it; `Archives`, `Seed`, `Consume` and `RecoveryFails` are the reconciliation after a restore, and `Reboot` another start of the process.

**XList** is the unified list crawl of `x.ts`: `Timeline`, `Members` or `MembersFail`, then `Chunk`, `Answered` and `Failed`
for the accounts `Selection` picks, `Deliver`. **XApi** is the GraphQL client: per worker the path from `Build` through captured
operations (`Capture`, `Store`), extracted ids (`Extract`), shared look-ups (`Join`, `LookUp`, `Settled`), guest tokens
(`Token`, `Minted`, `Remint`) to the request and its retries (`Send`, `Again`, `Retry`). **XPage** is the crawl from the page, with listeners
that are armed, hear, time out and are taken off (`waitForEvent` of `base.ts`), and what the parsers make of an answer:
tweets, quotations, conversations, cards, media, lists of follows. A quotation is read as deep as X nests it: `Reference` is a
function on `Results`, the results an answer holds. **Filters** is the filter that both share.

**TikTok** tries the API, then the page, the browser and the API again, and remembers `rejected`, `hydration`
and `invalid` in its cache. **Instagram** follows one crawl through the posts, highlights, stories and status, with the race between answers and the
logged-out check (`Silence` is its eight seconds without posts), and its avatar's back-fill behind the breaker of its origin
(`domain-breaker.ts`). A step takes only its own listeners away (`Cleaned`): that of the profile outlives a reload or a crawl that threw, and
what it hears late is still remembered (`Stash`). **YouTube** lists (`Lists`), gates (`Gate`: what is new, due or known), hydrates in
chunks and returns. The store that answers its gate is the caller's and assumed: it keeps what it has of an article and takes in what is new
(`Return`), as `crawler.ts:207` does; `crawler.ts` itself does not wire the gate (section 6).

**BrowserPool** (`browser-pool.ts`): a launch is named by the call and the attempt that made it and is also the name of its
browser; everything between two awaits is one action. **LlmCircuit** (`llm-openai.ts`): texts in flight over two providers,
`failures` and `openUntil` of each one's circuit and the row `stored` of it.

**Spiders** puts these parts side by side, with the channels' rounds and for any values of the constants: they share no
state, so a behaviour is one of the part it names while the others stay as they are. What is proved of a part is proved of
Spiders (`PartsBehave`).

**MC...** modules build the constants of the runs. `MCSpiders` lets the initial state
pick the part. Spiders and `MCSpiders` name the properties of the parts
again, so that a configuration can list them. A definition preceded by a `Bug:` or `Mutant:` comment
is not part of any specification: it is the plausible mistake that a property is tested against.

## 3. Runs

| run | question | bounds | distinct states |
|---|---|---|---|
| `fiber_hotswap` | Two providers of one key and a consumer, with late answers after expired guards: does the consumer run on what it committed to, do old inverses keep off new bindings? | fibers p1, p2, x; x needs k and r; two root sets; guards may expire | 1.26 M |
| `fiber_nested` | A parent with a child and a flaky consumer that acquires a resource: order of leaving, termination | p2, x, kid; guards may expire; failing `apply` | 68 k |
| `fiber_generations` | Provider, middle and end of a chain, reset once: is comparing uids enough? Does what can load load? | p1, y, x, kid; `MaxGen` 2; guards never expire | 79 k |
| `delivery_crash` | A router rebuilt under its drain, and a crash, with messages of two chunks: is each part posted once, but for the crash, and is no event forgotten without a taint? | 1 article, 3 incarnations, 1 crash, 2 attempts, 2 sends | 836 k |
| `delivery_legs` | Two targets of both kinds, policies, empty articles and lost answers: does every article settle? | 2 articles, 1 incarnation, doubtful sends | 73 k |
| `crawl_rebuild` | Crawlers and keepalive rebuilt under their rounds and jobs, and a crash: is an article told once, is a quarantine lifted only when earned, do jobs come back? | 1 crawler without a session, 2 generations, 2 urls, 2 articles; or 1 crawler and a keepalive of its session, 2 boards; 1 crash | 303 k |
| `target_flushes` | The four modes with a sweep's flush beside the router, refusals and a crash | 2 articles, 1 flush of the sweep, 3 windows, 1 slot boundary; threshold 2, in summaries also 1 and 3 | 122 k |
| `qq_sends` | Two overlapping sends with lost answers, refusals, late arrivals, probes, bridge events, receipts and a restart: is nothing shown twice, does the circuit survive, does every message settle? | a post of 2 chunks, one without text, and a note with a video; 2 faults; circuit of 1 to 2 ticks | 157 k |
| `qq_inbound` | Posts lost, doubled, overtaken; overlapping passes; a restart in a dispatch; a failing bridge: does each message get an honest verdict? | four scenes of 1 to 6 messages, 2 rules, pages of 2, 2 pages a run | 263 k |
| `videos` | Twins, teasers, failing uploads, a rebuild and a restored database: are twins kept apart, is everything shown, is the marker kept until it has served? | four scenes of 2 to 4 posts, 2 accounts, 2 drivers | 40 k |
| `spiders` | Eight parts: list, API client, page, TikTok, Instagram, YouTube channel, browser pool, LLM circuit | lists of up to 5 members; 3 workers of 2 crawls; pages of up to 2 entries; 1 round of TikTok with an expiring cache; 3 profiles; three channels of 1 to 4 articles; 2 calls of the pool with 2 attempts; 3 texts over 2 providers | 413 k |

One further run, `x_stale` (of MCSpiders, with the constants of `spiders`), shows a disagreement (section 6). Three more configurations, which are not in the list of runs,
keep counterexamples of section 6; each is started as `tlc -config <file>.cfg <module>`.

Why the bounds are enough to make the interesting cases happen:

- Hot swap needs two providers of one key and somebody who uses it. The second root set is the
  key going away and coming back while an unload is in flight. A third provider only adds order.
- A parent with one child reaches every state of the pruning rules of `settleAfterUnload`, which
  look at one fiber and its parent. The chain p1, y, x is the shortest on which a dependent's
  unload waits for an unload of its own.
- Three incarnations and a crash let a drain left over from the first meet the second in the ledger,
  and the third find what both left there. Two attempts and two
  sends are the least that have both a retry and an exhaustion. Two chunks have a first and a later
  one, which is all `MarkFailure` tells apart.
- A window with threshold and limit two has an empty, a waiting, a full and a flushed state, a
  threshold of three makes the sweep send two items one after the other, a threshold of one makes
  the router flush with every article, and a flush of the sweep beside one of the router are the two flushes of one
  window that the code lets run side by side. The theorems hold for any number of flushes.

- In Crawl two generations overlap, two urls make a round that goes on, and the second article quotes
  the first, which another url shows. Two failures quarantine, so there is a suspect state between; a
  quarantine lifts itself after one tick, a cooldown lasts up to two, and there is one level to escalate to. The
  crawler without a session and the keepalive touch disjoint variables, so they are two configurations
  of one run.

- In QqSends two callers are a redrive and a flush side by side; a lost answer and a refusal, or a lost answer
  and a restart, use the two faults. The second chunk has no text, which the reconciliation cannot look for.
- QqInbound's scenes are: one message and two passes with a restart in its dispatch; two messages and a restart;
  a bridge that posts one of them twice and fails once; and six messages of which the posts of four are lost, so that the history needs
  further pages, meets its budget and, asked late, exceeds it.
- The scenes of Videos have a twin pair with the teaser of both, four posts of which two are alike in nothing, an account
  that suppresses, and an archive that knows one or both of the posts. Drivers are the drains before and after a rebuild.
- The parts of MCSpiders are small because each has one shared thing to fight over: one account name and one client for two
  workers, one page for two listeners, one session key for two calls. A list longer than the
  hydration limit and a limit that does not divide it make the rotation wrap. Three texts and a threshold of two let one succeed
  after the circuit opened under it. The first channel of YouTube has a limit that cuts
  a pending premiere off its first round, and a watch page that fails.

`MaxGen`, `Loads`, `MaxBoards`, `MaxRootSets`, `MaxInc`, `MaxCrashes`, `MaxSlot`, `MaxWindows` are bounds of the
model, not of the program, and guard the actions that would count further. `MaxAttempts`,
`MaxDefers`, `MaxSends`, `MaxTries`, `Threshold`, `MaxItems` and `Chunks` are limits of the program at
small values. All runs have `CHECK_DEADLOCK FALSE`, since every model comes to rest when its bounds
are used up. No run uses symmetry.

What the properties say, where it is not plain from the module:

- `ActiveIsServed` speaks of the moments between two tasks; inside the chain of notifications a
  fiber may be ACTIVE for a few frames after its owner left, and `Coherent` is the invariant of those.
- `DependentsLeaveFirst` excepts an unload whose guard was forced: the code gives up after a while and
  says so with a taint.
- `DuplicatesNeedACrash` counts the copies of a chunk against the claims a crash cut off.
  Each such crash may cost one duplicate, since a row left `sending` is reclaimed when stale.
- `LiftsAreEarned` excepts a session to which an
  older board wrote after the current one was published (`ghosted`): there the code is wrong (section 6), and the
  property says that this is the only way it is.
- `ShownOnce` leaves out the summary modes: an article whose threshold flush was refused is driven
  again by the router although it already waits in the window, and is then shown by
  both. TLC shows it; the repository says nothing to the contrary.
- `NothingAppearsTwice` excepts messages cut off by a restart, sends that ended in doubt (section 6), and messages of one text, which the
  history cannot tell apart: they may adopt each other's copies.
- `NothingForgotten` follows one article in `delivery_crash`, over rebuilds and a crash. With a second one that arrives while
  the first is in the drain's hand it is false, and `Delivery_forgets.cfg` keeps the counterexample (section 6).
- `ForwardedIsSettled` is checked where all targets are QQ groups. For Bilibili it is false (section 6).
- `NoItemIsStranded` is checked for windows that do not end within their slot. For hour-aligned ones it is false (section 6).
- `CursorIsHonest` says what a run heals, for any page size and budget: the `Reach` newest messages, `Reach == Count + MaxPages * (Count - 1)`, since
  each further page holds the message it starts from again, and of the first run ever the `Count` newest. What lies deeper goes to
  `beyond`, and so do messages that were said and lost while a run was paging and then overtaken by a live post. The property
  does not protect these: the cursor passes them all the same, against what the header of the file promises (section 6).
- `OkMeansAnswered` speaks of rules without a quota, since a suppressed action counts as answered, and of actions with somebody to
  go to, since a forward without destinations is `ok` and sends none.
- `NoBrowserIsLost` speaks of an open pool and excepts a key for which a call launched after a pause: it does not look again at
  what was registered meanwhile (section 6).
- `ResolvedIsReported` is about `youtube.ts` under a caller that wires the gate, for premieres that come within the limit sooner or later.
- `EveryMemberComesRound` is stated for lists whose activity is steady; changing activity may starve a member.
- `RestartForgetsNoFailure` says nothing of an opening no failure stands behind: a success in flight when the circuit opened removes the
  stored row and leaves the opening in memory (section 6).

Each module has a `TypeOK`, or types its variables by construction. The runs do not list them; adding `INVARIANT TypeOK` to a configuration checks it.

## 4. Fairness

- *FiberRuntime*. Weak fairness of each fiber's tasks: a promise that can settle does, an inverse
  that was started ends or its guard expires. `apply()` is fair as well, since components
  return from it. Nothing is assumed of the root context, of `use`, `dispose` and `reset`: these are
  decisions of the configuration. `Promptness`, which only the generations run adds, is strong
  fairness of a load that is interrupted again and again: with finitely many root sets and resets
  the interruptions end, and the assumption costs nothing but shortens the search.
- *Delivery*. Weak fairness of each drain and of the sweep's timer. `Mount`, `Teardown`, `Start` and
  the aging of claims are not fair. An article that finds its target unmounted for ever is given up
  after `MAX_QUEUE_DEFERS`; that is what makes the property hold without them.
- *QqSends*. Weak fairness of time, of the awaits of a send, of the aging of claims and of the bridge showing what it
  took. Strong fairness of somebody driving a message that is neither settled nor given up, through the
  gate or through a probe: the router's sweep comes back, and a circuit is open for a finite time.
- *QqInbound*. Weak fairness of dispatches, of passes, which their timer starts again, of the history sync and of the
  aging of rows. Posts, restarts and failures are not fair.
- *Videos*. Weak fairness of each driver's send and of the end of an upload, which has a timeout. The reconciliation is not fair.
- *YouTube*. Weak fairness of the steps of a round and of the expiry of a remembered check. Strong fairness of a list page that
  answers, of the store answering the gate, and of the watch page of a premiere answering: each fails now and
  then, and is asked again every round.
- *XList*. Weak fairness of a crawl's steps and of its phases; rounds come again because the crawler's schedule does, and the
  faults are counted.
- The other parts of `spiders` have no liveness property and no fairness.
- *Crawl*. Weak fairness of time and of the keepalive's ticker, an interval that fires as long as a job is
  disarmed. Neither rounds nor jobs nor the api need to come by.
- *TargetRuntime*. Weak fairness of resolved promises, of the sweep's timer, of time, and of the
  aging of a claim. Strong fairness of `Verdict` for the flushes of the sweep: the health
  gate is a circuit with a finite open period, so a flush that comes back every sweep gets through to
  the ledger some time, and not only with its first message (the condition is stated for each number
  of messages that are left). A gate that is shut for ever keeps a window open for ever. Nothing of
  the kind is assumed of the router: its tries are counted.

## 5. Proofs

`FiberRuntimeProofs`, `OutboundProofs`, `DeliveryProofs`, `TargetRuntimeProofs`, `CrawlProofs`, `QqSendsProofs`,
`QqInboundProofs` and `SpiderProofs` (the videos and the spiders) are checked by TLAPS for all values of the constants that
satisfy the named assumptions of the modules. A theorem that needs more says so in its statement.

**Runtime.** `TypeCorrect`, `TargetsAreCoherent`, `DependentsDoLeaveFirst`, `ActiveFibersAreServed`
and `NeverReloadsOverActive`. None of these is inductive alone. The invariant is

    IInv == TypeOK /\ Shape /\ Steady /\ Coherent /\ DependentsLeaveFirst

`Shape` ties `phase` to `state` and says that a retired fiber is never ACTIVE and that an ACTIVE one
has the target it committed to. `Steady` says that the target computed for an ACTIVE fiber is its
committed one or none, even in the middle of a notification chain: no owner can be replaced by
another under a running consumer, because the binding has to be unset first. That is the fact
which carries the rest: with it a refresh can only unload an ACTIVE fiber, never move it.
`Coherent` is then preserved because each action that changes an owner or a binding puts
every fiber that injects an affected key on the worklist (`UnseenStep`, `StoreStepSees` and the
`...Sees` lemmas). `DependentsLeaveFirst` holds because a new dependency on a fiber needs that fiber
ACTIVE, and one that unloads is not (`LoadNeedsLiveOwners`, `NoNewDependency`).

`NoBindingIsLeftBehind` follows a binding to the inverse that will take it away: it is in the accumulator of its owner, or in
one that a forced guard left to a drain (`Held`), and a drain that runs late removes only the generation it was pushed for.
From it `SuccessorsKeepTheirKeys`. `ServedWhileUnforced` is about FiberGenerations: as long as no dependents guard
runs out, an ACTIVE fiber is served by the very load it was loaded against, although the code compares uids only. Its invariant
is `OwnersStand /\ SameLoad`: an owner somebody depends on is ACTIVE or waits for its dependents, so it cannot come back as
another load meanwhile. `ServedWithPatientGuards` is the case the run checks, guards that never run out; that one guard running out is
enough to break it is in section 6.

**Ledger.** `ClaimsExclude`, `BudgetHolds`, `SettledForGood`, from `LedgerInv`: a held row is
`sending`, is held once, has not aged and is within its budget.

**Delivery.** `DeliveryIsTyped`. `DeliveryUsesTheLedger` is the implementation `Spec => LedgerSpec`:
each step is a step of the ledger or leaves it alone, which is what lets
`DeliveryKeepsTheLedger` inherit the three theorems above. `NoDuplicateWithoutACrash`, where every
answer is definite (`~Doubt`), from `CopiesAreAccounted`: a copy that no crash explains has
its row settled, or a holder that is already past that chunk. `NoQueuedEventIsLost`.
`QqForwardsWhatIsSettled`, where all targets are QQ groups (`Guarded = Target`); for
Bilibili it is false (section 6).

`DeliveryIsACourier` is the refinement, again where every answer is definite: initial states map to initial states, and every step
is a step of Courier or a stutter. Besides `CopiesAreAccounted` it needs `InOrder`: no part has more copies than the
part before it, and a holder past its first part has posted the part before the one in its hand. A crash cuts the messages whose rows
are held.

`NothingIsForgotten` holds of the behaviours in which no rebuild and no crash strikes while the event in the drain's hand is in no
store (`Gentle`, a condition on the two actions; section 6 has what happens otherwise). `AllWalked` says that a drain has forwarded the
legs behind it unless it knows better, `EverybodyWaits` that whatever is not delivered is in the hand or the queue
of the living router, or between two routers in the stored queue.

**Target runtime.** `TargetIsTyped` and `TargetKeepsTheLedger` (it is another implementation of `LedgerSpec`), from `TargetInv`,
which says what a flush or a send has in hand at each of its awaits; the three theorems of the ledger follow as they do for Delivery. `NothingIsStranded`, for windows that do not end within
their slot (`~Aligned`; section 6 has the other case), with two invariants more. `FrozenInv`: a window that a flush of the sweep has in
hand belongs to an earlier slot, so nothing is added to it, and a card shows all that its window holds. `ServedInv`: a settled row has shown its
article, or its whole window while no crash has come in between; a closed window has its items shown, given up, or cut off
by a crash; what a flush of single items has gone past is covered; and what the router promised is in a window.
`ShownOnlyOnce`, from `OneCopy`: outside the summaries an article is in the chat, in the buffer, in hand, or still to be
asked for, in one of these places only, and each crash adds one.

**Crawl.** All its safety properties: `NewsAreToldOnce`, `CooldownsDoAgree`, `BoardDoesAgree`,
`JobsHaveOneTimer`, and the action properties `CooledAreLeftAlone`, `QuarantinedAreLeftAlone`,
`LiftsAreAllEarned`. The invariant is

    IInv == RoundsOK /\ SlotsOK /\ JobsOK /\ Shaped
            /\ CooldownsAgree /\ BoardAgrees /\ OneTimerPerJob /\ Told

The four properties in it are nearly inductive, each over a summary of the steps (`NewsSteps`, `BoardSteps`,
`JobsSteps`, `RoundsSteps`, `CooldownsSteps`) that is proved once for every action. What they need besides: a round with a
board has a session (`RoundsOK`), a keepalive that is up has a board, and one that is gone has no
timers (`JobsOK`). A url is requested only through the gates of `Visit` (`RequestsAreAdmitted`), which look at memory;
`CooldownsAgree` and `BoardAgrees` carry that over to what is on record, and `LiftIsEarned` compares the two states of
a row. `TypeOK` is left to TLC, because `2^level` has no type for the
prover; `Shaped` says as much of the cooldowns as the proofs use.

**QQ sends.** `NoPartAppearsTwice`, `CircuitSurvivesRestarts` and `QqSendsUseTheLedger`. The first is carried by `Story == Basics /\ AllTold`.
`Basics` are the facts about the sender: who sends holds its row alone (`Owned`, `Held`), only the first chunk has a
text to search for and is checked (`Sized`), a row with receipts is settled, so that the write of a `verifyReceipts` that read
long ago changes no status (`Receipted`). `Told(m)`, for a message no restart cut off, no doubt left open and no other text
equals (`Untainted`), says what the bridge can show: each chunk stands at most once in the history or on its way, but not both;
a row that is neither settled nor held has shown nothing; a holder has shown nothing of the chunks it has not asked for, and
during a check whatever stands of its first chunk is neither older than the check's window nor adopted, so that the check finds
it. A failed check therefore proves the chunk absent, and the second request is safe. The proof has a lemma for the message a step
is about (`MarkTold`, `GoesOnTold`) and one for all others (`BystandersKeep`). It rests on the assumption about the bridge
in the guard of `Absent`: nothing appears after the last check. The second theorem needs only that the living and the stored
circuit agree in state and time (`Mirrored`); the time of the last probe may differ.

`QqSendsUseTheLedger` is the third implementation of `LedgerSpec`, and `QqSendsKeepTheLedger` what it inherits: one sender per
message, the budget over all restarts, settled rows for good. The step that needs an argument is the write of `verifyReceipts`, which is no
operation of the ledger: it writes back, after its await, the status it read before, and makes the row fresh. It changes nothing, because the
row was settled when it was read (`Receipted`) and a settled row does not age (`OnlySendingAges`).

**QQ inbound.** `OkIsAnswered`, from `AnswerInv`: a sent row was shown and stays sent, a row that is being sent has one sender
(`SendersHold`), a job that has not failed has sent all the actions it has passed that need sending (`Earned`), and so a row that is
`ok` has them sent (`OkIsEarned`), however many dispatches of one row overlap. `CursorStaysHonest`, for any
page size and budget, from `ReachInv`: while a run pages backwards, the stretch from its anchor to the top of its
first page is in the mirror, above that top nothing is missing but what was overtaken, and the anchor lies as deep as the pages read so far
can take it (`Depth`). So a run that ends has reached its cursor, or the first message, or spent its budget, and then it has read all of `Reach`
(`Deeper`, `DepthOfRun`).

**Videos.** `TwinsNeedARestore` and `TwinsStayApart`, from `ClaimsInv`: an upload in flight has its claim, so has what an account
shows unless it showed it before the database was restored, and of two twins only one has claimed. The first says that two twins on one account need
a restore; the second is `NoTwinUploads`, assuming that no archived post of a scene has a twin, because the
reconciliation does not restore claims (section 6). `MarkerOutlivesFailedRuns`, from `Reads`: a
reconciliation that is not through has each account still to read, or all it showed counted as delivered.

**Browser pool.** `BrowsersAreOwned` and `EvictionsSpareReplacements`, from

    PoolInv == TypeOK /\ OneLaunch /\ Fresh /\ Registered /\ Held /\ NoBrowserIsLost

`OneLaunch` says that a launch for a key nobody paused for is the registered one and displaces no living session, which is what
a call that joins it relies on; `Fresh` that an attempt not yet reached has no browser, so that names are unique.

**LLM circuit.** `FailuresSurviveRestarts`, from `CircuitInv`: a row exists exactly while an error is remembered, counts the
failures in a row, and agrees with memory on every opening that still runs in it.

**Spiders.** All of Spiders, for any scenes; each theorem is about the part it concerns (`PartsBehave`).
`LookupsAreShared` and `WaitsAreAnswered`, from `ApiInv`: whoever looks an account up is in the flight of its name and nobody else
is (`LookupsAreFlights`), likewise for the minting of a guest token (`MintsAreOwned`), whichever worker gives up when.
`ListsFailClosed`, from `ListInv`: whoever was forwarded, asked or queued in a round is configured or in the membership X answered last
(by the names the allow set compares), unless X called the list empty and nobody is configured; and what the cache keeps is that membership.
The filters of the selection are one operator, `Kept`, the elements of a sequence at the places of a set, whose type and range follow from
counting the places, where a fold would need an induction on the list.
`TikTokKeepsPosts` and `InstagramKeepsPosts`: `RoundsInv` and `CaptureKept` name the steps at which posts can be held, and at none of them is
there a way out that drops them; for TikTok there is one, data that cannot be parsed, which the property excepts.
`RepliesShownOnce` and `PagesListenNoMore`, from `PageInv`: what is listened to is what is being grabbed, and what was grabbed is an
answer of X. That its replies are shown once is a fact about the parser: a filter enumerates the places it keeps (`PlacesOfASequence`), so the
tweets of the conversations stand at one place each (`TalksReadOnce`), and so do the articles (`ArticlesOfReplies`: first one for each conversation
with something to tell, then one for each reply no conversation holds). The references are followed by counting up
(`CountingUp`: a statement about natural numbers that failed would fail at a least one), which gives the recursive function `Chain` its
equation (`ChainGoesOn`) and takes the article of a conversation to its first tweet (`ChainIsTold`).
`ChannelsReturnTheirLists`, from `ChannelInv`: at every point the round holds one article for each the list showed, marked for members if the
list marked it. `SpidersAssumption` asks that lists are sequences, limits natural numbers, each page tries as often as it may, and
the values for what is not there (`None`, `Unknown`) neither records nor sequences. Of an answer with replies it asks (`ReplyAnswer`)
that it shows a tweet once among its single entries and once among its conversations, and that one it shows in both can be read
in both: the parser does not look for doubles among either, and takes a tweet that is in a conversation for shown there.

The theorems say more than the runs list: `TypeOK` of the runtime and the delivery, `Coherent`, `NoReloadOverActive`, `OneHolder`, `BudgetIsKept`,
`TerminalIsFinal`, `CooldownsAgree`, `BoardAgrees`, `OneTimerPerJob`, `CooledIsLeftAlone` and `QuarantinedIsLeftAlone` are proved
for all constants and left out of the configurations. `BoardAgrees` and `QuarantinedIsLeftAlone` except ghosted sessions as `LiftsAreEarned` does,
and the latter is about turning to a url or starting a probe: what is under way when a session is quarantined is not called back.

**Only model-checked.** Liveness (`UnloadEnds`, `ReadyLoads`, `EveryArticleSettles`, `EveryWindowCloses`, `JobsComeBack`,
`EveryMessageSettles`, `EveryMessageIsHandled`, `EveryVideoIsShown`, `ResolvedIsReported`, `EveryMemberComesRound`), which is out of
the prover's reach. Every safety property that a run checks is a theorem.

## 6. What the runs found

| configuration | the code | the statement it contradicts |
|---|---|---|
| run `x_stale` | A query id found stale is dropped from the profile and the client but not from the cache `x-queryid:` of twelve hours; the constructor lets that cache override a fresh profile, so the next client sends the stale id again. | `x.ts:1456`: only an old profile's 404 is "a genuinely stale query id worth re-capturing" |
| `Delivery_forgets.cfg` (MCDelivery) | The event in the drain's hand is in no store once the next arrival has persisted the shortened queue. If the router is rebuilt while the send is in flight and the send then fails, the dead incarnation requeues into a queue nobody reads. | `router.ts:49`: skipping the persist after a teardown "loses nothing" |
| `TargetRuntime_flushes.cfg` with `Aligned = TRUE`, `Kinds = {"summary"}`, `SummaryThresholds = {3}`, `MaxItems = 3`; `NoItemIsStranded` | With hour-aligned windows shorter than an hour a window is due while it still collects; what arrives during the sweep's flush is closed away with it. | `aggregation.ts:68` |
| `TargetRuntime_flushes.cfg` with `Kinds = {"digest"}`, `SummaryThresholds = {}`; `DigestKeepsItsBatch` | The digest's buffer is emptied and saved before the batch is sent; one refusal loses it. | `target-runtime.ts:68` |
| `TargetRuntime_flushes.cfg` with `Kinds = {"summary"}`, `SummaryThresholds = {}`, three articles, `MaxItems = 3`, `MCTargetRuntime`'s `NoItemIsStranded` without its exception `CutShort` | A flush marks the row of a window's card as sent and closes the window afterwards. A crash between the two leaves an open window whose card is settled: what it takes until it is flushed again is closed away with a card that shows only the items of the first flush. | `aggregation.ts:68` |
| `Crawl_ghost.cfg` (MCCrawl) | A round keeps the board it started with. After a rebuild of the keepalive two boards write the same rows, and the `suspect` of one replaces the quarantine of the other. | `cookie-keepalive.ts:448`: "a quarantine survives fiber rebuilds and process restarts" |
| `QqSends_doubt.cfg` (MCQqSends) | When the history cannot be read, or the payload has no text, `sendGuarded` throws an error of kind `unknown`; the chunk loop's `qqSendRetryNow` takes it for `other` and repeats the request at once. | `onebot.ts:276`: "never re-send on doubt" |

The counterexamples are printed by TLC. `forward_by` of the Bilibili target is another, without a configuration: a claim that is `in_progress`
elsewhere returns as success (`target-bilibili.ts:293`, against `outbound.ts:71`: "re-drive later"), which is why `ForwardedIsSettled` is checked for QQ.

More that TLC showed or the modelling met, without a run to keep it, by part:

*Runtime and targets.* after a threshold flush the slot's own key is taken by a
closed window, `ensureWindow` falls back to a key of the current millisecond which no later call
finds, and every further article of the slot waits alone or is a first (`aggregation.ts:84`, against
`target-runtime.ts:70`, "window ids are stable"). And with guards that may expire
`ServedByTheSameLoad` fails. A consumer that ignores its unload for longer than the guard may find
its provider unloaded, loaded again, and equal by uid. The run therefore has `GuardExpires = FALSE`.

*QQ sends.* Two messages of one text in flight may adopt each other's copy, and a third may then be sent. `call()` wraps the error of
`fetch` and loses its `code`, so that a refused connection counts as ambiguous. A capability probe that fails pins the dialect
`generic` for good. A `MediaSourceError` is classified as transport and opens the circuit of a healthy bridge.

*QQ inbound.* `hasMessage(result.scope, ...)` compares `group:ID` with a column that holds `group`, and never matches. The recovery's
budget counts the oldest rows, handled or not: with more than 200 an hour the newest missed ones are out of reach. An event from the history has no
self id, and its text is not decoded; at a start without `self_ids` the bot may react to itself. `created_at` of a row is never
refreshed, so a row dispatched again is stale at once, and a slow dispatch is joined by a second after five minutes, whose actions find
the claim `sending` and end in `error`. A row from the history whose dispatch died is marked `bad`, because its payload was stored as a string (`qq-ingress.ts:296`
against lines 40-42). The history
sync "heals gaps left by disconnects / failed send windows" (`qq-history-sync.ts:11-12`) only in part: a run that has spent its pages moves the
cursor to the newest row although the gap is not closed, and a message that was lost while a run was paging is passed when a later one comes in
live; no later run looks at either again. With `count` 1, which `qq-history-sync.ts:68` accepts, a run stops at its anchor, so that its
reach is one message however many pages it may read.

*Videos.* YouTube videos that are no shorts still claim their keys, so a short that follows is dropped. The claims ignore the target. The
judgment by common substring is only reached with a token or key in common. The claim of an upload that was given up holds its twin back for seven
days. A teaser that comes after its video, or expires, is lost though it is marked as forwarded; two videos in
flight both merge one teaser. A lost answer of the upload helper uploads again. The reconciliation runs beside a router that resends
already, and does not restore the claims: a twin of an upload that a restored account already shows is uploaded.

*Spiders.* X: a resolved but empty membership with nobody configured restricts nobody and replaces the last known-good one; a name configured in
another case hydrates its account twice; a link in a conversation replaces a quotation; the look-up of `grabFollowsNumber` is
not shared. TikTok: an empty shell blocks its handle for a day; malformed page data, or a login wall, throws away posts already heard.
Instagram: answers that arrive during the login check do not undo its verdict; the `finally` of an older
profile promise deletes a newer one's entry; any avatar that is missing counts against the domain. YouTube: `crawler.ts` wires neither `isArticleKnown` nor
`articleStateLookup`, so the application gates nothing; a premiere's check is noted before the limit is applied, so pending ones past the limit may
starve; the check near the scheduled start is never reached, because articles of a list carry none.

*Browser pool and LLM.* A call that paused after an eviction launches without looking for a launch or a session that came
meanwhile, and registers over it (`browser-pool.ts:173-180`). A launch after the pool has closed is closed by nobody. The first
caller's profile fixes the launch options of the session. A success in flight when the circuit opens removes the stored row but leaves the
opening in memory (`llm-openai.ts:259`).

## 7. What is abstracted

- Time. Backoffs and pacing: a queued event is always due, a send may start at any time. The stale
  window is a flag of the row, and `Age` is only enabled when nobody holds the claim: a request times
  out after thirty seconds and the window is thirty minutes.
- Steps between two awaits may be split. That adds interleavings, never removes one; the properties
  hold nevertheless.
- The order of the persisted queue after a restart is any order.
- Provider failures are `later`, `retry` or `never`, as `isRetryable...` and the error classes sort them.
  That a message has been sent is told by its `message_id`, which the model assumes to be present.
- The router's early return for an article whose row is gone from the database is left out:
  nothing in the model deletes articles.
- The Bilibili target is its dynamic path; in TargetRuntime a message is one chunk.
- The two calls of `ensureWindow` in one `send()` may or may not fall into the same millisecond.
- Crawl: schedules and backoffs of jobs are any time; each session has one job; between two urls there is
  always a pause; a cooldown's duration is any of a set, which covers the hints of a platform. Error
  classes are a constant, and `auth` the one that counts against a session. The level of a cooldown saturates
  where the code's minimum makes it. A quarantine that was lifted forgets when, which nobody asks. Unloading a
  crawler or a keepalive is one step up to its inverses.
- QqSends: what the bridge took and did not answer appears, if ever, before the last check of that send; histories are read
  from the oldest message that counts. A chunk's text is a model value.
- QqInbound: one chat, whose messages carry their time as id. Rules match on words, kinds and lists; patterns are data. The quota's window slides at any time.
- Videos: the words of a post, their sizes and common substrings are given; claims do not age.
- Spiders: a request is its outcome. Answers are drawn from small sets that hold each shape a parser tells apart; texts are sequences of
  kinds of words; times are the facts that were compared (recent, expired, due). TikTok, Instagram and YouTube crawl a
  handle one round at a time, and caches are remembered from one to the next.
- BrowserPool: the thirty seconds of a pause end at any time after the eviction, for all who wait together or apart. A browser loses its connection
  at any time, if it is one of `Fragile`.
- LlmCircuit: attempts fail, or are refused by a 4xx, at will; the prompt is data.
- A key of the coeffect store stands for a pair of key and realm.

## 8. What is not modelled

`isolate` and the taint sink of the runtime; post-processors, the live relay and the healing of avatars in the crawler; the
manual `resume()` of a session, which nothing calls; the expiry checkup of cookie jars; `prune` of the ledger; `recall` of the QQ
target; Bilibili's titles and hashtags; a rebuild of a target's fiber under one of its own flushes; two clients of an LLM entry that was rebuilt with
texts in flight, and its `probe()`, which moves no circuit; pruning and the `max_age` window of the inbound rows; a crash
between the record of an inbound row and its mark.

The loader reconciles one configuration at a time and awaits each disposal; what it disposes is the runtime's concern. The host pacer and the live
relay are timers with one writer each. The other spiders (`website.ts`, `leap.ts`, `messageboard.ts`) read fixed layouts and keep nothing. Formatting,
rendering, configuration and storage are functions over data without a state that a later call could see, and stay out for good; the
reasons are listed with each component in `PROJECT.json`.

## 9. Plan

Done, in this order: FiberRuntime and its invariant, Outbound, Delivery with Courier, their
proofs, FiberGenerations, TargetRuntime, Cooldown and SessionHealth with Crawl and its proofs; the QQ side (OneBotSemantics, QqHealth,
QqSends, QqEvents, QqInbound); ShortVideoDedup and Videos; the spiders of X, TikTok, Instagram and YouTube; BrowserPool and LlmCircuit;
the composition of the spiders; the proofs of every safety property that a run checks.

Left, most important first:

1. *Loader* over FiberRuntime: reconciliation as a sequence of uses and disposals; abstractly, the mounted entries are those of the last configuration.
2. *Composition*: the reactions of QqInbound and the drain of Delivery over one QqSends.
