------------------------------- MODULE Crawl --------------------------------
(***************************************************************************)
(* Crawlers and the keepalive of their sessions (components/crawler.ts,    *)
(* components/cookie-keepalive.ts, pipeline/articles.ts), over the ladders *)
(* of Cooldown and SessionHealth. Fibers are rebuilt while their rounds    *)
(* and jobs are in flight, and nothing cancels those: a round goes on with *)
(* the memory and the board of the application that started it.            *)
(***************************************************************************)
EXTENDS Cooldown, SessionHealth, Sequences, FiniteSets

CONSTANTS
  Crawler, Url, Article, Session, NoSession,
  Setups,     \* configurations: the crawlers there are, and whether there is a keepalive
  Urls,       \* [Crawler -> Seq(Url)]
  Shown,      \* [Crawler -> [Url -> SUBSET Article]]: what the platform may answer with
  Quotes,     \* [Article -> SUBSET Article]: the post it quotes, if any
  Uses,       \* [Crawler -> Session \cup {NoSession}]
  Class,      \* classes of errors
  Retried,    \* [Crawler -> SUBSET Class]: those its platform tries a fetch again for
  Durations,  \* [Crawler -> [Class -> SUBSET Nat]]: its cooldowns, with any hint
  MaxGen,     \* bound: applications of any crawler
  Loads,      \* [Crawler -> 0..MaxGen], bound: applications of each
  MaxBoards,  \* bound: applications of the keepalive
  MaxCrashes  \* bound

ASSUME UrlsAssumption == Urls \in [Crawler -> Seq(Url)] /\ \A c \in Crawler : Urls[c] # <<>>
ASSUME ShownAssumption == Shown \in [Crawler -> [Url -> SUBSET Article]]
ASSUME QuotesAssumption == Quotes \in [Article -> SUBSET Article]
ASSUME SetupsAssumption == Setups \subseteq [crawlers: SUBSET Crawler, keepalive: BOOLEAN]
ASSUME UsesAssumption == Uses \in [Crawler -> Session \cup {NoSession}] /\ NoSession \notin Session
ASSUME ClassAssumption == Retried \in [Crawler -> SUBSET (Class \ {"auth"})]
ASSUME DurationsAssumption == Durations \in [Crawler -> [Class -> (SUBSET Nat) \ {{}}]]
ASSUME BoundsAssumption ==
  MaxGen \in Nat /\ Loads \in [Crawler -> 0..MaxGen] /\ MaxBoards \in Nat /\ MaxCrashes \in Nat

VARIABLES
  setup,      \* the configuration
  gen,        \* [Crawler -> Nat]: Fiber.generation
  alive,      \* crawlers whose fiber is LOADING or ACTIVE
  round,      \* [Crawler -> [generation -> the round in flight]]
  memory,     \* [Crawler -> [generation -> [Url -> Entry]]]: CooldownMap
  kept,       \* [Crawler -> [Url -> Entry]]: its rows in service_state
  boards,     \* [application -> [Session -> Slot]]: SessionHealthBoard.slots
  board,      \* the board last put at `cookie-health'
  up,         \* whether it is still there
  stored,     \* [Session -> Slot]: its rows in service_state
  timers,     \* sessions whose job has a timer
  flight,     \* [Session -> where the run of its job is]
  disarmed,   \* sessions whose job is not scheduled
  outliving,  \* <<board, session>>: jobs in flight whose application is gone
  saved,      \* articles in the database
  announced,  \* [Article -> Nat]: emissions on the bus
  quoted,     \* history: saved for the sake of another
  cut,        \* history: saved by a process that died before it emitted
  ghosted,    \* history: sessions an outdated board wrote to beside the current one
  crashes

fibers == <<setup, gen, alive>>
sessions == <<boards, stored, timers, flight, disarmed, outliving, ghosted>>
jobs == <<flight, outliving>>
keepalive == <<board, up>>
news == <<saved, announced, quoted, cut>>
vars == <<fibers, round, memory, kept, sessions, keepalive, news, crashes>>

Generation == 1..MaxGen
Board == 1..MaxBoards
NoBoard == 0

Idle == [at |-> "idle"]

AllFresh == [s \in Session |-> FreshSlot]

Blank == [u \in Url |-> NoEntry]

Round ==
  {Idle}
  \cup [at: {"pause"}, index: Nat \ {0}, board: {NoBoard} \cup Board]
  \cup [at: {"fetch"}, index: Nat \ {0}, board: {NoBoard} \cup Board, attempt: 1..2]
  \cup [at: {"persist"}, index: Nat \ {0}, board: {NoBoard} \cup Board, left: SUBSET Article]
  \cup [at: {"process"}, index: Nat \ {0}, board: {NoBoard} \cup Board, left: SUBSET Article,
        hand: Article]

\* The generations that have a round in flight.
Going(c) == {g \in Generation : round[c][g] # Idle}

TypeOK ==
  /\ setup \in Setups
  /\ gen \in [Crawler -> 0..MaxGen]
  /\ alive \subseteq Crawler
  /\ round \in [Crawler -> [Generation -> Round]]
  /\ \A c \in Crawler : \A g \in Going(c) : round[c][g].index <= Len(Urls[c])
  /\ memory \in [Crawler -> [Generation -> [Url -> Entry]]]
  /\ kept \in [Crawler -> [Url -> Entry]]
  /\ boards \in [Board -> [Session -> Slot]]
  /\ board \in {NoBoard} \cup Board
  /\ up \in BOOLEAN
  /\ stored \in [Session -> Slot]
  /\ timers \subseteq Session
  /\ flight \in [Session -> {"none", "probing", "settling"}]
  /\ disarmed \subseteq Session
  /\ outliving \subseteq Board \X Session
  /\ saved \subseteq Article
  /\ announced \in [Article -> Nat]
  /\ quoted \subseteq Article
  /\ cut \subseteq Article
  /\ ghosted \subseteq Session
  /\ crashes \in 0..MaxCrashes

Init ==
  /\ setup \in Setups
  /\ gen = [c \in Crawler |-> 0]
  /\ alive = {}
  /\ round = [c \in Crawler |-> [g \in Generation |-> Idle]]
  /\ memory = [c \in Crawler |-> [g \in Generation |-> Blank]]
  /\ kept = [c \in Crawler |-> Blank]
  /\ boards = [b \in Board |-> AllFresh]
  /\ board = NoBoard
  /\ up = FALSE
  /\ stored = AllFresh
  /\ timers = {}
  /\ flight = [s \in Session |-> "none"]
  /\ disarmed = {}
  /\ outliving = {}
  /\ saved = {}
  /\ announced = [a \in Article |-> 0]
  /\ quoted = {}
  /\ cut = {}
  /\ ghosted = {}
  /\ crashes = 0

(***************************************************************************)
(* The board.                                                              *)
(***************************************************************************)

\* Board b gets new slots, and those of S are written through.
Write(b, S, slots) ==
  /\ boards' = [boards EXCEPT ![b] = slots]
  /\ stored' = [s \in Session |-> IF s \in S THEN slots[s] ELSE stored[s]]
  /\ ghosted' = IF b = board THEN ghosted ELSE ghosted \cup S

\* A return to fresh is announced on the bus; the keepalive arms the job if it is disarmed.
Woken(b, slots) == {s \in disarmed : Freshens(boards[b][s], slots[s])}

Arm(S) ==
  /\ timers' = timers \cup S
  /\ disarmed' = disarmed \ S

\* Asking board b about the sessions S writes where it ends a quarantine.
Lifted(b, S) == {s \in S : Looked(boards[b][s]) # boards[b][s]}

Seen(b, S) == [s \in Session |-> IF s \in S THEN Looked(boards[b][s]) ELSE boards[b][s]]

Look(b, S) == Write(b, Lifted(b, S), Seen(b, S))

\* A round without a board records nothing.
Record(b, s, ok) ==
  IF b = NoBoard THEN UNCHANGED <<boards, stored, ghosted, timers, disarmed>>
  ELSE LET slots == [boards[b] EXCEPT ![s] = Recorded(@, ok)] IN
       /\ Write(b, {s}, slots)
       /\ Arm(Woken(b, slots))

(***************************************************************************)
(* The rounds of a crawler.                                                *)
(***************************************************************************)

Current(c, g) == c \in alive /\ gen[c] = g

\* The bookkeeping of a fetch is left to the current generation.
Books(c, g) == Current(c, g)

UrlOf(c, g) == Urls[c][round[c][g].index]

\* The round goes on after the url at index i: to the pause before the next, or to its end.
After(c, i, b) ==
  IF i = Len(Urls[c]) THEN Idle ELSE [at |-> "pause", index |-> i + 1, board |-> b]

Goes(c, g, to) == round' = [round EXCEPT ![c][g] = to]

\* An outdated generation has come to its end: nothing refers to its memory any more.
Forget(c, g) == memory' = [memory EXCEPT ![c][g] = Blank]

Ends(c, g) ==
  /\ Goes(c, g, Idle)
  /\ Forget(c, g)
  /\ UNCHANGED <<kept, boards, stored, ghosted, timers, disarmed>>

\* The gates before a url: the board of this round, the memory of this generation.
Visit(c, g, i, b) ==
  LET s == Uses[c]
      blocked == b # NoBoard /\ Quarantined(Looked(boards[b][s]))
      cooled == Cooled(memory[c][g][Urls[c][i]]) IN
  /\ IF b = NoBoard THEN UNCHANGED <<boards, stored, ghosted, timers, disarmed>>
     ELSE Look(b, {s}) /\ Arm(Woken(b, Seen(b, {s})))
  /\ IF blocked \/ cooled
       THEN /\ Goes(c, g, After(c, i, b))
            /\ IF Current(c, g) \/ i < Len(Urls[c]) THEN UNCHANGED memory ELSE Forget(c, g)
       ELSE /\ Goes(c, g, [at |-> "fetch", index |-> i, board |-> b, attempt |-> 1])
            /\ UNCHANGED memory
  /\ UNCHANGED <<jobs, fibers, kept, keepalive, news, crashes>>

\* A tick of the timer, or the first round of an application; one at a time.
StartRound(c) ==
  /\ c \in alive
  /\ round[c][gen[c]] = Idle
  /\ Visit(c, gen[c], 1, IF up /\ Uses[c] # NoSession THEN board ELSE NoBoard)

\* The sleep between two urls ends. Nobody asks whether the generation is still current.
Proceed(c, g) ==
  /\ round[c][g].at = "pause"
  /\ Visit(c, g, round[c][g].index, round[c][g].board)

Fetched(c, g, results) ==
  /\ round[c][g].at = "fetch"
  /\ Goes(c, g, [at |-> "persist", index |-> round[c][g].index, board |-> round[c][g].board,
                 left |-> results])
  /\ UNCHANGED <<fibers, memory, kept, sessions, keepalive, news, crashes>>

\* persistOne is not entered by an outdated generation, nor for what is stored.
Skip(c, g, a) ==
  /\ round[c][g].at = "persist"
  /\ a \in round[c][g].left
  /\ ~Current(c, g) \/ a \in saved
  /\ round' = [round EXCEPT ![c][g].left = @ \ {a}]
  /\ UNCHANGED <<fibers, memory, kept, sessions, keepalive, news, crashes>>

\* The article goes to the processor, which is awaited.
Process(c, g, a) ==
  /\ round[c][g].at = "persist"
  /\ a \in round[c][g].left
  /\ Current(c, g)
  /\ a \notin saved
  /\ Goes(c, g, [at |-> "process", index |-> round[c][g].index, board |-> round[c][g].board,
                 left |-> round[c][g].left \ {a}, hand |-> a])
  /\ UNCHANGED <<fibers, memory, kept, sessions, keepalive, news, crashes>>

\* The quoted post is stored first, and is not announced.
SaveRefs(a) ==
  /\ saved' = saved \cup Quotes[a] \cup {a}
  /\ quoted' = quoted \cup (Quotes[a] \ saved)

\* Bug: the look before the await is trusted.
SaveBlindly(c, g) ==
  /\ round[c][g].at = "process"
  /\ SaveRefs(round[c][g].hand)
  /\ announced' = [announced EXCEPT ![round[c][g].hand] = @ + 1]
  /\ Goes(c, g, [at |-> "persist", index |-> round[c][g].index, board |-> round[c][g].board,
                 left |-> round[c][g].left])
  /\ UNCHANGED <<fibers, memory, kept, sessions, keepalive, cut, crashes>>

\* save() looks again whether the article is there: others ran during the await.
Save(c, g) ==
  /\ round[c][g].at = "process"
  /\ LET a == round[c][g].hand IN
     /\ SaveRefs(a)
     /\ announced' = IF a \in saved THEN announced ELSE [announced EXCEPT ![a] = @ + 1]
  /\ Goes(c, g, [at |-> "persist", index |-> round[c][g].index, board |-> round[c][g].board,
                 left |-> round[c][g].left])
  /\ UNCHANGED <<fibers, memory, kept, sessions, keepalive, cut, crashes>>

\* All results are through.
Succeed(c, g) ==
  LET u == UrlOf(c, g) r == round[c][g] IN
  /\ r.at = "persist"
  /\ r.left = {}
  /\ IF Books(c, g)
       THEN /\ Record(r.board, Uses[c], TRUE)
            /\ memory' = [memory EXCEPT ![c][g][u] = NoEntry]
            /\ kept' = [kept EXCEPT ![c][u] = NoEntry]
            /\ Goes(c, g, After(c, r.index, r.board))
       ELSE Ends(c, g)
  /\ UNCHANGED <<fibers, jobs, keepalive, news, crashes>>

Retry(c, g, class) ==
  /\ round[c][g].at = "fetch"
  /\ class \in Retried[c]
  /\ round[c][g].attempt = 1
  /\ round' = [round EXCEPT ![c][g].attempt = 2]
  /\ UNCHANGED <<fibers, memory, kept, sessions, keepalive, news, crashes>>

\* Only a failure to log in counts against the session.
Fail(c, g, class, duration) ==
  LET u == UrlOf(c, g) r == round[c][g] IN
  /\ r.at = "fetch"
  /\ class \notin Retried[c] \/ r.attempt = 2
  /\ duration \in Durations[c][class]
  /\ IF Books(c, g)
       THEN /\ Record(IF class = "auth" THEN r.board ELSE NoBoard, Uses[c], FALSE)
            /\ memory' = [memory EXCEPT ![c][g][u] = Hit(@, duration)]
            /\ kept' = [kept EXCEPT ![c][u] = IF duration = 0 THEN @ ELSE Hit(memory[c][g][u], duration)]
            /\ Goes(c, g, After(c, r.index, r.board))
       ELSE Ends(c, g)
  /\ UNCHANGED <<fibers, jobs, keepalive, news, crashes>>

Load(c) ==
  /\ c \in setup.crawlers \ alive
  /\ gen[c] < Loads[c]
  /\ gen' = [gen EXCEPT ![c] = @ + 1]
  /\ alive' = alive \cup {c}
  /\ memory' = [memory EXCEPT ![c][gen[c] + 1] = kept[c]]
  /\ UNCHANGED <<setup, round, kept, sessions, keepalive, news, crashes>>

Unload(c) ==
  /\ c \in alive
  /\ alive' = alive \ {c}
  /\ IF round[c][gen[c]] = Idle THEN Forget(c, gen[c]) ELSE UNCHANGED memory
  /\ UNCHANGED <<setup, gen, round, kept, sessions, keepalive, news, crashes>>

(***************************************************************************)
(* The keepalive: one job for each session.                                *)
(***************************************************************************)

\* The board is rehydrated before it is published; every job gets a timer.
LoadKeepalive ==
  /\ setup.keepalive
  /\ ~up
  /\ board < MaxBoards
  /\ board' = board + 1
  /\ up' = TRUE
  /\ boards' = [boards EXCEPT ![board + 1] = stored]
  /\ ghosted' = {}
  /\ timers' = Session
  /\ UNCHANGED <<fibers, round, memory, kept, stored, jobs, disarmed, news, crashes>>

\* The inverse clears the timers. Nothing cancels the jobs in flight.
UnloadKeepalive ==
  /\ up
  /\ up' = FALSE
  /\ timers' = {}
  /\ disarmed' = {}
  /\ outliving' = outliving \cup ({board} \X {s \in Session : flight[s] # "none"})
  /\ flight' = [s \in Session |-> "none"]
  /\ UNCHANGED <<fibers, round, memory, kept, boards, stored, ghosted, board, news, crashes>>

\* A job that outlived its application records nothing, but the status it returns looks at its board.
Outlive(b, s) ==
  /\ <<b, s>> \in outliving
  /\ outliving' = outliving \ {<<b, s>>}
  /\ Look(b, Session)
  /\ Arm(Woken(b, Seen(b, Session)))
  /\ UNCHANGED <<flight, fibers, round, memory, kept, keepalive, news, crashes>>

\* A timer fires, and the job looks at the board: in quarantine it only comes back to settle.
RunJob(s) ==
  /\ s \in timers
  /\ Look(board, {s})
  /\ timers' = (timers \ {s}) \cup Woken(board, Seen(board, {s}))
  /\ disarmed' = disarmed \ Woken(board, Seen(board, {s}))
  /\ flight' = [flight EXCEPT ![s] = IF Quarantined(Seen(board, {s})[s]) THEN "settling" ELSE "probing"]
  /\ UNCHANGED <<outliving, fibers, round, memory, kept, keepalive, news, crashes>>

Probed(s, ok) ==
  /\ flight[s] = "probing"
  /\ Record(board, s, ok)
  /\ flight' = [flight EXCEPT ![s] = "settling"]
  /\ UNCHANGED <<outliving, fibers, round, memory, kept, keepalive, news, crashes>>

\* The run is over. The status it asks for looks at every session; then the job is armed again,
\* unless its session is in quarantine by now.
Settle(s) ==
  LET slots == Seen(board, Session)
      woken == Woken(board, slots) IN
  /\ flight[s] = "settling"
  /\ Look(board, Session)
  /\ flight' = [flight EXCEPT ![s] = "none"]
  /\ IF Quarantined(slots[s])
       THEN timers' = timers \cup woken /\ disarmed' = (disarmed \ woken) \cup {s}
       ELSE Arm(woken \cup {s})
  /\ UNCHANGED <<outliving, fibers, round, memory, kept, keepalive, news, crashes>>

\* Bug: the ticker reads the state without asking.
ResumeIfFresh(s) ==
  /\ s \in disarmed
  /\ ~Quarantined(boards[board][s])
  /\ Arm({s})
  /\ UNCHANGED <<boards, stored, ghosted, jobs, fibers, round, memory, kept, keepalive, news, crashes>>

\* The slow ticker: it asks after a disarmed job.
Resume(s) ==
  /\ s \in disarmed
  /\ ~Quarantined(Looked(boards[board][s]))
  /\ Look(board, {s})
  /\ Arm({s})
  /\ UNCHANGED <<jobs, fibers, round, memory, kept, keepalive, news, crashes>>

\* The api asks for the status.
Inspect ==
  /\ up
  /\ Lifted(board, Session) # {}
  /\ Look(board, Session)
  /\ Arm(Woken(board, Seen(board, Session)))
  /\ UNCHANGED <<jobs, fibers, round, memory, kept, keepalive, news, crashes>>

(***************************************************************************)
(* Time and crashes.                                                       *)
(***************************************************************************)

Tick ==
  /\ memory' = [c \in Crawler |-> [g \in Generation |-> [u \in Url |-> Cooler(memory[c][g][u])]]]
  /\ kept' = [c \in Crawler |-> [u \in Url |-> Cooler(kept[c][u])]]
  /\ boards' = [b \in Board |-> [s \in Session |-> Sooner(boards[b][s])]]
  /\ stored' = [s \in Session |-> Sooner(stored[s])]
  /\ UNCHANGED <<fibers, round, timers, jobs, disarmed, ghosted, keepalive, news, crashes>>

\* The process goes down, and with it all that is in memory only.
Down ==
  /\ crashes < MaxCrashes
  /\ crashes' = crashes + 1
  /\ alive' = {}
  /\ round' = [c \in Crawler |-> [g \in Generation |-> Idle]]
  /\ up' = FALSE
  /\ timers' = {}
  /\ disarmed' = {}
  /\ outliving' = {}
  /\ flight' = [s \in Session |-> "none"]
  /\ memory' = [c \in Crawler |-> [g \in Generation |-> Blank]]
  /\ UNCHANGED <<setup, gen, kept, boards, board, stored, ghosted, announced>>

Crash == Down /\ UNCHANGED <<saved, quoted, cut>>

\* It goes down between the insert and the emission.
CrashSaving(c, g) ==
  /\ round[c][g].at = "process"
  /\ round[c][g].hand \notin saved
  /\ SaveRefs(round[c][g].hand)
  /\ cut' = cut \cup {round[c][g].hand}
  /\ Down

RoundStep(c, g) ==
  \/ Proceed(c, g)
  \/ \E results \in SUBSET Shown[c][UrlOf(c, g)] : Fetched(c, g, results)
  \/ \E a \in Article : Skip(c, g, a) \/ Process(c, g, a)
  \/ Save(c, g)
  \/ Succeed(c, g)
  \/ \E class \in Class : Retry(c, g, class) \/ \E d \in Durations[c][class] : Fail(c, g, class, d)
  \/ CrashSaving(c, g)

JobStep(s) ==
  \/ RunJob(s)
  \/ \E ok \in BOOLEAN : Probed(s, ok)
  \/ Settle(s)
  \/ Resume(s)
  \/ \E b \in Board : Outlive(b, s)

Next ==
  \/ \E c \in Crawler :
       \/ Load(c)
       \/ Unload(c)
       \/ StartRound(c)
       \/ \E g \in Going(c) : RoundStep(c, g)
  \/ \E s \in Session : JobStep(s)
  \/ LoadKeepalive
  \/ UnloadKeepalive
  \/ Inspect
  \/ Tick
  \/ Crash

Spec == Init /\ [][Next]_vars

\* The interval of the ticker fires, and time passes.
FairSpec == Spec /\ WF_vars(Tick) /\ \A s \in Session : WF_vars(Resume(s))

(***************************************************************************)
(* Properties.                                                             *)
(***************************************************************************)

\* An article is announced once, however many rounds, generations and crawlers come upon it; and what
\* is stored has been, but for what a crash cut off and what was stored as a quotation only.
NewsIsToldOnce ==
  \A a \in Article :
    /\ announced[a] <= 1
    /\ a \in saved <=> announced[a] = 1 \/ a \in cut \cup quoted

\* What the current generation remembers of its cooldowns is what a restart would read.
CooldownsAgree == \A c \in alive : memory[c][gen[c]] = kept[c]

\* So is what the board remembers, unless a round with an older board wrote beside it.
BoardAgrees == board # NoBoard => \A s \in Session \ ghosted : boards[board][s] = stored[s]

\* A job has one timer, or is under way, or waits for the end of a quarantine; and never two of these.
OneTimerPerJob ==
  up => \A s \in Session :
          /\ s \in timers <=> s \notin disarmed /\ flight[s] = "none"
          /\ s \in disarmed <=> s \notin timers /\ flight[s] = "none"

Requests(c, g) == round[c][g].at \in {"idle", "pause"} /\ round'[c][g].at = "fetch"

\* The current generation does not turn to a url that is cooling down for its entry, not even right
\* after a rebuild or a restart.
CooledIsLeftAlone ==
  [][\A c \in Crawler, g \in Generation :
       Requests(c, g) /\ Current(c, g) => ~Cooled(kept[c][Urls[c][round'[c][g].index]])]_vars

Serving(s) == Quarantined(stored[s]) /\ stored[s].resume # 0

\* No round with the current board turns to a url, and no job runs, while their session is on record as
\* quarantined.
QuarantinedIsLeftAlone ==
  [][/\ \A c \in Crawler, g \in Generation :
          Requests(c, g) /\ round'[c][g].board = board /\ board # NoBoard /\ Uses[c] \notin ghosted
            => ~Serving(Uses[c])
     /\ \A s \in Session \ ghosted :
          s \in timers /\ flight'[s] = "probing" => ~Serving(s)]_vars

\* A fetch or a probe ends well, as far as these two states tell.
SomeSuccess ==
  \/ \E c \in Crawler, g \in Generation :
       round[c][g].at = "persist" /\ round'[c][g].at \in {"idle", "pause"}
  \/ \E s \in Session : flight[s] = "probing" /\ flight'[s] = "settling"

LiftedOnlyBy(s) ==
  Quarantined(stored[s]) /\ ~Quarantined(stored'[s])
    => stored'[s].state = "fresh" /\ (stored[s].resume = 0 \/ SomeSuccess)

\* A quarantine on record ends with a success or when its time is over, and with nothing else.
LiftsAreEarned == [][\A s \in Session : s \notin ghosted' => LiftedOnlyBy(s)]_vars

\* The same of every round, as the keepalive's comment has it. False: a round keeps the board it
\* started with, and a rebuild of the keepalive gives the session another.
QuarantineIsKept == [][\A s \in Session : LiftedOnlyBy(s)]_vars

\* Where quarantines lift themselves, a job that was taken off the schedule comes back to it, or its
\* keepalive goes, although no round may ever look at the board again.
JobsComeBack == \A s \in Session : s \in disarmed ~> s \notin disarmed

=============================================================================
