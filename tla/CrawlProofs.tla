---------------------------- MODULE CrawlProofs -----------------------------
(***************************************************************************)
(* What holds of any number of crawlers, urls and sessions, rebuilt in any *)
(* order. Each part of the invariant is kept by a summary of the steps     *)
(* that touch it (NewsSteps, BoardStep, JobsStep, RoundsStep and           *)
(* CooldownsStep), which is established once for every action.             *)
(***************************************************************************)
EXTENDS Crawl, TLAPS

\* What a step does to the news.
LEMMA NewsSteps ==
  ASSUME Next
  PROVE  \/ UNCHANGED news
         \/ \E c \in Crawler : \E g \in Going(c) : Save(c, g) \/ CrashSaving(c, g)
<1>1. \A c : Load(c) \/ Unload(c) => UNCHANGED news
  BY DEF Load, Unload
<1>2. \A c : StartRound(c) => UNCHANGED news
  BY DEF StartRound, Visit
<1>3. \A c, g : Proceed(c, g) => UNCHANGED news
  BY DEF Proceed, Visit
<1>4. \A c, g, results : Fetched(c, g, results) => UNCHANGED news
  BY DEF Fetched
<1>5. \A c, g, a : Skip(c, g, a) \/ Process(c, g, a) => UNCHANGED news
  BY DEF Skip, Process
<1>6. \A c, g : Succeed(c, g) => UNCHANGED news
  BY DEF Succeed
<1>7. \A c, g, class : Retry(c, g, class) => UNCHANGED news
  BY DEF Retry
<1>8. \A c, g, class, d : Fail(c, g, class, d) => UNCHANGED news
  BY DEF Fail
<1>9. LoadKeepalive \/ UnloadKeepalive \/ Inspect \/ Tick => UNCHANGED news
  BY DEF LoadKeepalive, UnloadKeepalive, Inspect, Tick
<1>10. \A s : JobStep(s) => UNCHANGED news
  BY DEF JobStep, RunJob, Probed, Settle, Resume, Outlive
<1>11. Crash => UNCHANGED news
  BY DEF Crash, Down, news
<1>12. QED
  BY <1>1, <1>2, <1>3, <1>4, <1>5, <1>6, <1>7, <1>8, <1>9, <1>10, <1>11 DEF Next, RoundStep

Told == announced \in [Article -> Nat] /\ NewsIsToldOnce

LEMMA NewsStayTold ==
  ASSUME Told, [Next]_vars
  PROVE  Told'
<1>1. CASE UNCHANGED news
  BY <1>1 DEF Told, NewsIsToldOnce, news
<1>2. ASSUME NEW c, NEW g, Save(c, g)
      PROVE  Told'
  <2> DEFINE a == round[c][g].hand
  <2>1. /\ saved' = saved \cup Quotes[a] \cup {a}
        /\ quoted' = quoted \cup (Quotes[a] \ saved)
        /\ cut' = cut
        /\ announced' = IF a \in saved THEN announced ELSE [announced EXCEPT ![a] = @ + 1]
    BY <1>2 DEF Save, SaveRefs
  <2>2. ASSUME NEW x \in Article
        PROVE  /\ announced'[x] \in Nat
               /\ announced'[x] <= 1
               /\ x \in saved' <=> announced'[x] = 1 \/ x \in cut' \cup quoted'
    <3> HIDE DEF a
    <3>1. /\ announced[x] \in {0, 1}
          /\ announced'[x] = IF x = a /\ a \notin saved THEN announced[x] + 1 ELSE announced[x]
          /\ x \in saved <=> announced[x] = 1 \/ x \in cut \cup quoted
      BY <2>1 DEF Told, NewsIsToldOnce
    <3>2. CASE x = a /\ a \notin saved
      BY <3>1, <3>2, <2>1
    <3>3. CASE ~(x = a /\ a \notin saved)
      BY <3>1, <3>3, <2>1
    <3>4. QED
      BY <3>2, <3>3
  <2>3. announced' \in [Article -> Nat]
    <3> HIDE DEF a
    <3>1. CASE a \in saved
      BY <3>1, <2>1 DEF Told
    <3>2. CASE a \notin saved
      <4>1. announced' = [x \in Article |-> announced'[x]]
        BY <3>2, <2>1 DEF Told
      <4>2. QED
        BY <4>1, <2>2
    <3>3. QED
      BY <3>1, <3>2
  <2>4. QED
    BY <2>2, <2>3 DEF Told, NewsIsToldOnce
<1>3. ASSUME NEW c, NEW g, CrashSaving(c, g)
      PROVE  Told'
  BY <1>3 DEF Told, NewsIsToldOnce, CrashSaving, SaveRefs, Down
<1>4. QED
  BY <1>1, <1>2, <1>3, NewsSteps DEF vars, news

\* The rounds in flight: where they are, and that one with a board has a session.
RoundsOK ==
  /\ gen \in [Crawler -> 0..MaxGen]
  /\ \A c \in alive : c \in Crawler /\ gen[c] \in Generation
  /\ round \in [Crawler -> [Generation -> Round]]
  /\ \A c \in Crawler : \A g \in Going(c) :
       /\ round[c][g].index \in 1..Len(Urls[c])
       /\ round[c][g].board \in {NoBoard} \cup Board
       /\ round[c][g].board # NoBoard => Uses[c] \in Session

SlotsOK ==
  /\ boards \in [Board -> [Session -> Slot]]
  /\ board \in {NoBoard} \cup Board
  /\ stored \in [Session -> Slot]

\* The jobs: those of a keepalive that is gone have no timers.
JobsOK ==
  /\ up \in BOOLEAN
  /\ up => board \in Board
  /\ timers \subseteq Session
  /\ disarmed \subseteq Session
  /\ flight \in [Session -> {"none", "probing", "settling"}]
  /\ outliving \subseteq Board \X Session
  /\ ~up => timers = {} /\ disarmed = {} /\ \A s \in Session : flight[s] = "none"

(***************************************************************************)
(* The slots.                                                              *)
(***************************************************************************)

LEMMA SlotsStaySlots ==
  ASSUME NEW slot \in Slot
  PROVE  /\ FreshSlot \in Slot
         /\ Looked(slot) \in Slot
         /\ \A ok \in BOOLEAN : Recorded(slot, ok) \in Slot
         /\ Sooner(slot) \in Slot
<1> USE ThresholdAssumption, ResumeAssumption DEF Slot, Never
<1>1. FreshSlot \in Slot
  BY DEF FreshSlot
<1>2. Looked(slot) \in Slot
  BY <1>1 DEF Looked
<1>3. Failed(slot) \in Slot
  <2> DEFINE n == IF slot.fails < BrokenThreshold THEN slot.fails + 1 ELSE slot.fails
  <2>1. n \in 0..BrokenThreshold
    OBVIOUS
  <2> HIDE DEF n
  <2>2. [slot EXCEPT !.fails = n] \in Slot /\ [slot EXCEPT !.fails = n, !.state = "suspect"] \in Slot
    BY <2>1
  <2>3. [state |-> "quarantined", fails |-> n,
         resume |-> IF ResumeAfter > 0 THEN ResumeAfter ELSE Never] \in Slot
    BY <2>1
  <2>4. QED
    BY <2>2, <2>3 DEF Failed, n
<1>4. Sooner(slot) \in Slot
  BY DEF Sooner
<1>5. QED
  BY <1>1, <1>2, <1>3, <1>4 DEF Recorded

\* A failure or the passing of time ends no quarantine, and a look only one that is over.
LEMMA QuarantineStays ==
  ASSUME NEW slot \in Slot, Quarantined(slot)
  PROVE  /\ Quarantined(Recorded(slot, FALSE))
         /\ Quarantined(Sooner(slot))
         /\ slot.resume # 0 => Looked(slot) = slot
         /\ Recorded(slot, TRUE).state = "fresh"
         /\ Looked(slot) # slot => slot.resume = 0 /\ Looked(slot).state = "fresh"
BY ThresholdAssumption, ResumeAssumption
   DEF Slot, Quarantined, Recorded, Failed, Sooner, Looked, FreshSlot, Never

(***************************************************************************)
(* The board.                                                              *)
(***************************************************************************)

\* What a step does to the board that is current, to the rows and to what was written beside it.
BoardStep ==
  \/ UNCHANGED <<boards, board, stored, ghosted>>
  \/ \E b \in Board, S \in SUBSET Session : Look(b, S) /\ UNCHANGED board
  \/ \E b \in Board, s \in Session, ok \in BOOLEAN :
       /\ Write(b, {s}, [boards[b] EXCEPT ![s] = Recorded(@, ok)])
       /\ ok => SomeSuccess
       /\ UNCHANGED board
  \/ LoadKeepalive
  \/ Tick

LEMMA BoardSteps ==
  ASSUME RoundsOK, JobsOK, [Next]_vars
  PROVE  BoardStep
<1>1. CASE UNCHANGED vars
  BY <1>1 DEF BoardStep, vars, sessions, keepalive
<1>2. ASSUME NEW c \in Crawler, Load(c) \/ Unload(c)
      PROVE  BoardStep
  BY <1>2 DEF BoardStep, Load, Unload, sessions, keepalive
<1>3. ASSUME NEW c \in Crawler, NEW g, NEW i, NEW b \in {NoBoard} \cup Board,
             b # NoBoard => Uses[c] \in Session, Visit(c, g, i, b)
      PROVE  BoardStep
  <2>1. CASE b = NoBoard
    BY <1>3, <2>1 DEF Visit, BoardStep, keepalive
  <2>2. CASE b # NoBoard
    <3>1. Look(b, {Uses[c]}) /\ UNCHANGED board
      BY <1>3, <2>2 DEF Visit, keepalive
    <3>2. QED
      BY <1>3, <2>2, <3>1 DEF BoardStep
  <2>3. QED
    BY <2>1, <2>2
<1>4. ASSUME NEW c \in Crawler, StartRound(c)
      PROVE  BoardStep
  <2>1. CASE up /\ Uses[c] # NoSession
    BY <1>4, <2>1, <1>3, UsesAssumption DEF StartRound, JobsOK
  <2>2. CASE ~(up /\ Uses[c] # NoSession)
    BY <1>4, <2>2, <1>3 DEF StartRound
  <2>3. QED
    BY <2>1, <2>2
<1>5. ASSUME NEW c \in Crawler, NEW g \in Going(c), NEW b, NEW ok \in BOOLEAN,
             b = NoBoard \/ b = round[c][g].board, Record(b, Uses[c], ok),
             ok => SomeSuccess, UNCHANGED keepalive
      PROVE  BoardStep
  <2>1. CASE b = NoBoard
    BY <1>5, <2>1 DEF Record, BoardStep, keepalive
  <2>2. CASE b # NoBoard
    <3>1. b \in Board /\ Uses[c] \in Session
      BY <1>5, <2>2 DEF RoundsOK
    <3>2. Write(b, {Uses[c]}, [boards[b] EXCEPT ![Uses[c]] = Recorded(@, ok)])
      BY <1>5, <2>2 DEF Record
    <3>3. QED
      BY <1>5, <3>1, <3>2 DEF BoardStep, keepalive
  <2>3. QED
    BY <2>1, <2>2
<1>6. ASSUME NEW c \in Crawler, NEW g \in Going(c), RoundStep(c, g)
      PROVE  BoardStep
  <2>1. CASE Proceed(c, g)
    BY <2>1, <1>3 DEF Proceed, RoundsOK
  <2>2. ASSUME NEW results, Fetched(c, g, results)
        PROVE  BoardStep
    BY <2>2 DEF Fetched, BoardStep, sessions, keepalive
  <2>3. ASSUME NEW a, Skip(c, g, a) \/ Process(c, g, a)
        PROVE  BoardStep
    BY <2>3 DEF Skip, Process, BoardStep, sessions, keepalive
  <2>4. CASE Save(c, g)
    BY <2>4 DEF Save, BoardStep, sessions, keepalive
  <2>5. CASE Succeed(c, g)
    <3>1. CASE Books(c, g)
      <4>1. Record(round[c][g].board, Uses[c], TRUE) /\ UNCHANGED keepalive
        BY <2>5, <3>1 DEF Succeed
      <4>2. SomeSuccess
        BY <2>5, <3>1 DEF Succeed, SomeSuccess, Goes, After, Idle, Going, RoundsOK
      <4>3. QED
        BY <4>1, <4>2, <1>5
    <3>2. CASE ~Books(c, g)
      BY <2>5, <3>2 DEF Succeed, Ends, BoardStep, keepalive
    <3>3. QED
      BY <3>1, <3>2
  <2>6. ASSUME NEW class, Retry(c, g, class)
        PROVE  BoardStep
    BY <2>6 DEF Retry, BoardStep, sessions, keepalive
  <2>7. ASSUME NEW class, NEW d, Fail(c, g, class, d)
        PROVE  BoardStep
    <3>1. CASE Books(c, g)
      <4>1. /\ Record(IF class = "auth" THEN round[c][g].board ELSE NoBoard, Uses[c], FALSE)
            /\ UNCHANGED keepalive
        BY <2>7, <3>1 DEF Fail
      <4>2. QED
        BY <4>1, <1>5
    <3>2. CASE ~Books(c, g)
      BY <2>7, <3>2 DEF Fail, Ends, BoardStep, keepalive
    <3>3. QED
      BY <3>1, <3>2
  <2>8. CASE CrashSaving(c, g)
    BY <2>8 DEF CrashSaving, Down, BoardStep
  <2>9. QED
    BY <1>6, <2>1, <2>2, <2>3, <2>4, <2>5, <2>6, <2>7, <2>8 DEF RoundStep
<1>7. ASSUME NEW b \in Board, NEW S \in SUBSET Session, Look(b, S), UNCHANGED board
      PROVE  BoardStep
  BY <1>7 DEF BoardStep
<1>8. ASSUME NEW s \in Session, JobStep(s)
      PROVE  BoardStep
  <2>1. CASE RunJob(s)
    BY <2>1, <1>7 DEF RunJob, JobsOK, keepalive
  <2>2. ASSUME NEW ok \in BOOLEAN, Probed(s, ok)
        PROVE  BoardStep
    <3>1. board \in Board
      BY <2>2 DEF Probed, JobsOK
    <3>2. Write(board, {s}, [boards[board] EXCEPT ![s] = Recorded(@, ok)]) /\ UNCHANGED board
      BY <2>2, <3>1 DEF Probed, Record, keepalive, Board, NoBoard
    <3>3. SomeSuccess
      BY <2>2 DEF Probed, SomeSuccess, JobsOK
    <3>4. QED
      BY <3>1, <3>2, <3>3 DEF BoardStep
  <2>3. CASE Settle(s)
    BY <2>3, <1>7 DEF Settle, JobsOK, keepalive
  <2>4. CASE Resume(s)
    BY <2>4, <1>7 DEF Resume, JobsOK, keepalive
  <2>5. ASSUME NEW b \in Board, Outlive(b, s)
        PROVE  BoardStep
    BY <2>5, <1>7 DEF Outlive, keepalive
  <2>6. QED
    BY <1>8, <2>1, <2>2, <2>3, <2>4, <2>5 DEF JobStep
<1>9. CASE UnloadKeepalive \/ Crash
  BY <1>9 DEF UnloadKeepalive, Crash, Down, BoardStep
<1>10. CASE Inspect
  BY <1>10, <1>7 DEF Inspect, JobsOK, keepalive
<1>11. CASE LoadKeepalive \/ Tick
  BY <1>11 DEF BoardStep
<1>12. QED
  BY <1>1, <1>2, <1>4, <1>6, <1>8, <1>9, <1>10, <1>11 DEF Next

LEMMA SeenAreSlots ==
  ASSUME SlotsOK, NEW b \in Board, NEW S \in SUBSET Session
  PROVE  /\ Seen(b, S) \in [Session -> Slot]
         /\ \A s \in Session \ Lifted(b, S) : Seen(b, S)[s] = boards[b][s]
         /\ \A s \in Lifted(b, S) : s \in Session /\ Seen(b, S)[s] = Looked(boards[b][s])
BY SlotsStaySlots DEF SlotsOK, Seen, Lifted

LEMMA SlotsStay ==
  ASSUME SlotsOK, BoardStep
  PROVE  SlotsOK'
<1>1. CASE UNCHANGED <<boards, board, stored, ghosted>>
  BY <1>1 DEF SlotsOK
<1>2. ASSUME NEW b \in Board, NEW S \in SUBSET Session, Look(b, S), UNCHANGED board
      PROVE  SlotsOK'
  BY <1>2, SeenAreSlots DEF SlotsOK, Look, Write
<1>3. ASSUME NEW b \in Board, NEW s \in Session, NEW ok \in BOOLEAN,
             Write(b, {s}, [boards[b] EXCEPT ![s] = Recorded(@, ok)]), UNCHANGED board
      PROVE  SlotsOK'
  <2>1. Recorded(boards[b][s], ok) \in Slot
    BY SlotsStaySlots DEF SlotsOK
  <2>2. [boards[b] EXCEPT ![s] = Recorded(@, ok)] \in [Session -> Slot]
    BY <2>1 DEF SlotsOK
  <2>3. QED
    BY <1>3, <2>2 DEF SlotsOK, Write
<1>4. CASE LoadKeepalive
  BY <1>4, BoundsAssumption DEF SlotsOK, LoadKeepalive, Board, NoBoard
<1>5. CASE Tick
  BY <1>5, SlotsStaySlots DEF SlotsOK, Tick, keepalive
<1>6. QED
  BY <1>1, <1>2, <1>3, <1>4, <1>5 DEF BoardStep

LEMMA BoardStaysInAgreement ==
  ASSUME SlotsOK, BoardAgrees, BoardStep
  PROVE  BoardAgrees'
<1>1. CASE UNCHANGED <<boards, board, stored, ghosted>>
  BY <1>1 DEF BoardAgrees
<1>2. ASSUME NEW b \in Board, NEW S \in SUBSET Session, Look(b, S), UNCHANGED board
      PROVE  BoardAgrees'
  <2>1. CASE b = board
    BY <1>2, <2>1, SeenAreSlots DEF SlotsOK, BoardAgrees, Look, Write
  <2>2. CASE b # board
    BY <1>2, <2>2 DEF SlotsOK, BoardAgrees, Look, Write
  <2>3. QED
    BY <2>1, <2>2
<1>3. ASSUME NEW b \in Board, NEW s \in Session, NEW ok \in BOOLEAN,
             Write(b, {s}, [boards[b] EXCEPT ![s] = Recorded(@, ok)]), UNCHANGED board
      PROVE  BoardAgrees'
  <2>1. CASE b = board
    BY <1>3, <2>1 DEF SlotsOK, BoardAgrees, Write
  <2>2. CASE b # board
    BY <1>3, <2>2 DEF SlotsOK, BoardAgrees, Write
  <2>3. QED
    BY <2>1, <2>2
<1>4. CASE LoadKeepalive
  BY <1>4, BoundsAssumption DEF SlotsOK, BoardAgrees, LoadKeepalive, Board, NoBoard
<1>5. CASE Tick
  BY <1>5 DEF SlotsOK, BoardAgrees, Tick, keepalive
<1>6. QED
  BY <1>1, <1>2, <1>3, <1>4, <1>5 DEF BoardStep

\* A quarantine on record is lifted by the current board only if that finds it over or hears of a
\* success.
LEMMA LiftIsEarned ==
  ASSUME SlotsOK, BoardAgrees, BoardStep, NEW s \in Session, s \notin ghosted'
  PROVE  LiftedOnlyBy(s)
<1> SUFFICES ASSUME Quarantined(stored[s]), ~Quarantined(stored'[s])
             PROVE  /\ stored'[s].state = "fresh"
                    /\ stored[s].resume = 0 \/ SomeSuccess
  BY DEF LiftedOnlyBy
<1> USE DEF SlotsOK
<1>1. CASE UNCHANGED <<boards, board, stored, ghosted>> \/ LoadKeepalive
  BY <1>1 DEF LoadKeepalive
<1>2. ASSUME NEW b \in Board, NEW S \in SUBSET Session, Look(b, S), UNCHANGED board
      PROVE  stored'[s].state = "fresh" /\ stored[s].resume = 0
  <2>1. s \in Lifted(b, S) /\ stored'[s] = Looked(boards[b][s])
    BY <1>2, SeenAreSlots DEF Look, Write
  <2>2. boards[b][s] = stored[s]
    BY <1>2, <2>1 DEF Look, Write, BoardAgrees, Board, NoBoard
  <2>3. QED
    BY <2>1, <2>2, QuarantineStays DEF Lifted
<1>3. ASSUME NEW b \in Board, NEW t \in Session, NEW ok \in BOOLEAN,
             Write(b, {t}, [boards[b] EXCEPT ![t] = Recorded(@, ok)]), ok => SomeSuccess, UNCHANGED board
      PROVE  stored'[s].state = "fresh" /\ SomeSuccess
  <2>1. s = t /\ stored'[s] = Recorded(boards[b][s], ok)
    BY <1>3 DEF Write
  <2>2. boards[b][s] = stored[s]
    BY <1>3, <2>1 DEF Write, BoardAgrees, Board, NoBoard
  <2>3. ok = TRUE
    <3>1. Quarantined(Recorded(stored[s], FALSE))
      BY QuarantineStays
    <3>2. QED
      BY <1>3, <2>1, <2>2, <3>1
  <2>4. QED
    BY <1>3, <2>1, <2>2, <2>3, QuarantineStays
<1>4. CASE Tick
  BY <1>4, QuarantineStays DEF Tick
<1>5. QED
  BY <1>1, <1>2, <1>3, <1>4 DEF BoardStep

(***************************************************************************)
(* The jobs.                                                               *)
(***************************************************************************)

\* Some of the disarmed jobs are armed.
Rearms ==
  /\ \E W \in SUBSET disarmed : Arm(W)
  /\ UNCHANGED <<board, up, flight>>
  /\ outliving' \subseteq outliving

JobsStep ==
  \/ UNCHANGED <<board, up, timers, disarmed, flight, outliving>>
  \/ Rearms
  \/ \E s \in Session : RunJob(s) \/ Settle(s) \/ \E ok \in BOOLEAN : Probed(s, ok)
  \/ LoadKeepalive
  \/ UnloadKeepalive
  \/ Down

LEMMA WokenAreDisarmed ==
  ASSUME NEW b, NEW slots
  PROVE  Woken(b, slots) \in SUBSET disarmed
BY DEF Woken

LEMMA JobsSteps ==
  ASSUME RoundsOK, JobsOK, [Next]_vars
  PROVE  JobsStep
<1> USE DEF jobs, keepalive, sessions
<1>1. CASE UNCHANGED vars
  BY <1>1 DEF JobsStep, vars
<1>2. ASSUME NEW c, Load(c) \/ Unload(c)
      PROVE  JobsStep
  BY <1>2 DEF JobsStep, Load, Unload
<1>3. ASSUME NEW c, NEW g, NEW i, NEW b, Visit(c, g, i, b)
      PROVE  JobsStep
  <2>1. CASE b = NoBoard
    BY <1>3, <2>1 DEF Visit, JobsStep
  <2>2. CASE b # NoBoard
    BY <1>3, <2>2, WokenAreDisarmed DEF Visit, JobsStep, Rearms
  <2>3. QED
    BY <2>1, <2>2
<1>4. ASSUME NEW c, StartRound(c)
      PROVE  JobsStep
  BY <1>4, <1>3 DEF StartRound
<1>5. ASSUME NEW b, NEW s, NEW ok, Record(b, s, ok)
      PROVE  UNCHANGED <<timers, disarmed>> \/ \E W \in SUBSET disarmed : Arm(W)
  <2>1. CASE b = NoBoard
    BY <1>5, <2>1 DEF Record
  <2>2. CASE b # NoBoard
    BY <1>5, <2>2, WokenAreDisarmed DEF Record
  <2>3. QED
    BY <2>1, <2>2
<1>6. ASSUME NEW c \in Crawler, NEW g \in Going(c), RoundStep(c, g)
      PROVE  JobsStep
  <2>1. CASE Proceed(c, g)
    BY <2>1, <1>3 DEF Proceed
  <2>2. ASSUME NEW results, Fetched(c, g, results)
        PROVE  JobsStep
    BY <2>2 DEF Fetched, JobsStep
  <2>3. ASSUME NEW a, Skip(c, g, a) \/ Process(c, g, a)
        PROVE  JobsStep
    BY <2>3 DEF Skip, Process, JobsStep
  <2>4. CASE Save(c, g)
    BY <2>4 DEF Save, JobsStep
  <2>5. CASE Succeed(c, g)
    <3>1. CASE Books(c, g)
      BY <2>5, <3>1, <1>5 DEF Succeed, JobsStep, Rearms
    <3>2. CASE ~Books(c, g)
      BY <2>5, <3>2 DEF Succeed, Ends, JobsStep
    <3>3. QED
      BY <3>1, <3>2
  <2>6. ASSUME NEW class, Retry(c, g, class)
        PROVE  JobsStep
    BY <2>6 DEF Retry, JobsStep
  <2>7. ASSUME NEW class, NEW d, Fail(c, g, class, d)
        PROVE  JobsStep
    <3>1. CASE Books(c, g)
      BY <2>7, <3>1, <1>5 DEF Fail, JobsStep, Rearms
    <3>2. CASE ~Books(c, g)
      BY <2>7, <3>2 DEF Fail, Ends, JobsStep
    <3>3. QED
      BY <3>1, <3>2
  <2>8. CASE CrashSaving(c, g)
    BY <2>8 DEF CrashSaving, JobsStep
  <2>9. QED
    BY <1>6, <2>1, <2>2, <2>3, <2>4, <2>5, <2>6, <2>7, <2>8 DEF RoundStep
<1>7. ASSUME NEW s \in Session, JobStep(s)
      PROVE  JobsStep
  <2>1. CASE Resume(s)
    BY <2>1 DEF Resume, JobsStep, Rearms
  <2>2. ASSUME NEW b, Outlive(b, s)
        PROVE  JobsStep
    BY <2>2, WokenAreDisarmed DEF Outlive, JobsStep, Rearms
  <2>3. QED
    BY <1>7, <2>1, <2>2 DEF JobStep, JobsStep
<1>8. CASE Inspect
  BY <1>8, WokenAreDisarmed DEF Inspect, JobsStep, Rearms
<1>9. CASE LoadKeepalive \/ UnloadKeepalive \/ Crash
  BY <1>9 DEF Crash, JobsStep
<1>10. CASE Tick
  BY <1>10 DEF Tick, JobsStep
<1>11. QED
  BY <1>1, <1>2, <1>4, <1>6, <1>7, <1>8, <1>9, <1>10 DEF Next

LEMMA JobsStay ==
  ASSUME JobsOK, SlotsOK, OneTimerPerJob, JobsStep
  PROVE  JobsOK' /\ OneTimerPerJob'
<1> USE DEF JobsOK, OneTimerPerJob
<1>1. CASE UNCHANGED <<board, up, timers, disarmed, flight, outliving>>
  BY <1>1
<1>2. CASE Rearms
  BY <1>2 DEF Rearms, Arm
<1>3. ASSUME NEW s \in Session, RunJob(s)
      PROVE  JobsOK' /\ OneTimerPerJob'
  <2> DEFINE W == Woken(board, Seen(board, {s}))
  <2>1. W \in SUBSET disarmed
    BY WokenAreDisarmed
  <2>2. /\ s \in timers
        /\ timers' = (timers \ {s}) \cup W
        /\ disarmed' = disarmed \ W
        /\ \E at \in {"probing", "settling"} : flight' = [flight EXCEPT ![s] = at]
        /\ UNCHANGED <<board, up, outliving>>
    BY <1>3 DEF RunJob, keepalive
  <2> HIDE DEF W
  <2>3. QED
    BY <2>1, <2>2
<1>4. ASSUME NEW s \in Session, Settle(s)
      PROVE  JobsOK' /\ OneTimerPerJob'
  <2> DEFINE W == Woken(board, Seen(board, Session))
  <2>1. W \in SUBSET disarmed
    BY WokenAreDisarmed
  <2>2. /\ flight[s] = "settling"
        /\ flight' = [flight EXCEPT ![s] = "none"]
        /\ \/ timers' = timers \cup W /\ disarmed' = (disarmed \ W) \cup {s}
           \/ timers' = timers \cup (W \cup {s}) /\ disarmed' = disarmed \ (W \cup {s})
        /\ UNCHANGED <<board, up, outliving>>
    BY <1>4 DEF Settle, Arm, keepalive
  <2> HIDE DEF W
  <2>3. QED
    BY <2>1, <2>2
<1>5. ASSUME NEW s \in Session, NEW ok \in BOOLEAN, Probed(s, ok)
      PROVE  JobsOK' /\ OneTimerPerJob'
  <2>1. /\ flight[s] = "probing"
        /\ flight' = [flight EXCEPT ![s] = "settling"]
        /\ UNCHANGED <<board, up, outliving>>
    BY <1>5 DEF Probed, keepalive
  <2>2. Arm(Woken(board, [boards[board] EXCEPT ![s] = Recorded(@, ok)]))
    BY <1>5, <2>1 DEF Probed, Record, Board, NoBoard
  <2>3. \E W \in SUBSET disarmed : timers' = timers \cup W /\ disarmed' = disarmed \ W
    BY <2>2, WokenAreDisarmed DEF Arm
  <2>4. QED
    BY <2>1, <2>3
<1>6. CASE LoadKeepalive
  BY <1>6, BoundsAssumption DEF LoadKeepalive, SlotsOK, Board, NoBoard, jobs
<1>7. CASE UnloadKeepalive
  BY <1>7 DEF UnloadKeepalive
<1>8. CASE Down
  BY <1>8 DEF Down
<1>9. QED
  BY <1>1, <1>2, <1>3, <1>4, <1>5, <1>6, <1>7, <1>8 DEF JobsStep

(***************************************************************************)
(* The rounds.                                                             *)
(***************************************************************************)

LEMMA RoundFields ==
  ASSUME NEW r \in Round
  PROVE  /\ r # Idle => r.at # "idle" /\ r.index \in Nat \ {0} /\ r.board \in {NoBoard} \cup Board
         /\ r.at = "idle" => r = Idle
         /\ r.at = "persist" => r \in [at: {"persist"}, index: Nat \ {0}, board: {NoBoard} \cup Board,
                                       left: SUBSET Article]
         /\ r.at = "fetch" => r \in [at: {"fetch"}, index: Nat \ {0}, board: {NoBoard} \cup Board,
                                     attempt: 1..2]
         /\ r.at = "process" => r \in [at: {"process"}, index: Nat \ {0}, board: {NoBoard} \cup Board,
                                       left: SUBSET Article, hand: Article]
BY DEF Round, Idle

\* Round r of crawler c is one that RoundsOK allows.
Proper(c, r) ==
  /\ r \in Round
  /\ r # Idle => /\ r.index \in 1..Len(Urls[c])
                 /\ r.board \in {NoBoard} \cup Board
                 /\ r.board # NoBoard => Uses[c] \in Session

LEMMA ProperRounds ==
  RoundsOK <=> /\ gen \in [Crawler -> 0..MaxGen]
               /\ \A c \in alive : c \in Crawler /\ gen[c] \in Generation
               /\ round \in [Crawler -> [Generation -> Round]]
               /\ \A c \in Crawler, g \in Generation : Proper(c, round[c][g])
BY DEF RoundsOK, Proper, Going

LEMMA ProperAfter ==
  ASSUME NEW c \in Crawler, NEW i \in 1..Len(Urls[c]), NEW b \in {NoBoard} \cup Board,
         b # NoBoard => Uses[c] \in Session
  PROVE  /\ Proper(c, After(c, i, b))
         /\ After(c, i, b).at \in {"idle", "pause"}
<1>1. Len(Urls[c]) \in Nat
  BY UrlsAssumption
<1>2. QED
  BY <1>1 DEF Proper, After, Round, Idle

LEMMA RoundGoes ==
  ASSUME RoundsOK, NEW c \in Crawler, NEW g \in Generation, NEW to, Proper(c, to), Goes(c, g, to),
         UNCHANGED <<gen, alive>>
  PROVE  /\ RoundsOK'
         /\ round'[c][g] = to
         /\ \A d \in Crawler, h \in Generation : <<d, h>> # <<c, g>> => round'[d][h] = round[d][h]
<1>1. round'[c][g] = to
  BY DEF RoundsOK, Goes
<1>2. ASSUME NEW d \in Crawler, NEW h \in Generation, <<d, h>> # <<c, g>>
      PROVE  round'[d][h] = round[d][h]
  BY <1>2 DEF RoundsOK, Goes
<1>3. round' \in [Crawler -> [Generation -> Round]]
  BY DEF RoundsOK, Goes, Proper
<1>4. \A d \in Crawler, h \in Generation : Proper(d, round'[d][h])
  BY <1>1, <1>2, ProperRounds
<1>5. RoundsOK'
  BY <1>3, <1>4, ProperRounds DEF RoundsOK, Proper, Going
<1>6. QED
  BY <1>1, <1>2, <1>5

\* A round that turns to a url has passed its gates.
Admitted(c, g, to) ==
  /\ ~Cooled(memory[c][g][Urls[c][to.index]])
  /\ to.board # NoBoard => ~Quarantined(Looked(boards[to.board][Uses[c]]))

Moves(c, g, to) ==
  /\ Proper(c, to)
  /\ Goes(c, g, to)
  /\ round[c][g].at \in {"idle", "pause"} /\ to.at = "fetch" => Admitted(c, g, to)
  /\ UNCHANGED <<gen, alive, board>>

RoundsStep ==
  \/ UNCHANGED <<gen, alive, round>>
  \/ \E c \in Crawler : Load(c) \/ Unload(c)
  \/ \E c \in Crawler, g \in Generation, to \in Round : Moves(c, g, to)
  \/ Down

LEMMA VisitMoves ==
  ASSUME RoundsOK, NEW c \in Crawler, NEW g \in Generation, NEW i \in 1..Len(Urls[c]),
         NEW b \in {NoBoard} \cup Board, b # NoBoard => Uses[c] \in Session, Visit(c, g, i, b)
  PROVE  \E to \in Round : Moves(c, g, to)
<1> DEFINE fetch == [at |-> "fetch", index |-> i, board |-> b, attempt |-> 1]
<1>1. Proper(c, fetch)
  BY UrlsAssumption DEF Proper, Round, Idle
<1>2. CASE Goes(c, g, After(c, i, b))
  BY <1>2, ProperAfter DEF Visit, Moves, Proper, fibers, keepalive
<1>3. CASE ~Goes(c, g, After(c, i, b))
  <2>1. /\ Goes(c, g, fetch)
        /\ ~Cooled(memory[c][g][Urls[c][i]])
        /\ ~(b # NoBoard /\ Quarantined(Looked(boards[b][Uses[c]])))
    BY <1>3 DEF Visit
  <2>2. Admitted(c, g, fetch)
    BY <2>1 DEF Admitted
  <2>3. QED
    BY <1>1, <2>1, <2>2 DEF Visit, Moves, Proper, fibers, keepalive
<1>4. QED
  BY <1>2, <1>3

LEMMA RoundsSteps ==
  ASSUME RoundsOK, JobsOK, [Next]_vars
  PROVE  RoundsStep
<1> USE DEF RoundsStep, fibers, keepalive
<1>1. CASE UNCHANGED vars
  BY <1>1 DEF vars
<1>2. ASSUME NEW c \in Crawler, StartRound(c)
      PROVE  RoundsStep
  <2>1. gen[c] \in Generation /\ 1 \in 1..Len(Urls[c])
    BY <1>2, UrlsAssumption DEF StartRound, RoundsOK
  <2>2. CASE up /\ Uses[c] # NoSession
    <3>1. Visit(c, gen[c], 1, board) /\ board \in Board /\ Uses[c] \in Session
      BY <1>2, <2>2, UsesAssumption DEF StartRound, JobsOK
    <3>2. QED
      BY <2>1, <3>1, VisitMoves
  <2>3. CASE ~(up /\ Uses[c] # NoSession)
    <3>1. Visit(c, gen[c], 1, NoBoard)
      BY <1>2, <2>3 DEF StartRound
    <3>2. QED
      BY <2>1, <3>1, VisitMoves
  <2>4. QED
    BY <2>2, <2>3
<1>3. ASSUME NEW c \in Crawler, NEW g \in Going(c), RoundStep(c, g)
      PROVE  RoundsStep
  <2> DEFINE r == round[c][g]
  <2>1. g \in Generation /\ r \in Round /\ r # Idle /\ Proper(c, r)
    BY ProperRounds DEF Going, RoundsOK
  <2>2. UrlOf(c, g) \in Url
    BY <2>1, UrlsAssumption DEF UrlOf, Proper
  <2>3. /\ r.index \in 1..Len(Urls[c])
        /\ r.board \in {NoBoard} \cup Board
        /\ r.board # NoBoard => Uses[c] \in Session
    BY <2>1 DEF Proper
  <2>4. ASSUME NEW to, Proper(c, to), Goes(c, g, to), r.at \notin {"idle", "pause"} \/ to.at # "fetch",
               UNCHANGED <<gen, alive, board>>
        PROVE  RoundsStep
    BY <2>1, <2>4 DEF Moves, Proper
  <2>5. CASE Proceed(c, g)
    BY <2>1, <2>3, <2>5, VisitMoves DEF Proceed
  <2>6. ASSUME NEW results \in SUBSET Shown[c][UrlOf(c, g)], Fetched(c, g, results)
        PROVE  RoundsStep
    <3> DEFINE to == [at |-> "persist", index |-> r.index, board |-> r.board, left |-> results]
    <3>1. results \subseteq Article
      BY <2>2, ShownAssumption
    <3>2. r.index \in Nat \ {0}
      BY <2>1, RoundFields
    <3>3. Proper(c, to)
      BY <2>3, <3>1, <3>2 DEF Proper, Round, Idle
    <3>4. Goes(c, g, to) /\ to.at # "fetch" /\ UNCHANGED <<gen, alive, board>>
      BY <2>6 DEF Fetched
    <3>5. QED
      BY <2>4, <3>3, <3>4
  <2>7. ASSUME NEW a \in Article, Skip(c, g, a)
        PROVE  RoundsStep
    <3> DEFINE to == [r EXCEPT !.left = r.left \ {a}]
    <3>1. r \in [at: {"persist"}, index: Nat \ {0}, board: {NoBoard} \cup Board, left: SUBSET Article]
      BY <2>1, <2>7, RoundFields DEF Skip
    <3>2. to \in [at: {"persist"}, index: Nat \ {0}, board: {NoBoard} \cup Board, left: SUBSET Article]
      BY <3>1
    <3>3. Proper(c, to)
      BY <2>3, <3>1, <3>2 DEF Proper, Round
    <3>4. round' = [round EXCEPT ![c][g] = to]
      BY <2>1, <2>7 DEF Skip, RoundsOK
    <3>5. QED
      BY <2>4, <2>7, <3>2, <3>3, <3>4 DEF Skip, Goes
  <2>8. ASSUME NEW a \in Article, Process(c, g, a)
        PROVE  RoundsStep
    <3> DEFINE to == [at |-> "process", index |-> r.index, board |-> r.board, left |-> r.left \ {a},
                   hand |-> a]
    <3>1. r.left \subseteq Article /\ r.index \in Nat \ {0}
      BY <2>1, <2>8, RoundFields DEF Process
    <3>2. Proper(c, to)
      BY <2>3, <3>1 DEF Proper, Round, Idle
    <3>3. Goes(c, g, to) /\ to.at # "fetch" /\ UNCHANGED <<gen, alive, board>>
      BY <2>8 DEF Process
    <3>4. QED
      BY <2>4, <3>2, <3>3
  <2>9. CASE Save(c, g)
    <3> DEFINE to == [at |-> "persist", index |-> r.index, board |-> r.board, left |-> r.left]
    <3>1. r.left \subseteq Article /\ r.index \in Nat \ {0}
      BY <2>1, <2>9, RoundFields DEF Save
    <3>2. Proper(c, to)
      BY <2>3, <3>1 DEF Proper, Round, Idle
    <3>3. Goes(c, g, to) /\ to.at # "fetch" /\ UNCHANGED <<gen, alive, board>>
      BY <2>9 DEF Save
    <3>4. QED
      BY <2>4, <3>2, <3>3
  <2>10. ASSUME Goes(c, g, After(c, r.index, r.board)) \/ Goes(c, g, Idle), UNCHANGED <<gen, alive, board>>
         PROVE  RoundsStep
    <3>1. /\ Proper(c, After(c, r.index, r.board)) /\ After(c, r.index, r.board).at # "fetch"
          /\ Proper(c, Idle) /\ Idle.at # "fetch"
      BY <2>3, ProperAfter DEF Proper, Round, Idle
    <3>2. QED
      BY <2>4, <2>10, <3>1
  <2>11. CASE Succeed(c, g)
    BY <2>10, <2>11 DEF Succeed, Ends
  <2>12. ASSUME NEW class, Retry(c, g, class)
         PROVE  RoundsStep
    <3> DEFINE to == [r EXCEPT !.attempt = 2]
    <3>1. r \in [at: {"fetch"}, index: Nat \ {0}, board: {NoBoard} \cup Board, attempt: 1..2]
      BY <2>1, <2>12, RoundFields DEF Retry
    <3>2. to \in [at: {"fetch"}, index: Nat \ {0}, board: {NoBoard} \cup Board, attempt: 1..2]
      BY <3>1
    <3>3. Proper(c, to)
      BY <2>3, <3>1, <3>2 DEF Proper, Round
    <3>4. round' = [round EXCEPT ![c][g] = to]
      BY <2>1, <2>12 DEF Retry, RoundsOK
    <3>5. QED
      BY <2>4, <2>12, <3>3, <3>4 DEF Retry, Goes
  <2>13. ASSUME NEW class, NEW d, Fail(c, g, class, d)
         PROVE  RoundsStep
    BY <2>10, <2>13 DEF Fail, Ends
  <2>14. CASE CrashSaving(c, g)
    BY <2>14 DEF CrashSaving
  <2>15. QED
    BY <1>3, <2>5, <2>6, <2>7, <2>8, <2>9, <2>11, <2>12, <2>13, <2>14 DEF RoundStep
<1>4. ASSUME NEW s \in Session, JobStep(s)
      PROVE  RoundsStep
  BY <1>4 DEF JobStep, RunJob, Probed, Settle, Resume, Outlive
<1>5. CASE LoadKeepalive \/ UnloadKeepalive \/ Inspect \/ Tick
  BY <1>5 DEF LoadKeepalive, UnloadKeepalive, Inspect, Tick
<1>6. CASE Crash
  BY <1>6 DEF Crash
<1>7. QED
  BY <1>1, <1>2, <1>3, <1>4, <1>5, <1>6 DEF Next

LEMMA NextGeneration ==
  ASSUME RoundsOK, NEW c \in Crawler, Load(c)
  PROVE  gen[c] + 1 \in Generation
<1>1. gen[c] \in 0..MaxGen /\ Loads[c] \in 0..MaxGen /\ MaxGen \in Nat
  BY BoundsAssumption DEF RoundsOK
<1>2. gen[c] < Loads[c]
  BY DEF Load
<1>3. QED
  BY <1>1, <1>2 DEF Generation

LEMMA RoundsStay ==
  ASSUME RoundsOK, RoundsStep
  PROVE  RoundsOK'
<1>1. CASE UNCHANGED <<gen, alive, round>>
  BY <1>1 DEF RoundsOK, Going
<1>2. ASSUME NEW c \in Crawler, Load(c)
      PROVE  RoundsOK'
  <2>1. gen[c] + 1 \in Generation /\ gen[c] + 1 \in 0..MaxGen
    BY <1>2, NextGeneration, BoundsAssumption DEF Generation
  <2>2. gen' = [gen EXCEPT ![c] = gen[c] + 1] /\ alive' = alive \cup {c} /\ round' = round
    BY <1>2 DEF Load
  <2>3. QED
    BY <2>1, <2>2 DEF RoundsOK, Going
<1>3. ASSUME NEW c \in Crawler, Unload(c)
      PROVE  RoundsOK'
  BY <1>3 DEF RoundsOK, Going, Unload
<1>4. ASSUME NEW c \in Crawler, NEW g \in Generation, NEW to, Moves(c, g, to)
      PROVE  RoundsOK'
  BY <1>4, RoundGoes DEF Moves
<1>5. CASE Down
  BY <1>5 DEF Down, RoundsOK, Going, Round
<1>6. QED
  BY <1>1, <1>2, <1>3, <1>4, <1>5 DEF RoundsStep

(***************************************************************************)
(* The cooldowns.                                                          *)
(***************************************************************************)

Shaped ==
  /\ memory = [c \in Crawler |-> [g \in Generation |-> memory[c][g]]]
  /\ kept = [c \in Crawler |-> kept[c]]

\* The current generation writes what it remembers; another only forgets.
CooldownsStep ==
  \/ UNCHANGED <<gen, alive, memory, kept>>
  \/ \E c \in Crawler : Load(c) \/ Unload(c)
  \/ \E c \in Crawler, g \in Generation :
       Forget(c, g) /\ ~Current(c, g) /\ UNCHANGED <<gen, alive, kept>>
  \/ \E c \in Crawler : \E u, e :
       /\ c \in alive
       /\ memory' = [memory EXCEPT ![c][gen[c]][u] = e]
       /\ kept' = [kept EXCEPT ![c][u] = e]
       /\ UNCHANGED <<gen, alive>>
  \/ Tick
  \/ Down

LEMMA CooldownsSteps ==
  ASSUME RoundsOK, CooldownsAgree, [Next]_vars
  PROVE  CooldownsStep
<1> USE DEF CooldownsStep, fibers
<1>1. CASE UNCHANGED vars
  BY <1>1 DEF vars
<1>2. ASSUME NEW c \in Crawler, NEW g \in Generation, NEW i, NEW b, Visit(c, g, i, b)
      PROVE  CooldownsStep
  BY <1>2 DEF Visit
<1>3. ASSUME NEW c \in Crawler, StartRound(c)
      PROVE  CooldownsStep
  BY <1>2, <1>3 DEF StartRound, RoundsOK
<1>4. ASSUME NEW c \in Crawler, NEW g \in Generation, RoundStep(c, g)
      PROVE  CooldownsStep
  <2>1. CASE Proceed(c, g)
    BY <1>2, <2>1 DEF Proceed
  <2>2. ASSUME NEW results, Fetched(c, g, results)
        PROVE  CooldownsStep
    BY <2>2 DEF Fetched
  <2>3. ASSUME NEW a, Skip(c, g, a) \/ Process(c, g, a)
        PROVE  CooldownsStep
    BY <2>3 DEF Skip, Process
  <2>4. CASE Save(c, g)
    BY <2>4 DEF Save
  <2>5. CASE Succeed(c, g)
    <3>1. CASE Books(c, g)
      <4>1. /\ memory' = [memory EXCEPT ![c][gen[c]][UrlOf(c, g)] = NoEntry]
            /\ kept' = [kept EXCEPT ![c][UrlOf(c, g)] = NoEntry]
            /\ c \in alive
            /\ UNCHANGED <<gen, alive>>
        BY <2>5, <3>1 DEF Succeed, Books, Current
      <4>2. QED
        BY <4>1
    <3>2. CASE ~Books(c, g)
      BY <2>5, <3>2 DEF Succeed, Ends, Books
    <3>3. QED
      BY <3>1, <3>2
  <2>6. ASSUME NEW class, Retry(c, g, class)
        PROVE  CooldownsStep
    BY <2>6 DEF Retry
  <2>7. ASSUME NEW class, NEW d, Fail(c, g, class, d)
        PROVE  CooldownsStep
    <3> DEFINE u == UrlOf(c, g)
               e == Hit(memory[c][g][u], d)
    <3>1. CASE Books(c, g)
      <4>1. c \in alive /\ gen[c] = g /\ memory[c][g] = kept[c]
        BY <3>1 DEF Books, Current, CooldownsAgree
      <4>2. e = IF d = 0 THEN kept[c][u] ELSE e
        BY <4>1 DEF Hit
      <4>3. /\ memory' = [memory EXCEPT ![c][g][u] = e]
            /\ kept' = [kept EXCEPT ![c][u] = IF d = 0 THEN kept[c][u] ELSE e]
            /\ UNCHANGED <<gen, alive>>
        BY <2>7, <3>1 DEF Fail
      <4> HIDE DEF e, u
      <4>4. kept' = [kept EXCEPT ![c][u] = e]
        BY <4>2, <4>3
      <4>5. QED
        BY <4>1, <4>3, <4>4
    <3>2. CASE ~Books(c, g)
      BY <2>7, <3>2 DEF Fail, Ends, Books
    <3>3. QED
      BY <3>1, <3>2
  <2>8. CASE CrashSaving(c, g)
    BY <2>8 DEF CrashSaving
  <2>9. QED
    BY <1>4, <2>1, <2>2, <2>3, <2>4, <2>5, <2>6, <2>7, <2>8 DEF RoundStep
<1>5. ASSUME NEW s \in Session, JobStep(s)
      PROVE  CooldownsStep
  BY <1>5 DEF JobStep, RunJob, Probed, Settle, Resume, Outlive
<1>6. CASE LoadKeepalive \/ UnloadKeepalive \/ Inspect
  BY <1>6 DEF LoadKeepalive, UnloadKeepalive, Inspect
<1>7. CASE Tick \/ Crash
  BY <1>7 DEF Crash
<1>8. QED
  BY <1>1, <1>3, <1>4, <1>5, <1>6, <1>7 DEF Next, Going

\* Replacing the memory of one generation leaves the others alone.
LEMMA MemoryExcept ==
  ASSUME Shaped, NEW c \in Crawler, NEW g \in Generation, NEW m, memory' = [memory EXCEPT ![c][g] = m]
  PROVE  /\ memory'[c][g] = m
         /\ \A d \in Crawler, h \in Generation : <<d, h>> # <<c, g>> => memory'[d][h] = memory[d][h]
         /\ memory' = [d \in Crawler |-> [h \in Generation |-> memory'[d][h]]]
<1>1. /\ DOMAIN memory = Crawler
      /\ \A d \in Crawler : DOMAIN memory[d] = Generation /\ memory[d] = [h \in Generation |-> memory[d][h]]
  BY DEF Shaped
<1>2. /\ memory'[c] = [memory[c] EXCEPT ![g] = m]
      /\ \A d \in Crawler \ {c} : memory'[d] = memory[d]
      /\ memory' = [d \in Crawler |-> memory'[d]]
  BY <1>1
<1>3. \A d \in Crawler : memory'[d] = [h \in Generation |-> memory'[d][h]]
  <2>1. ASSUME NEW d \in Crawler PROVE memory'[d] = [h \in Generation |-> memory'[d][h]]
    <3>1. CASE d # c
      BY <1>1, <1>2, <3>1
    <3>2. CASE d = c
      <4> DEFINE f == memory[c]
      <4>1. DOMAIN f = Generation
        BY <1>1
      <4>2. memory'[c] = [f EXCEPT ![g] = m]
        BY <1>2
      <4> HIDE DEF f
      <4>3. memory'[c] = [h \in Generation |-> IF h = g THEN m ELSE f[h]]
        BY <4>1, <4>2
      <4> QED BY <3>2, <4>3
    <3> QED BY <3>1, <3>2
  <2> QED BY <2>1
<1>4. QED
  BY <1>1, <1>2, <1>3

LEMMA CooldownsStay ==
  ASSUME RoundsOK, Shaped, CooldownsAgree, CooldownsStep
  PROVE  Shaped' /\ CooldownsAgree'
<1>1. CASE UNCHANGED <<gen, alive, memory, kept>>
  BY <1>1 DEF Shaped, CooldownsAgree
<1>2. ASSUME NEW c \in Crawler, Load(c)
      PROVE  Shaped' /\ CooldownsAgree'
  <2>1. gen[c] + 1 \in Generation
    BY <1>2, NextGeneration
  <2>2. /\ gen' = [gen EXCEPT ![c] = gen[c] + 1]
        /\ alive' = alive \cup {c}
        /\ memory' = [memory EXCEPT ![c][gen[c] + 1] = kept[c]]
        /\ kept' = kept
        /\ c \notin alive
    BY <1>2 DEF Load
  <2>3. QED
    <3>1. memory'[c][gen'[c]] = kept'[c]
      <4>1. gen'[c] = gen[c] + 1
        BY <2>2 DEF RoundsOK
      <4>2. ASSUME NEW g \in Generation, memory' = [memory EXCEPT ![c][g] = kept[c]]
            PROVE  memory'[c][g] = kept[c]
        <5> DEFINE m == kept[c]
        <5>1. memory' = [memory EXCEPT ![c][g] = m]
          BY <4>2
        <5> HIDE DEF m
        <5>2. memory'[c][g] = m
          BY <5>1, MemoryExcept
        <5>3. QED
          BY <5>2 DEF m
      <4>3. memory'[c][gen[c] + 1] = kept[c]
        BY <2>1, <2>2, <4>2
      <4>4. QED
        BY <2>2, <4>1, <4>3
    <3>2. ASSUME NEW d \in alive PROVE memory'[d][gen'[d]] = kept'[d]
      BY <2>1, <2>2, MemoryExcept DEF RoundsOK, CooldownsAgree
    <3>3. Shaped'
      BY <2>1, <2>2, MemoryExcept DEF Shaped
    <3>4. QED
      BY <2>2, <3>1, <3>2, <3>3 DEF CooldownsAgree
<1>3. ASSUME NEW c \in Crawler, Unload(c)
      PROVE  Shaped' /\ CooldownsAgree'
  <2>1. /\ alive' = alive \ {c}
        /\ memory' = memory \/ memory' = [memory EXCEPT ![c][gen[c]] = Blank]
        /\ gen[c] \in Generation
        /\ UNCHANGED <<gen, kept>>
    BY <1>3 DEF Unload, Forget, RoundsOK
  <2>2. CASE memory' = memory
    BY <2>1, <2>2 DEF Shaped, CooldownsAgree
  <2>3. CASE memory' = [memory EXCEPT ![c][gen[c]] = Blank]
    BY <2>1, <2>3, MemoryExcept DEF RoundsOK, Shaped, CooldownsAgree
  <2>4. QED
    BY <2>1, <2>2, <2>3
<1>4. ASSUME NEW c \in Crawler, NEW g \in Generation, Forget(c, g), ~Current(c, g), UNCHANGED <<gen, alive, kept>>
      PROVE  Shaped' /\ CooldownsAgree'
  BY <1>4 DEF Shaped, CooldownsAgree, Forget, Current, RoundsOK
<1>5. ASSUME NEW c \in Crawler, NEW u, NEW e, c \in alive,
             memory' = [memory EXCEPT ![c][gen[c]][u] = e], kept' = [kept EXCEPT ![c][u] = e],
             UNCHANGED <<gen, alive>>
      PROVE  Shaped' /\ CooldownsAgree'
  <2> DEFINE f == memory[c]
             k == kept[c]
             h == gen[c]
  <2>1. /\ DOMAIN memory = Crawler /\ DOMAIN memory[c] = Generation /\ DOMAIN kept = Crawler
        /\ h \in Generation
    BY <1>5 DEF Shaped, RoundsOK
  <2>2. memory' = [memory EXCEPT ![c][h] = [f[h] EXCEPT ![u] = e]]
    BY <1>5, <2>1
  <2>3. kept' = [kept EXCEPT ![c] = [k EXCEPT ![u] = e]]
    BY <1>5, <2>1
  <2>4. f[h] = k
    BY <1>5 DEF CooldownsAgree
  <2>5. h = gen'[c] /\ gen' = gen /\ alive' = alive
    BY <1>5
  <2> HIDE DEF f, k, h
  <2>6. PICK r : r = [k EXCEPT ![u] = e]
    OBVIOUS
  <2>7. /\ memory'[c][h] = r
        /\ \A d \in Crawler, i \in Generation : <<d, i>> # <<c, h>> => memory'[d][i] = memory[d][i]
        /\ memory' = [d \in Crawler |-> [i \in Generation |-> memory'[d][i]]]
    <3>1. memory' = [memory EXCEPT ![c][h] = r]
      BY <2>2, <2>4, <2>6
    <3> QED BY <2>1, <3>1, MemoryExcept
  <2>8. kept' = [kept EXCEPT ![c] = r]
    BY <2>3, <2>6
  <2>9. /\ kept'[c] = r
        /\ \A d \in Crawler : d # c => kept'[d] = kept[d]
        /\ kept' = [d \in Crawler |-> kept'[d]]
    BY <2>1, <2>8
  <2>10. Shaped'
    BY <2>7, <2>9 DEF Shaped
  <2>11. ASSUME NEW d \in alive PROVE memory'[d][gen'[d]] = kept'[d]
    <3>1. CASE d = c
      BY <2>5, <2>7, <2>9, <3>1
    <3>2. CASE d # c
      <4>1. d \in Crawler /\ gen[d] \in Generation
        BY DEF RoundsOK
      <4>2. memory'[d][gen[d]] = memory[d][gen[d]] /\ kept'[d] = kept[d]
        BY <2>7, <2>9, <3>2, <4>1
      <4> QED BY <2>5, <4>2 DEF CooldownsAgree
    <3> QED BY <3>1, <3>2
  <2> QED BY <2>5, <2>10, <2>11 DEF CooldownsAgree
<1>6. CASE Tick
  BY <1>6 DEF Shaped, CooldownsAgree, Tick, fibers, RoundsOK
<1>7. CASE Down
  BY <1>7 DEF Shaped, CooldownsAgree, Down
<1>8. QED
  BY <1>1, <1>2, <1>3, <1>4, <1>5, <1>6, <1>7 DEF CooldownsStep

(***************************************************************************)
(* The invariant and the theorems.                                         *)
(***************************************************************************)

\* RoundsOK is what makes the board of a round one of the boards, JobsOK what makes a keepalive that is up
\* have one; the others are the properties themselves.
IInv ==
  /\ RoundsOK /\ SlotsOK /\ JobsOK /\ Shaped
  /\ CooldownsAgree /\ BoardAgrees /\ OneTimerPerJob /\ Told

LEMMA InitiallyIInv == Init => IInv
<1> SUFFICES ASSUME Init PROVE IInv
  OBVIOUS
<1> USE DEF Init
<1>1. RoundsOK
  BY BoundsAssumption DEF RoundsOK, Going, Round, Generation
<1>2. FreshSlot \in Slot
  BY ThresholdAssumption, ResumeAssumption DEF FreshSlot, Slot, Never
<1>3. SlotsOK
  BY <1>2 DEF SlotsOK, AllFresh
<1>4. JobsOK /\ OneTimerPerJob
  BY DEF JobsOK, OneTimerPerJob
<1>5. Shaped /\ CooldownsAgree
  BY DEF Shaped, CooldownsAgree
<1>6. BoardAgrees
  BY DEF BoardAgrees
<1>7. Told
  BY DEF Told, NewsIsToldOnce
<1>8. QED
  BY <1>1, <1>3, <1>4, <1>5, <1>6, <1>7 DEF IInv

LEMMA NextKeepsIInv == IInv /\ [Next]_vars => IInv'
<1> SUFFICES ASSUME IInv, [Next]_vars PROVE IInv'
  OBVIOUS
<1>1. RoundsOK'
  BY RoundsSteps, RoundsStay DEF IInv
<1>2. SlotsOK' /\ BoardAgrees'
  BY BoardSteps, SlotsStay, BoardStaysInAgreement DEF IInv
<1>3. JobsOK' /\ OneTimerPerJob'
  BY JobsSteps, JobsStay DEF IInv
<1>4. Shaped' /\ CooldownsAgree'
  BY CooldownsSteps, CooldownsStay DEF IInv
<1>5. Told'
  BY NewsStayTold DEF IInv
<1>6. QED
  BY <1>1, <1>2, <1>3, <1>4, <1>5 DEF IInv

LEMMA IInvHolds == Spec => []IInv
BY InitiallyIInv, NextKeepsIInv, PTL DEF Spec

\* An article is announced once, whatever is rebuilt while its round is under way.
THEOREM NewsAreToldOnce == Spec => []NewsIsToldOnce
<1>1. IInv => NewsIsToldOnce
  BY DEF IInv, Told
<1>2. QED
  BY <1>1, IInvHolds, PTL

\* What a crawler remembers of its cooldowns is what a restart would read.
THEOREM CooldownsDoAgree == Spec => []CooldownsAgree
<1>1. IInv => CooldownsAgree
  BY DEF IInv
<1>2. QED
  BY <1>1, IInvHolds, PTL

\* What the current board remembers is on record, but for what an older board wrote beside it.
THEOREM BoardDoesAgree == Spec => []BoardAgrees
<1>1. IInv => BoardAgrees
  BY DEF IInv
<1>2. QED
  BY <1>1, IInvHolds, PTL

\* No job has two timers, and none is lost.
THEOREM JobsHaveOneTimer == Spec => []OneTimerPerJob
<1>1. IInv => OneTimerPerJob
  BY DEF IInv
<1>2. QED
  BY <1>1, IInvHolds, PTL

LEMMA RequestsAreAdmitted ==
  ASSUME IInv, [Next]_vars, NEW c \in Crawler, NEW g \in Generation, Requests(c, g)
  PROVE  /\ Admitted(c, g, round'[c][g])
         /\ Proper(c, round'[c][g])
         /\ round'[c][g] # Idle
<1>1. RoundsStep
  BY RoundsSteps DEF IInv
<1>2. round' # round /\ round'[c][g] # Idle
  BY DEF Requests, Idle
<1>3. PICK d \in Crawler, h \in Generation, to \in Round : Moves(d, h, to)
  <2>1. ~Down
    BY <1>2 DEF Down
  <2>2. \A d : ~Load(d) /\ ~Unload(d)
    BY <1>2 DEF Load, Unload
  <2>3. QED
    BY <1>1, <1>2, <2>1, <2>2 DEF RoundsStep
<1>4. /\ round'[d][h] = to
      /\ \A x \in Crawler, y \in Generation : <<x, y>> # <<d, h>> => round'[x][y] = round[x][y]
  BY <1>3, RoundGoes DEF Moves, IInv
<1>5. c = d /\ g = h
  <2>1. round'[c][g] # round[c][g]
    BY DEF Requests
  <2>2. QED
    BY <1>4, <2>1
<1>6. QED
  BY <1>2, <1>3, <1>4, <1>5 DEF Moves, Requests

\* A url that is cooling down is left alone, whatever was rebuilt or restarted since it was refused.
THEOREM CooledAreLeftAlone == Spec => CooledIsLeftAlone
<1>1. ASSUME IInv, [Next]_vars, NEW c \in Crawler, NEW g \in Generation, Requests(c, g), Current(c, g)
      PROVE  ~Cooled(kept[c][Urls[c][round'[c][g].index]])
  BY <1>1, RequestsAreAdmitted DEF Admitted, Current, IInv, CooldownsAgree
<1>2. IInv /\ [Next]_vars
        => [\A c \in Crawler, g \in Generation :
              Requests(c, g) /\ Current(c, g) => ~Cooled(kept[c][Urls[c][round'[c][g].index]])]_vars
  BY <1>1
<1>3. QED
  BY <1>2, IInvHolds, PTL DEF Spec, CooledIsLeftAlone

LEMMA ServingStays ==
  ASSUME IInv, NEW s \in Session \ ghosted, board # NoBoard, Serving(s)
  PROVE  Quarantined(Looked(boards[board][s]))
<1>1. boards[board][s] = stored[s] /\ stored[s] \in Slot
  BY DEF IInv, BoardAgrees, SlotsOK
<1>2. QED
  BY <1>1, QuarantineStays DEF Serving

\* A session whose quarantine is on record is left alone by the rounds and the jobs of the current board.
THEOREM QuarantinedAreLeftAlone == Spec => QuarantinedIsLeftAlone
<1>1. ASSUME IInv, [Next]_vars, NEW c \in Crawler, NEW g \in Generation, Requests(c, g),
             round'[c][g].board = board, board # NoBoard, Uses[c] \notin ghosted
      PROVE  ~Serving(Uses[c])
  <2>1. /\ ~Quarantined(Looked(boards[board][Uses[c]]))
        /\ Uses[c] \in Session
    BY <1>1, RequestsAreAdmitted DEF Admitted, Proper
  <2>2. QED
    BY <1>1, <2>1, ServingStays
<1>2. ASSUME IInv, [Next]_vars, NEW s \in Session \ ghosted, s \in timers, flight'[s] = "probing"
      PROVE  ~Serving(s)
  <2>1. up /\ flight[s] = "none" /\ board \in Board /\ flight \in [Session -> {"none", "probing", "settling"}]
    BY <1>2 DEF IInv, JobsOK, OneTimerPerJob
  <2>2. RunJob(s)
    <3>1. JobsStep
      BY <1>2, JobsSteps DEF IInv
    <3>2. \A t \in Session \ {s} : ~RunJob(t)
      BY <1>2, <2>1 DEF RunJob
    <3>3. \A t \in Session : ~Settle(t) /\ \A ok : ~Probed(t, ok)
      BY <1>2, <2>1 DEF Settle, Probed
    <3>4. ~LoadKeepalive /\ ~UnloadKeepalive /\ ~Down /\ ~Rearms
      BY <1>2, <2>1 DEF LoadKeepalive, UnloadKeepalive, Down, Rearms
    <3>5. QED
      BY <1>2, <2>1, <3>1, <3>2, <3>3, <3>4 DEF JobsStep
  <2>3. ~Quarantined(Seen(board, {s})[s])
    BY <1>2, <2>1, <2>2 DEF RunJob
  <2>4. Seen(board, {s})[s] = Looked(boards[board][s])
    BY DEF Seen
  <2>5. QED
    BY <1>2, <2>1, <2>3, <2>4, ServingStays DEF Board, NoBoard
<1>3. IInv /\ [Next]_vars
        => [/\ \A c \in Crawler, g \in Generation :
                 Requests(c, g) /\ round'[c][g].board = board /\ board # NoBoard /\ Uses[c] \notin ghosted
                   => ~Serving(Uses[c])
            /\ \A s \in Session \ ghosted :
                 s \in timers /\ flight'[s] = "probing" => ~Serving(s)]_vars
  BY <1>1, <1>2
<1>4. QED
  BY <1>3, IInvHolds, PTL DEF Spec, QuarantinedIsLeftAlone

\* A quarantine on record ends with a success or when its time is over.
THEOREM LiftsAreAllEarned == Spec => LiftsAreEarned
<1>1. IInv /\ [Next]_vars => [\A s \in Session : s \notin ghosted' => LiftedOnlyBy(s)]_vars
  BY BoardSteps, LiftIsEarned DEF IInv
<1>2. QED
  BY <1>1, IInvHolds, PTL DEF Spec, LiftsAreEarned

=============================================================================
