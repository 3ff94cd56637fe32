------------------------------ MODULE YouTube -------------------------------
(* The crawls of one YouTube channel.  Its two list pages name the articles;*)
(* the watch pages of a few of them, chosen by what the store knows and by  *)
(* when a pending premiere was checked last, complete them.                 *)
EXTENDS Integers, SequencesExt, FiniteSetsExt

CONSTANTS
  None,
  DefaultLimit,        \* articles hydrated per round when none is configured
  MaxLimit,
  DefaultConcurrency,
  MaxConcurrency,
  ListAttempts,        \* requests for a list page that fails in passing
  Scenes               \* channels: configuration, list pages and watch pages

VARIABLES
  scene,
  checked,     \* premieres whose check is still remembered
  stored,      \* [id -> what the store says of it: "known" or "pending"]
  at,          \* "idle", "gate" or "hydrate"
  listed,      \* articles of the round, as the list pages show them
  byId,        \* [id -> the article the round will return]
  queue,       \* articles still to be hydrated
  asked,       \* those of the chunk whose watch page is awaited
  premieres,   \* ids the store says are pending
  returned     \* what the last round returned

channelVars == <<scene, checked, stored, at, listed, byId, queue, asked, premieres, returned>>

-----------------------------------------------------------------------------
(* Reading list pages and watch pages.  A text is None or a value; a time   *)
(* is 0 when the page gives none.                                           *)

Shell == [is |-> "shell"]   \* a page without its initial data

FirstOf(values) ==
  LET present == SelectSeq(values, LAMBDA v : v # None)
  IN  IF present = <<>> THEN None ELSE Head(present)

Largest(thumbs) ==
  IF thumbs = {} THEN None ELSE (CHOOSE t \in thumbs : \A u \in thumbs : u.width <= t.width).url

Content(title, description) ==
  IF title = description THEN SelectSeq(<<title>>, LAMBDA p : p # None)
  ELSE SelectSeq(<<title, description>>, LAMBDA p : p # None)

Placeholder(title) == title = "placeholder"

(* A video, a lockup or a short of a list page. *)
Article(item, channel) ==
  [id |-> item.id, by |-> channel.handle, type |-> IF item.sort = "short" THEN "shorts" ELSE "video",
   created_at |-> item.ago,
   content |-> Content(item.title, IF item.sort = "video" THEN item.description ELSE None),
   media |-> Largest(item.thumbs),
   members |-> item.sort # "short" /\ item.badges \cap {"MEMBER", "members only"} # {},
   premiere |-> None]

ChannelMeta(page, fallback) ==
  [handle |-> FirstOf(<<page.handle, page.vanity, fallback>>), title |-> FirstOf(<<page.title, fallback>>)]

(* One article per id, as the last item of the two pages shows it.          *)
Listing(videos, shorts) ==
  LET channel == ChannelMeta(IF videos = Shell THEN shorts ELSE videos, scene.handle)
      items == (IF videos = Shell THEN <<>> ELSE videos.items) \o (IF shorts = Shell THEN <<>> ELSE shorts.items)
      parsed == {i \in DOMAIN items : items[i].id # None /\ (items[i].sort = "lockup" => items[i].isVideo)}
  IN  {Article(items[i], channel) : i \in {i \in parsed : \A j \in parsed : j > i => items[j].id # items[i].id}}

(* What a watch page says; created_at is the scheduled start, if it has one.*)
Detail(page) ==
  [created_at |-> IF page.start # None THEN page.start ELSE page.published,
   content |-> Content(page.title, page.description),
   media |-> Largest(page.thumbs),
   pending |-> page.upcoming \/ Placeholder(page.title),
   start |-> page.start,
   members |-> page.status \in {"UNPLAYABLE", "LOGIN_REQUIRED"} /\ page.reason = "members only"]

Premiere(detail, resolves) ==
  IF detail.pending THEN "pending"
  ELSE IF detail.start # None \/ resolves THEN "resolved" ELSE None

(* Mutant: the extra of the watch page replaces that of the list. *)
CompletedOver(article, page, resolves) ==
  LET detail == Detail(page)
      premiere == Premiere(detail, resolves)
  IN  [article EXCEPT
        !.created_at = IF detail.created_at # 0 THEN detail.created_at ELSE @,
        !.content = IF detail.content # <<>> THEN detail.content ELSE @,
        !.media = IF detail.media # None THEN detail.media ELSE @,
        !.members = premiere = None /\ @,
        !.premiere = IF premiere # None THEN premiere ELSE @]

Completed(article, page, resolves) ==
  LET detail == Detail(page)
      premiere == Premiere(detail, resolves)
  IN  [article EXCEPT
        !.created_at = IF detail.created_at # 0 THEN detail.created_at ELSE @,
        !.content = IF detail.content # <<>> THEN detail.content ELSE @,
        !.media = IF detail.media # None THEN detail.media ELSE @,
        !.premiere = IF premiere # None THEN premiere ELSE @]

Pending(article) ==
  article.premiere = "pending" \/ (article.content # <<>> /\ Placeholder(article.content[1]))

Clamped(value, fallback, most) ==
  IF value = 0 THEN fallback ELSE Max({0, Min({value, most})})

Limit == Clamped(scene.limit, DefaultLimit, MaxLimit)
Concurrency == Max({1, Clamped(scene.concurrency, DefaultConcurrency, MaxConcurrency)})

(* The requests for one list page: again once after a failure in passing,   *)
(* and by curl when the page came without its data.                         *)
ListPage(tries, curl) ==
  LET last == IF Head(tries).is = "transient" THEN tries[ListAttempts] ELSE Head(tries)
  IN  IF last = Shell THEN curl ELSE last

(* A single video: its watch page, or the same page by curl. *)
Video(page, curl) ==
  LET told(p) == p # None /\ (p.title # None \/ p.description # None)
      found == IF told(page) THEN page ELSE curl
      detail == Detail(found)
  IN  IF ~told(found) THEN None
      ELSE [id |-> scene.video, by |-> FirstOf(<<found.owner, "youtube">>), type |-> "video",
            created_at |-> detail.created_at, content |-> detail.content, media |-> detail.media,
            members |-> detail.members, premiere |-> Premiere(detail, FALSE)]

-----------------------------------------------------------------------------
Init ==
  /\ scene \in Scenes
  /\ checked = {}
  /\ stored = scene.stored
  /\ at = "idle"
  /\ listed = {} /\ byId = <<>> /\ queue = {} /\ asked = {} /\ premieres = {}
  /\ returned = {}

Fail == UNCHANGED <<scene, checked, stored, at, listed, byId, queue, asked, premieres, returned>>

GrabVideo ==
  /\ at = "idle" /\ scene.video # None
  /\ \E page, curl \in scene.watch[scene.video] \cup {None} :
       returned' = {Video(page, curl)} \ {None}
  /\ UNCHANGED <<scene, checked, stored, at, listed, byId, queue, asked, premieres>>

Lists ==
  /\ at = "idle" /\ scene.video = None
  /\ \E v \in scene.pages.videos, s \in scene.pages.shorts :
       LET videos == ListPage(v.tries, v.curl)
           shorts == ListPage(s.tries, s.curl)
       IN  IF \/ {videos.is, shorts.is} \cap {"transient", "refused"} # {}
              \/ videos = Shell /\ shorts = Shell THEN Fail
           ELSE /\ listed' = Listing(videos, shorts)
                /\ at' = "gate"
                /\ UNCHANGED <<scene, checked, stored, byId, queue, asked, premieres, returned>>

(* What the store says decides who needs its watch page; a lookup that      *)
(* fails decides nothing.  A premiere is marked as checked when it is       *)
(* queued, before the queue is cut to its limit.                            *)
Says(a, failed) ==
  IF ~scene.gated \/ a.id \in failed \/ a.id \notin DOMAIN stored THEN None ELSE stored[a.id]

Due(failed, pending) ==
  LET known(a) == Says(a, failed) = "known" /\ ~Pending(a)
      premiere(a) == a.id \in pending \/ Pending(a)
  IN  {a \in listed : ~known(a) /\ (premiere(a) => a.id \notin checked)}

(* The first n articles of a queue: those without a time, then the newest.  *)
Firsts(articles, n) ==
  LET before(a, b) == a.created_at = 0 \/ (b.created_at # 0 /\ a.created_at >= b.created_at)
  IN  {S \in SUBSET articles : Cardinality(S) = Min({n, Cardinality(articles)})
                               /\ \A a \in S, b \in articles \ S : before(a, b)}

(* Mutant: what the store has is known, a pending premiere too. *)
GateKnowsAll(failed) ==
  LET due == {a \in listed : Says(a, failed) = None /\ a.id \notin checked}
  IN  /\ at = "gate"
      /\ premieres' = {}
      /\ checked' = checked \cup {a.id : a \in {a \in due : Pending(a)}}
      /\ queue' \in Firsts(due, Limit)
      /\ byId' = [id \in {a.id : a \in listed} |-> CHOOSE a \in listed : a.id = id]
      /\ at' = "hydrate"
      /\ UNCHANGED <<scene, stored, listed, asked, returned>>

Gate(failed) ==
  LET pending == {a.id : a \in {a \in listed : Says(a, failed) = "pending"}}
      due == Due(failed, pending)
  IN  /\ at = "gate"
      /\ premieres' = pending
      /\ checked' = checked \cup {a.id : a \in {a \in due : a.id \in pending \/ Pending(a)}}
      /\ queue' \in Firsts(due, Limit)
      /\ byId' = [id \in {a.id : a \in listed} |-> CHOOSE a \in listed : a.id = id]
      /\ at' = "hydrate"
      /\ UNCHANGED <<scene, stored, listed, asked, returned>>

Chunk ==
  /\ at = "hydrate" /\ asked = {} /\ queue # {}
  /\ asked' \in Firsts(queue, Concurrency)
  /\ queue' = queue \ asked'
  /\ UNCHANGED <<scene, checked, stored, at, listed, byId, premieres, returned>>

(* A watch page answers; one that does not leaves the article of the list.  *)
Hydrate(a) ==
  /\ a \in asked
  /\ \E page \in scene.watch[a.id] :
       byId' = [byId EXCEPT ![a.id] = Completed(a, page, a.id \in premieres)]
  /\ asked' = asked \ {a}
  /\ UNCHANGED <<scene, checked, stored, at, listed, queue, premieres, returned>>

HydrateFails(a) ==
  /\ a \in asked
  /\ asked' = asked \ {a}
  /\ UNCHANGED <<scene, checked, stored, at, listed, byId, queue, premieres, returned>>

(* The crawler stores what it did not know yet, and nothing else: the row   *)
(* of a premiere stays what it was, though the round reports it resolved.   *)
Return ==
  /\ at = "hydrate" /\ asked = {} /\ queue = {}
  /\ returned' = {byId[id] : id \in DOMAIN byId}
  /\ stored' = [id \in DOMAIN stored \cup DOMAIN byId |->
       IF id \in DOMAIN stored THEN stored[id] ELSE IF Pending(byId[id]) THEN "pending" ELSE "known"]
  /\ at' = "idle"
  /\ UNCHANGED <<scene, checked, listed, byId, queue, asked, premieres>>

Expire(id) ==
  /\ id \in checked
  /\ checked' = checked \ {id}
  /\ UNCHANGED <<scene, stored, at, listed, byId, queue, asked, premieres, returned>>

Next ==
  \/ GrabVideo \/ Lists \/ Chunk \/ Return
  \/ \E failed \in scene.failing : Gate(failed)
  \/ \E a \in asked : Hydrate(a) \/ HydrateFails(a)
  \/ \E id \in checked : Expire(id)

Over == UNION {s.over : s \in Scenes}

(* The crawler's schedule brings the next round, every wait in a round is   *)
(* bounded by a timeout, every remembered check expires; and the lists, the *)
(* store and a watch page asked again and again do not fail for ever.       *)
Fairness ==
  /\ SF_channelVars(Lists /\ at' = "gate")
  /\ SF_channelVars(Gate({}))
  /\ WF_channelVars(Chunk) /\ WF_channelVars(Return)
  /\ WF_channelVars(\E a \in asked : Hydrate(a) \/ HydrateFails(a))
  /\ \A id \in Over : /\ SF_channelVars(\E a \in asked : Hydrate(a) /\ a.id = id /\ id \in premieres)
                      /\ WF_channelVars(Expire(id))

Spec == Init /\ [][Next]_channelVars /\ Fairness

-----------------------------------------------------------------------------
(* What a round returns is what its lists showed: every article once,       *)
(* whatever failed on the way, and marked for members if the list marked    *)
(* it, whatever its watch page added.                                       *)
ListedIsReturned ==
  at = "idle" /\ byId # <<>> =>
    /\ Cardinality(returned) = Cardinality(listed)
    /\ \A a \in listed : \E r \in returned : r.id = a.id /\ (a.members => r.members)

(* A premiere that was stored as pending and has taken place is returned as *)
(* resolved by some round, although the first round marks it as checked and *)
(* cuts it off its queue, articles without a time and newer ones come       *)
(* before it, and watch pages fail.                                         *)
ResolvedIsReported ==
  \A id \in Over : <>(id \in scene.over => \E a \in returned : a.id = id /\ a.premiere = "resolved")
=============================================================================
