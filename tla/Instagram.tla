----------------------------- MODULE Instagram -----------------------------
(* The crawls of one Instagram profile.  Its page asks for the posts, the   *)
(* tray of highlights and the profile itself; listeners wait for the three  *)
(* answers while the page opens, and only the posts may fail the crawl.     *)
EXTENDS Integers, Sequences, FiniteSets

CONSTANTS
  None,
  BreakerThreshold,  \* failures in a row that open the breaker
  Scenes   \* profiles: the handle, its crawls, what the caller knows and what Instagram answers

VARIABLES
  scene,
  job,       \* the crawl: [posts, highlights, stories : BOOLEAN, user : None, "follows", "status"]
  at,        \* where it stands
  step,      \* the page it opened last: for "profile", "reload", "highlights" or "user"
  wait,      \* [kind -> listener on the page, what it ended with]
  graphql,   \* answers since the page opened: "none", "seen", or "silent" for eight seconds
  posts,     \* the posts captured, None before
  found,     \* highlights and stories captured
  missing,   \* handles whose avatar is still to be looked up
  result,    \* whether the last crawl threw, and the items it returned
  payload,   \* the profile remembered for the url
  pending,   \* a crawl has announced that the profile is under way
  avatar,    \* [handle -> avatar remembered, "miss", or None]
  breaker,   \* the breaker of the origin
  claim      \* the claim replayed with the next probe

instagramVars == <<scene, job, at, step, wait, graphql, posts, found, missing, result,
                   payload, pending, avatar, breaker, claim>>

Kinds == {"posts", "tray", "profile"}
Steps == {"profile", "reload", "highlights", "user"}  \* what a page is opened for

-----------------------------------------------------------------------------
(* The process-wide breaker in front of the probes of one origin.  Its      *)
(* block ends by the clock: an open breaker elapses by itself, and the next *)
(* check finds it so.                                                       *)

Closed == [fails |-> 0, block |-> "none"]

Blocked(b) == b.block = "running"

Checked(b) == IF b.block = "elapsed" THEN Closed ELSE b

Succeeded(b) == Closed

(* Failures past the threshold are not counted further. *)
Failed(b) ==
  LET fails == IF b.fails < BreakerThreshold THEN b.fails + 1 ELSE BreakerThreshold
  IN  [fails |-> fails,
       block |-> IF fails = BreakerThreshold /\ b.block # "running" THEN "running" ELSE b.block]

Elapsed(b) == [b EXCEPT !.block = "elapsed"]

-----------------------------------------------------------------------------
(* Reading what Instagram sent *)

Either(a, b) == IF a # None THEN a ELSE b

(* Captions that Instagram wrote itself are no text. *)
Text(caption) == IF caption = "generated" THEN None ELSE caption

(* The timeline of the profile before any other list of edges; None when    *)
(* the answer has no list at all.                                           *)
Edges(answer) ==
  IF answer.timeline # {} THEN answer.timeline ELSE IF answer.xdt # {} THEN answer.xdt ELSE answer.edges

Scoped(answer) == answer.timeline # {}

Context(user) == IF user = None \/ user.handle = None THEN None ELSE user

Unfollowed(user) == user.private /\ ~user.following

(* Urls by width, the widest first; the others are its fallbacks. *)
NodeMedia(node) ==
  LET urls(type, s) == IF s = <<>> THEN {} ELSE {[type |-> type, url |-> Head(s), fallbacks |-> Tail(s)]}
  IN  IF node.videos # <<>> THEN urls("video", node.videos) \cup urls("video_thumbnail", node.images)
      ELSE urls("photo", node.images)

Media(node) ==
  IF node.carousel # {} THEN UNION {NodeMedia(n) : n \in node.carousel} ELSE NodeMedia(node)

Post(node, crawled) ==
  LET owner == Context(node.owner)
      by == Either(owner, crawled)
  IN  [id |-> node.id, by |-> IF by = None THEN scene.handle ELSE by.handle,
       avatar |-> IF owner # None /\ owner.avatar # None THEN owner.avatar
                  ELSE IF crawled # None THEN crawled.avatar ELSE None,
       shared |-> owner # None /\ crawled # None /\ owner.handle # crawled.handle,
       content |-> Text(node.caption), media |-> Media(node)]

(* Whether the account is closed to the viewer: its own flag, or that of    *)
(* the owner of a post when the answer does not name the account.           *)
Private(answer) ==
  LET target == {u \in {Context(n.owner) : n \in Edges(answer)} \ {None} : u.handle = scene.handle}
  IN  \E u \in IF Scoped(answer) THEN {answer.user} ELSE target : Unfollowed(u)

Posts(answer) ==
  LET crawled == IF Scoped(answer) THEN Context(answer.user) ELSE None
  IN  {Post(node, crawled) : node \in Edges(answer)}

Highlights(answer) ==
  {[id |-> e.id, by |-> e.by, content |-> e.title, media |-> {e.cover} \ {None}] :
     e \in {e \in answer.tray : e.id # None /\ e.by # None}}

Stories(page) ==
  {[id |-> s.id, by |-> s.by, content |-> Text(s.caption), media |-> Media(s)] : s \in page.reels}

Status(user) ==
  [by |-> user.handle, avatar |-> user.avatar, followers |-> user.followers,
   live |-> IF user.live = None THEN None ELSE <<user.handle, user.live>>]

(* What the page's meta tags tell when the profile query fails. *)
FromMeta == [handle |-> scene.handle, avatar |-> None, followers |-> None, live |-> None, private |-> FALSE, following |-> FALSE]

-----------------------------------------------------------------------------
NoWait == [on |-> FALSE, ended |-> None]
Ok(k) == wait[k].ended # None /\ wait[k].ended[1] = "ok"

(* Ending a wait takes its listener and its timer away. *)
End(waits, k, outcome) ==
  IF waits[k].ended # None \/ ~waits[k].on THEN waits
  ELSE [waits EXCEPT ![k] = [on |-> FALSE, ended |-> outcome]]

(* What the page of a step is listened to for. *)
Heard(s) ==
  [profile |-> {"posts", "profile"} \cup IF job.highlights THEN {"tray"} ELSE {},
   reload |-> {"posts"}, highlights |-> {"tray"}, user |-> {"profile"}][s]

(* The listeners of the step are taken away; those of an earlier one stay. *)
Cleaned == [k \in Kinds |-> IF k \in Heard(step) THEN End(wait, k, <<"cleaned">>)[k] ELSE wait[k]]

Threw == [thrown |-> TRUE, items |-> {}]
Gives(items) == [thrown |-> FALSE, items |-> items]

Init ==
  /\ scene \in Scenes
  /\ job = None /\ at = "idle" /\ step = "profile"
  /\ wait = [k \in Kinds |-> NoWait] /\ graphql = "none"
  /\ posts = None /\ found = {} /\ missing = {} /\ result = Gives({})
  /\ payload = None /\ pending = FALSE
  /\ avatar = [h \in scene.handles |-> None]
  /\ breaker = Closed
  /\ claim = "0"

caches == <<payload, pending, avatar, breaker, claim>>

(* A crawl has a page of its own; that of the one before is closed by then, *)
(* and its listeners hear nothing more.                                     *)
Begin(j) ==
  /\ at = "idle" /\ (pending => wait["profile"].on)
  /\ wait' = [k \in Kinds |-> NoWait] /\ pending' = FALSE
  /\ job' = j
  /\ at' = IF j.user # None THEN "join" ELSE IF j.posts THEN "profile"
           ELSE IF j.highlights THEN "highlights" ELSE "stories"
  /\ posts' = None /\ found' = {} /\ missing' = {}
  /\ UNCHANGED <<scene, step, graphql, result, payload, avatar, breaker, claim>>

(* The listeners are set before the page is opened or loaded again; that    *)
(* for the profile still listens when posts or tray are asked for again.    *)
Listen ==
  /\ at \in Steps
  /\ wait' = [k \in Kinds |-> IF k \in Heard(at) THEN [on |-> TRUE, ended |-> None] ELSE wait[k]]
  /\ step' = at /\ at' = "open"
  /\ UNCHANGED <<scene, job, graphql, posts, found, missing, result, caches>>

(* A graphql answer.  A refusal ends a wait, but that for the profile of a  *)
(* crawl for posts, which only a profile ends.                              *)
Respond(k) ==
  /\ wait[k].on
  /\ \E answer \in scene.answers[k] :
       wait' = IF answer[1] = "refused" /\ k = "profile" /\ step # "user" THEN wait
               ELSE End(wait, k, answer)
  /\ graphql' = IF at \in {"race", "probe"} /\ graphql = "none" THEN "seen" ELSE graphql
  /\ UNCHANGED <<scene, job, at, step, posts, found, missing, result, caches>>

Timeout(k) ==
  /\ wait[k].on
  /\ wait' = End(wait, k, <<"timeout">>)
  /\ UNCHANGED <<scene, job, at, step, graphql, posts, found, missing, result, caches>>

(* The profile is remembered as soon as it is there, and announced no more, *)
(* were it when the crawl has its posts already or has failed for them.     *)
Stash ==
  /\ pending /\ wait["profile"].ended # None
  /\ pending' = FALSE
  /\ payload' = IF Ok("profile") THEN wait["profile"].ended[2] ELSE payload
  /\ UNCHANGED <<scene, job, at, step, wait, graphql, posts, found, missing, result, avatar, breaker, claim>>

Throw == result' = Threw /\ at' = "idle"
AfterPosts == IF job.stories THEN "stories" ELSE "return"

(* Mutant: an auxiliary page that fails takes the crawl with it. *)
FailsTheCrawl == Throw

(* What a failed page does to the crawl: an auxiliary one ends alone.       *)
Fails ==
  CASE step = "reload" -> at' = "backfill" /\ UNCHANGED result
    [] step = "highlights" -> at' = AfterPosts /\ UNCHANGED result
    [] step = "user" /\ job.user = "status" -> at' = "meta" /\ UNCHANGED result
    [] OTHER -> Throw

Opened ==
  /\ at = "open"
  /\ \/ /\ at' = [profile |-> "race", reload |-> "probe", highlights |-> "tray", user |-> "told"][step]
        /\ pending' = (pending \/ step = "profile")
        /\ UNCHANGED <<result, wait>>
     \/ Fails /\ wait' = Cleaned /\ UNCHANGED pending
  /\ UNCHANGED <<scene, job, step, graphql, posts, found, missing, payload, avatar, breaker, claim>>

(* The profile against the posts: a closed account fails at once. *)
Race ==
  /\ at = "race"
  /\ \/ /\ ~pending
        /\ IF Ok("profile") /\ Unfollowed(wait["profile"].ended[2])
           THEN Throw /\ wait' = Cleaned /\ graphql' = "none"
           ELSE at' = "probe" /\ UNCHANGED <<wait, result, graphql>>
     \/ /\ wait["posts"].ended # None
        /\ at' = "probe" /\ UNCHANGED <<wait, result, graphql>>
  /\ UNCHANGED <<scene, job, step, posts, found, missing, caches>>

(* Eight seconds after the page opened, while the profile may still race.   *)
Silence ==
  /\ at \in {"race", "probe"} /\ graphql = "none" /\ wait["posts"].ended = None
  /\ graphql' = "silent"
  /\ UNCHANGED <<scene, job, at, step, wait, posts, found, missing, result, caches>>

(* Only silence makes the crawl look for a login form, and only a login     *)
(* form makes it a lost session, though the posts came since.               *)
Probe ==
  /\ at = "probe"
  /\ \/ graphql = "silent" /\ at' = "login"
     \/ graphql = "seen" /\ at' = "posts"
     \/ graphql = "none" /\ wait["posts"].ended # None /\ at' = "posts"
  /\ graphql' = "none"
  /\ UNCHANGED <<scene, job, step, wait, posts, found, missing, result, caches>>

LoginForm ==
  /\ at = "login"
  /\ \/ Fails /\ wait' = Cleaned
     \/ at' = "posts" /\ UNCHANGED <<wait, result>>
  /\ UNCHANGED <<scene, job, step, graphql, posts, found, missing, caches>>

Capture ==
  LET answer == wait["posts"].ended[2]
      some == Posts(answer)
      older == IF posts = None THEN {} ELSE {p \in posts : \A q \in some : q.id # p.id}
  IN  /\ at = "posts" /\ wait["posts"].ended # None
      /\ IF ~Ok("posts") \/ Edges(answer) = None \/ Private(answer)
         THEN Fails /\ UNCHANGED posts
         ELSE /\ posts' = some \cup older
              /\ at' = IF step = "profile" THEN "shared tray" ELSE "backfill"
              /\ UNCHANGED result
      /\ UNCHANGED <<scene, job, step, wait, graphql, found, missing, caches>>

(* The tray is waited for, never required; posts the caller knows all are   *)
(* asked for once more past the cache of the page.                          *)
SharedTray ==
  /\ at = "shared tray" /\ (job.highlights => wait["tray"].ended # None)
  /\ found' = IF Ok("tray") THEN Highlights(wait["tray"].ended[2]) ELSE {}
  /\ at' = IF posts # {} /\ {p.id : p \in posts} \subseteq scene.known THEN "reload" ELSE "backfill"
  /\ UNCHANGED <<scene, job, step, wait, graphql, posts, missing, result, caches>>

Backfill ==
  /\ at = "backfill"
  /\ missing' = {p.by : p \in {p \in posts : p.avatar = None}}
  /\ at' = "avatars"
  /\ UNCHANGED <<scene, job, step, wait, graphql, posts, found, result, caches>>

Shown(h, url) == {IF p.by = h /\ p.avatar = None THEN [p EXCEPT !.avatar = url] ELSE p : p \in posts}

(* The avatar of a handle: remembered, from the profile remembered, or by a *)
(* probe, unless the breaker is open.                                       *)
Avatar(h) ==
  LET kept == IF payload # None THEN payload.avatar ELSE None
      now == Checked(breaker)
  IN  /\ at = "avatars" /\ h \in missing
      /\ missing' = missing \ {h}
      /\ \/ /\ avatar[h] # None
            /\ posts' = IF avatar[h] = "miss" THEN posts ELSE Shown(h, avatar[h])
            /\ UNCHANGED <<avatar, breaker, claim>>
         \/ /\ avatar[h] = None /\ kept # None
            /\ posts' = Shown(h, kept)
            /\ avatar' = [avatar EXCEPT ![h] = kept]
            /\ UNCHANGED <<breaker, claim>>
         \/ /\ avatar[h] = None /\ kept = None /\ Blocked(breaker)
            /\ avatar' = [avatar EXCEPT ![h] = "miss"]
            /\ UNCHANGED <<posts, breaker, claim>>
         \/ /\ avatar[h] = None /\ kept = None /\ ~Blocked(breaker)
            /\ \E answer \in scene.probes :
                 /\ avatar' = [avatar EXCEPT ![h] = Either(answer.url, "miss")]
                 /\ posts' = IF answer.url = None THEN posts ELSE Shown(h, answer.url)
                 /\ breaker' = IF answer.url = None THEN Failed(now) ELSE Succeeded(now)
                 /\ claim' = Either(answer.claim, claim)
      /\ UNCHANGED <<scene, job, at, step, wait, graphql, found, result, payload, pending>>

(* A tray that did not come with the posts is fetched by a visit of its own *)
(* when the page links to highlights.                                       *)
Filled ==
  /\ at = "avatars" /\ missing = {}
  /\ \E links \in BOOLEAN :
       at' = IF job.highlights /\ found = {} /\ links THEN "highlights" ELSE AfterPosts
  /\ UNCHANGED <<scene, job, step, wait, graphql, posts, found, missing, result, caches>>

Tray ==
  /\ at = "tray" /\ wait["tray"].ended # None
  /\ found' = IF Ok("tray") THEN Highlights(wait["tray"].ended[2]) ELSE found
  /\ at' = AfterPosts
  /\ UNCHANGED <<scene, job, step, wait, graphql, posts, missing, result, caches>>

GrabStories ==
  /\ at = "stories"
  /\ \E page \in scene.storyPages : found' = found \cup IF page = None THEN {} ELSE Stories(page)
  /\ at' = "return"
  /\ UNCHANGED <<scene, job, step, wait, graphql, posts, missing, result, caches>>

Return ==
  /\ at = "return"
  /\ result' = Gives({p.id : p \in Either(posts, {})} \cup {f.id : f \in found})
  /\ at' = "idle"
  /\ UNCHANGED <<scene, job, step, wait, graphql, posts, found, missing, caches>>

-----------------------------------------------------------------------------
(* The profile alone, for the number of followers or for its status *)

Join ==
  /\ at = "join"
  /\ IF payload # None THEN at' = "idle" /\ result' = Gives({Status(payload)}) ELSE at' = "user" /\ UNCHANGED result
  /\ UNCHANGED <<scene, job, step, wait, graphql, posts, found, missing, caches>>

Told ==
  /\ at = "told" /\ wait["profile"].ended # None
  /\ IF Ok("profile")
     THEN /\ payload' = wait["profile"].ended[2] /\ result' = Gives({Status(payload')})
          /\ at' = "idle"
     ELSE Fails /\ UNCHANGED payload
  /\ UNCHANGED <<scene, job, step, wait, graphql, posts, found, missing, pending, avatar, breaker, claim>>

Meta ==
  /\ at = "meta"
  /\ at' = "idle"
  /\ \E tagged \in BOOLEAN : result' = IF tagged THEN Gives({Status(FromMeta)}) ELSE Threw
  /\ UNCHANGED <<scene, job, step, wait, graphql, posts, found, missing, caches>>

(* Time: what is remembered is forgotten, and a block elapses. *)
Forget ==
  /\ \/ payload # None /\ payload' = None /\ UNCHANGED <<avatar, breaker>>
     \/ \E h \in DOMAIN avatar : /\ avatar[h] # None
                                 /\ avatar' = [avatar EXCEPT ![h] = None] /\ UNCHANGED <<payload, breaker>>
     \/ Blocked(breaker) /\ breaker' = Elapsed(breaker) /\ UNCHANGED <<payload, avatar>>
  /\ UNCHANGED <<scene, job, at, step, wait, graphql, posts, found, missing, result, pending, claim>>

Next ==
  \/ \E j \in scene.jobs : Begin(j)
  \/ \E k \in Kinds : Respond(k) \/ Timeout(k)
  \/ \E h \in missing : Avatar(h)
  \/ Listen \/ Stash \/ Opened \/ Race \/ Silence \/ Probe \/ LoginForm \/ Capture \/ SharedTray \/ Backfill \/ Filled
  \/ Tray \/ GrabStories \/ Return \/ Join \/ Told \/ Meta \/ Forget

Spec == Init /\ [][Next]_instagramVars

-----------------------------------------------------------------------------
(* Posts that were captured are returned, whatever becomes of the tray, the *)
(* profile, the second load, the avatars, the highlights and the stories.   *)
PostsSurvive ==
  at = "idle" /\ posts # None => ~result.thrown /\ {p.id : p \in posts} \subseteq result.items
=============================================================================
