------------------------------- MODULE TikTok -------------------------------
(* The crawls of one TikTok handle: its posts, one of its videos or its     *)
(* number of followers.  The posts come from an unsigned API when the       *)
(* secUid of the handle is known, and from the profile page otherwise; what *)
(* a round learns is remembered for the rounds after it.  Handles share     *)
(* nothing but the spider.                                                  *)
EXTENDS Integers, SequencesExt

CONSTANTS
  None,
  Handle,    \* the handle, in lower case
  Lower(_),  \* a name in lower case
  Attempts,  \* looks at a loaded page for its hydration script
  Rounds,    \* crawls of the handle that may run at once
  Tasks,     \* what they crawl: "posts", "video" or "follows"
  Browsers,  \* BOOLEAN, or a part of it: is there a page to crawl with
  Visits,    \* what opening a page may come to
  Fetched,   \* what a plain request for a page may come to
  Players,   \* what the embedded player of a video may come to
  Api        \* what the API may answer

VARIABLES
  cache,  \* [key -> what the spider remembers, until it expires]
  round   \* [round -> its progress]

tiktokVars == <<cache, round>>

CacheKeys == {"secUid", "rejected", "hydration", "invalid"}

Missing == [error |-> "hydration missing"]
Error(e) == [error |-> e]
IsContent(x) == "error" \notin DOMAIN x

-----------------------------------------------------------------------------
(* Reading what TikTok sent.  An item is what it sent for one post.         *)

Best(rates) == CHOOSE best \in rates : \A other \in rates : other.rate <= best.rate

Media(item) ==
  LET v == item.video
      urls == {v.play, v.download} \cup (IF v.rates = {} THEN {} ELSE {Best(v.rates).url})
  IN  IF v = None THEN {}
      ELSE {[type |-> "video", url |-> u] : u \in urls \ {None}}
           \cup {[type |-> "video_thumbnail", url |-> u] : u \in v.covers}

Posts(items) ==
  {[id |-> i.id, by |-> i.by, media |-> Media(i)] :
     i \in {i \in items : i.id # None /\ i.by # None /\ i.dated}}

Merged(primary, secondary) ==
  primary \cup {p \in secondary : \A q \in primary : q.id # p.id}

(* The user detail of the handle, wherever the page keeps it. *)
UserInfo(content) ==
  LET found == SelectSeq(content.users, LAMBDA u : Lower(u.name) = Handle)
  IN  IF found = <<>> THEN None ELSE Head(found)

ProfilePosts(content) ==
  LET user == UserInfo(content)
      own == IF user = None THEN {} ELSE user.items
  IN  Posts(IF own # {} THEN own ELSE content.module)

VideoPosts(content) == Posts({content.detail} \ {None})

Playable(posts) == \E p \in posts : \E m \in p.media : m.type = "video"

Followers(content) ==
  IF content.users = <<>> THEN None ELSE Head(content.users).followers

-----------------------------------------------------------------------------
(* Reading pages *)

(* A loaded page is looked at until it shows its script or an error.        *)
Hydrated(looks) ==
  LET decisive == {i \in DOMAIN looks : i <= Attempts /\ looks[i] # None}
  IN  IF decisive = {} THEN Missing ELSE looks[CHOOSE i \in decisive : \A j \in decisive : i <= j]

FromBrowser(visit) == IF visit.error # None THEN Error(visit.error) ELSE Hydrated(visit.looks)

Loaded(browser, visit, plain) ==
  LET shown == FromBrowser(visit)
  IN  IF browser /\ (IsContent(shown) \/ ~IsContent(plain)) THEN shown ELSE plain

Player(player) ==
  IF ~player.embeds THEN [posts |-> {}]
  ELSE IF player.error # None THEN Error(player.error)
  ELSE IF player.url = None THEN Missing
  ELSE IF ~player.dated THEN Error("no creation time")
  ELSE [posts |-> {[id |-> player.id, by |-> player.by,
                     media |-> {[type |-> "video", url |-> player.url]}
                               \cup {[type |-> "video_thumbnail", url |-> t] : t \in player.thumbs}]}]

-----------------------------------------------------------------------------
NoRound ==
  [at |-> "idle", task |-> "posts", browser |-> FALSE, secUid |-> None, content |-> None,
   posts |-> {}, asked |-> <<>>, error |-> None, thrown |-> FALSE, result |-> {}]

Init ==
  /\ cache = [k \in CacheKeys |-> None]
  /\ round = [r \in Rounds |-> NoRound]

Return(r, posts) == [round[r] EXCEPT !.at = "idle", !.result = posts]
Throw(r, error) == [round[r] EXCEPT !.at = "idle", !.error = error, !.thrown = TRUE]
Open(p) == [p EXCEPT !.at = IF p.browser THEN "browse" ELSE "load"]

Begin(r) ==
  /\ round[r].at = "idle"
  /\ \E task \in Tasks, browser \in Browsers :
       LET p == [NoRound EXCEPT !.task = task, !.browser = browser, !.secUid = cache["secUid"]]
       IN  round' = [round EXCEPT ![r] =
             IF task # "posts" THEN [p EXCEPT !.at = "load"]
             ELSE IF cache["invalid"] # None THEN [p EXCEPT !.error = "invalid handle"]
             ELSE IF cache["hydration"] # None /\ p.secUid # None THEN [p EXCEPT !.at = "onlyApi"]
             ELSE IF p.secUid # None /\ cache["rejected"] = None THEN [p EXCEPT !.at = "api"]
             ELSE Open(p)]
  /\ UNCHANGED cache

(* The API asked with the secUid the spider remembered.                     *)
AskFirst(r) ==
  /\ round[r].at \in {"onlyApi", "api"}
  /\ \E answer \in Api :
       LET asked == [round[r] EXCEPT !.asked = Append(@, round[r].secUid)]
       IN  round' = [round EXCEPT ![r] =
             IF IsContent(answer) THEN [Return(r, Posts(answer.items)) EXCEPT !.asked = asked.asked]
             ELSE IF round[r].at = "onlyApi" THEN [Throw(r, answer.error) EXCEPT !.asked = asked.asked]
             ELSE Open([asked EXCEPT !.error = answer.error])]
  /\ UNCHANGED cache

(* The profile page is opened with a listener for the posts it asks for.    *)
Browse(r) ==
  /\ round[r].at = "browse"
  /\ \E visit \in Visits :
       LET shown == FromBrowser(visit)
           posts == IF visit.error # None \/ visit.posts = None THEN {} ELSE Posts(visit.posts)
           after == [round[r] EXCEPT !.posts = posts]
       IN  round' = [round EXCEPT ![r] =
             IF IsContent(shown) THEN [after EXCEPT !.at = "profile", !.content = shown]
             ELSE IF shown.error # "login" THEN [after EXCEPT !.at = "load"]
             ELSE IF posts # {} THEN [Return(r, posts) EXCEPT !.posts = posts]
             ELSE Throw(r, "login")]
  /\ UNCHANGED cache

(* The universal data, from a page opened once more or from a plain request.*)
Load(r) ==
  /\ round[r].at = "load"
  /\ \E visit \in Visits, plain \in Fetched :
       LET loaded == Loaded(round[r].browser, visit, plain)
           player == round[r].task = "video" /\ round[r].browser
       IN  /\ round' = [round EXCEPT ![r] =
                IF IsContent(loaded) THEN [round[r] EXCEPT !.at = "profile", !.content = loaded]
                ELSE IF player THEN [round[r] EXCEPT !.at = "player"]
                ELSE IF round[r].posts # {} THEN Return(r, round[r].posts)
                ELSE Throw(r, loaded.error)]
           /\ cache' = [cache EXCEPT !["hydration"] =
                IF loaded = Missing /\ round[r].task = "posts" /\ round[r].posts = {} THEN TRUE ELSE @]

Profile(r) ==
  LET p == round[r]
      user == UserInfo(p.content)
      posts == Merged(p.posts, ProfilePosts(p.content))
      secUid == IF user = None THEN None ELSE user.secUid
      gone == secUid = None /\ posts = {}
  IN  /\ p.at = "profile" /\ p.task = "posts" /\ ~p.content.malformed
      /\ cache' = [cache EXCEPT !["secUid"] = IF secUid = None THEN @ ELSE secUid,
                                !["invalid"] = IF gone THEN TRUE ELSE @]
      /\ round' = [round EXCEPT ![r] =
           IF gone THEN Throw(r, "invalid handle")
           ELSE IF secUid = None THEN [Return(r, posts) EXCEPT !.posts = posts]
           ELSE [p EXCEPT !.at = IF p.asked = <<secUid>> THEN "reject" ELSE "ask",
                          !.secUid = secUid, !.posts = posts]]

Malformed(r) ==
  /\ round[r].at = "profile" /\ round[r].content.malformed
  /\ round' = [round EXCEPT ![r] =
       IF round[r].task = "video" /\ round[r].browser THEN [round[r] EXCEPT !.at = "player"]
       ELSE Throw(r, "malformed")]
  /\ UNCHANGED cache

(* The API asked with the secUid of the page, unless it refused it already. *)
AskAgain(r) ==
  /\ round[r].at = "ask"
  /\ \E answer \in Api :
       LET asked == Append(round[r].asked, round[r].secUid)
       IN  round' = [round EXCEPT ![r] =
             IF IsContent(answer)
             THEN [Return(r, Merged(round[r].posts, Posts(answer.items))) EXCEPT !.asked = asked]
             ELSE [round[r] EXCEPT !.at = "reject", !.asked = asked, !.error = answer.error]]
  /\ UNCHANGED cache

(* Mutant: the error of the API is thrown over the posts of the page. *)
RejectThrows(r) ==
  /\ round[r].at = "reject"
  /\ round' = [round EXCEPT ![r] =
       IF round[r].error # None THEN Throw(r, round[r].error) ELSE Return(r, round[r].posts)]
  /\ UNCHANGED cache

Reject(r) ==
  /\ round[r].at = "reject"
  /\ round' = [round EXCEPT ![r] =
       IF round[r].posts = {} THEN Throw(r, round[r].error) ELSE Return(r, round[r].posts)]
  /\ cache' = [cache EXCEPT !["rejected"] = IF round[r].posts = {} THEN @ ELSE TRUE]

Video(r) ==
  LET p == round[r]
      posts == VideoPosts(p.content)
  IN  /\ p.at = "profile" /\ p.task = "video" /\ ~p.content.malformed
      /\ round' = [round EXCEPT ![r] =
           IF Playable(posts) \/ ~p.browser THEN Return(r, posts) ELSE [p EXCEPT !.at = "player"]]
      /\ UNCHANGED cache

Play(r) ==
  /\ round[r].at = "player"
  /\ \E player \in Players :
       LET played == Player(player)
       IN  round' = [round EXCEPT ![r] =
             IF IsContent(played) THEN Return(r, played.posts) ELSE Throw(r, played.error)]
  /\ UNCHANGED cache

Follows(r) ==
  /\ round[r].at = "profile" /\ round[r].task = "follows" /\ ~round[r].content.malformed
  /\ round' = [round EXCEPT ![r] = Return(r, {Followers(round[r].content)})]
  /\ UNCHANGED cache

Expire(k) ==
  /\ cache[k] # None
  /\ cache' = [cache EXCEPT ![k] = None]
  /\ UNCHANGED round

Next ==
  \/ \E k \in CacheKeys : Expire(k)
  \/ \E r \in Rounds :
       \/ Begin(r) \/ AskFirst(r) \/ Browse(r) \/ Load(r) \/ Profile(r) \/ Malformed(r)
       \/ AskAgain(r) \/ Reject(r) \/ Video(r) \/ Play(r) \/ Follows(r)

Spec == Init /\ [][Next]_tiktokVars

-----------------------------------------------------------------------------
(* A round that has read posts of the handle, from the page or from its     *)
(* data, returns them all, whichever request failed before or after; only   *)
(* data that cannot be parsed takes them away.                              *)
PostsAreKept ==
  \A r \in Rounds :
    round[r].at = "idle" /\ round[r].posts # {} =>
      IF round[r].thrown THEN round[r].error = "malformed"
      ELSE {p.id : p \in round[r].posts} \subseteq {p.id : p \in round[r].result}
=============================================================================
