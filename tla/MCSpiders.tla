----------------------------- MODULE MCSpiders ------------------------------
(* Spiders on small scenes.  The initial state picks a part; only its scenes *)
(* vary.                                                                    *)
EXTENDS Spiders, TLC

CONSTANTS c1, c2, k1

-----------------------------------------------------------------------------
(* Lists: one that X calls empty now and then, one with a configured        *)
(* account, one with no limit of its own, and one of a single slot.         *)

Folds(u) == IF u = "Ann" THEN "ann" ELSE u
T(by, n) == [by |-> by, tweets |-> n]

MCListScenes ==
  {[configured |-> <<>>, limit |-> 2, concurrency |-> 0, samples |-> {<<>>, <<"stranger", "bea">>},
    lists |-> {<<"ann", "bea">>, <<"bea">>}, timelines |-> {<<>>, <<T("stranger", 1), T("ann", 2)>>},
    faults |-> 4, steady |-> FALSE],
   [configured |-> <<"Ann">>, limit |-> 3, concurrency |-> 9, samples |-> {<<"bea">>},
    lists |-> {<<"ann", "bea", "cat", "dee", "eve">>}, timelines |-> {<<T("dee", 5), T("cat", 1)>>},
    faults |-> 4, steady |-> TRUE],
   [configured |-> <<>>, limit |-> 0, concurrency |-> 2, samples |-> {<<>>},
    lists |-> {<<"ann", "bea", "cat", "dee", "eve">>}, timelines |-> {<<>>},
    faults |-> 3, steady |-> TRUE],
   [configured |-> <<>>, limit |-> 1, concurrency |-> 1, samples |-> {<<>>},
    lists |-> {<<>>, <<"ann">>}, timelines |-> {<<T("stranger", 1)>>}, faults |-> 3, steady |-> FALSE]}

-----------------------------------------------------------------------------
(* The API: two calls of one crawl, calls of two crawls, replies and single *)
(* tweets over captured query ids, and a list whose id X replaces.          *)

J(spider, engine, task, kinds) == [spider |-> spider, engine |-> engine, task |-> task, kinds |-> kinds]
S(page, workers, jobs, rotates) ==
  [page |-> page, workers |-> workers, jobs |-> jobs, names |-> {"idol"}, rotates |-> rotates]

MCApiScenes ==
  {S(FALSE, {1, 2}, {J("timeline", "api", "article", {"tweets"}), J("timeline", "api", "follows", {})}, {}),
   S(FALSE, {1, 3}, {J("timeline", "api", "article", {"tweets"})}, {}),
   S(TRUE, {1}, {J("timeline", "api", "article", {"replies"}), J("status", "api", "article", {})}, {}),
   S(TRUE, {1}, {J("list", "api-graphql", "article", {})}, {"list"})}

CrawlOf(w) == IF w = 3 THEN "later" ELSE "crawl"

-----------------------------------------------------------------------------
(* The page: answers with tweets, conversations, tweets that cannot be read.*)

R(id, replyTo) ==
  [id |-> id, by |-> "idol", dated |-> TRUE, quoted |-> None, retweeted |-> None,
   replyTo |-> replyTo, note |-> None, media |-> <<>>, card |-> None,
   text |-> <<[kind |-> "mention"], [kind |-> "word"], [kind |-> "link"], [kind |-> "media"]>>]
Q(id) ==
  [R(id, None) EXCEPT !.quoted = R("q", None), !.note = <<[kind |-> "word"]>>,
     !.media = <<[type |-> "photo", url |-> "p"],
                 [type |-> "video", url |-> "t",
                  variants |-> {[url |-> "hi", mp4 |-> TRUE, bitrate |-> 2],
                                [url |-> "hls", mp4 |-> FALSE, bitrate |-> 9]}]>>]
E(sort, items) == [kind |-> sort, items |-> items]
Lost == [R("x", None) EXCEPT !.dated = FALSE]
Entries ==
  {E("tweet", <<R("a", None)>>), E("tweet", <<R("b", "a")>>), E("tweet", <<R("d", "z")>>),
   E("profile-conversation", <<R("a", None), R("b", "a")>>), E("tweet", <<None>>),
   E("profile-conversation", <<Lost, Q("c"), R("d", "c")>>)}
Pairs == {<<p[1], p[2]>> : p \in {p \in Entries \X Entries : p[1] # p[2]}}
MCPageAnswers ==
  [k \in {"tweets", "replies"} |->
    {[entries |-> e, modules |-> m, pinned |-> None] :
       e \in {<<>>} \cup {<<x>> : x \in Entries} \cup (IF k = "tweets" THEN {} ELSE Pairs),
       m \in IF k = "tweets" THEN {<<>>} ELSE {<<>>, <<<<R("e", "y"), Q("f")>>>>}}]

MCPageResults ==
  LET read == UNION {Elements(e.items) : e \in Entries} \cup {R("e", "y"), Q("f")}
  IN  (read \cup {r.quoted : r \in read \ {None}}) \ {None}

-----------------------------------------------------------------------------
(* The pool: two calls for one session; the first browser launched for the  *)
(* first call may lose its connection.                                      *)

Session(c) == k1

Shaky == {<<c1, 1>>}

-----------------------------------------------------------------------------
(* TikTok: pages that show posts, shells, walls and malformed data.         *)

Lowered(n) == IF n = "IDOL" THEN "idol" ELSE n
V(rates) == [covers |-> {"c"}, rates |-> rates, play |-> "p", download |-> None]
Item(id) ==
  [id |-> id, by |-> "idol", dated |-> TRUE,
   video |-> V({[rate |-> 1, url |-> "lo"], [rate |-> 2, url |-> "hi"]})]
Still(id) == [Item(id) EXCEPT !.video = None]
User(sec, items) == [name |-> "IDOL", secUid |-> sec, items |-> items, followers |-> 7]
C(users, module, detail) == [malformed |-> FALSE, users |-> users, module |-> module, detail |-> detail]
Shell == C(<<>>, {}, None)
Full == C(<<[User("s1", {}) EXCEPT !.name = "other"], User("s1", {Item("a")})>>, {}, Item("a"))
Moved == C(<<User("s2", {})>>, {Item("b")}, Still("a"))
Bare == C(<<User(None, {})>>, {Still("b")}, None)
Bad == [malformed |-> TRUE]
Opens(error, heardPosts, looks) == [error |-> error, posts |-> heardPosts, looks |-> looks]
Visited ==
  {Opens("login", None, <<>>), Opens(None, None, <<None, Full>>),
   Opens(None, {Item("c")}, <<None, None, None, Full>>),
   Opens(None, {Item("a"), [Item("d") EXCEPT !.dated = FALSE]}, <<Moved>>),
   Opens(None, {Item("c")}, <<Shell>>), Opens(None, None, <<Bare>>), Opens(None, {Item("c")}, <<Bad>>)}
Embedded ==
  [embeds |-> TRUE, error |-> None, url |-> "v", dated |-> TRUE, id |-> "a", by |-> "idol", thumbs |-> {"c"}]
Played ==
  {Embedded, [Embedded EXCEPT !.embeds = FALSE], [Embedded EXCEPT !.error = "login"],
   [Embedded EXCEPT !.url = None], [Embedded EXCEPT !.dated = FALSE]}

Tales == {[error |-> "blocked"], Full, Shell}
Told == {[error |-> "rejected"], [items |-> {Item("e"), Item("a")}]}

-----------------------------------------------------------------------------
(* Instagram: a private profile with posts, highlights and stories; one     *)
(* whose query fails, with posts of other people; and one that is only      *)
(* asked for highlights, followers and live status.                         *)

U(h, closed, pic) ==
  [handle |-> h, private |-> closed, following |-> FALSE, avatar |-> pic, followers |-> 3, live |-> "l"]
Node(id, owner) ==
  [id |-> id, owner |-> owner, caption |-> "generated", images |-> <<"w", "n">>, videos |-> <<>>, carousel |-> {}]
Reel(id, owner) == [Node(id, owner) EXCEPT !.videos = <<"v">>]
NoEdges == [timeline |-> {}, xdt |-> {}, edges |-> None, user |-> None]
Timeline(edges) == <<"ok", [NoEdges EXCEPT !.xdt = edges]>>
Idol == U("idol", FALSE, None)
Crawl(p, h, s, u) == [posts |-> p, highlights |-> h, stories |-> s, user |-> u]
Profile ==
  [handle |-> "idol", handles |-> {"idol"}, known |-> {"a"}, jobs |-> {},
   answers |->
     [posts |-> {<<"refused">>, Timeline({Node("a", Idol)})},
      tray |-> {<<"refused">>,
                <<"ok", [tray |-> {[id |-> "h", by |-> "idol", title |-> "t", cover |-> "c"]}]>>},
      profile |-> {<<"refused">>, <<"ok", U("idol", FALSE, "pic")>>}],
   probes |-> {[url |-> None, claim |-> None], [url |-> "pic", claim |-> "c1"]},
   storyPages |-> {None, [reels |-> {[Node("s", None) EXCEPT !.caption = None] @@ [by |-> "idol"]}]}]
MCInstaScenes ==
  {[Profile EXCEPT !.jobs = {Crawl(TRUE, TRUE, TRUE, None)},
                   !.answers.profile = {<<"ok", U("idol", TRUE, None)>>},
                   !.probes = {[url |-> None, claim |-> None]}],
   [Profile EXCEPT !.jobs = {Crawl(TRUE, FALSE, FALSE, None)}, !.handles = {"idol", "guest"},
      !.known = {"a", "b"}, !.answers.profile = {<<"refused">>},
      !.answers.posts =
        {Timeline({Node("a", None), Reel("b", U("guest", TRUE, None))}),
         Timeline({Node("a", U("idol", TRUE, None))}), <<"ok", NoEdges>>, <<"ok", [NoEdges EXCEPT !.edges = {}]>>,
         <<"ok", [NoEdges EXCEPT !.timeline = {Node("c", U("guest", TRUE, "pic"))}, !.user = Idol]>>}],
   [Profile EXCEPT !.jobs = {Crawl(FALSE, TRUE, FALSE, None), Crawl(FALSE, FALSE, FALSE, "follows"),
                             Crawl(FALSE, FALSE, FALSE, "status")}]}

-----------------------------------------------------------------------------
(* Channels: a pending premiere that a short and a newer video for members  *)
(* keep off the first queue, and a known video, with failing pages; a       *)
(* channel whose videos page is a shell, without a gate; and a single video.*)

It(id, sort, title, ago) ==
  [id |-> id, sort |-> sort, title |-> title, description |-> None, ago |-> ago,
   thumbs |-> {[url |-> "t", width |-> 1]}, badges |-> IF id = "m" THEN {"MEMBER"} ELSE {},
   isVideo |-> id # "list"]
Pg(items) == [is |-> "page", handle |-> "h", vanity |-> None, title |-> "t", items |-> items]
Wp(title, start, upcoming) ==
  [start |-> start, published |-> 5, title |-> title, description |-> "d", thumbs |-> {},
   upcoming |-> upcoming, status |-> "UNPLAYABLE", reason |-> "members only", owner |-> None]
Declined == [is |-> "refused"]
Unlisted == [is |-> "shell"]
Ans(p) == [tries |-> <<p, p>>, curl |-> Declined]
Base ==
  [handle |-> "h", limit |-> 2, concurrency |-> 2, gated |-> TRUE, video |-> None,
   failing |-> {{}}, stored |-> <<>>, over |-> {}]

MCChannelScenes ==
  {[Base EXCEPT !.stored = [p |-> "pending", k |-> "known"], !.failing = {{}, {"p"}}, !.over = {"p"}] @@
     [pages |->
        [videos |-> {Ans(Pg(<<It("p", "video", "x", 3), It("k", "video", "y", 4), It("m", "video", "w", 5)>>)),
                     [tries |-> <<[is |-> "transient"], Declined>>, curl |-> Declined]},
         shorts |-> {Ans(Pg(<<It("s", "short", "z", 0), It("m", "lockup", "w", 5), It("list", "lockup", "l", 1)>>))}],
      watch |->
        [p |-> {Wp("x", None, FALSE)}, k |-> {Wp("y", None, FALSE)}, s |-> {Wp("z", None, FALSE)},
         m |-> {Wp("w", 9, TRUE), Wp("w", 9, FALSE)}]],
   [Base EXCEPT !.gated = FALSE, !.limit = 1, !.concurrency = 1] @@
     [pages |->
        [videos |-> {Ans(Unlisted), [tries |-> <<Unlisted, Unlisted>>, curl |-> Pg(<<It("m", "lockup", "placeholder", 2)>>)]},
         shorts |-> {Ans(Pg(<<It("s", "short", "z", 1)>>)), Ans(Unlisted)}],
      watch |-> [s |-> {Wp("z", None, FALSE)}, m |-> {Wp("placeholder", None, FALSE), Wp("w", 9, FALSE)}]],
   [Base EXCEPT !.video = "v"] @@ [watch |-> [v |-> {Wp("x", 9, TRUE), Wp(None, None, FALSE)}]]}

-----------------------------------------------------------------------------
Only(p, scenes, scene) == part = p \/ scene = CHOOSE s \in scenes : TRUE

MCInit ==
  /\ part \in {"list", "api", "page", "pool", "tiktok", "instagram", "channel", "llm"}
  /\ SpidersInit
  /\ Only("list", ListScenes, listScene)
  /\ Only("api", ApiScenes, apiScene)
  /\ Only("instagram", InstaScenes, instaScene)
  /\ Only("channel", ChannelScenes, channel)

Fairness ==
  /\ part = "list" => L!Fairness
  /\ part = "channel" => Y!Fairness

MCSpec == MCInit /\ [][SpidersNext]_spiderVars /\ Fairness

=============================================================================
