----------------------------- MODULE MCVideos -----------------------------
(* One clip on three platforms with the teaser that announced it, and posts *)
(* that have nothing in common with it.                                     *)
EXTENDS Videos, TLC

Word(w, size) == [word |-> w, size |-> size]

P(platform, kind, compact, tokens, links) ==
  [platform |-> platform, kind |-> kind, user |-> "idol", compact |-> compact, tokens |-> tokens,
   links |-> links, suppressed |-> FALSE]

MCPost(name) ==
  CASE name = "clip"   -> P("tiktok", "video", <<1, 2, 3>>, <<Word("stage", 2), Word("live", 2)>>, {})
    [] name = "reel"   -> P("instagram", "video", <<1, 2, 3, 4>>, <<Word("stage", 2), Word("live", 2)>>, {})
    [] name = "shorts" -> P("youtube", "shorts", <<7, 8, 9>>, <<Word("song", 3)>>, {})
    [] name = "encore" -> P("tiktok", "video", <<>>, <<Word("encore", 2)>>, {})
    [] name = "teaser" -> P("twitter", "video", <<5>>, <<>>, {"tiktok", "youtube"})
    [] name = "quiet"  -> [P("tiktok", "video", <<6>>, <<>>, {}) EXCEPT !.suppressed = TRUE]

Scene(posts, targets, archived, failing, restarts) ==
  [posts |-> posts, targets |-> targets, archived |-> archived, faults |-> failing, rebuilds |-> restarts]

MCScenes ==
  {Scene({"clip", "reel", "teaser"}, {"a"}, {}, 2, 1),
   Scene({"clip", "encore", "shorts", "teaser"}, {"a"}, {}, 0, 0),
   Scene({"clip", "quiet"}, {"a", "b"}, {<<"clip", "a">>}, 1, 1),
   Scene({"shorts", "clip"}, {"a"}, {<<"shorts", "a">>, <<"clip", "a">>}, 1, 1)}

MCNames == {"clip", "reel", "shorts", "encore", "teaser", "quiet"}

MCJoinPlatforms == <<"youtube", "instagram", "tiktok">>
=============================================================================
