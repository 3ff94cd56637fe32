-------------------------------- MODULE XPage --------------------------------
(* A user timeline read from the page itself, and what the parsers of X make *)
(* of the answers it receives.  A result carries what the parsers tell       *)
(* apart; a text is a sequence of words, links and a leading mention.        *)
EXTENDS Integers, SequencesExt, Filters

CONSTANTS
  None,
  Pages,     \* [kind -> the answers X may give]
  Results    \* the results in them, with those they quote or retweet

VARIABLES
  kind,     \* what is being grabbed; "ended" or "failed" at last
  at,       \* "listen", "open", "look" or "await"
  wait,     \* [kind -> listener on the page, body being read, what it ended with]
  grabbed   \* [kind -> the answer that was parsed]

vars == <<kind, at, wait, grabbed>>

-----------------------------------------------------------------------------
(* Cards *)

(* The name of a card may match several kinds: the last test wins. *)
CardKind(name) ==
  CASE "audiospace" \in name -> "space"
    [] "choice" \in name -> "choice"
    [] "player" \in name -> "player"
    [] "image" \in name -> "image"
    [] OTHER -> None

PollChoices(bindings) ==
  LET numbers == {b.choice : b \in {b \in bindings : b.choice # None}}
      Of(n, what) == {b.value : b \in {b \in bindings : b.choice = n /\ b.what = what}}
      Line(n) == [name |-> IF Of(n, "label") \subseteq {None} THEN <<"Unknown Choice", n>>
                           ELSE CHOOSE v \in Of(n, "label") : TRUE,
                  count |-> IF Of(n, "count") \subseteq {None} THEN 0 ELSE CHOOSE v \in Of(n, "count") : TRUE]
  IN  [i \in 1..Cardinality(numbers) |-> Line(SetToSortSeq(numbers, <)[i])]

(* The tallest of the images of a card. *)
Thumbnail(images) ==
  IF images = {} THEN None
  ELSE CHOOSE i \in images : \A j \in images : j.height <= i.height

Extra(card) ==
  LET sort == IF card = None THEN None ELSE CardKind(card.name)
      pictured == sort \in {"image", "player"}
      lines == SelectSeq(<<card.title, card.description, card.domain, card.player>>, LAMBDA l : l # None)
  IN  IF sort = None THEN None
      ELSE [kind |-> sort,
            content |-> CASE pictured -> lines
                          [] sort = "choice" -> PollChoices(card.bindings)
                          [] sort = "space" -> <<card.space>>,
            media |-> IF pictured /\ Thumbnail(card.images) # None THEN <<Thumbnail(card.images)>> ELSE <<>>]

-----------------------------------------------------------------------------
(* Media *)

Playable(variants) == {v \in variants : v.url # None}

(* The mp4 variant of the highest bitrate, or of what there is. *)
VideoUrl(variants) ==
  LET mp4 == {v \in Playable(variants) : v.mp4}
      from == IF mp4 # {} THEN mp4 ELSE Playable(variants)
  IN  IF from = {} THEN None ELSE (CHOOSE v \in from : \A u \in from : u.bitrate <= v.bitrate).url

Shown(m) ==
  CASE m.type = "photo" -> <<[type |-> "photo", url |-> <<m.url, "original">>]>>
    [] m.type \in {"video", "animated_gif"} ->
         (IF VideoUrl(m.variants) = None THEN <<>> ELSE <<[type |-> "video", url |-> VideoUrl(m.variants)]>>)
           \o <<[type |-> "video_thumbnail", url |-> <<m.url, "original">>]>>
    [] OTHER -> <<>>

Media(list) == FlattenSeq([i \in DOMAIN list |-> Shown(list[i])])

-----------------------------------------------------------------------------
(* Tweets *)

(* Links of X itself and of the media disappear, the others are expanded.  *)
Resolved(text) ==
  LET kept == SelectSeq(text, LAMBDA t : t.kind \notin {"own", "media"})
  IN  [i \in DOMAIN kept |-> IF kept[i].kind = "link" THEN [kept[i] EXCEPT !.kind = "expanded"] ELSE kept[i]]

(* The note is taken when it says more than the text that was cut. *)
FullText(r) == IF r.note # None /\ r.text # <<>> /\ r.note # r.text THEN r.note ELSE r.text

Article(r, type, ref) ==
  LET retweet == type = "retweet"
  IN  [id |-> r.id, by |-> r.by, type |-> type, ref |-> ref,
       content |-> IF retweet THEN <<>> ELSE Resolved(FullText(r)),
       media |-> IF retweet THEN <<>> ELSE Media(r.media),
       extra |-> IF retweet THEN None ELSE Extra(r.card)]

Readable(r) == r # None /\ r.id # None /\ r.dated

Inner(r) == IF r.retweeted # None THEN r.retweeted ELSE r.quoted

Type(r) ==
  CASE r.retweeted # None -> "retweet"
    [] r.retweeted = None /\ r.quoted # None -> "quoted"
    [] OTHER -> IF r.replyTo = None THEN "tweet" ELSE "conversation"

Reference[r \in Results] ==
  IF Inner(r) = None THEN r.replyTo
  ELSE IF Readable(Inner(r)) THEN Article(Inner(r), Type(Inner(r)), Reference[Inner(r)]) ELSE None

Tweet(r) == IF Readable(r) THEN Article(r, Type(r), Reference[r]) ELSE None

(* The old endpoints: a reference that does not parse stays as its id. *)
OldReference[r \in Results] ==
  IF Inner(r) = None THEN r.replyTo
  ELSE IF Readable(Inner(r)) THEN Article(Inner(r), Type(Inner(r)), OldReference[Inner(r)]) ELSE Inner(r).id

OldTweet(r) == IF Readable(r) THEN Article(r, Type(r), OldReference[r]) ELSE None

(* A member of a list carries its last status without its author. *)
OldMember(m) == IF Readable(m.status) THEN [OldTweet(m.status) EXCEPT !.by = m.name] ELSE None

Parsed(results) ==
  LET readable == Kept(results, {i \in DOMAIN results : Readable(results[i])})
  IN  [i \in DOMAIN readable |-> Tweet(readable[i])]

-----------------------------------------------------------------------------
(* Timelines: entries of single tweets and of conversations, conversations  *)
(* added to a module, a pinned tweet.                                       *)

Broken(answer) == answer.entries = <<>> /\ answer.modules = <<>>

Entries(answer) == (IF answer.pinned = None THEN <<>> ELSE <<answer.pinned>>) \o answer.entries

Present(results) == Kept(results, {i \in DOMAIN results : results[i] # None})

Singles(answer) ==
  LET single == Kept(Entries(answer), {i \in DOMAIN Entries(answer) : Entries(answer)[i].kind = "tweet"})
  IN  Present([i \in DOMAIN single |-> single[i].items[1]])

Tweets(answer) == Parsed(Singles(answer))

Groups(answer) ==
  LET talks == Kept(Entries(answer),
                    {i \in DOMAIN Entries(answer) : Entries(answer)[i].kind = "profile-conversation"})
      present == [i \in DOMAIN talks |-> Present(talks[i].items)]
                   \o [i \in DOMAIN answer.modules |-> Present(answer.modules[i])]
  IN  Kept(present, {i \in DOMAIN present : present[i] # <<>>})

Unmentioned(t) ==
  IF t.content # <<>> /\ t.content[1].kind = "mention" THEN [t EXCEPT !.content = Tail(t.content)] ELSE t

(* Mutant: a tweet that is not a reply begins the conversation anew. *)
LinkedByReply(before, t) == IF t.type # "conversation" THEN t ELSE [t EXCEPT !.ref = before]

Linked(before, t) == [Unmentioned(t) EXCEPT !.ref = before, !.type = "conversation"]

(* Every tweet of a conversation refers to the one before, and the leading  *)
(* mention goes.                                                            *)
Chain(talk) ==
  LET chain[n \in DOMAIN talk] == IF n = 1 THEN Unmentioned(talk[1]) ELSE Linked(chain[n - 1], talk[n])
  IN  chain

Conversation(group) == Chain(Parsed(group))[Len(Parsed(group))]

Grouped(answer) == {r.id : r \in UNION {ToSet(g) : g \in ToSet(Groups(answer))}}

Replies(answer) ==
  LET groups == Groups(answer)
      singles == Singles(answer)
      talks == Kept(groups, {i \in DOMAIN groups : Parsed(groups[i]) # <<>>})
      direct == Kept(singles, {i \in DOMAIN singles :
                                 singles[i].replyTo # None /\ singles[i].id \notin Grouped(answer)})
  IN  [i \in DOMAIN talks |-> Conversation(talks[i])] \o Parsed(direct)

(* The answer for one status: the tweet asked for, else the first. *)
Detail(results, id) ==
  LET asked == SelectSeq(results, LAMBDA r : r.id = id)
  IN  IF asked # <<>> THEN Tweet(asked[1]) ELSE IF results # <<>> THEN Tweet(results[1]) ELSE None

Follows(users) == [i \in DOMAIN users |-> [u |-> users[i].by, restId |-> users[i].id]]
-----------------------------------------------------------------------------
(* The page: a listener waits for its own request while it is opened and    *)
(* looked over, for the tweets first and for the replies after them.        *)

Kinds == {"tweets", "replies"}
Refusals == {<<"login">>, <<"challenge">>, <<"redirect">>, <<"status">>}

Paged(k) == {<<"page", answer>> : answer \in Pages[k]}

NoWait == [on |-> FALSE, body |-> None, ended |-> None]

Init ==
  /\ kind = "tweets" /\ at = "listen"
  /\ wait = [k \in Kinds |-> NoWait]
  /\ grabbed = [k \in Kinds |-> None]

(* A wait ends once, and ending it takes its listener and its timer away.   *)
Ended(k, result) ==
  IF wait[k].ended # None THEN wait
  ELSE [wait EXCEPT ![k].ended = result, ![k].on = FALSE]

Listen ==
  /\ kind \in Kinds /\ at = "listen"
  /\ wait' = [wait EXCEPT ![kind].on = TRUE]
  /\ at' = "open"
  /\ UNCHANGED <<kind, grabbed>>

(* Opening the page, then the checks for a login and for an error on it.    *)
Look ==
  /\ kind \in Kinds /\ at \in {"open", "look"}
  /\ at' = IF at = "open" THEN "look" ELSE "await"
  /\ UNCHANGED <<kind, wait, grabbed>>

(* Mutant: a page that cannot be opened leaves its listener behind. *)
LookFailsOnly ==
  /\ kind \in Kinds /\ at \in {"open", "look"}
  /\ kind' = "failed"
  /\ UNCHANGED <<at, wait, grabbed>>

LookFails ==
  /\ kind \in Kinds /\ at \in {"open", "look"}
  /\ kind' = "failed"
  /\ wait' = Ended(kind, <<"cleaned">>)
  /\ UNCHANGED <<at, grabbed>>

Hears(k) == wait[k].on /\ (k = kind => at # "listen")

(* The request waited for is answered: a body to read, or a redirection or  *)
(* status that ends the wait.                                               *)
Respond(k) ==
  /\ Hears(k) /\ wait[k].body = None
  /\ \E answer \in Refusals \cup Paged(k) :
       wait' = IF answer \in Refusals THEN Ended(k, answer) ELSE [wait EXCEPT ![k].body = answer]
  /\ UNCHANGED <<kind, at, grabbed>>

Body(k, read) ==
  /\ wait[k].body # None
  /\ wait' = [Ended(k, IF read THEN wait[k].body ELSE <<"unreadable">>) EXCEPT ![k].body = None]
  /\ UNCHANGED <<kind, at, grabbed>>

Timeout(k) ==
  /\ wait[k].on
  /\ wait' = Ended(k, <<"timeout">>)
  /\ UNCHANGED <<kind, at, grabbed>>

Await ==
  LET result == wait[kind].ended
      parses == result # None /\ result[1] = "page" /\ ~Broken(result[2])
  IN  /\ kind \in Kinds /\ at = "await" /\ result # None
      /\ kind' = IF ~parses THEN "failed" ELSE IF kind = "tweets" THEN "replies" ELSE "ended"
      /\ grabbed' = IF parses THEN [grabbed EXCEPT ![kind] = result[2]] ELSE grabbed
      /\ at' = "listen"
      /\ UNCHANGED wait

Next ==
  \/ Listen \/ Look \/ LookFails \/ Await
  \/ \E k \in Kinds : Respond(k) \/ Timeout(k) \/ \E read \in BOOLEAN : Body(k, read)

Spec == Init /\ [][Next]_vars

-----------------------------------------------------------------------------
(* However the page, its answers and the timers interleave, a part of the   *)
(* crawl that has ended, well or not, listens to the page no more.          *)
NoListenerLeft == \A k \in Kinds : wait[k].on => k = kind

(* The article that tells a conversation leads from its last tweet to the   *)
(* first, tweet by tweet.                                                   *)
Tells(article, talk) ==
  LET up[n \in 0 .. Len(talk) - 1] == IF n = 0 THEN article ELSE up[n - 1].ref
  IN  \A n \in 0 .. Len(talk) - 1 : up[n].id = talk[Len(talk) - n].id

(* Where a tweet is shown: by an article, or in a conversation above the    *)
(* last tweet.                                                              *)
Places(id, articles, talks) ==
  {<<i, 0>> : i \in {i \in DOMAIN articles : articles[i].id = id}}
    \cup UNION {{<<g, n>> : n \in {n \in 1 .. Len(talks[g]) - 1 : talks[g][n].id = id}} : g \in DOMAIN talks}

(* Every reply of the answer is shown by one article: in its place in the   *)
(* conversation it was sent with, over the tweets before it, or by itself.  *)
RepliesAreShownOnce ==
  grabbed["replies"] # None =>
    LET answer == grabbed["replies"]
        articles == Replies(answer)
        talks == [g \in DOMAIN Groups(answer) |-> Parsed(Groups(answer)[g])]
    IN  /\ \A g \in DOMAIN talks :
             talks[g] # <<>> => \E i \in DOMAIN articles : Tells(articles[i], talks[g])
        /\ \A r \in ToSet(Singles(answer)) :
             r.replyTo # None /\ Readable(r) => Cardinality(Places(r.id, articles, talks)) = 1
=============================================================================
