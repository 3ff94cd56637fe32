------------------------------ MODULE Spiders -------------------------------
(***************************************************************************)
(* What a crawl is made of, side by side: the list crawl of X and its API  *)
(* client, its user timelines read from the page, the crawls of TikTok,     *)
(* Instagram and YouTube, the pool their pages come from, and the processor that reads what they bring.  The     *)
(* parts share no state: a behaviour is one of the part it names, while    *)
(* the others stay as they are.                                            *)
(***************************************************************************)
EXTENDS BrowserPool, Integers, Sequences

CONSTANTS
  ListScenes, Fold(_), MaxHydrated, ListDefault, ListMost, HydrateCount, Unknown,
  ApiScenes, Workers, ClientOf(_), NoWorker, Ids, ApiRetries,
  PageAnswers, PageResults,
  Handle, Lower(_), Looks, Rounds, Tasks, Browsers, Visits, Fetched, Players, Api,
  InstaScenes, BreakerThreshold,
  ChannelScenes, DefaultLimit, MaxLimit, ChannelDefault, ChannelMost, ListAttempts,
  Texts, Providers, Retries, Threshold, Cooldown, WritesSchedules, MaxTime, MaxRestarts

VARIABLES
  part,
  listScene, memberCache, cursor, listFaults, listPhase, sampled, timeline, members,
  open, listQueue, listAsked, refused, passed, served, known, due,
  apiScene, live, profile, queryId, recent, restId, guest, flight,
  mint, client, apiCall, condemned,
  pageKind, pageAt, pageWait, grabbed,
  cache, round,
  instaScene, job, stage, step, heard, graphql, posts, found, missing, result,
  payload, announced, avatar, breaker, claim,
  channel, checked, catalog, channelAt, listed, byId, left, asked, premieres, returned,
  now, failures, openUntil, lastError, stored, text, restarts

L == INSTANCE XList WITH scene <- listScene, Scenes <- ListScenes, faults <- listFaults, phase <- listPhase,
       queue <- listQueue, asked <- listAsked, forwarded <- passed,
       DefaultConcurrency <- ListDefault, MaxConcurrency <- ListMost

A == INSTANCE XApi WITH scene <- apiScene, call <- apiCall, Scenes <- ApiScenes, Retries <- ApiRetries,
       Nobody <- NoWorker

H == INSTANCE XPage WITH kind <- pageKind, at <- pageAt, wait <- pageWait, Pages <- PageAnswers,
       Results <- PageResults

K == INSTANCE TikTok WITH Attempts <- Looks

G == INSTANCE Instagram WITH scene <- instaScene, at <- stage, wait <- heard, pending <- announced,
       Scenes <- InstaScenes

Y == INSTANCE YouTube WITH scene <- channel, stored <- catalog, at <- channelAt, queue <- left,
       Scenes <- ChannelScenes, DefaultConcurrency <- ChannelDefault, MaxConcurrency <- ChannelMost

M == INSTANCE LlmCircuit WITH Legs <- Providers

-----------------------------------------------------------------------------
Elements(s) == {s[n] : n \in DOMAIN s}

\* What a list page of a channel may come to.
ListAnswer(page) ==
  \/ page \in {[is |-> "shell"], [is |-> "refused"], [is |-> "transient"]}
  \/ page.is = "page" /\ page.items \in Seq(Elements(page.items))

\* Sequences of what they hold; and a tweet is shown once among the single
\* entries, once among the conversations, and where it is both it can be read in both.
ReplyAnswer(answer) ==
  LET singles == H!Singles(answer)
      groups == H!Groups(answer)
  IN  /\ answer.entries \in Seq(Elements(answer.entries))
      /\ \A e \in Elements(H!Entries(answer)) : e.items \in Seq(Elements(e.items))
      /\ answer.modules \in Seq(Elements(answer.modules))
      /\ \A items \in Elements(answer.modules) : items \in Seq(Elements(items))
      /\ \A i, j \in DOMAIN singles :
           H!Readable(singles[i]) /\ H!Readable(singles[j]) /\ singles[i].id = singles[j].id => i = j
      /\ \A g, h \in DOMAIN groups : \A m \in DOMAIN groups[g], n \in DOMAIN groups[h] :
           H!Readable(groups[g][m]) /\ H!Readable(groups[h][n]) /\ groups[g][m].id = groups[h][n].id
             => g = h /\ m = n
      /\ \A i \in DOMAIN singles, g \in DOMAIN groups : \A n \in DOMAIN groups[g] :
           H!Readable(singles[i]) /\ singles[i].id = groups[g][n].id => H!Readable(groups[g][n])

ASSUME SpidersAssumption ==
  /\ MaxHydrated \in Nat /\ ListDefault \in Nat /\ ListMost \in Nat
  /\ \A s \in ListScenes :
       /\ s.limit \in Nat /\ s.concurrency \in Int /\ s.configured \in Seq(Elements(s.configured))
       /\ \A t \in s.timelines : t \in Seq(Elements(t))
       /\ \A sample \in s.samples : sample \in Seq(Elements(sample))
       /\ \A list \in s.lists : list \in Seq(Elements(list)) /\ Unknown \notin Seq(Elements(list))
  /\ \A answer \in PageAnswers["replies"] : ReplyAnswer(answer)
  /\ NoWorker \notin Workers
  /\ Cooldown \in Nat /\ None \notin [failures : Nat, openUntil : Nat]
  /\ ListAttempts \in Nat \ {0}
  /\ \A s \in ChannelScenes : s.video = None =>
       \A list \in s.pages.videos \cup s.pages.shorts :
         /\ list.tries \in Seq(Elements(list.tries))
         /\ Len(list.tries) = ListAttempts
         /\ ListAnswer(list.curl) /\ \A n \in DOMAIN list.tries : ListAnswer(list.tries[n])

listVars == <<listScene, memberCache, cursor, listFaults, listPhase, sampled, timeline, members,
              open, listQueue, listAsked, refused, passed, served, known, due>>
apiVars == <<apiScene, live, profile, queryId, recent, restId, guest, flight,
             mint, client, apiCall, condemned>>
pageVars == <<pageKind, pageAt, pageWait, grabbed>>
tiktokVars == <<cache, round>>
instaVars == <<instaScene, job, stage, step, heard, graphql, posts, found, missing, result,
               payload, announced, avatar, breaker, claim>>
channelVars == <<channel, checked, catalog, channelAt, listed, byId, left, asked, premieres,
                 returned>>
llmVars == <<now, failures, openUntil, lastError, stored, text, restarts>>

spiderVars == <<part, listVars, apiVars, pageVars, poolVars, tiktokVars, instaVars, channelVars, llmVars>>

SpidersInit == L!Init /\ A!Init /\ H!Init /\ PoolInit /\ K!Init /\ G!Init /\ Y!Init /\ M!Init

\* What belongs to every other part stays as it is.
Rest(p) ==
  /\ p # "list" => UNCHANGED listVars
  /\ p # "api" => UNCHANGED apiVars
  /\ p # "page" => UNCHANGED pageVars
  /\ p # "pool" => UNCHANGED poolVars
  /\ p # "tiktok" => UNCHANGED tiktokVars
  /\ p # "instagram" => UNCHANGED instaVars
  /\ p # "channel" => UNCHANGED channelVars
  /\ p # "llm" => UNCHANGED llmVars

SpidersNext ==
  /\ \/ part = "list" /\ L!Next
     \/ part = "api" /\ A!Next
     \/ part = "page" /\ H!Next
     \/ part = "pool" /\ PoolNext
     \/ part = "tiktok" /\ K!Next
     \/ part = "instagram" /\ G!Next
     \/ part = "channel" /\ Y!Next
     \/ part = "llm" /\ M!Next
  /\ Rest(part)
  /\ UNCHANGED part

SpidersSpec == SpidersInit /\ [][SpidersNext]_spiderVars

-----------------------------------------------------------------------------
\* Lists: nobody outside the membership is ever forwarded (XList).
NeverFailsOpen == L!NeverFailsOpen

\* Lists: the rotation reaches every member again and again (XList).
EveryMemberComesRound == part = "list" => L!EveryMemberComesRound

\* The API: an account is looked up, a guest token minted, once at a time (XApi).
NoTwinRequests == A!NoTwinRequests

\* The API: who waits for a lookup or a token waits for one under way (XApi).
NobodyWaitsInVain == A!NobodyWaitsInVain

\* The API: an id invalidated as stale is not sent again (XApi).
StaleIdIsDropped == A!StaleIdIsDropped

\* The page: a part of the crawl that has ended listens no more (XPage).
NoListenerLeft == H!NoListenerLeft

\* Replies: each is shown by one article, in its place (XPage).
RepliesAreShownOnce == H!RepliesAreShownOnce

\* TikTok: posts that were read are returned, whatever fails (TikTok).
PostsAreKept == K!PostsAreKept

\* Instagram: posts that were captured are returned (Instagram).
PostsSurvive == G!PostsSurvive

\* Channels: a round returns what its lists showed (YouTube).
ListedIsReturned == Y!ListedIsReturned

\* Channels: a premiere that is over is reported in the end (YouTube).
ResolvedIsReported == part = "channel" => Y!ResolvedIsReported

\* The processor: a restart forgets no failure (LlmCircuit).
RestartForgetsNoFailure == M!RestartForgetsNoFailure

=============================================================================
