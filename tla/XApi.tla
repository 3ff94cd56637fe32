-------------------------------- MODULE XApi --------------------------------
(* The GraphQL clients of the X spiders.  A crawl builds a client over the   *)
(* spider's cache, and the workers of the crawl call it side by side: learn  *)
(* the query id of an operation from the page, the cache or the site's       *)
(* bundles, learn the id of an account, and ask.  Only 404, the refusals and *)
(* the passing failures of an answer are told apart.                         *)
EXTENDS Integers, FiniteSets

CONSTANTS
  Workers,
  ClientOf(_),     \* the crawl a worker belongs to
  Nobody,
  Ids,             \* query ids, in the order X puts them in service
  Retries,         \* of a failure that passes
  Scenes           \* page, workers, jobs, names, query ids replaced

VARIABLES
  scene,
  live,      \* [operation -> the query id X serves]
  profile,   \* cache x-op:, captured query ids, 0 when absent
  queryId,   \* cache x-queryid:, extracted query ids, 0 when absent
  recent,    \* captures less than half an hour old
  restId,    \* cache x-restid:
  guest,     \* cache x-guest-token is there
  flight,    \* [name -> worker looking its account up]
  mint,      \* [client -> worker minting its guest token]
  client,    \* [client -> profiles, ids and names it holds]
  call,      \* [worker -> the call it is in]
  condemned  \* list operations and ids invalidated when out of service

cache == <<profile, queryId, recent, restId, guest>>
vars == <<scene, live, cache, flight, mint, client, call, condemned>>

Ops == {"list", "members", "byName", "tweets", "replies", "detail"}
AccountScoped == {"byName", "tweets", "replies", "detail"}
Clients == {ClientOf(w) : w \in Workers}
Outcomes == {"ok", "missing", "refused", "passing"}

(* What a capture for an operation expects to see on the page it visits. *)
Expected(op) ==
  CASE op \in {"list", "members"} -> {"list", "members"}
    [] op = "tweets"              -> {"byName", "tweets"}
    [] op \in {"byName", "replies"} -> {"byName", op}
    [] op = "detail"              -> {"detail"}

Kinds(job) == IF job.kinds = {} THEN {"tweets", "replies"} ELSE job.kinds

(* What a job of the timeline spider asks the API; without the api engine   *)
(* it reads the page (XPage), and a failure is never tried on the other.    *)
TimelineCalls(job) ==
  IF job.engine # "api" THEN {} ELSE IF job.task = "follows" THEN {"byName"} ELSE Kinds(job)

(* A list has no replies, whatever the job declares; api-graphql is the     *)
(* engine of the page by another name, and the old endpoints are gone.      *)
ListCalls(job) ==
  CASE job.engine \in {"api-statuses", "api-member"} -> {}
    [] job.task = "follows" -> {"members"}
    [] job.engine = "api-unified" -> {"list", "members"} \cup (Kinds(job) \cap {"tweets"})
    [] OTHER -> IF "tweets" \in Kinds(job) THEN {"list"} ELSE {}

Calls(job) ==
  CASE job.spider = "timeline" -> TimelineCalls(job)
    [] job.spider = "list" -> ListCalls(job)
    [] job.spider = "status" -> {"detail"}

-----------------------------------------------------------------------------
Idle == [at |-> "idle", op |-> "list", name |-> Nobody, capturing |-> FALSE,
         attempt |-> 1, tries |-> 0, token |-> FALSE]

(* The profiles a client loads when it is built; those of the others wait   *)
(* in the cache for the first capture that expects them.                    *)
Loaded == {"list", "byName", "tweets", "replies"}

Built ==
  LET loaded == [op \in Ops |-> IF op \in Loaded THEN profile[op] ELSE 0]
  IN  [profile |-> loaded, names |-> {},
       id |-> [op \in Ops |-> IF queryId[op] # 0 THEN queryId[op] ELSE loaded[op]]]

Init ==
  /\ scene \in Scenes
  /\ live = [op \in Ops |-> 1]
  /\ profile = [op \in Ops |-> 0] /\ queryId = [op \in Ops |-> 0]
  /\ recent = {} /\ restId = {} /\ guest = FALSE
  /\ flight = [n \in scene.names |-> Nobody]
  /\ mint = [c \in Clients |-> Nobody]
  /\ client = [c \in Clients |-> Built]
  /\ call = [w \in Workers |-> Idle]
  /\ condemned = {}

C(w) == client[ClientOf(w)]

Goto(w, at) == call' = [call EXCEPT ![w].at = at]

(* A crawl begins: its client starts from the cache, and an id extracted    *)
(* from the bundles overrides the captured one.                             *)
Build(c) ==
  /\ \A w \in Workers : ClientOf(w) = c => call[w] = Idle
  /\ \E w \in scene.workers : ClientOf(w) = c
  /\ client' = [client EXCEPT ![c] = Built]
  /\ UNCHANGED <<scene, live, cache, flight, mint, call, condemned>>

Call(w, op, n) ==
  /\ call[w] = Idle /\ w \in scene.workers /\ op \in UNION {Calls(j) : j \in scene.jobs}
  /\ call' = [call EXCEPT ![w] = [Idle EXCEPT !.at = IF op = "byName" THEN "look" ELSE "capture",
                                              !.op = op, !.name = n]]
  /\ UNCHANGED <<scene, live, cache, flight, mint, client, condemned>>

(* A request the page fired tells the id of its operation. *)
Store(captured) ==
  /\ profile' = [o \in Ops |-> IF o \in captured THEN live[o] ELSE profile[o]]
  /\ recent' = recent \cup {<<o, live[o]>> : o \in captured}

(* The page is visited when the client and the cache lack a profile; which  *)
(* of the operations it fires is the page's affair.                         *)
Capture(w, op, next) ==
  LET wanted == {o \in Expected(op) : C(w).profile[o] = 0}
      seen == {o \in wanted : profile[o] # 0}
      missing == wanted \ seen
  IN  \E captured \in SUBSET (IF scene.page THEN missing ELSE {}) :
        LET Now(f) == [o \in Ops |-> CASE o \in captured -> live[o]
                                       [] o \in seen -> profile[o]
                                       [] OTHER -> f[o]]
        IN  /\ client' = [client EXCEPT ![ClientOf(w)].profile = Now(@), ![ClientOf(w)].id = Now(@)]
            /\ Store(captured)
            /\ Goto(w, next)
            /\ UNCHANGED <<scene, live, queryId, restId, guest, flight, mint, condemned>>

Prepare(w) ==
  /\ call[w].at = "capture"
  /\ Capture(w, call[w].op, IF call[w].op \in {"tweets", "replies"} THEN "account" ELSE "id")

-----------------------------------------------------------------------------
(* The account of a name: known, cached, being looked up, or looked up now. *)

Known(w) ==
  /\ call[w].at = "account" /\ call[w].name \in C(w).names \cup restId
  /\ client' = [client EXCEPT ![ClientOf(w)].names = @ \cup {call[w].name}]
  /\ Goto(w, "id")
  /\ UNCHANGED <<scene, live, cache, flight, mint, condemned>>

IsUnknown(w) == call[w].at = "account" /\ call[w].name \notin C(w).names \cup restId

Join(w) ==
  /\ IsUnknown(w) /\ flight[call[w].name] # Nobody
  /\ Goto(w, "wait")
  /\ UNCHANGED <<scene, live, cache, flight, mint, client, condemned>>

(* Mutant: the lookup under way is not looked for. *)
LookUpUnasked(w) ==
  /\ IsUnknown(w)
  /\ flight' = [flight EXCEPT ![call[w].name] = w]
  /\ Goto(w, "look")
  /\ UNCHANGED <<scene, live, cache, mint, client, condemned>>

LookUp(w) ==
  /\ IsUnknown(w) /\ flight[call[w].name] = Nobody
  /\ flight' = [flight EXCEPT ![call[w].name] = w]
  /\ Goto(w, "look")
  /\ UNCHANGED <<scene, live, cache, mint, client, condemned>>

PrepareLookUp(w) ==
  /\ call[w].at = "look"
  /\ Capture(w, "byName", "lookId")

(* Everyone in the lookup of w, when it ends: the owner and those waiting.  *)
Party(w) ==
  {w} \cup {v \in Workers : call[v].at = "wait" /\ call[v].name = call[w].name /\ flight[call[w].name] = w}

(* Mutant: the waiting are told of a success only. *)
SettledForTheOwner(w, ok) ==
  /\ call' = [v \in Workers |->
       IF v \notin Party(w) \/ (~ok /\ v # w) THEN call[v]
       ELSE IF ok /\ call[v].op # "byName" THEN [call[v] EXCEPT !.at = "id", !.tries = 0]
       ELSE Idle]
  /\ flight' = [n \in DOMAIN flight |-> IF flight[n] = w THEN Nobody ELSE flight[n]]

Settled(w, ok) ==
  /\ call' = [v \in Workers |->
       IF v \notin Party(w) THEN call[v]
       ELSE IF ok /\ call[v].op # "byName" THEN [call[v] EXCEPT !.at = "id", !.tries = 0]
       ELSE Idle]
  /\ flight' = [n \in DOMAIN flight |-> IF flight[n] = w THEN Nobody ELSE flight[n]]

-----------------------------------------------------------------------------
Looking(w) == call[w].at \in {"look", "lookId", "token", "minting", "joined", "ask"}

Operation(w) == IF Looking(w) THEN "byName" ELSE call[w].op

HaveId(w) ==
  /\ call[w].at \in {"lookId", "id"} /\ C(w).id[Operation(w)] # 0
  /\ Goto(w, IF Looking(w) THEN "token" ELSE "send")
  /\ UNCHANGED <<scene, live, cache, flight, mint, client, condemned>>

(* The bundles of the site hold the id X serves. *)
Extract(w) ==
  LET op == Operation(w)
  IN  /\ call[w].at \in {"lookId", "id"} /\ C(w).id[op] = 0
      /\ client' = [client EXCEPT ![ClientOf(w)].id[op] = live[op]]
      /\ queryId' = [queryId EXCEPT ![op] = live[op]]
      /\ UNCHANGED <<scene, live, profile, recent, restId, guest, flight, mint, call, condemned>>

(* They do not: a list operation falls back on the id the code was written  *)
(* with, an account operation fails.                                        *)
ExtractNothing(w) ==
  LET op == Operation(w)
  IN  /\ call[w].at \in {"lookId", "id"} /\ C(w).id[op] = 0
      /\ IF op \in AccountScoped THEN Settled(w, FALSE)
         ELSE Goto(w, "default") /\ UNCHANGED flight
      /\ UNCHANGED <<scene, live, cache, mint, client, condemned>>

(* A guest token: the cached one on the first attempt, else the one being   *)
(* minted, else a new one.  Without one the request goes out on the cookie. *)
Token(w) ==
  LET minter == mint[ClientOf(w)]
  IN  /\ call[w].at = "token"
      /\ IF guest /\ call[w].attempt = 1
         THEN call' = [call EXCEPT ![w].at = "ask", ![w].token = TRUE] /\ UNCHANGED mint
         ELSE IF minter # Nobody THEN Goto(w, "joined") /\ UNCHANGED mint
         ELSE Goto(w, "minting") /\ mint' = [mint EXCEPT ![ClientOf(w)] = w]
      /\ UNCHANGED <<scene, live, cache, flight, client, condemned>>

Minted(w, ok) ==
  /\ call[w].at = "minting"
  /\ call' = [v \in Workers |->
       IF v = w \/ (call[v].at = "joined" /\ ClientOf(v) = ClientOf(w))
       THEN [call[v] EXCEPT !.at = "ask", !.token = ok] ELSE call[v]]
  /\ mint' = [mint EXCEPT ![ClientOf(w)] = Nobody]
  /\ guest' = (guest \/ ok)
  /\ UNCHANGED <<scene, live, profile, queryId, recent, restId, flight, client, condemned>>

(* What comes back for an id: 404 when it is out of service. *)
Answer(id, op, outcome) == IF id # live[op] THEN "missing" ELSE outcome

Again(w, answer) == answer = "passing" /\ call[w].tries < Retries

Retry(w) == call' = [call EXCEPT ![w].tries = @ + 1]

Remint(w) ==
  call' = [call EXCEPT ![w].at = "token", ![w].attempt = 2, ![w].tries = 0]

AskName(w, outcome) ==
  LET answer == Answer(C(w).id["byName"], "byName", outcome)
      name == call[w].name
      found == answer = "ok" /\ call[w].op # "byName"
  IN  /\ call[w].at = "ask"
      /\ CASE Again(w, answer) -> Retry(w) /\ UNCHANGED flight
           [] answer = "refused" /\ call[w].attempt = 1 /\ call[w].token -> Remint(w) /\ UNCHANGED flight
           [] OTHER -> Settled(w, answer = "ok")
      /\ restId' = IF found THEN restId \cup {name} ELSE IF answer = "missing" THEN restId \ {name} ELSE restId
      /\ client' = IF found THEN [client EXCEPT ![ClientOf(w)].names = @ \cup {name}] ELSE client
      /\ UNCHANGED <<scene, live, profile, queryId, recent, guest, mint, condemned>>

(* The request itself.  A 404 drops the account of the name; that of a list *)
(* operation whose profile is old drops the profile.  That replies were     *)
(* missing is noted too, but only a list that asks for replies would read   *)
(* the note, and none does.                                                 *)
Send(w, outcome) ==
  LET op == call[w].op
      held == C(w).profile[op]
      id == IF call[w].at = "default" THEN 1 ELSE C(w).id[op]
      answer == Answer(id, op, outcome)
      stale == answer = "missing" /\ op \notin AccountScoped /\ (held = 0 \/ <<op, held>> \notin recent)
  IN  /\ call[w].at \in {"send", "default"}
      /\ IF Again(w, answer) THEN Retry(w) ELSE call' = [call EXCEPT ![w] = Idle]
      /\ restId' = IF answer = "missing" /\ op \in AccountScoped THEN restId \ {call[w].name} ELSE restId
      /\ profile' = IF stale THEN [profile EXCEPT ![op] = 0] ELSE profile
      /\ client' = IF stale THEN [client EXCEPT ![ClientOf(w)].profile[op] = 0, ![ClientOf(w)].id[op] = 0]
                   ELSE client
      /\ condemned' = IF stale /\ id # live[op] THEN condemned \cup {<<op, id>>} ELSE condemned
      /\ UNCHANGED <<scene, live, queryId, recent, guest, flight, mint>>

-----------------------------------------------------------------------------
(* Time passes: X puts a new id in service, captures age, entries expire.   *)
Rotate(op) ==
  /\ op \in scene.rotates /\ live[op] + 1 \in Ids
  /\ live' = [live EXCEPT ![op] = @ + 1]
  /\ UNCHANGED <<scene, cache, flight, mint, client, call, condemned>>

Age ==
  /\ recent # {}
  /\ \E r \in recent : recent' = recent \ {r}
  /\ UNCHANGED <<scene, live, profile, queryId, restId, guest, flight, mint, client, call, condemned>>

Expire ==
  /\ \/ \E n \in restId : restId' = restId \ {n} /\ UNCHANGED guest
     \/ guest /\ guest' = FALSE /\ UNCHANGED restId
  /\ UNCHANGED <<scene, live, profile, queryId, recent, flight, mint, client, call, condemned>>

Proceed(w) ==
  \/ Prepare(w) \/ Known(w) \/ Join(w) \/ LookUp(w) \/ PrepareLookUp(w)
  \/ HaveId(w) \/ Extract(w) \/ ExtractNothing(w) \/ Token(w)
  \/ \E ok \in BOOLEAN : Minted(w, ok)
  \/ \E outcome \in Outcomes : AskName(w, outcome) \/ Send(w, outcome)

Next ==
  \/ \E w \in Workers : Proceed(w) \/ \E op \in Ops, n \in scene.names : Call(w, op, n)
  \/ \E c \in Clients : Build(c)
  \/ \E op \in Ops : Rotate(op)
  \/ Age \/ Expire

Spec == Init /\ [][Next]_vars

-----------------------------------------------------------------------------
(* However the workers of the crawls interleave, an account is looked up by *)
(* one of them at a time, and a client mints one guest token at a time.     *)
NoTwinRequests ==
  /\ \A v, w \in Workers :
       Looking(v) /\ Looking(w) /\ "byName" \notin {call[v].op, call[w].op} /\ call[v].name = call[w].name
         => v = w
  /\ \A v, w \in Workers :
       call[v].at = "minting" /\ call[w].at = "minting" /\ ClientOf(v) = ClientOf(w) => v = w

(* Nobody waits in vain: who waits for the lookup of an account, or for the *)
(* guest token of its crawl, waits for one that is under way, however it    *)
(* ends and whoever gave up in between.                                     *)
NobodyWaitsInVain ==
  \A w \in Workers :
    /\ call[w].at = "wait" => /\ flight[call[w].name] # Nobody
                             /\ Looking(flight[call[w].name])
                             /\ call[flight[call[w].name]].name = call[w].name
    /\ call[w].at = "joined" => /\ mint[ClientOf(w)] # Nobody
                               /\ call[mint[ClientOf(w)]].at = "minting"

(* An id that was invalidated as stale is not sent again ("Only an old      *)
(* profile 404 (>30min) is treated as a genuinely stale query id worth      *)
(* re-capturing", x.ts).                                                    *)
StaleIdIsDropped ==
  \A w \in Workers :
    call[w].at = "send" /\ C(w).id[call[w].op] # live[call[w].op]
      => <<call[w].op, C(w).id[call[w].op]>> \notin condemned
=============================================================================
