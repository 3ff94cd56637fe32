------------------------------- MODULE XList -------------------------------
(* The unified crawl of one X list, round after round: the timeline of the  *)
(* list, then its members, then the timelines of a few members chosen by a  *)
(* cursor that survives the rounds.  A tweet is its author; the requests    *)
(* themselves are XApi's.                                                   *)
EXTENDS Integers, SequencesExt, Filters

CONSTANTS
  Fold(_),            \* a screen name in the lower case the allow set compares
  MaxHydrated,        \* accounts hydrated when the configuration sets no limit
  DefaultConcurrency,
  MaxConcurrency,
  HydrateCount,       \* tweets one user timeline request returns
  Unknown,            \* no membership remembered
  Scenes              \* lists: what their crawler configures and X may answer

VARIABLES
  scene,
  memberCache,  \* the last resolved membership, for as long as it is kept
  cursor,       \* where the rotation stands
  faults,       \* failed answers and evictions left
  phase,        \* "idle", "members" or "hydrate"
  sampled,      \* accounts seen in the viewport of the list
  timeline,     \* the list timeline of the round: [by, tweets]
  members,      \* the membership the round works with
  open,         \* membership resolved to nothing and nobody is configured
  queue,        \* accounts left to hydrate
  asked,        \* accounts of the current chunk whose request is out
  refused,      \* a request of the round met an auth or rate limit answer
  forwarded,    \* authors of the articles of the round so far
  served,       \* accounts the round asked for or found covered
  known,        \* the membership X answered last
  due           \* members not served since all of them last were

vars == <<scene, memberCache, cursor, faults, phase, sampled, timeline, members,
          open, queue, asked, refused, forwarded, served, known, due>>

round == <<sampled, timeline, members, open, queue, asked, refused>>

-----------------------------------------------------------------------------
(* Choosing whom to hydrate *)

Least(a, b) == IF a <= b THEN a ELSE b
Most(a, b) == IF a >= b THEN a ELSE b
Take(s, n) == SubSeq(s, 1, Least(n, Len(s)))

Within(s, S) == Kept(s, {i \in DOMAIN s : s[i] \in S})
Without(s, S) == Kept(s, {i \in DOMAIN s : s[i] \notin S})

Sanitized(s) == Kept(s, {i \in DOMAIN s : \A j \in 1 .. i - 1 : s[j] # s[i]})

Folded(s) == {Fold(u) : u \in ToSet(s)}

Limit == Most(Len(scene.configured), IF scene.limit = 0 THEN MaxHydrated ELSE scene.limit)

Concurrency ==
  IF scene.concurrency <= 0 THEN DefaultConcurrency ELSE Least(scene.concurrency, MaxConcurrency)

(* Mutant: the cursor is read and never moved on. *)
RotatedInPlace(pool, take) ==
  LET offset == IF pool = <<>> THEN 0 ELSE cursor % Len(pool)
  IN  [users |-> Take(SubSeq(pool, offset + 1, Len(pool)) \o SubSeq(pool, 1, offset), take), cursor |-> offset]

Rotated(pool, take) ==
  LET offset == cursor % Len(pool)
      from == SubSeq(pool, offset + 1, Len(pool)) \o SubSeq(pool, 1, offset)
  IN  IF take <= 0 \/ pool = <<>> THEN [users |-> <<>>, cursor |-> cursor]
      ELSE [users |-> Take(from, take),
            cursor |-> (offset + Least(take, Len(pool))) % Len(pool)]

Selection(active, memberIds) ==
  LET configured == scene.configured
      pool == Without(Sanitized(memberIds), ToSet(configured))
      lively == Within(active, ToSet(pool))
      remaining == Limit - Len(configured)
      slots == Least(Least(Len(pool), remaining),
                     IF lively = <<>> THEN remaining ELSE Most(1, Limit \div 2))
      first == configured \o Take(lively, remaining - slots)
      turn == Rotated(Without(pool, ToSet(first)), slots)
      refill == Without(lively, ToSet(first \o turn.users)) \o Without(pool, ToSet(first \o turn.users))
  IN  IF pool = <<>> \/ remaining = 0 THEN [users |-> configured, cursor |-> cursor]
      ELSE [users |-> Take(Sanitized(first \o turn.users \o refill), Limit), cursor |-> turn.cursor]

Allows(memberIds, unrestricted, u) ==
  unrestricted \/ Fold(u) \in Folded(scene.configured) \cup Folded(memberIds)

Everybody == IF scene.steady THEN UNION {Folded(l) : l \in scene.lists} ELSE {}

Covered(u) ==
  \E i \in DOMAIN timeline : Fold(timeline[i].by) = Fold(u) /\ timeline[i].tweets >= HydrateCount

-----------------------------------------------------------------------------
Init ==
  /\ scene \in Scenes
  /\ memberCache = Unknown /\ known = Unknown
  /\ cursor = 0
  /\ faults = scene.faults
  /\ phase = "idle"
  /\ sampled = <<>> /\ timeline = <<>> /\ members = <<>> /\ open = FALSE /\ queue = <<>> /\ asked = {}
  /\ refused = FALSE
  /\ forwarded = {} /\ served = {}
  /\ due = Everybody

(* The list timeline answers.  When it does not, the round has failed. *)
Timeline ==
  /\ phase = "idle"
  /\ \E t \in scene.timelines, s \in scene.samples : timeline' = t /\ sampled' = s
  /\ phase' = "members"
  /\ due' = IF due = {} THEN Everybody ELSE due
  /\ refused' = FALSE /\ forwarded' = {} /\ served' = {}
  /\ UNCHANGED <<scene, memberCache, cursor, faults, members, open, queue, asked, known>>

(* The rest of the round is settled once the membership is: what of the     *)
(* timeline may pass, who is hydrated, and where the rotation goes on.      *)
Settle(memberIds, unrestricted) ==
  LET Allowed(users) == Kept(users, {i \in DOMAIN users : Allows(memberIds, unrestricted, users[i])})
      passes == Kept(timeline, {i \in DOMAIN timeline : Allows(memberIds, unrestricted, timeline[i].by)})
      authors == [i \in DOMAIN passes |-> passes[i].by]
      active == Allowed(Sanitized(authors \o sampled))
      chosen == Selection(active, memberIds)
  IN  /\ members' = memberIds /\ open' = unrestricted
      /\ timeline' = passes
      /\ forwarded' = ToSet(authors)
      /\ cursor' = chosen.cursor
      /\ queue' = Allowed(chosen.users)
      /\ phase' = "hydrate"

Members ==
  /\ phase = "members"
  /\ \E answer \in scene.lists :
       LET resolved == Sanitized(answer)
       IN  /\ memberCache' = resolved /\ known' = resolved
           /\ Settle(resolved, resolved = <<>> /\ scene.configured = <<>>)
  /\ UNCHANGED <<scene, faults, sampled, asked, refused, served, due>>

(* Mutant: a failed lookup is read as a list without members. *)
MembersFailOpen ==
  /\ phase = "members" /\ faults > 0
  /\ faults' = faults - 1
  /\ Settle(<<>>, scene.configured = <<>>)
  /\ UNCHANGED <<scene, memberCache, sampled, asked, refused, served, known, due>>

(* A failed lookup falls back on the membership remembered; without one the *)
(* round is restricted to the configured accounts.                          *)
MembersFail ==
  /\ phase = "members" /\ faults > 0
  /\ faults' = faults - 1
  /\ Settle(IF memberCache \in {Unknown, <<>>} THEN <<>> ELSE memberCache, FALSE)
  /\ UNCHANGED <<scene, memberCache, sampled, asked, refused, served, known, due>>

Chunk ==
  /\ phase = "hydrate" /\ asked = {} /\ queue # <<>>
  /\ LET chunk == Take(queue, Concurrency)
     IN  /\ asked' = {u \in ToSet(chunk) : ~Covered(u)}
         /\ served' = served \cup ToSet(chunk)
         /\ queue' = SubSeq(queue, Len(chunk) + 1, Len(queue))
  /\ UNCHANGED <<scene, memberCache, cursor, faults, phase, sampled, timeline, members, open,
                 refused, forwarded, known, due>>

(* A user timeline answers with tweets.  The last answer of a chunk that    *)
(* met a refusal ends the hydration.                                        *)
Answered(u) ==
  /\ u \in asked
  /\ asked' = asked \ {u}
  /\ forwarded' = forwarded \cup {u}
  /\ queue' = IF refused /\ asked = {u} THEN <<>> ELSE queue
  /\ UNCHANGED <<scene, memberCache, cursor, faults, phase, sampled, timeline, members, open,
                 refused, served, known, due>>

(* Mutant: only the last answer of the chunk is looked at. *)
FailedForgotten(u, refusal) ==
  /\ u \in asked /\ faults > 0
  /\ faults' = faults - 1
  /\ asked' = asked \ {u}
  /\ refused' = (refused \/ refusal)
  /\ queue' = IF refusal /\ asked = {u} THEN <<>> ELSE queue
  /\ UNCHANGED <<scene, memberCache, cursor, phase, sampled, timeline, members, open,
                 forwarded, served, known, due>>

Failed(u, refusal) ==
  /\ u \in asked /\ faults > 0
  /\ faults' = faults - 1
  /\ asked' = asked \ {u}
  /\ refused' = (refused \/ refusal)
  /\ queue' = IF refused' /\ asked = {u} THEN <<>> ELSE queue
  /\ UNCHANGED <<scene, memberCache, cursor, phase, sampled, timeline, members, open,
                 forwarded, served, known, due>>

Deliver ==
  /\ phase = "hydrate" /\ asked = {} /\ queue = <<>>
  /\ phase' = "idle"
  /\ due' = due \ {Fold(u) : u \in served}
  /\ UNCHANGED <<scene, memberCache, cursor, faults, round, forwarded, served, known>>

(* Fifty other lists push this one's membership and cursor out. *)
Evict ==
  /\ memberCache # Unknown /\ faults > 0
  /\ faults' = faults - 1
  /\ memberCache' = Unknown /\ cursor' = 0
  /\ UNCHANGED <<scene, phase, round, forwarded, served, known, due>>

Next ==
  \/ Timeline \/ Members \/ MembersFail \/ Chunk \/ Deliver \/ Evict
  \/ \E u \in asked : Answered(u) \/ \E refusal \in BOOLEAN : Failed(u, refusal)

(* The crawler fires again and again and X answers or the request times out. *)
Fairness ==
  /\ WF_phase(phase = "idle" /\ phase' = "members")
  /\ WF_phase(phase = "members" /\ phase' = "hydrate")
  /\ WF_vars(Chunk \/ Deliver \/ \E u \in asked : Answered(u))

Spec == Init /\ [][Next]_vars /\ Fairness

-----------------------------------------------------------------------------
(* Whatever the membership lookups do, round after round, only configured   *)
(* accounts and accounts of the membership X answered last are forwarded;   *)
(* the one exception is a list X itself calls empty.                        *)
NeverFailsOpen ==
  \/ scene.configured = <<>> /\ known = <<>>
  \/ \A u \in forwarded :
       Fold(u) \in Folded(scene.configured) \cup (IF known = Unknown THEN {} ELSE Folded(known))

(* Once a request of the round is refused for its credentials or its rate,  *)
(* nobody beyond the chunk that is out is asked.                            *)
NobodyAskedAfterRefusal ==
  [][(refused /\ asked = {} => asked' = {} \/ ~refused')
     /\ (refused /\ asked # {} => asked' \subseteq asked)]_vars

(* On a list whose members and activity stay as they are the rotation       *)
(* reaches every member again and again, failures and evictions or not.     *)
EveryMemberComesRound == []<>(due = {})
=============================================================================
