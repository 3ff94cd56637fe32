------------------------------- MODULE Videos -------------------------------
(***************************************************************************)
(* Video posts on their way to the Bilibili accounts: sendVideo of         *)
(* src/components/target-bilibili.ts with the pairing of teasers           *)
(* (src/pipeline/pairing.ts), the claims of the dedup and the upload       *)
(* helper (src/pipeline/biliup.ts), and the reconciliation that runs once  *)
(* after the database was restored (src/pipeline/bilibili-reconcile.ts).   *)
(*                                                                         *)
(* A driver is the drain of one incarnation of the router: a rebuild       *)
(* starts a second one from the stored queue while the first goes on with  *)
(* its own, which it no longer stores.                                     *)
(***************************************************************************)
EXTENDS ShortVideoDedup, SequencesExt

CONSTANTS Names, Post(_),    \* the posts and what they are
          Targets, Drivers,
          First,             \* the driver that runs at first
          JoinPlatforms,     \* the pairing's platforms in order
          MaxTries,          \* send attempts of the router
          Scenes             \* bounds: [posts, targets, archived, faults, rebuilds]

ASSUME VideosAssumption ==
  /\ First \in Drivers /\ MaxTries \in Nat \ {0}
  /\ \A s \in Scenes : /\ s.posts \subseteq Names /\ s.targets \subseteq Targets
                       /\ s.archived \subseteq s.posts \X s.targets /\ IsFiniteSet(s.archived)
  /\ \A n \in Names : IsFiniteSet(Words(Post(n)))

VARIABLES
  scene,      \* which posts come, to which accounts, what a restore found, how much fails
  queue,      \* the posts in each driver's queue; that of the present driver is the stored one
  tries,      \* failed sends of each post under each driver
  forwarded,  \* the legs recorded in forward_by
  keys,       \* media_hashes: the claims of the dedup
  pairings,   \* video_pairings: [status, live] of each held teaser on each target
  driver,     \* the driver of the router's present incarnation
  work,       \* what each driver awaits: [pc, post, leg, parts, pairing]
  account,    \* what each account shows: a sequence of uploads, each [post, parts]
  marker,     \* the recovery marker of a restored database
  recovery,   \* the reconciliation: [pc, left]
  faults, rebuilds,
  dropped, given \* (history) legs left out as duplicates, posts the router gave up

vars == <<scene, queue, tries, forwarded, keys, pairings, driver, work, account, marker, recovery,
          faults, rebuilds, dropped, given>>

router == <<tries, driver, rebuilds, given>>
restore == <<marker, recovery>>

Legs == scene.posts \X scene.targets

Nobody == "nobody"

Idle == [pc |-> "idle", post |-> Nobody, leg |-> <<>>, parts |-> {}, pairing |-> Nobody]

Uploads(leg) == {n \in DOMAIN account[leg[2]] : account[leg[2]][n].post = leg[1]}

Uploaded(leg) == Uploads(leg) # {}

NoPairing == [status |-> "none", live |-> FALSE]

\* After a restore the database knows nothing of what the accounts show.
Init ==
  /\ scene \in Scenes
  /\ queue = [d \in Drivers |-> IF d = First THEN scene.posts ELSE {}]
  /\ tries = [d \in Drivers |-> [p \in scene.posts |-> 0]]
  /\ forwarded = {}
  /\ keys = {}
  /\ pairings = [leg \in Legs |-> NoPairing]
  /\ driver = First
  /\ work = [d \in Drivers |-> Idle]
  /\ account = [t \in scene.targets |->
                  SetToSeq({[post |-> leg[1], parts |-> {leg[1]}] : leg \in {l \in scene.archived : l[2] = t}})]
  /\ marker = (scene.archived # {})
  /\ recovery = IF marker THEN [pc |-> "scheduled", left |-> scene.targets] ELSE [pc |-> "done", left |-> {}]
  /\ faults = 0
  /\ rebuilds = 0
  /\ dropped = {}
  /\ given = {}

-----------------------------------------------------------------------------
(* One leg *)

\* suppressionNotice: the media are left out, the text goes the way of any text.
Suppressed(post) == post.suppressed

Teaser(post) == post.platform = "twitter" /\ JoinPlatform(post, JoinPlatforms) # "none"

Duplicates(name) ==
  IF ~Comparable(Post(name)) THEN {}
  ELSE {other \in Recalled(Post(name), name, keys) :
          PairAllowed(Post(name).platform, Post(other).platform) /\ SameVideo(Post(name), Post(other))}

\* The pending teasers of this user that wait for this platform.
Pending(leg) ==
  {held \in Legs : /\ held[2] = leg[2]
                   /\ pairings[held].status = "pending" /\ pairings[held].live
                   /\ JoinPlatform(Post(held[1]), JoinPlatforms) = Post(leg[1]).platform
                   /\ Post(held[1]).user = Post(leg[1]).user}

Undelivered(post, done) == {t \in scene.targets : <<post, t>> \notin done}

\* A drain works on one post until every target has it; the order of the targets is the route's.
Ready(d, leg) ==
  /\ work[d].pc = "idle" /\ work[d].post \in {Nobody, leg[1]}
  /\ leg[1] \in queue[d] /\ leg \notin forwarded

\* After the last target the post leaves the queue.
Done(d, leg) ==
  /\ forwarded' = forwarded \cup {leg}
  /\ LET last == Undelivered(leg[1], forwarded') = {}
     IN  /\ queue' = [queue EXCEPT ![d] = IF last THEN @ \ {leg[1]} ELSE @]
         /\ work' = [work EXCEPT ![d] = [Idle EXCEPT !.post = IF last THEN Nobody ELSE leg[1]]]

\* Somebody else has delivered what was left of it.
Finish(d, post) ==
  /\ work[d].pc = "idle" /\ work[d].post \in {Nobody, post}
  /\ post \in queue[d] /\ Undelivered(post, forwarded) = {}
  /\ queue' = [queue EXCEPT ![d] = @ \ {post}]
  /\ work' = [work EXCEPT ![d] = Idle]
  /\ UNCHANGED <<scene, forwarded, keys, pairings, account, faults, dropped, router, restore>>

\* Shown without its video.
SendText(d, leg) ==
  /\ Ready(d, leg) /\ Suppressed(Post(leg[1]))
  /\ Done(d, leg)
  /\ UNCHANGED <<scene, keys, pairings, account, faults, dropped, router, restore>>

\* The teaser waits for the main video; to the router it is delivered.  A row that is there keeps its status.
Hold(d, leg) ==
  /\ Ready(d, leg) /\ ~Suppressed(Post(leg[1]))
  /\ Teaser(Post(leg[1]))
  /\ pairings' = [pairings EXCEPT ![leg] = [status |-> IF @.status = "none" THEN "pending" ELSE @.status, live |-> TRUE]]
  /\ Done(d, leg)
  /\ UNCHANGED <<scene, keys, account, faults, dropped, router, restore>>

Uploadable(d, leg) ==
  /\ Ready(d, leg) /\ ~Suppressed(Post(leg[1])) /\ ~Teaser(Post(leg[1]))

Drop(d, leg) ==
  /\ Uploadable(d, leg) /\ Duplicates(leg[1]) # {}
  /\ dropped' = dropped \cup {leg}
  /\ Done(d, leg)
  /\ UNCHANGED <<scene, keys, pairings, account, faults, router, restore>>

\* (mutant of Begin) the claim is left for later.
BeginUnclaimed(d, leg) ==
  /\ Uploadable(d, leg) /\ Duplicates(leg[1]) = {}
  /\ work' = [work EXCEPT ![d] = [pc |-> "upload", post |-> leg[1], leg |-> leg, pairing |-> Nobody, parts |-> {leg[1]}]]
  /\ UNCHANGED <<scene, queue, forwarded, keys, pairings, account, faults, dropped, router, restore>>

\* The claim is made before the upload, in the step that found no duplicate.
Begin(d, leg) ==
  /\ Uploadable(d, leg) /\ Duplicates(leg[1]) = {}
  /\ keys' = keys \cup KeysOf(leg[1], Post(leg[1]))
  /\ \E held \in Pending(leg) \cup {<<Nobody>>} :
       /\ Pending(leg) # {} => held \in Pending(leg)
       /\ work' = [work EXCEPT ![d] = [pc |-> "upload", post |-> leg[1], leg |-> leg, pairing |-> held[1],
                                       parts |-> {leg[1]} \cup ({held[1]} \ {Nobody})]]
  /\ UNCHANGED <<scene, queue, forwarded, pairings, account, faults, dropped, router, restore>>

Shown(leg, parts) == account' = [account EXCEPT ![leg[2]] = Append(@, [post |-> leg[1], parts |-> parts])]

\* The helper exits with success: the pairing is merged and the leg delivered.
Succeed(d) ==
  /\ work[d].pc = "upload"
  /\ Shown(work[d].leg, work[d].parts)
  /\ LET held == <<work[d].pairing, work[d].leg[2]>>
     IN  pairings' = IF work[d].pairing = Nobody THEN pairings ELSE [pairings EXCEPT ![held].status = "merged"]
  /\ Done(d, work[d].leg)
  /\ UNCHANGED <<scene, keys, faults, dropped, router, restore>>

\* The router counts the attempt and tries the post again later, or gives it up, for every target.
Rejected(d, post) ==
  /\ tries' = [tries EXCEPT ![d][post] = @ + 1]
  /\ LET over == tries'[d][post] >= MaxTries
     IN  /\ queue' = [queue EXCEPT ![d] = IF over THEN @ \ {post} ELSE @]
         /\ given' = given \cup (IF over /\ d = driver THEN {post} ELSE {})

\* The helper fails, before the submission or after it.
Fail(d) ==
  /\ work[d].pc = "upload" /\ faults < scene.faults
  /\ faults' = faults + 1
  /\ Shown(work[d].leg, work[d].parts) \/ UNCHANGED account
  /\ Rejected(d, work[d].post)
  /\ work' = [work EXCEPT ![d] = Idle]
  /\ UNCHANGED <<scene, forwarded, keys, pairings, driver, rebuilds, dropped, restore>>

\* What a new incarnation takes over from the store.
Stored == {p \in queue[driver] : Undelivered(p, forwarded) # {}}

\* The old incarnation goes on beside the new one.
Rebuild ==
  /\ rebuilds < scene.rebuilds
  /\ rebuilds' = rebuilds + 1
  /\ \E d \in Drivers \ {driver} : /\ work[d] = Idle /\ queue[d] = {}
                                  /\ driver' = d
                                  /\ queue' = [queue EXCEPT ![d] = Stored]
                                  /\ tries' = [tries EXCEPT ![d] = [p \in scene.posts |-> 0]]
  /\ UNCHANGED <<scene, forwarded, keys, pairings, work, account, faults, dropped, given, restore>>

\* The window of a teaser ends; the flush loop sweeps it.
Expire(leg) ==
  /\ pairings[leg].live
  /\ pairings' = [pairings EXCEPT ![leg].live = FALSE]
  /\ UNCHANGED <<scene, queue, forwarded, keys, work, account, faults, dropped, router, restore>>

Sweep(leg) ==
  /\ pairings[leg].status = "pending" /\ ~pairings[leg].live
  /\ pairings' = [pairings EXCEPT ![leg].status = "expired"]
  /\ UNCHANGED <<scene, queue, forwarded, keys, work, account, faults, dropped, router, restore>>

-----------------------------------------------------------------------------
(* The reconciliation after a restore: one account after the other.        *)

Archives(t) == {account[t][n].post : n \in DOMAIN account[t]}

\* The archives of one account: every post among them counts as delivered there.
Seed(t) ==
  /\ recovery.pc # "done" /\ t \in recovery.left
  /\ forwarded' = forwarded \cup {<<a, t>> : a \in Archives(t)}
  /\ recovery' = [pc |-> "running", left |-> recovery.left \ {t}]
  /\ UNCHANGED <<scene, queue, keys, pairings, work, account, marker, faults, dropped, router>>

\* Every account is through: the marker is consumed.
Consume ==
  /\ recovery.pc = "running" /\ recovery.left = {}
  /\ marker' = FALSE
  /\ recovery' = [recovery EXCEPT !.pc = "done"]
  /\ UNCHANGED <<scene, queue, forwarded, keys, pairings, work, account, faults, dropped, router>>

\* (mutant of RecoveryFails) the marker is consumed although an account was not read.
RecoveryFailsForGood ==
  /\ recovery.pc # "done" /\ recovery.left # {} /\ faults < scene.faults
  /\ faults' = faults + 1
  /\ recovery' = [pc |-> "done", left |-> {}]
  /\ marker' = FALSE
  /\ UNCHANGED <<scene, queue, forwarded, keys, pairings, work, account, dropped, router>>

\* An account does not answer: the run ends, the marker stays for the next boot.
RecoveryFails ==
  /\ recovery.pc # "done" /\ recovery.left # {} /\ faults < scene.faults
  /\ faults' = faults + 1
  /\ recovery' = [pc |-> "done", left |-> {}]
  /\ UNCHANGED <<scene, queue, forwarded, keys, pairings, work, account, marker, dropped, router>>

\* The next boot: registered again, run again; whatever was awaited is gone, an old incarnation with it.
Reboot ==
  /\ rebuilds < scene.rebuilds
  /\ rebuilds' = rebuilds + 1
  /\ queue' = [d \in Drivers |-> IF d = driver THEN Stored ELSE {}]
  /\ tries' = [d \in Drivers |-> [p \in scene.posts |-> 0]]
  /\ work' = [d \in Drivers |-> Idle]
  /\ recovery' = IF marker THEN [pc |-> "scheduled", left |-> scene.targets] ELSE [pc |-> "done", left |-> {}]
  /\ UNCHANGED <<scene, forwarded, keys, pairings, driver, account, marker, faults, dropped, given>>

Send(d) ==
  \/ \E leg \in Legs : SendText(d, leg) \/ Hold(d, leg) \/ Drop(d, leg) \/ Begin(d, leg)
  \/ \E post \in scene.posts : Finish(d, post)

Next ==
  \/ \E d \in Drivers : Send(d) \/ Succeed(d) \/ Fail(d)
  \/ \E leg \in Legs : Expire(leg) \/ Sweep(leg)
  \/ \E t \in scene.targets : Seed(t)
  \/ Consume \/ RecoveryFails \/ Rebuild \/ Reboot

Spec == Init /\ [][Next]_vars

\* The router's sweep keeps driving and the helper ends.
Fairness == \A d \in Drivers : WF_vars(Send(d)) /\ WF_vars(Succeed(d) \/ Fail(d))

FairSpec == Spec /\ Fairness

-----------------------------------------------------------------------------
(* Properties *)

Alike(a, b) ==
  /\ a # b /\ PairAllowed(Post(a).platform, Post(b).platform)
  /\ RecallKeys(Post(a)) \cap RecallKeys(Post(b)) # {}
  /\ SameVideo(Post(a), Post(b))

Twins(a, b) == Alike(a, b) /\ Comparable(Post(a)) /\ Comparable(Post(b))

\* Two posts of one short video that share a recall key are never both uploaded, however close
\* they come and whatever fails: the claim is made before the upload.
NoTwinUploads ==
  \A a, b \in scene.posts, t \in scene.targets :
    Twins(a, b) => ~(Uploaded(<<a, t>>) /\ Uploaded(<<b, t>>))

\* A consumed marker means that what the accounts showed counts as delivered.
MarkerKeptUntilSeeded == ~marker => scene.archived \subseteq forwarded

\* A video that was to be uploaded is shown in the end, unless it or its twin was given up.
EveryVideoIsShown ==
  <>(\A leg \in Legs :
       \/ Suppressed(Post(leg[1])) \/ Teaser(Post(leg[1]))
       \/ \E b \in {leg[1]} \cup {x \in scene.posts : Alike(leg[1], x)} :
            Uploaded(<<b, leg[2]>>) \/ b \in given)

=============================================================================
