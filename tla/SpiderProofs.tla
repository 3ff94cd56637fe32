---------------------------- MODULE SpiderProofs ----------------------------
(***************************************************************************)
(* What a crawl works with, for any number of everything: the claims keep  *)
(* the twins among the videos apart, and the marker of a restored database *)
(* goes only when every archive has been read; no browser of the pool goes *)
(* astray, and no eviction takes a session that has replaced another; the  *)
(* clients of X look an account up, and mint a token, once at a time, and  *)
(* leave nobody waiting; a list of X forwards nobody who is not known to   *)
(* belong there, however the look-up of its members fails; the rounds of   *)
(* TikTok, Instagram and YouTube return the posts they have read, whatever *)
(* fails beside them; a page of X shows every reply once; what is stored   *)
(* of a processor's circuit is what a restart needs.                       *)
(***************************************************************************)
EXTENDS Videos, Spiders, Filters, WellFoundedInduction, FunctionTheorems, FiniteSetTheorems, SequenceTheorems, TLAPS

-----------------------------------------------------------------------------
(* Sameness is symmetric, although the code compares a post with what was  *)
(* claimed before it.                                                      *)

LEMMA SharePhraseSymmetric ==
  ASSUME NEW l, NEW r, NEW n, SharePhrase(l, r, n)
  PROVE  SharePhrase(r, l, n)
BY DEF SharePhrase

LEMMA LikelySameTextSymmetric ==
  ASSUME NEW l, NEW r, IsFiniteSet(Words(l)), IsFiniteSet(Words(r)), LikelySameText(l, r)
  PROVE  LikelySameText(r, l)
<1>1. Words(l) \cap Words(r) = Words(r) \cap Words(l) /\ Words(l) \cup Words(r) = Words(r) \cup Words(l)
  OBVIOUS
<1>2. Cardinality(Words(l)) \in Nat /\ Cardinality(Words(r)) \in Nat
  BY FS_CardinalityType
<1>3. (IF Cardinality(Words(l)) < Cardinality(Words(r)) THEN Cardinality(Words(l)) ELSE Cardinality(Words(r)))
      = (IF Cardinality(Words(r)) < Cardinality(Words(l)) THEN Cardinality(Words(r)) ELSE Cardinality(Words(l)))
  BY <1>2
<1>4. SharePhrase(l.compact, r.compact, SharedPhraseMin)
        => SharePhrase(r.compact, l.compact, SharedPhraseMin)
  BY SharePhraseSymmetric
<1> QED BY <1>1, <1>3, <1>4 DEF LikelySameText

LEMMA TwinsSymmetric ==
  ASSUME NEW a \in Names, NEW b \in Names, Twins(a, b)
  PROVE  Twins(b, a)
<1>1. IsFiniteSet(Words(Post(a))) /\ IsFiniteSet(Words(Post(b)))
  BY VideosAssumption
<1>2. SameVideo(Post(b), Post(a))
  BY <1>1, LikelySameTextSymmetric DEF Twins, Alike, SameVideo
<1>3. PairAllowed(Post(b).platform, Post(a).platform)
  BY DEF Twins, Alike, PairAllowed
<1> QED BY <1>2, <1>3 DEF Twins, Alike

-----------------------------------------------------------------------------
(* Claims                                                                  *)

Claimed(p) == KeysOf(p, Post(p)) \subseteq keys

LEMMA ClaimsAreOnesOwn ==
  ASSUME NEW a, NEW b, NEW x \in KeysOf(a, Post(a)), a # b
  PROVE  x \notin KeysOf(b, Post(b))
BY DEF KeysOf

\* Twins share a platform or the namespace of the pair, and a recall key.
LEMMA TwinsShareAKey ==
  ASSUME NEW a \in Names, NEW b \in Names, Twins(a, b)
  PROVE  \E ns \in Namespaces(Post(a).platform), key \in RecallKeys(Post(a)) :
           <<ns, key, b>> \in KeysOf(b, Post(b))
<1>1. PICK key : key \in RecallKeys(Post(a)) \cap RecallKeys(Post(b))
  BY DEF Twins, Alike
<1>2. PICK ns : ns \in Namespaces(Post(a).platform) \cap Namespaces(Post(b).platform)
  <2>1. Post(a).platform = Post(b).platform
        \/ {Post(a).platform, Post(b).platform} = {"instagram", "tiktok"}
    BY DEF Twins, Alike, PairAllowed
  <2>2. CASE Post(a).platform = Post(b).platform
    BY <2>2 DEF Namespaces
  <2>3. CASE {Post(a).platform, Post(b).platform} = {"instagram", "tiktok"}
    BY <2>3 DEF Namespaces
  <2> QED BY <2>1, <2>2, <2>3
<1> QED BY <1>1, <1>2 DEF KeysOf

\* A check finds the twin whose claim is stored.
LEMMA CheckFindsTheTwin ==
  ASSUME NEW a \in Names, NEW b \in Names, Twins(a, b), Claimed(b)
  PROVE  Duplicates(a) # {}
<1>1. PICK ns \in Namespaces(Post(a).platform), key \in RecallKeys(Post(a)) :
        <<ns, key, b>> \in keys
  BY TwinsShareAKey DEF Claimed
<1>2. a # b /\ Comparable(Post(a)) /\ PairAllowed(Post(a).platform, Post(b).platform)
      /\ SameVideo(Post(a), Post(b))
  BY DEF Twins, Alike
<1>3. b \in Recalled(Post(a), a, keys)
  <2> DEFINE row == <<ns, key, b>>
  <2>1. row \in keys /\ row[1] = ns /\ row[2] = key /\ row[3] = b
    BY <1>1
  <2>2. row[1] \in Namespaces(Post(a).platform) /\ row[2] \in RecallKeys(Post(a)) /\ row[3] # a
    BY <1>2, <2>1
  <2> QED BY <2>1, <2>2 DEF Recalled
<1> QED BY <1>2, <1>3 DEF Duplicates

LEMMA UnclaimedTwin ==
  ASSUME NEW a \in Names, NEW b \in Names, Twins(a, b), keys = {}
  PROVE  ~Claimed(b)
BY TwinsShareAKey DEF Claimed

-----------------------------------------------------------------------------
(* The invariant: an upload in flight has its claim, so has what an account *)
(* shows but for what it showed before, and of twins only one has one.      *)

Upload == [post : Names, parts : SUBSET (Names \cup {Nobody})]

Typed ==
  /\ scene \in Scenes
  /\ account \in [scene.targets -> Seq(Upload)]
  /\ DOMAIN work = Drivers

InFlight ==
  \A d \in Drivers : work[d].pc = "upload" =>
    /\ work[d].leg \in Legs /\ work[d].parts \subseteq Names \cup {Nobody}
    /\ Claimed(work[d].leg[1])

Accounted ==
  \A t \in scene.targets : \A p \in Archives(t) : <<p, t>> \in scene.archived \/ Claimed(p)

OneClaim == \A a, b \in scene.posts : Twins(a, b) => ~(Claimed(a) /\ Claimed(b))

ClaimsInv == Typed /\ InFlight /\ Accounted /\ OneClaim

LEMMA SceneIsKnown ==
  ASSUME scene \in Scenes
  PROVE  /\ scene.posts \subseteq Names /\ scene.targets \subseteq Targets
         /\ scene.archived \subseteq scene.posts \X scene.targets
         /\ IsFiniteSet(scene.archived)
BY VideosAssumption

\* SetToSeq lists exactly the elements of its set.
LEMMA SequenceOfSet ==
  ASSUME NEW S, IsFiniteSet(S)
  PROVE  SetToSeq(S) \in Seq(S) /\ \A x \in S : \E n \in DOMAIN SetToSeq(S) : SetToSeq(S)[n] = x
<1> DEFINE N == Cardinality(S)
<1>1. N \in Nat /\ ExistsBijection(1 .. N, S)
  BY FS_CardinalityType
<1>2. \E f \in [1 .. N -> S] : IsInjective(f)
  BY <1>1 DEF ExistsBijection, Bijection, Injection
<1>3. SetToSeq(S) \in [1 .. N -> S] /\ IsInjective(SetToSeq(S))
  BY <1>2 DEF SetToSeq
<1>4. IsFiniteSet(1 .. N) /\ Cardinality(1 .. N) = N /\ N = Cardinality(S)
  BY <1>1, FS_Interval
<1> HIDE DEF N
<1>5. PICK f : f = SetToSeq(S) /\ f \in Injection(1 .. N, S)
  BY <1>3 DEF Injection
<1>6. f \in Surjection(1 .. N, S)
  BY <1>4, <1>5, FS_Injection
<1>7. \A x \in S : \E n \in 1 .. N : f[n] = x
  BY <1>6 DEF Surjection
<1> QED BY <1>1, <1>3, <1>5, <1>7

\* An upload adds its post to what the account shows, and takes nothing away.
LEMMA UploadShows ==
  ASSUME NEW s \in Seq(Upload), NEW u \in Upload
  PROVE  /\ Append(s, u) \in Seq(Upload)
         /\ \A n \in DOMAIN Append(s, u) : Append(s, u)[n] = u \/ \E m \in DOMAIN s : s[m] = Append(s, u)[n]
         /\ \A m \in DOMAIN s : \E n \in DOMAIN Append(s, u) : Append(s, u)[n] = s[m]
<1>1. /\ Append(s, u) \in Seq(Upload) /\ Len(s) \in Nat
      /\ DOMAIN s = 1 .. Len(s) /\ DOMAIN Append(s, u) = 1 .. (Len(s) + 1)
      /\ Append(s, u)[Len(s) + 1] = u
      /\ \A n \in 1 .. Len(s) : Append(s, u)[n] = s[n]
  BY AppendProperties
<1> QED BY <1>1

LEMMA ShownUploads ==
  ASSUME Typed, NEW leg \in Legs, NEW parts, parts \subseteq Names \cup {Nobody}, Shown(leg, parts),
         scene' = scene
  PROVE  /\ account' \in [scene.targets -> Seq(Upload)]
         /\ \A t \in scene.targets :
              /\ Archives(t) \subseteq Archives(t)'
              /\ Archives(t)' \subseteq Archives(t) \cup (IF t = leg[2] THEN {leg[1]} ELSE {})
<1> DEFINE u == [post |-> leg[1], parts |-> parts]
<1>1. leg[1] \in Names /\ leg[2] \in scene.targets
  BY SceneIsKnown DEF Typed, Legs
<1>2. u \in Upload /\ u.post = leg[1]
  BY <1>1 DEF Upload
<1>3. account' = [account EXCEPT ![leg[2]] = Append(@, u)]
  BY DEF Shown
<1> HIDE DEF u
<1>4. account[leg[2]] \in Seq(Upload)
  BY <1>1 DEF Typed
<1>5. account' \in [scene.targets -> Seq(Upload)]
  BY <1>1, <1>2, <1>3, <1>4, UploadShows DEF Typed
<1>6. ASSUME NEW t \in scene.targets
      PROVE  /\ Archives(t) \subseteq Archives(t)'
             /\ Archives(t)' \subseteq Archives(t) \cup (IF t = leg[2] THEN {leg[1]} ELSE {})
  <2>1. CASE t = leg[2]
    <3>1. account'[t] = Append(account[t], u)
      BY <1>1, <1>3, <2>1 DEF Typed
    <3>2. PICK s \in Seq(Upload) : s = account[t]
      BY <1>4, <2>1
    <3>3. /\ \A n \in DOMAIN Append(s, u) :
               Append(s, u)[n].post = u.post \/ \E m \in DOMAIN s : s[m].post = Append(s, u)[n].post
          /\ \A m \in DOMAIN s : \E n \in DOMAIN Append(s, u) : Append(s, u)[n].post = s[m].post
      BY <1>2, UploadShows
    <3>4. Archives(t) = {s[n].post : n \in DOMAIN s}
      BY <3>2 DEF Archives
    <3>5. Archives(t)' = {Append(s, u)[n].post : n \in DOMAIN Append(s, u)}
      BY <3>1, <3>2 DEF Archives
    <3> QED BY SMTT(30), <1>2, <2>1, <3>3, <3>4, <3>5
  <2>2. CASE t # leg[2]
    <3>1. account'[t] = account[t]
      BY <1>1, <1>3, <2>2 DEF Typed
    <3> QED BY <2>2, <3>1 DEF Archives
  <2> QED BY <2>1, <2>2
<1> QED BY <1>5, <1>6

-----------------------------------------------------------------------------
(* What a step does to claims and accounts.                                *)

\* Nobody starts an upload.
NobodyBegins == \A e \in Drivers : work'[e].pc = "upload" => work'[e] = work[e]

Stands == UNCHANGED <<scene, keys>> /\ NobodyBegins /\ DOMAIN work' = Drivers

LEMMA LeavingStands ==
  ASSUME DOMAIN work = Drivers, NEW d \in Drivers, NEW w, w.pc = "idle",
         work' = [work EXCEPT ![d] = w]
  PROVE  NobodyBegins /\ DOMAIN work' = Drivers
BY DEF NobodyBegins

LEMMA DoneStands ==
  ASSUME DOMAIN work = Drivers, NEW d \in Drivers, NEW leg, Done(d, leg)
  PROVE  NobodyBegins /\ DOMAIN work' = Drivers
BY DEF NobodyBegins, Done, Idle

LEMMA UploadSteps ==
  ASSUME Typed, [Next]_vars
  PROVE  \/ Stands /\ UNCHANGED account
         \/ \E d \in Drivers : /\ work[d].pc = "upload" /\ Stands
                               /\ Shown(work[d].leg, work[d].parts)
         \/ \E d \in Drivers, leg \in Legs : Begin(d, leg)
<1>1. ASSUME NEW d \in Drivers, Send(d), ~ \E leg \in Legs : Begin(d, leg)
      PROVE  Stands /\ UNCHANGED account
  <2>1. ASSUME NEW leg \in Legs, SendText(d, leg) \/ Hold(d, leg) \/ Drop(d, leg)
        PROVE  Stands /\ UNCHANGED account
    BY <2>1, DoneStands DEF SendText, Hold, Drop, Stands, Typed
  <2>2. ASSUME NEW post \in scene.posts, Finish(d, post) PROVE Stands /\ UNCHANGED account
    BY <2>2, LeavingStands DEF Finish, Idle, Stands, Typed
  <2> QED BY <1>1, <2>1, <2>2 DEF Send
<1>2. ASSUME NEW d \in Drivers, Succeed(d)
      PROVE  work[d].pc = "upload" /\ Stands /\ Shown(work[d].leg, work[d].parts)
  BY <1>2, DoneStands DEF Succeed, Stands, Typed
<1>3. ASSUME NEW d \in Drivers, Fail(d)
      PROVE  \/ Stands /\ UNCHANGED account
             \/ work[d].pc = "upload" /\ Stands /\ Shown(work[d].leg, work[d].parts)
  <2>1. Stands
    BY <1>3, LeavingStands DEF Fail, Idle, Stands, Typed
  <2> QED BY <1>3, <2>1 DEF Fail
<1>4. CASE Reboot
  BY <1>4 DEF Reboot, Idle, Stands, NobodyBegins
<1>5. CASE \/ \E leg \in Legs : Expire(leg) \/ Sweep(leg)
           \/ \E t \in scene.targets : Seed(t)
           \/ Consume \/ RecoveryFails \/ Rebuild \/ UNCHANGED vars
  BY <1>5 DEF Expire, Sweep, Seed, Consume, RecoveryFails, Rebuild, vars, Stands, NobodyBegins, Typed
<1> QED BY <1>1, <1>2, <1>3, <1>4, <1>5 DEF Next

LEMMA TypedStep ==
  ASSUME ClaimsInv, [Next]_vars
  PROVE  Typed'
<1>1. CASE Stands /\ UNCHANGED account
  BY <1>1 DEF Stands, ClaimsInv, Typed
<1>2. ASSUME NEW d \in Drivers, work[d].pc = "upload", Stands, Shown(work[d].leg, work[d].parts)
      PROVE  Typed'
  <2>1. account' \in [scene.targets -> Seq(Upload)]
    BY <1>2, ShownUploads DEF Stands, ClaimsInv, InFlight
  <2> QED BY <1>2, <2>1 DEF Stands, ClaimsInv, Typed
<1>3. ASSUME NEW d \in Drivers, NEW leg \in Legs, Begin(d, leg) PROVE Typed'
  BY <1>3 DEF Begin, ClaimsInv, Typed
<1> QED BY <1>1, <1>2, <1>3, UploadSteps DEF ClaimsInv

LEMMA ClaimsStay ==
  ASSUME [Next]_vars, Typed, NEW p, Claimed(p)
  PROVE  Claimed(p)'
<1>1. keys \subseteq keys'
  BY UploadSteps DEF Stands, Begin
<1> QED BY <1>1 DEF Claimed

LEMMA InFlightStep ==
  ASSUME ClaimsInv, [Next]_vars
  PROVE  InFlight'
<1> USE DEF ClaimsInv
<1> SUFFICES ASSUME NEW d \in Drivers, work'[d].pc = "upload"
             PROVE  /\ work'[d].leg \in Legs' /\ work'[d].parts \subseteq Names \cup {Nobody}
                    /\ \E p : p = work'[d].leg[1] /\ Claimed(p)'
  BY DEF InFlight, Claimed
<1>1. CASE Stands
  <2>1. work'[d] = work[d] /\ scene' = scene
    BY <1>1 DEF Stands, NobodyBegins
  <2>2. PICK p : p = work[d].leg[1]
    OBVIOUS
  <2>3. Claimed(p)
    BY <2>1, <2>2 DEF InFlight, Claimed
  <2>4. Claimed(p)'
    BY <2>3, ClaimsStay
  <2> QED BY <2>1, <2>2, <2>4 DEF InFlight, Legs
<1>2. ASSUME NEW e \in Drivers, NEW leg \in Legs, Begin(e, leg)
      PROVE  /\ work'[d].leg \in Legs' /\ work'[d].parts \subseteq Names \cup {Nobody}
             /\ \E p : p = work'[d].leg[1] /\ Claimed(p)'
  <2>1. scene' = scene
    BY <1>2 DEF Begin
  <2>2. CASE d = e
    <3>1. PICK held \in Pending(leg) \cup {<<Nobody>>} :
            work' = [work EXCEPT ![e] = [pc |-> "upload", post |-> leg[1], leg |-> leg, pairing |-> held[1],
                                         parts |-> {leg[1]} \cup ({held[1]} \ {Nobody})]]
      BY <1>2 DEF Begin
    <3>2. work'[d].leg = leg /\ work'[d].parts = {leg[1]} \cup ({held[1]} \ {Nobody})
      BY <2>2, <3>1 DEF Typed
    <3>3. leg[1] \in Names /\ held[1] \in Names \cup {Nobody}
      BY SceneIsKnown DEF Typed, Legs, Pending
    <3>4. PICK p : p = leg[1]
      OBVIOUS
    <3>5. Claimed(p)'
      BY <1>2, <3>4 DEF Begin, Claimed
    <3> QED BY <2>1, <3>2, <3>3, <3>4, <3>5 DEF Legs
  <2>3. CASE d # e
    <3>1. work'[d] = work[d]
      BY <1>2, <2>3 DEF Begin, Typed
    <3>2. PICK p : p = work[d].leg[1]
      OBVIOUS
    <3>3. Claimed(p)
      BY <3>1, <3>2 DEF InFlight, Claimed
    <3>4. Claimed(p)'
      BY <3>3, ClaimsStay
    <3> QED BY <2>1, <3>1, <3>2, <3>4 DEF InFlight, Legs
  <2> QED BY <2>2, <2>3
<1> QED BY <1>1, <1>2, UploadSteps

LEMMA AccountedStep ==
  ASSUME ClaimsInv, [Next]_vars
  PROVE  Accounted'
<1> USE DEF ClaimsInv
<1>1. scene' = scene
  BY UploadSteps DEF Stands, Begin
<1> SUFFICES ASSUME NEW t \in scene.targets, NEW p, p \in Archives(t)'
             PROVE  <<p, t>> \in scene.archived \/ Claimed(p)'
  BY <1>1 DEF Accounted
<1>2. CASE p \in Archives(t)
  BY <1>2, ClaimsStay DEF Accounted
<1>3. ASSUME NEW d \in Drivers, work[d].pc = "upload", Stands, Shown(work[d].leg, work[d].parts),
             p \notin Archives(t)
      PROVE  Claimed(p)'
  <2>1. p = work[d].leg[1]
    BY <1>3, ShownUploads DEF Stands, InFlight
  <2>2. Claimed(p)
    BY <1>3, <2>1 DEF InFlight
  <2> QED BY <2>2, ClaimsStay
<1>4. ASSUME UNCHANGED account PROVE p \in Archives(t)
  BY <1>4 DEF Archives
<1> QED BY <1>2, <1>3, <1>4, UploadSteps DEF Begin

LEMMA OneClaimStep ==
  ASSUME ClaimsInv, [Next]_vars
  PROVE  OneClaim'
<1> USE DEF ClaimsInv
<1>1. scene' = scene
  BY UploadSteps DEF Stands, Begin
<1> SUFFICES ASSUME NEW a \in scene.posts, NEW b \in scene.posts, Twins(a, b), Claimed(a)', Claimed(b)'
             PROVE  FALSE
  BY <1>1 DEF OneClaim
<1>2. ~(Claimed(a) /\ Claimed(b))
  BY DEF OneClaim
<1>3. a \in Names /\ b \in Names /\ Twins(b, a) /\ a # b
  BY SceneIsKnown, TwinsSymmetric DEF Typed, Twins, Alike
<1>4. keys' # keys
  BY <1>2 DEF Claimed
<1>5. PICK d \in Drivers, leg \in Legs : Begin(d, leg)
  BY <1>4, UploadSteps DEF Stands
<1>6. keys' = keys \cup KeysOf(leg[1], Post(leg[1])) /\ Duplicates(leg[1]) = {}
  BY <1>5 DEF Begin
<1>7. ASSUME NEW p, p # leg[1], Claimed(p)' PROVE Claimed(p)
  BY <1>6, <1>7, ClaimsAreOnesOwn DEF Claimed
<1>8. CASE leg[1] = a
  BY <1>3, <1>6, <1>7, <1>8, CheckFindsTheTwin
<1>9. CASE leg[1] = b
  BY <1>3, <1>6, <1>7, <1>9, CheckFindsTheTwin
<1> QED BY <1>2, <1>7, <1>8, <1>9

LEMMA ClaimsInit == Init => ClaimsInv
<1> SUFFICES ASSUME Init PROVE ClaimsInv
  OBVIOUS
<1>1. scene \in Scenes /\ DOMAIN work = Drivers /\ keys = {}
  BY DEF Init
<1>2. InFlight
  BY DEF Init, InFlight, Idle
<1>3. ASSUME NEW t \in scene.targets
      PROVE  /\ account[t] \in Seq(Upload)
             /\ \A p \in Archives(t) : <<p, t>> \in scene.archived
  <2> DEFINE Own == {l \in scene.archived : l[2] = t}
             S == {[post |-> leg[1], parts |-> {leg[1]}] : leg \in Own}
  <2>1. IsFiniteSet(Own) /\ Own \subseteq scene.posts \X scene.targets
    BY <1>1, SceneIsKnown, FS_Subset
  <2>2. S \subseteq Upload
    BY <1>1, <2>1, SceneIsKnown DEF Upload
  <2>3. IsFiniteSet(S)
    <3> DEFINE f == [leg \in Own |-> [post |-> leg[1], parts |-> {leg[1]}]]
    <3>1. f \in [Own -> S] /\ \A x \in S : \E leg \in Own : f[leg] = x
      OBVIOUS
    <3> HIDE DEF f, S, Own
    <3> QED BY <2>1, <3>1, Fun_IsSurj, FS_Surjection
  <2>4. account[t] = SetToSeq(S)
    BY DEF Init
  <2>5. \A p \in {x.post : x \in S} : <<p, t>> \in scene.archived
    BY <2>1
  <2> HIDE DEF S, Own
  <2>6. account[t] \in Seq(S)
    BY <2>3, <2>4, SequenceOfSet
  <2>7. \A n \in DOMAIN account[t] : account[t][n] \in S
    BY <2>6, ElementOfSeq
  <2>8. Archives(t) \subseteq {x.post : x \in S}
    BY <2>7 DEF Archives
  <2> QED BY <2>2, <2>5, <2>6, <2>8
<1>4. Typed
  BY <1>1, <1>3 DEF Init, Typed
<1>5. Accounted
  BY <1>3 DEF Accounted
<1>6. OneClaim
  BY <1>1, UnclaimedTwin, SceneIsKnown DEF OneClaim
<1> QED BY <1>2, <1>4, <1>5, <1>6 DEF ClaimsInv

LEMMA ClaimsInvariant == Spec => []ClaimsInv
<1>1. ClaimsInv /\ [Next]_vars => ClaimsInv'
  BY TypedStep, InFlightStep, AccountedStep, OneClaimStep DEF ClaimsInv
<1> QED BY <1>1, ClaimsInit, PTL DEF Spec

LEMMA UploadedIsArchived ==
  ASSUME NEW p, NEW t, Uploaded(<<p, t>>)
  PROVE  p \in Archives(t)
BY DEF Uploaded, Uploads, Archives

TwinsWereRestored ==
  \A a, b \in scene.posts, t \in scene.targets :
    Twins(a, b) /\ Uploaded(<<a, t>>) /\ Uploaded(<<b, t>>)
      => <<a, t>> \in scene.archived \/ <<b, t>> \in scene.archived

\* Whatever is rebuilt, retried or fails, two posts of one short video that share
\* a recall key are both on an account only if one of them was there before the
\* database was restored, for which nothing is claimed (check and claim of
\* short-video-dedup.ts in sendVideo, bilibili-reconcile.ts).
THEOREM TwinsNeedARestore == Spec => []TwinsWereRestored
<1>1. ASSUME ClaimsInv, NEW a \in scene.posts, NEW b \in scene.posts, NEW t \in scene.targets,
             Twins(a, b), Uploaded(<<a, t>>), Uploaded(<<b, t>>)
      PROVE  <<a, t>> \in scene.archived \/ <<b, t>> \in scene.archived
  <2>1. a \in Archives(t) /\ b \in Archives(t)
    BY <1>1, UploadedIsArchived
  <2> QED BY <1>1, <2>1 DEF ClaimsInv, Accounted, OneClaim
<1>2. ClaimsInv => TwinsWereRestored
  BY <1>1 DEF TwinsWereRestored
<1> QED BY <1>2, ClaimsInvariant, PTL

\* So where no restored account shows a post with a twin, no two twins are ever
\* both uploaded: the claim is made before the upload.
THEOREM TwinsStayApart ==
  ASSUME \A s \in Scenes : \A a, b \in s.posts, t \in s.targets :
           Twins(a, b) => <<a, t>> \notin s.archived
  PROVE  Spec => []NoTwinUploads
<1>1. ASSUME ClaimsInv PROVE NoTwinUploads
  <2> SUFFICES ASSUME NEW a \in scene.posts, NEW b \in scene.posts, NEW t \in scene.targets,
                      Twins(a, b), Uploaded(<<a, t>>), Uploaded(<<b, t>>)
               PROVE  FALSE
    BY DEF NoTwinUploads
  <2>1. scene \in Scenes
    BY <1>1 DEF ClaimsInv, Typed
  <2>2. Twins(b, a)
    BY <2>1, SceneIsKnown, TwinsSymmetric
  <2>3. <<a, t>> \notin scene.archived /\ <<b, t>> \notin scene.archived
    BY <2>1, <2>2
  <2>4. a \in Archives(t) /\ b \in Archives(t)
    BY UploadedIsArchived
  <2> QED BY <1>1, <2>3, <2>4 DEF ClaimsInv, Accounted, OneClaim
<1> QED BY <1>1, ClaimsInvariant, PTL

-----------------------------------------------------------------------------
(* The reconciliation: what an account showed is still there to be read,   *)
(* and a run that is not through has its account left or seeded.           *)

Reads ==
  /\ \A leg \in scene.archived : leg[1] \in Archives(leg[2])
  /\ recovery.pc # "done" =>
       \A leg \in scene.archived : leg[2] \in recovery.left \/ leg \in forwarded
  /\ ~marker => scene.archived \subseteq forwarded

LEMMA AccountsGrow ==
  ASSUME ClaimsInv, [Next]_vars, NEW t \in scene.targets
  PROVE  Archives(t) \subseteq Archives(t)'
<1>1. CASE account' = account
  BY <1>1 DEF Archives
<1>2. ASSUME NEW d \in Drivers, work[d].pc = "upload", Stands, Shown(work[d].leg, work[d].parts)
      PROVE  Archives(t) \subseteq Archives(t)'
  BY <1>2, ShownUploads DEF Stands, ClaimsInv, InFlight
<1> QED BY <1>1, <1>2, UploadSteps DEF Begin, ClaimsInv

\* forward_by and the recovery: who writes them.
LEMMA RestoreSteps ==
  ASSUME [Next]_vars
  PROVE  /\ forwarded \subseteq forwarded'
         /\ \/ UNCHANGED restore
            \/ \E t \in scene.targets : Seed(t)
            \/ Consume \/ RecoveryFails \/ Reboot
<1>1. ASSUME NEW d \in Drivers, Send(d)
      PROVE  forwarded \subseteq forwarded' /\ UNCHANGED restore
  BY <1>1 DEF Send, SendText, Hold, Drop, Begin, Finish, Done, restore
<1>2. ASSUME NEW d \in Drivers, Succeed(d) \/ Fail(d)
      PROVE  forwarded \subseteq forwarded' /\ UNCHANGED restore
  BY <1>2 DEF Succeed, Fail, Done, restore
<1>3. CASE (\E leg \in Legs : Expire(leg) \/ Sweep(leg)) \/ Rebuild \/ UNCHANGED vars
  BY <1>3 DEF Expire, Sweep, Rebuild, vars, restore
<1>4. CASE (\E t \in scene.targets : Seed(t)) \/ Consume \/ RecoveryFails \/ Reboot
  BY <1>4 DEF Seed, Consume, RecoveryFails, Reboot
<1> QED BY <1>1, <1>2, <1>3, <1>4 DEF Next

LEMMA ReadsStep ==
  ASSUME ClaimsInv, Reads, [Next]_vars
  PROVE  Reads'
<1>1. scene' = scene /\ scene.archived \subseteq scene.posts \X scene.targets
  BY UploadSteps, SceneIsKnown DEF Stands, Begin, ClaimsInv, Typed
<1>2. \A leg \in scene.archived : leg[1] \in Archives(leg[2])'
  BY <1>1, AccountsGrow DEF Reads
<1>3. forwarded \subseteq forwarded'
  BY RestoreSteps
<1>4. /\ recovery'.pc # "done" =>
           \A leg \in scene.archived : leg[2] \in recovery'.left \/ leg \in forwarded'
      /\ ~marker' => scene.archived \subseteq forwarded'
  <2>1. CASE UNCHANGED restore
    BY <1>3, <2>1 DEF Reads, restore
  <2>2. ASSUME NEW t \in scene.targets, Seed(t)
        PROVE  /\ \A leg \in scene.archived : leg[2] \in recovery'.left \/ leg \in forwarded'
               /\ ~marker' => scene.archived \subseteq forwarded'
    <3>1. /\ recovery.pc # "done" /\ recovery'.left = recovery.left \ {t} /\ marker' = marker
          /\ forwarded' = forwarded \cup {<<a, t>> : a \in Archives(t)}
      BY <2>2 DEF Seed
    <3>2. ASSUME NEW leg \in scene.archived
          PROVE  leg[2] \in recovery'.left \/ leg \in forwarded'
      <4>1. leg = <<leg[1], leg[2]>> /\ leg[1] \in Archives(leg[2])
        BY <1>1 DEF Reads
      <4>2. CASE leg[2] = t
        BY <3>1, <4>1, <4>2
      <4>3. CASE leg[2] # t
        BY <3>1, <4>3 DEF Reads
      <4> QED BY <4>2, <4>3
    <3> QED BY <1>3, <3>1, <3>2 DEF Reads
  <2>3. CASE Consume
    BY <2>3 DEF Consume, Reads
  <2>4. CASE RecoveryFails
    BY <2>4 DEF RecoveryFails, Reads
  <2>5. CASE Reboot
    BY <1>1, <2>5 DEF Reboot, Reads
  <2> QED BY <2>1, <2>2, <2>3, <2>4, <2>5, RestoreSteps
<1> QED BY <1>1, <1>2, <1>4 DEF Reads

\* The marker of a restored database is consumed only when every archive the
\* accounts showed counts as delivered, however often a run ends half-way and
\* the process starts again (runBilibiliReconcile of bilibili-reconcile.ts).
THEOREM MarkerOutlivesFailedRuns == Spec => []MarkerKeptUntilSeeded
<1>1. Init => Reads
  <2> SUFFICES ASSUME Init PROVE Reads
    OBVIOUS
  <2>1. scene.archived \subseteq scene.posts \X scene.targets /\ IsFiniteSet(scene.archived)
    BY SceneIsKnown DEF Init
  <2>2. ASSUME NEW leg \in scene.archived PROVE leg[1] \in Archives(leg[2])
    <3>1. PICK p \in scene.posts, t \in scene.targets : leg = <<p, t>>
      BY <2>1
    <3> DEFINE Own == {l \in scene.archived : l[2] = t}
               S == {[post |-> l[1], parts |-> {l[1]}] : l \in Own}
               f == [l \in Own |-> [post |-> l[1], parts |-> {l[1]}]]
    <3>2. IsFiniteSet(Own)
      BY <2>1, FS_Subset
    <3>3. f \in [Own -> S] /\ \A x \in S : \E l \in Own : f[l] = x
      OBVIOUS
    <3>4. account[t] = SetToSeq(S)
      BY DEF Init
    <3>5. PICK x \in S : x.post = p
      <4>1. leg \in Own /\ leg[1] = p
        BY <3>1
      <4>2. [post |-> leg[1], parts |-> {leg[1]}] \in S
        BY <4>1
      <4> QED BY <4>1, <4>2
    <3> HIDE DEF S, Own, f
    <3>6. IsFiniteSet(S)
      BY <3>2, <3>3, Fun_IsSurj, FS_Surjection
    <3>7. PICK n \in DOMAIN account[t] : account[t][n] = x
      BY <3>4, <3>6, SequenceOfSet
    <3> QED BY <3>1, <3>5, <3>7 DEF Archives
  <2>3. recovery.pc # "done" => recovery.left = scene.targets
    BY DEF Init
  <2>4. ~marker => scene.archived = {}
    BY DEF Init
  <2> QED BY <2>1, <2>2, <2>3, <2>4 DEF Reads
<1>2. Reads => MarkerKeptUntilSeeded
  BY DEF Reads, MarkerKeptUntilSeeded
<1> QED BY <1>1, <1>2, ReadsStep, ClaimsInvariant, PTL DEF Spec

-----------------------------------------------------------------------------
(* The pool of browsers.                                                   *)

\* A launch in flight for a key nobody paused for is the registered one, and
\* there is no living session it could displace.
OneLaunch ==
  \A l \in Launches :
    browser[l] = "launching" /\ KeyOf(l) \notin waited
      => /\ pending[KeyOf(l)] = l
         /\ sessions[KeyOf(l)] # None => ~isSessionAlive(sessions[KeyOf(l)])

\* What a call has not launched yet has no browser.
Ahead(c, n) ==
  \/ call[c].phase = "idle"
  \/ call[c].phase \in {"evicting", "paused"} /\ n >= call[c].attempt
  \/ call[c].phase \in {"joined", "opening", "profiling", "retiring"} /\ n > call[c].attempt

Fresh ==
  \A c \in Callers : \A n \in 1..Attempts : Ahead(c, n) => browser[<<c, n>>] = "unborn"

\* Only browsers that came up are registered, closed, or held by a call, and a
\* registered launch is under way.
Born == {"up", "down", "gone"}

Registered ==
  /\ \A k \in Keys : sessions[k] # None => browser[sessions[k]] \in Born
  /\ \A k \in Keys : pending[k] # None =>
       browser[pending[k]] = "launching" /\ KeyOf(pending[k]) = k
  /\ \A l \in ending : browser[l] \in Born

Holding(phase, on) ==
  /\ phase \in {"opening", "profiling", "retiring"} => on \in Launches /\ browser[on] \in Born
  /\ phase = "joined" => on \in Launches /\ browser[on] # "unborn"

Held == \A c \in Callers : Holding(call[c].phase, call[c].on)

PoolInv == TypeOK /\ OneLaunch /\ Fresh /\ Registered /\ Held /\ NoBrowserIsLost

\* The launches by name: the rest of the proof looks no further into the pairs.
LEMMA LaunchNames ==
  /\ None \notin Launches
  /\ \A l \in Launches : KeyOf(l) \in Keys
  /\ \A c \in Callers : Wants(c) \in Keys
  /\ \A c \in Callers : \A n \in 1..Attempts :
       <<c, n>> \in Launches /\ KeyOf(<<c, n>>) = Wants(c)
  /\ 1 \in 1..Attempts
<1>1. None \notin Launches /\ 1 \in 1..Attempts
  BY PoolAssumption DEF Launches
<1>2. \A c \in Callers : Wants(c) \in Keys
  BY PoolAssumption
<1>3. \A l \in Launches : KeyOf(l) \in Keys
  BY <1>2 DEF Launches, KeyOf
<1>4. ASSUME NEW c \in Callers, NEW n \in 1..Attempts
      PROVE  <<c, n>> \in Launches /\ KeyOf(<<c, n>>) = Wants(c)
  BY DEF Launches, KeyOf
<1>5. QED
  BY <1>1, <1>2, <1>3, <1>4

LEMMA PoolInitHolds == PoolInit => PoolInv
<1> SUFFICES ASSUME PoolInit PROVE PoolInv
  OBVIOUS
<1>1. TypeOK
  BY LaunchNames DEF PoolInit, TypeOK, Phases
<1>2. OneLaunch /\ NoBrowserIsLost
  BY DEF PoolInit, OneLaunch, NoBrowserIsLost, isSessionAlive
<1>3. Fresh
  BY LaunchNames DEF PoolInit, Fresh
<1>4. Registered /\ Held
  BY DEF PoolInit, Registered, Held, Holding
<1>5. QED
  BY <1>1, <1>2, <1>3, <1>4 DEF PoolInv

\* What a call may be given: a phase that fits its browser, and no launch it
\* has made before still ahead of it.
Fits(c, r) ==
  /\ r \in [phase : Phases, attempt : 1..Attempts, on : Launches \cup {None}]
  /\ Holding(r.phase, r.on)
  /\ r.phase # "idle"
  /\ r.phase \in {"evicting", "paused"} =>
       \A n \in 1..Attempts : n >= r.attempt => browser[<<c, n>>] = "unborn"
  /\ r.phase \in {"joined", "opening", "profiling", "retiring"} =>
       \A n \in 1..Attempts : n > r.attempt => browser[<<c, n>>] = "unborn"

\* A call that moves, whether or not it takes a session out, breaks nothing.
LEMMA MovesKeep ==
  ASSUME PoolInv, NEW c \in Callers, NEW r, Fits(c, r), call' = [call EXCEPT ![c] = r],
         UNCHANGED <<pending, browser, closing, awaited, waited>>,
         \/ UNCHANGED <<sessions, backoff, ending>>
         \/ \E k \in Keys : \E l \in Launches : browser[l] \in Born /\ evictSession(k, l)
  PROVE  PoolInv'
<1>1. TypeOK'
  <2>1. call' \in [Callers -> [phase : Phases, attempt : 1..Attempts, on : Launches \cup {None}]]
    BY DEF PoolInv, TypeOK, Fits
  <2>2. /\ sessions' \in [Keys -> Launches \cup {None}]
        /\ backoff' \subseteq Keys /\ ending' \subseteq Launches
    BY LaunchNames DEF PoolInv, TypeOK, evictSession
  <2>3. QED
    BY <2>1, <2>2 DEF PoolInv, TypeOK
<1>2. OneLaunch'
  BY LaunchNames DEF PoolInv, TypeOK, OneLaunch, evictSession, isSessionAlive
<1>3. Fresh'
  <2> SUFFICES ASSUME NEW d \in Callers, NEW n \in 1..Attempts, Ahead(d, n)'
               PROVE  browser[<<d, n>>] = "unborn"
    BY DEF Fresh
  <2>1. CASE d = c
    BY <2>1 DEF PoolInv, TypeOK, Fits, Ahead, Phases
  <2>2. CASE d # c
    BY <2>2 DEF PoolInv, TypeOK, Fresh, Ahead
  <2>3. QED
    BY <2>1, <2>2
<1>4. Registered'
  BY LaunchNames DEF PoolInv, TypeOK, Registered, evictSession
<1>5. Held'
  BY DEF PoolInv, TypeOK, Held, Holding, Fits
<1>6. NoBrowserIsLost'
  BY LaunchNames DEF PoolInv, TypeOK, NoBrowserIsLost, evictSession, isSessionAlive
<1>7. QED
  BY <1>1, <1>2, <1>3, <1>4, <1>5, <1>6 DEF PoolInv

\* The attempts a call has not reached are unborn when it comes to launch.
Poised(c, n) ==
  /\ n \in 1..Attempts
  /\ \A m \in 1..Attempts : m >= n => browser[<<c, m>>] = "unborn"

\* A launch that finds neither another nor a living session, or follows a pause.
LEMMA LaunchKeeps ==
  ASSUME PoolInv, NEW c \in Callers, NEW n, Poised(c, n), Launch(c, n),
         UNCHANGED <<sessions, backoff, ending, closing, awaited>>,
         \/ /\ waited' = waited /\ pending[Wants(c)] = None
            /\ sessions[Wants(c)] # None => ~isSessionAlive(sessions[Wants(c)])
         \/ waited' = waited \cup {Wants(c)}
  PROVE  PoolInv'
<1> DEFINE new == <<c, n>>
<1>0. n \in 1..Attempts /\ new \in Launches /\ KeyOf(new) = Wants(c) /\ Wants(c) \in Keys
      /\ browser[new] = "unborn"
  BY LaunchNames DEF Poised
<1>1. /\ browser' = [browser EXCEPT ![new] = "launching"]
      /\ pending' = [pending EXCEPT ![Wants(c)] = new]
      /\ call' = [call EXCEPT ![c] = [phase |-> "joined", attempt |-> n, on |-> new]]
  BY DEF Launch, Attempt
<1>2. TypeOK'
  BY <1>0, <1>1, LaunchNames DEF PoolInv, TypeOK, Phases
<1>3. OneLaunch'
  <2> HIDE DEF new
  <2> SUFFICES ASSUME NEW l \in Launches, browser'[l] = "launching", KeyOf(l) \notin waited'
               PROVE  /\ pending'[KeyOf(l)] = l
                      /\ sessions[KeyOf(l)] # None => browser'[sessions[KeyOf(l)]] # "up"
    BY DEF OneLaunch, isSessionAlive
  <2>1. CASE l = new
    BY <1>0, <1>1, <2>1, LaunchNames DEF PoolInv, TypeOK, isSessionAlive
  <2>2. CASE l # new
    BY <1>0, <1>1, <2>2, LaunchNames DEF PoolInv, TypeOK, OneLaunch, isSessionAlive
  <2>3. QED
    BY <2>1, <2>2
<1>4. Fresh'
  <2> SUFFICES ASSUME NEW d \in Callers, NEW m \in 1..Attempts, Ahead(d, m)'
               PROVE  browser'[<<d, m>>] = "unborn"
    BY DEF Fresh
  <2>0. <<d, m>> \in Launches
    BY LaunchNames
  <2>1. CASE d = c
    <3>1. m > n
      BY <1>1, <2>1 DEF PoolInv, TypeOK, Ahead
    <3>2. browser[<<d, m>>] = "unborn" /\ <<d, m>> # new
      BY <2>1, <3>1, <1>0 DEF Poised
    <3>3. QED
      BY <3>2, <2>0, <1>1 DEF PoolInv, TypeOK
  <2>2. CASE d # c
    <3>1. browser[<<d, m>>] = "unborn" /\ <<d, m>> # new
      BY <2>2, <1>1 DEF PoolInv, TypeOK, Fresh, Ahead
    <3>2. QED
      BY <3>1, <2>0, <1>1 DEF PoolInv, TypeOK
  <2>3. QED
    BY <2>1, <2>2
<1> HIDE DEF new
<1>5. Registered'
  BY <1>0, <1>1, LaunchNames DEF PoolInv, TypeOK, Registered, Born
<1>6. Held'
  BY <1>0, <1>1, LaunchNames DEF PoolInv, TypeOK, Held, Holding, Born
<1>7. NoBrowserIsLost'
  BY <1>0, <1>1, LaunchNames DEF PoolInv, TypeOK, NoBrowserIsLost, isSessionAlive
<1>8. QED
  BY <1>2, <1>3, <1>4, <1>5, <1>6, <1>7 DEF PoolInv

\* The second half of getOrCreateSession.
LEMMA JoinOrLaunchKeeps ==
  ASSUME PoolInv, NEW c \in Callers, NEW n, Poised(c, n), JoinOrLaunch(c, n),
         UNCHANGED <<sessions, backoff, ending, closing, awaited, waited>>
  PROVE  PoolInv'
<1> DEFINE k == Wants(c)
<1>0. k \in Keys
  BY LaunchNames
<1>1. CASE Launch(c, n) /\ pending[k] = None
           /\ (sessions[k] # None => ~isSessionAlive(sessions[k]))
  BY <1>1, LaunchKeeps
<1>2. CASE pending[k] # None /\ Attempt(c, n, "joined", pending[k]) /\ UNCHANGED <<browser, pending>>
  <2>1. Fits(c, [phase |-> "joined", attempt |-> n, on |-> pending[k]])
    BY <1>0, <1>2, LaunchNames DEF PoolInv, TypeOK, Fits, Poised, Holding, Registered, Phases
  <2>2. QED
    BY <2>1, <1>2, MovesKeep DEF Attempt
<1>3. CASE sessions[k] # None /\ Attempt(c, n, "opening", sessions[k]) /\ UNCHANGED <<browser, pending>>
  <2>1. Fits(c, [phase |-> "opening", attempt |-> n, on |-> sessions[k]])
    BY <1>0, <1>3, LaunchNames DEF PoolInv, TypeOK, Fits, Poised, Holding, Registered, Phases
  <2>2. QED
    BY <2>1, <1>3, MovesKeep DEF Attempt
<1>4. CASE Attempt(c, n, "paused", None) /\ UNCHANGED <<browser, pending>>
  <2>1. Fits(c, [phase |-> "paused", attempt |-> n, on |-> None])
    BY LaunchNames DEF PoolInv, TypeOK, Fits, Poised, Holding, Phases
  <2>2. QED
    BY <2>1, <1>4, MovesKeep DEF Attempt
<1>5. QED
  BY <1>1, <1>2, <1>3, <1>4 DEF JoinOrLaunch

\* The whole of getOrCreateSession up to its first await.
LEMMA GetOrCreateKeeps ==
  ASSUME PoolInv, NEW c \in Callers, NEW n, Poised(c, n), getOrCreateSession(c, n),
         UNCHANGED <<closing, awaited, waited>>
  PROVE  PoolInv'
<1> DEFINE s == sessions[Wants(c)]
<1>0. Wants(c) \in Keys /\ (s # None => s \in Launches /\ browser[s] \in Born)
  BY LaunchNames DEF PoolInv, TypeOK, Registered
<1>1. CASE s = None
  BY <1>1, JoinOrLaunchKeeps DEF getOrCreateSession
<1>2. CASE s # None /\ isSessionAlive(s)
  <2>1. Fits(c, [phase |-> "opening", attempt |-> n, on |-> s])
    BY <1>0, <1>2, LaunchNames DEF PoolInv, TypeOK, Fits, Poised, Holding, Phases
  <2>2. QED
    BY <2>1, <1>2, MovesKeep DEF getOrCreateSession, Attempt
<1>3. CASE s # None /\ ~isSessionAlive(s)
  <2>1. Fits(c, [phase |-> "evicting", attempt |-> n, on |-> s])
    BY <1>0, <1>3, LaunchNames DEF PoolInv, TypeOK, Fits, Poised, Holding, Phases
  <2>2. evictSession(Wants(c), s) /\ Attempt(c, n, "evicting", s) /\ UNCHANGED <<pending, browser>>
    BY <1>3 DEF getOrCreateSession
  <2>3. QED
    BY <2>1, <2>2, <1>0, <1>3, MovesKeep DEF Attempt
<1>4. QED
  BY <1>1, <1>2, <1>3

\* A call ends and holds on to nothing.
LEMMA EndsKeep ==
  ASSUME PoolInv, NEW c \in Callers, NEW phase \in {"page", "failed"}, Ends(c, phase),
         UNCHANGED <<sessions, pending, backoff, browser, ending, closing, awaited, waited>>
  PROVE  PoolInv'
<1>1. Fits(c, [phase |-> phase, attempt |-> 1, on |-> None])
  BY LaunchNames DEF Fits, Holding, Phases
<1>2. QED
  BY <1>1, MovesKeep DEF Ends

\* A call goes on with the browser it has come to.
LEMMA GotoKeeps ==
  ASSUME PoolInv, NEW c \in Callers, NEW phase \in {"opening", "profiling", "retiring"},
         call[c].phase \in {"joined", "opening"}, browser[call[c].on] \in Born,
         Goto(c, phase, call[c].on),
         UNCHANGED <<pending, browser, closing, awaited, waited>>,
         UNCHANGED <<sessions, backoff, ending>> \/ evictSession(Wants(c), call[c].on)
  PROVE  PoolInv'
<1> DEFINE r == [phase |-> phase, attempt |-> call[c].attempt, on |-> call[c].on]
<1>0. call[c].on \in Launches
  BY DEF PoolInv, Held, Holding
<1>1. Fits(c, r)
  <2>1. r \in [phase : Phases, attempt : 1..Attempts, on : Launches \cup {None}]
    BY <1>0 DEF PoolInv, TypeOK, Phases
  <2>2. \A n \in 1..Attempts : n > call[c].attempt => browser[<<c, n>>] = "unborn"
    BY DEF PoolInv, Fresh, Ahead
  <2>3. QED
    BY <1>0, <2>1, <2>2 DEF PoolInv, TypeOK, Fits, Holding
<1>2. call' = [call EXCEPT ![c] = r]
  BY DEF Goto, Attempt
<1>3. QED
  BY <1>0, <1>1, <1>2, LaunchNames, MovesKeep

\* A step of a browser, the pool or a timer, which no call takes.
LEMMA BrowserStepsKeep ==
  ASSUME PoolInv, NEW l \in Launches,
         launchSession(l) \/ LaunchFails(l) \/ Drops(l) \/ closeBrowser(l)
  PROVE  PoolInv'
<1>0. browser[l] # "unborn" /\ KeyOf(l) \in Keys /\ l # None
  BY LaunchNames DEF PoolInv, Registered, launchSession, LaunchFails, Drops, closeBrowser,
     isSessionAlive, Born
<1>1. TypeOK'
  BY LaunchNames DEF PoolInv, TypeOK, launchSession, LaunchFails, Drops, closeBrowser
<1>2. OneLaunch'
  <2>1. CASE launchSession(l)
    BY <2>1, LaunchNames DEF PoolInv, TypeOK, OneLaunch, Registered, Born, launchSession,
       isSessionAlive
  <2>2. CASE LaunchFails(l)
    BY <2>2, LaunchNames DEF PoolInv, TypeOK, OneLaunch, LaunchFails, isSessionAlive
  <2>3. CASE Drops(l) \/ closeBrowser(l)
    BY <2>3, LaunchNames DEF PoolInv, TypeOK, OneLaunch, Drops, closeBrowser, isSessionAlive
  <2>4. QED
    BY <2>1, <2>2, <2>3
<1>3. Fresh'
  <2> SUFFICES ASSUME NEW c \in Callers, NEW n \in 1..Attempts, Ahead(c, n)'
               PROVE  browser'[<<c, n>>] = "unborn"
    BY DEF Fresh
  <2>1. call' = call /\ <<c, n>> \in Launches
    BY LaunchNames DEF launchSession, LaunchFails, Drops, closeBrowser
  <2>2. browser[<<c, n>>] = "unborn"
    BY <2>1 DEF PoolInv, Fresh, Ahead
  <2>3. QED
    BY <1>0, <2>1, <2>2 DEF PoolInv, TypeOK, launchSession, LaunchFails, Drops, closeBrowser
<1>4. Registered'
  <2>1. CASE launchSession(l)
    BY <2>1, LaunchNames DEF PoolInv, TypeOK, Registered, launchSession, Born
  <2>2. CASE LaunchFails(l)
    BY <2>2, LaunchNames DEF PoolInv, TypeOK, Registered, LaunchFails, Born
  <2>3. CASE Drops(l) \/ closeBrowser(l)
    BY <2>3, LaunchNames DEF PoolInv, TypeOK, Registered, Drops, closeBrowser, Born, isSessionAlive
  <2>4. QED
    BY <2>1, <2>2, <2>3
<1>5. Held'
  BY <1>0 DEF PoolInv, TypeOK, Held, Holding, launchSession, LaunchFails, Drops, closeBrowser,
     Born, isSessionAlive
<1>6. NoBrowserIsLost'
  <2>1. CASE launchSession(l)
    BY <2>1, LaunchNames DEF PoolInv, TypeOK, OneLaunch, NoBrowserIsLost, launchSession, isSessionAlive
  <2>2. CASE LaunchFails(l) \/ Drops(l) \/ closeBrowser(l)
    BY <2>2, LaunchNames DEF PoolInv, TypeOK, NoBrowserIsLost, LaunchFails, Drops, closeBrowser,
       isSessionAlive
  <2>3. QED
    BY <2>1, <2>2
<1>7. QED
  BY <1>1, <1>2, <1>3, <1>4, <1>5, <1>6 DEF PoolInv

\* A lost connection, the end of a pause, and the steps of closeAll.
LEMMA PoolStepsKeep ==
  ASSUME PoolInv,
         \/ \E l \in Launches : Disconnected(l)
         \/ \E k \in Keys : Calms(k)
         \/ closeAll \/ Drain \/ Closed
  PROVE  PoolInv'
<1>0. /\ UNCHANGED <<pending, browser, call, waited>>
      /\ \A k \in Keys : sessions'[k] # None => sessions'[k] = sessions[k]
  BY LaunchNames DEF Disconnected, Calms, closeAll, Drain, Closed, evictSession, PoolInv, TypeOK
<1>1. TypeOK'
  BY LaunchNames
     DEF PoolInv, TypeOK, Disconnected, Calms, closeAll, Drain, Closed, evictSession
<1>2. OneLaunch'
  BY <1>0, LaunchNames DEF PoolInv, OneLaunch, isSessionAlive
<1>3. Fresh' /\ Held'
  BY <1>0 DEF PoolInv, Fresh, Ahead, Held, Holding
<1>4. \A l \in ending' : browser[l] \in Born
  BY LaunchNames
     DEF PoolInv, TypeOK, Registered, Disconnected, Calms, closeAll, Drain, Closed, evictSession, Born
<1>5. Registered'
  BY <1>0, <1>4 DEF PoolInv, Registered
<1>6. NoBrowserIsLost'
  BY LaunchNames
     DEF PoolInv, TypeOK, NoBrowserIsLost, isSessionAlive, Disconnected, Calms, closeAll, Drain,
         Closed, evictSession
<1>7. QED
  BY <1>1, <1>2, <1>3, <1>5, <1>6 DEF PoolInv

LEMMA PoolNextKeeps == PoolInv /\ [PoolNext]_poolVars => PoolInv'
<1> SUFFICES ASSUME PoolInv, [PoolNext]_poolVars PROVE PoolInv'
  OBVIOUS
<1>1. ASSUME NEW c \in Callers, createPage(c) PROVE PoolInv'
  <2>1. Poised(c, 1)
    BY <1>1, LaunchNames DEF createPage, PoolInv, TypeOK, Fresh, Ahead, Poised
  <2>2. QED
    BY <1>1, <2>1, EndsKeep, GetOrCreateKeeps DEF createPage
<1>2. ASSUME NEW c \in Callers, Evicted(c) PROVE PoolInv'
  <2>1. Poised(c, call[c].attempt)
    BY <1>2 DEF Evicted, PoolInv, TypeOK, Fresh, Ahead, Poised
  <2>2. QED
    BY <1>2, <2>1, JoinOrLaunchKeeps DEF Evicted
<1>3. ASSUME NEW c \in Callers, Resumes(c) PROVE PoolInv'
  <2>1. Poised(c, call[c].attempt)
    BY <1>3 DEF Resumes, PoolInv, TypeOK, Fresh, Ahead, Poised
  <2>2. QED
    BY <1>3, <2>1, LaunchKeeps DEF Resumes
<1>4. ASSUME NEW c \in Callers, Joined(c) PROVE PoolInv'
  <2>1. CASE browser[call[c].on] = "stillborn"
    BY <1>4, <2>1, EndsKeep DEF Joined
  <2>2. CASE browser[call[c].on] # "stillborn"
    <3>1. browser[call[c].on] \in Born
      BY <1>4, <2>2 DEF Joined, PoolInv, TypeOK, Held, Holding, Born
    <3>2. QED
      BY <1>4, <2>2, <3>1, GotoKeeps DEF Joined
  <2>3. QED
    BY <2>1, <2>2
<1>5. ASSUME NEW c \in Callers, NEW phase \in {"profiling", "failed"}, NewPage(c, phase) PROVE PoolInv'
  BY <1>5, EndsKeep, GotoKeeps DEF NewPage, isSessionAlive, Born
<1>6. ASSUME NEW c \in Callers, ConnectionError(c) PROVE PoolInv'
  <2>1. browser[call[c].on] \in Born
    BY <1>6 DEF ConnectionError, PoolInv, Held, Holding
  <2>2. QED
    BY <1>6, <2>1, GotoKeeps DEF ConnectionError
<1>7. ASSUME NEW c \in Callers, NEW phase \in {"page", "failed"}, Profiled(c, phase) PROVE PoolInv'
  BY <1>7, EndsKeep DEF Profiled
<1>8. ASSUME NEW c \in Callers, Retry(c) PROVE PoolInv'
  <2>1. CASE call[c].attempt < Attempts
    <3>1. Poised(c, call[c].attempt + 1)
      BY <1>8, <2>1, PoolAssumption DEF Retry, PoolInv, TypeOK, Fresh, Ahead, Poised
    <3>2. QED
      BY <1>8, <2>1, <3>1, GetOrCreateKeeps DEF Retry
  <2>2. CASE ~(call[c].attempt < Attempts)
    BY <1>8, <2>2, EndsKeep DEF Retry
  <2>3. QED
    BY <2>1, <2>2
<1>9. CASE UNCHANGED poolVars
  <2>1. TypeOK' /\ OneLaunch' /\ NoBrowserIsLost'
    BY <1>9 DEF poolVars, PoolInv, TypeOK, OneLaunch, NoBrowserIsLost, isSessionAlive
  <2>2. Fresh' /\ Registered' /\ Held'
    BY <1>9 DEF poolVars, PoolInv, Fresh, Ahead, Registered, Held, Holding
  <2>3. QED
    BY <2>1, <2>2 DEF PoolInv
<1>10. QED
  BY <1>1, <1>2, <1>3, <1>4, <1>5, <1>6, <1>7, <1>8, <1>9, BrowserStepsKeep, PoolStepsKeep DEF PoolNext

LEMMA PoolInvariant == PoolSpec => []PoolInv
  BY PoolInitHolds, PoolNextKeeps, PTL DEF PoolSpec

\* A browser that is connected while the pool is open has an owner, unless a
\* call for its key launched after a pause (createPage of browser-pool.ts).
THEOREM BrowsersAreOwned == PoolSpec => []NoBrowserIsLost
<1>1. PoolInv => NoBrowserIsLost
  BY DEF PoolInv
<1>2. QED
  BY <1>1, PoolInvariant, PTL

\* No eviction takes the replacement of the session it was called for
\* (evictSession and the handler of a lost connection, browser-pool.ts).
THEOREM EvictionsSpareReplacements == PoolSpec => ReplacementsStay
<1> DEFINE Spared(k) ==
       (sessions[k] # None /\ sessions'[k] = None)
         => \/ browser[sessions[k]] \in {"down", "gone"}
            \/ \E c \in Callers : call[c].phase = "opening" /\ call[c].on = sessions[k]
            \/ closing # "open"
<1>1. PoolInv /\ [PoolNext]_poolVars => [\A k \in Keys : Spared(k)]_poolVars
  <2> SUFFICES ASSUME PoolInv, PoolNext, NEW k \in Keys, sessions[k] # None, sessions'[k] = None
               PROVE  \/ browser[sessions[k]] \in {"down", "gone"}
                      \/ \E c \in Callers : call[c].phase = "opening" /\ call[c].on = sessions[k]
                      \/ closing # "open"
    BY DEF poolVars
  <2>0. sessions[k] \in Launches /\ browser[sessions[k]] \in Born
    BY DEF PoolInv, TypeOK, Registered
  <2>1. ASSUME NEW c \in Callers, NEW n, getOrCreateSession(c, n)
        PROVE  browser[sessions[k]] \in {"down", "gone"}
    BY <2>0, <2>1, LaunchNames
       DEF getOrCreateSession, evictSession, isSessionAlive, Born, PoolInv, TypeOK
  <2>2. ASSUME NEW c \in Callers, ConnectionError(c)
        PROVE  call[c].phase = "opening" /\ call[c].on = sessions[k]
    BY <2>2, LaunchNames DEF ConnectionError, evictSession, PoolInv, TypeOK
  <2>3. ASSUME NEW l \in Launches, Disconnected(l)
        PROVE  browser[sessions[k]] \in {"down", "gone"}
    BY <2>3, LaunchNames DEF Disconnected, evictSession, PoolInv, TypeOK
  <2>4. ASSUME NEW l \in Launches, launchSession(l) PROVE FALSE
    BY <2>4, LaunchNames DEF launchSession, PoolInv, TypeOK
  <2>5. CASE Closed
    BY <2>5 DEF Closed
  <2>6. QED
    BY <2>1, <2>2, <2>3, <2>4, <2>5
       DEF PoolNext, createPage, Evicted, Resumes, Joined, Retry, NewPage, Profiled, LaunchFails,
           Drops, closeBrowser, Calms, closeAll, Drain
<1>2. QED
  BY <1>1, PoolInvariant, PTL DEF PoolSpec, ReplacementsStay

-----------------------------------------------------------------------------
(* Filters: the places are counted through one by one.                     *)

LEMMA PlacesAreCounted ==
  ASSUME NEW P \in SUBSET Nat, IsFiniteSet(P)
  PROVE  \E e \in Bijection(1 .. Cardinality(P), P) :
           \A s : Kept(s, P) = [n \in 1 .. Cardinality(P) |-> s[e[n]]]
<1> DEFINE upTo(i) == {j \in P : j <= i}
           pos(n) == CHOOSE i \in P : Cardinality(upTo(i)) = n
           rank == [i \in P |-> Cardinality(upTo(i))]
           e == [n \in 1 .. Cardinality(P) |-> pos(n)]
<1>1. Cardinality(P) \in Nat
  BY FS_CardinalityType
<1>2. ASSUME NEW i \in P
      PROVE  /\ IsFiniteSet(upTo(i)) /\ Cardinality(upTo(i)) \in 1 .. Cardinality(P)
  <2>1. upTo(i) \in SUBSET P /\ i \in upTo(i)
    OBVIOUS
  <2>2. IsFiniteSet(upTo(i)) /\ Cardinality(upTo(i)) <= Cardinality(P)
    BY <2>1, FS_Subset
  <2>3. Cardinality(upTo(i)) \in Nat /\ Cardinality(upTo(i)) # 0
    BY <2>1, <2>2, FS_CardinalityType, FS_EmptySet
  <2> QED BY <1>1, <2>2, <2>3
<1>3. ASSUME NEW i \in P, NEW j \in P, Cardinality(upTo(i)) = Cardinality(upTo(j)), i < j
      PROVE  FALSE
  <2>1. /\ i \in Nat /\ j \in Nat /\ i < j
        /\ j <= j /\ ~(j <= i) /\ \A k \in P : k <= i => k <= j
    BY <1>3
  <2>2. upTo(i) \in SUBSET upTo(j) /\ j \in upTo(j) /\ j \notin upTo(i)
    BY <2>1, Zenon
  <2>3. upTo(j) = upTo(i)
    BY <1>2, <1>3, <2>2, FS_Subset
  <2> QED BY <2>2, <2>3
<1>4. rank \in Injection(P, 1 .. Cardinality(P))
  <2>1. rank \in [P -> 1 .. Cardinality(P)]
    BY <1>2
  <2>2. \A i, j \in P : rank[i] = rank[j] => i = j
    BY <1>3
  <2> QED BY <2>1, <2>2 DEF Injection, IsInjective
<1>5. \A n \in 1 .. Cardinality(P) : \E i \in P : rank[i] = n
  <2>1. IsFiniteSet(1 .. Cardinality(P)) /\ Cardinality(1 .. Cardinality(P)) = Cardinality(P)
    BY <1>1, FS_Interval
  <2>2. rank \in Surjection(P, 1 .. Cardinality(P))
    BY <1>4, <2>1, FS_Injection
  <2> QED BY <2>2 DEF Surjection
<1>6. \A n \in 1 .. Cardinality(P) : pos(n) \in P /\ rank[pos(n)] = n
  <2> SUFFICES ASSUME NEW n \in 1 .. Cardinality(P) PROVE pos(n) \in P /\ rank[pos(n)] = n
    OBVIOUS
  <2>1. \E i \in P : Cardinality(upTo(i)) = n
    BY <1>5
  <2> QED BY <2>1
<1>7. \A s : Kept(s, P) = [n \in 1 .. Cardinality(P) |-> s[pos(n)]]
  BY DEF Kept
<1> HIDE DEF pos, rank
<1>8. \A i \in P : \E n \in 1 .. Cardinality(P) : e[n] = i
  <2> SUFFICES ASSUME NEW i \in P PROVE e[rank[i]] = i /\ rank[i] \in 1 .. Cardinality(P)
    OBVIOUS
  <2>1. rank[i] \in 1 .. Cardinality(P)
    BY <1>4 DEF Injection
  <2>2. pos(rank[i]) \in P /\ rank[pos(rank[i])] = rank[i]
    BY <1>6, <2>1
  <2> QED BY <1>4, <2>1, <2>2 DEF Injection, IsInjective
<1>9. e \in [1 .. Cardinality(P) -> P] /\ \A m, n \in 1 .. Cardinality(P) : e[m] = e[n] => m = n
  BY <1>6
<1>10. e \in Bijection(1 .. Cardinality(P), P)
  BY <1>8, <1>9 DEF Bijection, Injection, IsInjective, Surjection
<1> QED BY <1>7, <1>10

LEMMA KeptIsASequence ==
  ASSUME NEW s, NEW P \in SUBSET Nat, IsFiniteSet(P), NEW V, \A i \in P : s[i] \in V
  PROVE  Kept(s, P) \in Seq(V)
<1>1. PICK e \in Bijection(1 .. Cardinality(P), P) : Kept(s, P) = [n \in 1 .. Cardinality(P) |-> s[e[n]]]
  BY PlacesAreCounted
<1>2. Cardinality(P) \in Nat
  BY FS_CardinalityType
<1>3. \A n \in 1 .. Cardinality(P) : s[e[n]] \in V
  BY <1>1 DEF Bijection, Injection
<1> QED BY <1>1, <1>2, <1>3

\* Of a sequence any part is a sequence of elements that fit.
LEMMA PartsAreSequences ==
  ASSUME NEW V, NEW s \in Seq(V), NEW P, P \subseteq DOMAIN s
  PROVE  Kept(s, P) \in Seq({s[i] : i \in P})
<1>1. DOMAIN s = 1 .. Len(s) /\ Len(s) \in Nat
  OBVIOUS
<1>2. IsFiniteSet(1 .. Len(s))
  BY <1>1, FS_Interval
<1>3. P \in SUBSET Nat /\ IsFiniteSet(P)
  BY <1>1, <1>2, FS_Subset
<1> QED BY <1>3, KeptIsASequence

LEMMA KeptInType ==
  ASSUME NEW V, NEW s \in Seq(V), NEW P, P \subseteq DOMAIN s
  PROVE  Kept(s, P) \in Seq(V)
<1>1. {s[i] : i \in P} \subseteq V
  OBVIOUS
<1> QED BY <1>1, PartsAreSequences, SeqMonotonic

-----------------------------------------------------------------------------
(* The parts of a crawl share no state: each behaves as if it were alone.  *)

LEMMA PartsStep ==
  ASSUME [SpidersNext]_spiderVars
  PROVE  /\ [L!Next]_(L!vars) /\ [A!Next]_(A!vars) /\ [K!Next]_(K!tiktokVars) /\ [G!Next]_(G!instagramVars)
         /\ [Y!Next]_(Y!channelVars) /\ [M!Next]_(M!vars) /\ [H!Next]_(H!vars)
<1>1. (SpidersNext /\ part = "api") \/ UNCHANGED apiVars
  BY DEF SpidersNext, Rest, spiderVars
<1>2. (SpidersNext /\ part = "tiktok") \/ UNCHANGED tiktokVars
  BY DEF SpidersNext, Rest, spiderVars
<1>3. (SpidersNext /\ part = "instagram") \/ UNCHANGED instaVars
  BY DEF SpidersNext, Rest, spiderVars
<1>4. (SpidersNext /\ part = "channel") \/ UNCHANGED channelVars
  BY DEF SpidersNext, Rest, spiderVars
<1>5. (SpidersNext /\ part = "llm") \/ UNCHANGED llmVars
  BY DEF SpidersNext, Rest, spiderVars
<1>0. [L!Next]_(L!vars)
  <2>1. (SpidersNext /\ part = "list") \/ UNCHANGED listVars
    BY DEF SpidersNext, Rest, spiderVars
  <2> QED BY <2>1 DEF SpidersNext, listVars, L!vars, L!round
<1>6. [A!Next]_(A!vars)
  BY <1>1 DEF SpidersNext, apiVars, A!vars, A!cache
<1>7. [K!Next]_(K!tiktokVars)
  BY <1>2 DEF SpidersNext, tiktokVars, K!tiktokVars
<1>8. [G!Next]_(G!instagramVars)
  BY <1>3 DEF SpidersNext, instaVars, G!instagramVars
<1>9. [Y!Next]_(Y!channelVars)
  BY <1>4 DEF SpidersNext, channelVars, Y!channelVars
<1>10. [M!Next]_(M!vars)
  BY <1>5 DEF SpidersNext, llmVars, M!vars, M!memory
<1>11. [H!Next]_(H!vars)
  <2>1. (SpidersNext /\ part = "page") \/ UNCHANGED pageVars
    BY DEF SpidersNext, Rest, spiderVars
  <2> QED BY <2>1 DEF SpidersNext, pageVars, H!vars
<1> QED BY <1>0, <1>6, <1>7, <1>8, <1>9, <1>10, <1>11

LEMMA PartsBehave ==
  SpidersSpec =>
    /\ L!Init /\ [][L!Next]_(L!vars)
    /\ A!Init /\ [][A!Next]_(A!vars)
    /\ K!Init /\ [][K!Next]_(K!tiktokVars)
    /\ G!Init /\ [][G!Next]_(G!instagramVars)
    /\ Y!Init /\ [][Y!Next]_(Y!channelVars)
    /\ M!Init /\ [][M!Next]_(M!vars)
    /\ H!Init /\ [][H!Next]_(H!vars)
<1>1. SpidersInit => L!Init /\ A!Init /\ K!Init /\ G!Init /\ Y!Init /\ M!Init /\ H!Init
  BY DEF SpidersInit
<1> QED BY <1>1, PartsStep, PTL DEF SpidersSpec

-----------------------------------------------------------------------------
(* The circuits of the processor.                                          *)

StateRow == [failures : Nat, openUntil : Nat]

CircuitTyped ==
  /\ now \in Nat
  /\ failures \in [Providers -> Nat] /\ openUntil \in [Providers -> Nat]
  /\ lastError \in [Providers -> BOOLEAN]
  /\ stored \in [Providers -> StateRow \cup {None}]

\* There is a row exactly while an error is remembered; it counts the
\* failures in a row, and an opening that still runs ends when it says.
StoreAgrees ==
  \A l \in Providers :
    /\ stored[l] = None => failures[l] = 0 /\ ~lastError[l]
    /\ stored[l] # None =>
         /\ lastError[l] /\ stored[l].failures = failures[l]
         /\ openUntil[l] > now \/ stored[l].openUntil > now
              => openUntil[l] = stored[l].openUntil

CircuitInv == CircuitTyped /\ StoreAgrees

LEMMA CircuitInitHolds == M!Init => CircuitInv
  BY DEF M!Init, CircuitInv, CircuitTyped, StoreAgrees

\* What a step does to the circuits.
LEMMA CircuitSteps ==
  ASSUME M!Next
  PROVE  \/ UNCHANGED <<now, M!memory, stored>>
         \/ \E t \in Texts : M!Succeeds(t)
         \/ \E l : M!recordFailure(l) /\ UNCHANGED now
         \/ M!unfreeze \/ M!Restart \/ M!Tick
<1>1. \A t : M!process(t) => UNCHANGED <<now, M!memory, stored>>
  BY DEF M!process
<1>2. \A t : M!maybeWriteSchedules(t) \/ M!ClientError(t) => UNCHANGED <<now, M!memory, stored>>
  BY DEF M!maybeWriteSchedules, M!ClientError
<1>3. ASSUME NEW t, M!AttemptFails(t)
      PROVE  \/ UNCHANGED <<now, M!memory, stored>>
             \/ M!recordFailure(text[t].leg) /\ UNCHANGED now
  BY <1>3 DEF M!AttemptFails
<1>4. QED
  BY <1>1, <1>2, <1>3 DEF M!Next, M!Answers

LEMMA CircuitStepHolds ==
  ASSUME Cooldown \in Nat, None \notin StateRow, CircuitInv, [M!Next]_(M!vars)
  PROVE  CircuitInv'
<1>1. CASE UNCHANGED <<now, M!memory, stored>>
  BY <1>1 DEF CircuitInv, CircuitTyped, StoreAgrees, M!memory
<1>2. ASSUME NEW t \in Texts, M!Succeeds(t)
      PROVE  CircuitInv'
  BY <1>2 DEF CircuitInv, CircuitTyped, StoreAgrees, M!Succeeds
<1>3. ASSUME NEW l, M!recordFailure(l), UNCHANGED now
      PROVE  CircuitInv'
  <2>1. CASE l \notin Providers
    <3>1. UNCHANGED <<failures, lastError, openUntil, stored>>
      BY <1>3, <2>1 DEF M!recordFailure, CircuitInv, CircuitTyped
    <3>2. QED
      BY <1>1, <1>3, <3>1 DEF M!memory
  <2>2. CASE l \in Providers
    <3>1. /\ failures' \in [Providers -> Nat] /\ failures'[l] = failures[l] + 1
          /\ openUntil' \in [Providers -> Nat]
          /\ lastError' \in [Providers -> BOOLEAN] /\ lastError'[l]
      BY <1>3, <2>2 DEF M!recordFailure, CircuitInv, CircuitTyped
    <3>2. /\ stored' = [stored EXCEPT ![l] = [failures |-> failures'[l], openUntil |-> openUntil'[l]]]
          /\ [failures |-> failures'[l], openUntil |-> openUntil'[l]] \in StateRow
      BY <1>3, <2>2, <3>1 DEF M!recordFailure, StateRow
    <3>3. CircuitTyped'
      BY <1>3, <3>1, <3>2 DEF CircuitInv, CircuitTyped
    <3>4. ASSUME NEW m \in Providers, m # l
          PROVE  /\ failures'[m] = failures[m] /\ openUntil'[m] = openUntil[m]
                 /\ lastError'[m] = lastError[m] /\ stored'[m] = stored[m]
      BY <1>3, <3>4 DEF M!recordFailure, CircuitInv, CircuitTyped
    <3>5. stored'[l] = [failures |-> failures'[l], openUntil |-> openUntil'[l]] /\ stored'[l] # None
      BY <2>2, <3>2 DEF CircuitInv, CircuitTyped
    <3>6. StoreAgrees'
      BY <1>3, <3>1, <3>4, <3>5 DEF CircuitInv, StoreAgrees
    <3>7. QED
      BY <3>3, <3>6 DEF CircuitInv
  <2>3. QED
    BY <2>1, <2>2
<1>4. CASE M!unfreeze
  BY <1>4 DEF CircuitInv, CircuitTyped, StoreAgrees, M!unfreeze
<1>5. CASE M!Restart
  <2>1. CircuitTyped'
    BY <1>5 DEF CircuitInv, CircuitTyped, M!Restart, StateRow
  <2>2. StoreAgrees'
    BY <1>5 DEF CircuitInv, CircuitTyped, StoreAgrees, M!Restart, StateRow
  <2>3. QED
    BY <2>1, <2>2 DEF CircuitInv
<1>6. CASE M!Tick
  BY <1>6 DEF CircuitInv, CircuitTyped, StoreAgrees, M!Tick, M!memory, StateRow
<1>7. CASE UNCHANGED M!vars
  BY <1>1, <1>7 DEF M!vars
<1>8. QED
  BY <1>1, <1>2, <1>3, <1>4, <1>5, <1>6, <1>7, CircuitSteps

LEMMA RestartForgetsNothing ==
  ASSUME CircuitInv, M!Next, restarts' # restarts, NEW l \in Providers
  PROVE  /\ failures'[l] = failures[l] /\ lastError'[l] = lastError[l]
         /\ (failures[l] > 0 /\ openUntil[l] > now) => openUntil'[l] = openUntil[l]
<1>1. M!Restart
  BY DEF M!Next, M!Answers, M!process, M!Succeeds, M!maybeWriteSchedules, M!ClientError, M!AttemptFails, M!unfreeze, M!Tick
<1>2. QED
  BY <1>1 DEF CircuitInv, CircuitTyped, StoreAgrees, M!Restart, StateRow

\* A restart restores the failures and every opening that a failure stands
\* behind, whatever was in flight before it (OpenAiProcessorClient's constructor).
THEOREM FailuresSurviveRestarts == SpidersSpec => RestartForgetsNoFailure
<1>1. CircuitInv /\ [M!Next]_(M!vars) => CircuitInv'
  BY SpidersAssumption, CircuitStepHolds DEF StateRow
<1>2. CircuitInv /\ [M!Next]_(M!vars) =>
        [restarts' # restarts =>
           \A l \in Providers :
             /\ failures'[l] = failures[l] /\ lastError'[l] = lastError[l]
             /\ (failures[l] > 0 /\ openUntil[l] > now) => openUntil'[l] = openUntil[l]]_(M!vars)
  BY RestartForgetsNothing
<1>3. QED
  BY <1>1, <1>2, CircuitInitHolds, PartsBehave, PTL DEF RestartForgetsNoFailure, M!RestartForgetsNoFailure

-----------------------------------------------------------------------------
(* The calls of the API clients.                                           *)

CallPhases == {"idle", "capture", "account", "wait", "look", "lookId", "token", "minting", "joined",
           "ask", "id", "send", "default"}

ApiCall ==
  [at : CallPhases, op : A!Ops, name : apiScene.names \cup {NoWorker}, capturing : BOOLEAN,
   attempt : {1, 2}, tries : Nat, token : BOOLEAN]

CallsTyped ==
  /\ apiCall \in [Workers -> ApiCall]
  /\ flight \in [apiScene.names -> Workers \cup {NoWorker}]
  /\ mint \in [A!Clients -> Workers \cup {NoWorker}]
  /\ \A w \in Workers : apiCall[w].at # "idle" => apiCall[w].name \in apiScene.names

\* Whoever looks an account up for another request is in the flight of its
\* name, and nobody else is; who waits finds somebody there.
LookupsAreFlights ==
  /\ \A w \in Workers :
       A!Looking(w) /\ apiCall[w].op # "byName" => flight[apiCall[w].name] = w
  /\ \A n \in apiScene.names : flight[n] # NoWorker =>
       A!Looking(flight[n]) /\ apiCall[flight[n]].op # "byName" /\ apiCall[flight[n]].name = n
  /\ \A w \in Workers : apiCall[w].at = "wait" => flight[apiCall[w].name] # NoWorker
  /\ \A w \in Workers : apiCall[w].at \in {"account", "wait"} => apiCall[w].op # "byName"

\* Likewise for the guest token of a client.
MintsAreOwned ==
  /\ \A w \in Workers : apiCall[w].at = "minting" => mint[ClientOf(w)] = w
  /\ \A c \in A!Clients : mint[c] # NoWorker =>
       apiCall[mint[c]].at = "minting" /\ ClientOf(mint[c]) = c
  /\ \A w \in Workers : apiCall[w].at = "joined" => mint[ClientOf(w)] # NoWorker

ApiInv == CallsTyped /\ LookupsAreFlights /\ MintsAreOwned

LEMMA ApiInitHolds == A!Init => ApiInv
BY SpidersAssumption DEF A!Init, ApiInv, CallsTyped, LookupsAreFlights, MintsAreOwned, A!Idle, ApiCall, CallPhases,
   A!Ops, A!Looking

\* A step of w that moves no flight and no mint.
Moves(w) ==
  /\ \E r \in ApiCall : apiCall' = [apiCall EXCEPT ![w] = r] /\ (r.at # "idle" => r.name \in apiScene.names)
  /\ UNCHANGED <<apiScene, flight, mint>>

LEMMA MoveKeeps ==
  ASSUME ApiInv, NEW w \in Workers, Moves(w),
         A!Looking(w) /\ apiCall[w].op # "byName"
           => A!Looking(w)' /\ apiCall'[w].op # "byName" /\ apiCall'[w].name = apiCall[w].name,
         A!Looking(w)' => apiCall'[w].op = "byName" \/ (A!Looking(w) /\ apiCall[w].op # "byName"),
         apiCall[w].at # "minting", apiCall'[w].at # "minting",
         apiCall'[w].at = "wait" => flight[apiCall'[w].name] # NoWorker,
         apiCall'[w].at \in {"account", "wait"} => apiCall'[w].op # "byName",
         apiCall'[w].at = "joined" => mint[ClientOf(w)] # NoWorker
  PROVE  ApiInv'
<1>1. PICK r \in ApiCall : apiCall' = [apiCall EXCEPT ![w] = r] /\ (r.at # "idle" => r.name \in apiScene.names)
  BY DEF Moves
<1>2. apiCall'[w] = r /\ \A v \in Workers : v # w => apiCall'[v] = apiCall[v]
  BY <1>1 DEF ApiInv, CallsTyped
<1>3. UNCHANGED <<apiScene, flight, mint>>
  BY DEF Moves
<1>4. CallsTyped'
  BY <1>1, <1>2, <1>3 DEF ApiInv, CallsTyped, ApiCall
<1>5. LookupsAreFlights'
  BY <1>2, <1>3, SpidersAssumption DEF ApiInv, CallsTyped, LookupsAreFlights, A!Looking
<1>6. MintsAreOwned'
  BY <1>2, <1>3, SpidersAssumption DEF ApiInv, CallsTyped, MintsAreOwned, A!Clients
<1> QED BY <1>4, <1>5, <1>6 DEF ApiInv

\* What a move does is told by the record of its worker.
LEMMA GotoMoves ==
  ASSUME CallsTyped, NEW w \in Workers, NEW p \in CallPhases, A!Goto(w, p), apiCall[w].at # "idle",
         UNCHANGED <<apiScene, flight, mint>>
  PROVE  /\ Moves(w) /\ apiCall'[w].at = p
         /\ apiCall'[w].op = apiCall[w].op /\ apiCall'[w].name = apiCall[w].name
<1>1. PICK r : r = [apiCall[w] EXCEPT !.at = p]
  OBVIOUS
<1>2. r \in ApiCall /\ r.at = p /\ r.op = apiCall[w].op /\ r.name = apiCall[w].name
  <2>1. apiCall[w] \in ApiCall
    BY DEF CallsTyped
  <2> QED BY <1>1, <2>1 DEF ApiCall
<1>3. apiCall' = [apiCall EXCEPT ![w] = r] /\ apiCall'[w] = r
  BY <1>1 DEF A!Goto, CallsTyped
<1> QED BY <1>2, <1>3 DEF Moves, CallsTyped

LEMMA ResetMoves ==
  ASSUME CallsTyped, NEW w \in Workers, apiCall' = [apiCall EXCEPT ![w] = A!Idle],
         UNCHANGED <<apiScene, flight, mint>>
  PROVE  Moves(w) /\ apiCall'[w].at = "idle"
<1>1. A!Idle \in ApiCall /\ A!Idle.at = "idle"
  BY DEF A!Idle, ApiCall, CallPhases, A!Ops
<1> QED BY <1>1 DEF Moves, CallsTyped

LEMMA FrameKeeps ==
  ASSUME ApiInv, UNCHANGED <<apiScene, flight, mint, apiCall>>
  PROVE  ApiInv'
BY DEF ApiInv, CallsTyped, LookupsAreFlights, MintsAreOwned, A!Looking, ApiCall

\* The steps that only move their worker.
LEMMA WalksKeep ==
  ASSUME ApiInv, NEW w \in Workers,
         A!Prepare(w) \/ A!Known(w) \/ A!Join(w) \/ A!PrepareLookUp(w) \/ A!HaveId(w)
  PROVE  ApiInv'
<1>0. CallsTyped /\ apiCall[w].op \in A!Ops
  BY DEF ApiInv, CallsTyped, ApiCall
<1>1. CASE A!Prepare(w)
  <2>1. PICK p \in {"account", "id"} : A!Goto(w, p) /\ (p = "account" => apiCall[w].op \in {"tweets", "replies"})
    BY <1>1 DEF A!Prepare, A!Capture
  <2>2. apiCall[w].at = "capture" /\ UNCHANGED <<apiScene, flight, mint>>
    BY <1>1 DEF A!Prepare, A!Capture
  <2> QED BY <1>0, <2>1, <2>2, GotoMoves, MoveKeeps DEF CallPhases, A!Looking
<1>2. CASE A!Known(w)
  <2>1. apiCall[w].at = "account" /\ A!Goto(w, "id") /\ UNCHANGED <<apiScene, flight, mint>>
    BY <1>2 DEF A!Known, A!cache
  <2> QED BY <1>0, <2>1, GotoMoves, MoveKeeps DEF CallPhases, A!Looking
<1>3. CASE A!Join(w)
  <2>1. /\ apiCall[w].at = "account" /\ A!Goto(w, "wait") /\ UNCHANGED <<apiScene, flight, mint>>
        /\ flight[apiCall[w].name] # NoWorker
    BY <1>3 DEF A!Join, A!IsUnknown
  <2>2. apiCall[w].op # "byName"
    BY <2>1 DEF ApiInv, LookupsAreFlights
  <2> QED BY <1>0, <2>1, <2>2, GotoMoves, MoveKeeps DEF CallPhases, A!Looking
<1>4. CASE A!PrepareLookUp(w)
  <2>1. apiCall[w].at = "look" /\ A!Goto(w, "lookId") /\ UNCHANGED <<apiScene, flight, mint>>
    BY <1>4 DEF A!PrepareLookUp, A!Capture
  <2> QED BY <1>0, <2>1, GotoMoves, MoveKeeps DEF CallPhases, A!Looking
<1>5. CASE A!HaveId(w)
  <2>1. UNCHANGED <<apiScene, flight, mint>>
    BY <1>5 DEF A!HaveId
  <2>2. CASE A!Looking(w)
    <3>1. apiCall[w].at = "lookId" /\ A!Goto(w, "token")
      BY <1>5, <2>2 DEF A!HaveId, A!Looking
    <3> QED BY <1>0, <2>1, <3>1, GotoMoves, MoveKeeps DEF CallPhases, A!Looking
  <2>3. CASE ~A!Looking(w)
    <3>1. apiCall[w].at = "id" /\ A!Goto(w, "send")
      BY <1>5, <2>3 DEF A!HaveId, A!Looking
    <3> QED BY <1>0, <2>1, <3>1, GotoMoves, MoveKeeps DEF CallPhases, A!Looking
  <2> QED BY <2>2, <2>3
<1> QED BY <1>1, <1>2, <1>3, <1>4, <1>5

\* A call begins.
LEMMA CallKeeps ==
  ASSUME ApiInv, NEW w \in Workers, NEW op \in A!Ops, NEW n \in apiScene.names, A!Call(w, op, n)
  PROVE  ApiInv'
<1>1. PICK r : r = [A!Idle EXCEPT !.at = IF op = "byName" THEN "look" ELSE "capture", !.op = op, !.name = n]
  OBVIOUS
<1>2. /\ r \in ApiCall /\ r.op = op /\ r.name = n
      /\ r.at = (IF op = "byName" THEN "look" ELSE "capture")
  BY <1>1 DEF A!Idle, ApiCall, CallPhases, A!Ops
<1>3. /\ apiCall' = [apiCall EXCEPT ![w] = r] /\ apiCall[w] = A!Idle
      /\ UNCHANGED <<apiScene, flight, mint>>
  BY <1>1 DEF A!Call
<1>4. Moves(w) /\ apiCall'[w] = r
  BY <1>2, <1>3 DEF Moves, ApiInv, CallsTyped
<1>5. apiCall[w].at = "idle"
  BY <1>3 DEF A!Idle
<1> QED BY <1>2, <1>4, <1>5, MoveKeeps DEF A!Looking

\* The lookup of w ends, for it and for everyone who waits for it.
LEMMA SettledKeeps ==
  ASSUME ApiInv, NEW w \in Workers, NEW ok \in BOOLEAN, A!Settled(w, ok),
         apiCall[w].at \in {"lookId", "id", "ask"}, UNCHANGED <<apiScene, mint>>
  PROVE  ApiInv'
<1>1. \A v \in Workers : apiCall'[v] = IF v \notin A!Party(w) THEN apiCall[v]
         ELSE IF ok /\ apiCall[v].op # "byName" THEN [apiCall[v] EXCEPT !.at = "id", !.tries = 0]
         ELSE A!Idle
  BY DEF A!Settled
<1>2. \A v \in A!Party(w) : v \in Workers /\ (v = w \/ apiCall[v].at = "wait")
  BY DEF A!Party
<1>3. A!Idle \in ApiCall /\ A!Idle.at = "idle"
  BY DEF A!Idle, ApiCall, CallPhases, A!Ops
<1>4. \A v \in Workers :
        /\ apiCall'[v] \in ApiCall
        /\ v \notin A!Party(w) => apiCall'[v] = apiCall[v]
        /\ v \in A!Party(w) => apiCall'[v].at = "idle" \/ (apiCall'[v].at = "id" /\ apiCall'[v].name = apiCall[v].name)
  <2> SUFFICES ASSUME NEW v \in Workers
               PROVE  /\ apiCall'[v] \in ApiCall
                      /\ v \notin A!Party(w) => apiCall'[v] = apiCall[v]
                      /\ v \in A!Party(w) => apiCall'[v].at = "idle" \/ (apiCall'[v].at = "id" /\ apiCall'[v].name = apiCall[v].name)
    OBVIOUS
  <2>1. PICK r : r = [apiCall[v] EXCEPT !.at = "id", !.tries = 0]
    OBVIOUS
  <2>0. apiCall[v] \in ApiCall
    BY DEF ApiInv, CallsTyped
  <2>2. r \in ApiCall /\ r.at = "id" /\ r.name = apiCall[v].name
    BY <2>0, <2>1 DEF ApiCall, CallPhases
  <2>3. apiCall'[v] \in {apiCall[v], r, A!Idle} /\ (v \notin A!Party(w) => apiCall'[v] = apiCall[v])
        /\ (v \in A!Party(w) => apiCall'[v] \in {r, A!Idle})
    BY <1>1, <2>1
  <2> QED BY <1>3, <2>0, <2>2, <2>3
<1>5. /\ \A n \in apiScene.names : flight'[n] = IF flight[n] = w THEN NoWorker ELSE flight[n]
      /\ DOMAIN apiCall' = Workers /\ apiCall' = [v \in Workers |-> apiCall'[v]]
      /\ flight' \in [apiScene.names -> Workers \cup {NoWorker}]
  BY DEF A!Settled, ApiInv, CallsTyped
<1>6. CallsTyped'
  <2>1. apiCall' \in [Workers -> ApiCall]
    BY <1>4, <1>5
  <2>2. \A v \in Workers : apiCall'[v].at # "idle" => apiCall'[v].name \in apiScene.names
    BY <1>2, <1>4 DEF ApiInv, CallsTyped
  <2> QED BY <1>5, <2>1, <2>2 DEF ApiInv, CallsTyped, ApiCall
<1>7. \A v \in Workers : v \notin A!Party(w) /\ apiCall[v].at = "wait" => flight[apiCall[v].name] # w
  <2> SUFFICES ASSUME NEW v \in Workers, apiCall[v].at = "wait", flight[apiCall[v].name] = w
               PROVE  v \in A!Party(w)
    OBVIOUS
  <2>1. apiCall[v].name \in apiScene.names
    BY DEF ApiInv, CallsTyped
  <2>2. apiCall[w].name = apiCall[v].name
    BY <2>1, SpidersAssumption DEF ApiInv, LookupsAreFlights
  <2> QED BY <2>2 DEF A!Party
<1>8. LookupsAreFlights'
  <2>1. ASSUME NEW v \in Workers, A!Looking(v)', apiCall'[v].op # "byName"
        PROVE  flight'[apiCall'[v].name] = v
    <3>1. v \notin A!Party(w) /\ v # w
      BY <1>4, <2>1 DEF A!Looking, A!Party
    <3>2. apiCall'[v] = apiCall[v] /\ flight[apiCall[v].name] = v /\ apiCall[v].name \in apiScene.names
      BY <1>4, <2>1, <3>1 DEF A!Looking, ApiInv, LookupsAreFlights, CallsTyped
    <3> QED BY <1>5, <3>1, <3>2
  <2>2. ASSUME NEW n \in apiScene.names, flight'[n] # NoWorker
        PROVE  (A!Looking(flight[n]) /\ apiCall[flight[n]].op # "byName" /\ apiCall[flight[n]].name = n)'
    <3>1. flight'[n] = flight[n] /\ flight[n] # w /\ flight[n] \in Workers
      BY <1>5, <2>2 DEF ApiInv, CallsTyped
    <3>2. A!Looking(flight[n]) /\ apiCall[flight[n]].op # "byName" /\ apiCall[flight[n]].name = n
      BY <2>2, <3>1 DEF ApiInv, LookupsAreFlights
    <3>3. flight[n] \notin A!Party(w)
      BY <1>2, <3>1, <3>2 DEF A!Looking
    <3> QED BY <1>4, <3>1, <3>2, <3>3 DEF A!Looking
  <2>3. ASSUME NEW v \in Workers, apiCall'[v].at = "wait" PROVE flight'[apiCall'[v].name] # NoWorker
    <3>1. v \notin A!Party(w) /\ apiCall'[v] = apiCall[v]
      BY <1>4, <2>3
    <3> QED BY <1>5, <1>7, <2>3, <3>1 DEF ApiInv, LookupsAreFlights, CallsTyped
  <2>4. ASSUME NEW v \in Workers, apiCall'[v].at \in {"account", "wait"} PROVE apiCall'[v].op # "byName"
    BY <1>4, <2>4 DEF ApiInv, LookupsAreFlights
  <2>5. apiScene' = apiScene
    OBVIOUS
  <2> QED BY <2>1, <2>2, <2>3, <2>4, <2>5 DEF LookupsAreFlights
<1>9. MintsAreOwned'
  <2>1. \A v \in A!Party(w) : apiCall[v].at \notin {"minting", "joined"} /\ apiCall'[v].at \in {"idle", "id"}
    BY <1>2, <1>4
  <2> QED BY <1>4, <2>1 DEF ApiInv, CallsTyped, MintsAreOwned, A!Clients
<1> QED BY <1>6, <1>8, <1>9 DEF ApiInv

\* A lookup and a minting begin.
LEMMA LookUpKeeps ==
  ASSUME ApiInv, NEW w \in Workers, A!LookUp(w)
  PROVE  ApiInv'
<1>1. PICK r : r = [apiCall[w] EXCEPT !.at = "look"]
  OBVIOUS
<1>2. /\ r \in ApiCall /\ r.at = "look" /\ r.op = apiCall[w].op /\ r.name = apiCall[w].name
      /\ apiCall[w].at = "account" /\ r.name \in apiScene.names /\ r.op # "byName"
  <2>1. apiCall[w] \in ApiCall /\ apiCall[w].at = "account"
    BY DEF A!LookUp, A!IsUnknown, ApiInv, CallsTyped
  <2>2. apiCall[w].name \in apiScene.names /\ apiCall[w].op # "byName"
    BY <2>1 DEF ApiInv, CallsTyped, LookupsAreFlights
  <2> QED BY <1>1, <2>1, <2>2 DEF ApiCall, CallPhases
<1>3. /\ apiCall' = [apiCall EXCEPT ![w] = r] /\ flight' = [flight EXCEPT ![r.name] = w]
      /\ flight[r.name] = NoWorker /\ UNCHANGED <<apiScene, mint>>
  BY <1>1, <1>2 DEF A!LookUp, A!Goto
<1>4. apiCall'[w] = r /\ \A v \in Workers : v # w => apiCall'[v] = apiCall[v]
  BY <1>3 DEF ApiInv, CallsTyped
<1>5. CallsTyped'
  BY <1>2, <1>3, <1>4 DEF ApiInv, CallsTyped, ApiCall
<1>6. LookupsAreFlights'
  <2>1. flight'[r.name] = w /\ \A n \in apiScene.names : n # r.name => flight'[n] = flight[n]
    BY <1>2, <1>3 DEF ApiInv, CallsTyped
  <2>2. \A v \in Workers : apiCall[v].at # "idle" => apiCall[v].name \in apiScene.names
    BY DEF ApiInv, CallsTyped
  <2>3. \A n \in apiScene.names : flight[n] \in Workers \cup {NoWorker} /\ flight[n] # w
    <3>1. flight \in [apiScene.names -> Workers \cup {NoWorker}] /\ w # NoWorker
      BY SpidersAssumption DEF ApiInv, CallsTyped
    <3>2. \A n \in apiScene.names : flight[n] # NoWorker => A!Looking(flight[n])
      BY DEF ApiInv, LookupsAreFlights
    <3>3. ~A!Looking(w)
      BY <1>2 DEF A!Looking
    <3> QED BY <3>1, <3>2, <3>3
  <2>4. \A v \in Workers : apiCall[v].at = "wait" => flight[apiCall[v].name] # NoWorker
    BY DEF ApiInv, LookupsAreFlights
  <2>5. \A v \in Workers : A!Looking(v) /\ apiCall[v].op # "byName" => flight[apiCall[v].name] = v
    BY DEF ApiInv, LookupsAreFlights
  <2>6. ASSUME NEW v \in Workers, A!Looking(v)', apiCall'[v].op # "byName"
        PROVE  flight'[apiCall'[v].name] = v
    <3>1. CASE v = w
      BY <3>1, <1>4, <2>1
    <3>2. CASE v # w
      <4>1. A!Looking(v) /\ apiCall[v].op # "byName" /\ apiCall[v].name \in apiScene.names
        BY <3>2, <2>6, <1>4, <2>2 DEF A!Looking
      <4>2. apiCall[v].name # r.name
        BY <4>1, <2>5, <1>3, SpidersAssumption
      <4> QED BY <3>2, <4>1, <4>2, <2>1, <2>5, <1>4
    <3> QED BY <3>1, <3>2
  <2>7. ASSUME NEW n \in apiScene.names, flight'[n] # NoWorker
        PROVE  (A!Looking(flight[n]) /\ apiCall[flight[n]].op # "byName" /\ apiCall[flight[n]].name = n)'
    <3>1. CASE n = r.name
      BY <3>1, <1>2, <1>4, <2>1 DEF A!Looking
    <3>2. CASE n # r.name
      BY <3>2, <2>7, <2>1, <2>3, <1>4 DEF A!Looking, ApiInv, LookupsAreFlights
    <3> QED BY <3>1, <3>2
  <2>8. ASSUME NEW v \in Workers, apiCall'[v].at = "wait" PROVE flight'[apiCall'[v].name] # NoWorker
    BY <2>8, <2>1, <2>2, <2>4, <1>2, <1>4, SpidersAssumption
  <2>9. ASSUME NEW v \in Workers, apiCall'[v].at \in {"account", "wait"} PROVE apiCall'[v].op # "byName"
    BY <2>9, <1>4, <1>2 DEF ApiInv, LookupsAreFlights
  <2> QED BY <2>6, <2>7, <2>8, <2>9, <1>3 DEF LookupsAreFlights
<1>7. MintsAreOwned'
  BY <1>2, <1>3, <1>4 DEF ApiInv, CallsTyped, MintsAreOwned, A!Clients
<1> QED BY <1>5, <1>6, <1>7 DEF ApiInv

LEMMA TokenKeeps ==
  ASSUME ApiInv, NEW w \in Workers, A!Token(w)
  PROVE  ApiInv'
<1>0. /\ apiCall[w].at = "token" /\ UNCHANGED <<apiScene, flight>> /\ ClientOf(w) \in A!Clients
      /\ apiCall[w].name \in apiScene.names /\ CallsTyped /\ apiCall[w] \in ApiCall
  BY DEF A!Token, A!Clients, ApiInv, CallsTyped
<1>1. CASE apiCall' = [apiCall EXCEPT ![w].at = "ask", ![w].token = TRUE] /\ UNCHANGED mint
  <2>1. PICK r : r = [apiCall[w] EXCEPT !.at = "ask", !.token = TRUE]
    OBVIOUS
  <2>2. r \in ApiCall /\ r.at = "ask" /\ r.op = apiCall[w].op /\ r.name = apiCall[w].name
    BY <2>1, <1>0 DEF ApiCall, CallPhases
  <2>3. apiCall' = [apiCall EXCEPT ![w] = r] /\ apiCall'[w] = r
    BY <1>0, <1>1, <2>1 DEF CallsTyped
  <2>4. Moves(w)
    BY <1>0, <1>1, <2>2, <2>3 DEF Moves
  <2> QED BY <1>0, <2>2, <2>3, <2>4, MoveKeeps DEF A!Looking
<1>2. CASE mint[ClientOf(w)] # NoWorker /\ A!Goto(w, "joined") /\ UNCHANGED mint
  BY <1>0, <1>2, GotoMoves, MoveKeeps DEF CallPhases, A!Looking
<1>3. CASE /\ mint[ClientOf(w)] = NoWorker
           /\ A!Goto(w, "minting") /\ mint' = [mint EXCEPT ![ClientOf(w)] = w]
  <2>1. PICK r : r = [apiCall[w] EXCEPT !.at = "minting"]
    OBVIOUS
  <2>2. r \in ApiCall /\ r.at = "minting" /\ r.op = apiCall[w].op /\ r.name = apiCall[w].name
    BY <2>1, <1>0 DEF ApiCall, CallPhases
  <2>3. apiCall' = [apiCall EXCEPT ![w] = r]
    BY <1>3, <2>1 DEF A!Goto
  <2>4. apiCall'[w] = r /\ \A v \in Workers : v # w => apiCall'[v] = apiCall[v]
    BY <2>3, <1>0 DEF CallsTyped
  <2>5. CallsTyped'
    BY <1>0, <1>3, <2>2, <2>3, <2>4 DEF CallsTyped, ApiCall
  <2>6. LookupsAreFlights'
    BY <1>0, <2>2, <2>4, SpidersAssumption DEF ApiInv, CallsTyped, LookupsAreFlights, A!Looking
  <2>7. /\ mint'[ClientOf(w)] = w
        /\ \A c \in A!Clients : c # ClientOf(w) => mint'[c] = mint[c]
        /\ \A v \in Workers : ClientOf(v) \in A!Clients
    BY <1>0, <1>3 DEF CallsTyped, A!Clients
  <2>8. MintsAreOwned'
    BY <1>0, <1>3, <2>2, <2>4, <2>7, SpidersAssumption DEF ApiInv, CallsTyped, MintsAreOwned
  <2> QED BY <2>5, <2>6, <2>8 DEF ApiInv
<1> QED BY <1>1, <1>2, <1>3 DEF A!Token

LEMMA MintedKeeps ==
  ASSUME ApiInv, NEW w \in Workers, NEW ok \in BOOLEAN, A!Minted(w, ok)
  PROVE  ApiInv'
<1> DEFINE Told(v) == v = w \/ (apiCall[v].at = "joined" /\ ClientOf(v) = ClientOf(w))
<1>1. /\ apiCall[w].at = "minting" /\ UNCHANGED <<apiScene, flight>> /\ CallsTyped
      /\ mint' = [mint EXCEPT ![ClientOf(w)] = NoWorker]
      /\ apiCall' = [v \in Workers |-> apiCall'[v]]
  BY DEF A!Minted, ApiInv
<1>2. \A v \in Workers :
        /\ apiCall'[v] \in ApiCall /\ apiCall'[v].op = apiCall[v].op /\ apiCall'[v].name = apiCall[v].name
        /\ apiCall'[v].at = IF Told(v) THEN "ask" ELSE apiCall[v].at
  <2> SUFFICES ASSUME NEW v \in Workers
               PROVE  /\ apiCall'[v] \in ApiCall /\ apiCall'[v].op = apiCall[v].op
                      /\ apiCall'[v].name = apiCall[v].name
                      /\ apiCall'[v].at = IF Told(v) THEN "ask" ELSE apiCall[v].at
    OBVIOUS
  <2>1. PICK r : r = [apiCall[v] EXCEPT !.at = "ask", !.token = ok]
    OBVIOUS
  <2>0. apiCall[v] \in ApiCall
    BY <1>1 DEF CallsTyped
  <2>2. r \in ApiCall /\ r.at = "ask" /\ r.op = apiCall[v].op /\ r.name = apiCall[v].name
    BY <2>0, <2>1 DEF ApiCall, CallPhases
  <2>3. apiCall'[v] = IF Told(v) THEN r ELSE apiCall[v]
    BY <2>1 DEF A!Minted
  <2> QED BY <2>0, <2>2, <2>3
<1>3. \A v \in Workers : Told(v) => apiCall[v].at \in {"minting", "joined"}
  BY <1>1
<1>4. CallsTyped'
  BY <1>1, <1>2, <1>3 DEF CallsTyped, ApiCall
<1>5. LookupsAreFlights'
  <2>1. \A v \in Workers : /\ A!Looking(v)' <=> A!Looking(v)
                           /\ \A p \in {"account", "wait"} : apiCall'[v].at = p <=> apiCall[v].at = p
    BY <1>2, <1>3 DEF A!Looking
  <2>2. \A n \in apiScene.names : flight[n] \in Workers \cup {NoWorker}
    BY <1>1 DEF CallsTyped
  <2> QED BY <1>1, <1>2, <2>1, <2>2 DEF ApiInv, LookupsAreFlights
<1>6. MintsAreOwned'
  <2>1. /\ mint'[ClientOf(w)] = NoWorker /\ \A c \in A!Clients : c # ClientOf(w) => mint'[c] = mint[c]
        /\ \A v \in Workers : ClientOf(v) \in A!Clients
        /\ \A c \in A!Clients : mint[c] \in Workers \cup {NoWorker}
    BY <1>1 DEF CallsTyped, A!Clients
  <2>2. ASSUME NEW v \in Workers, apiCall'[v].at = "minting" PROVE mint'[ClientOf(v)] = v
    <3>1. apiCall[v].at = "minting" /\ v # w
      BY <1>2, <2>2
    <3>2. mint[ClientOf(v)] = v /\ mint[ClientOf(w)] = w
      BY <3>1, <1>1 DEF ApiInv, MintsAreOwned
    <3> QED BY <2>1, <3>1, <3>2
  <2>3. ASSUME NEW c \in A!Clients, mint'[c] # NoWorker
        PROVE  (apiCall[mint[c]].at = "minting" /\ ClientOf(mint[c]) = c)'
    <3>1. c # ClientOf(w) /\ mint'[c] = mint[c] /\ mint[c] \in Workers
      BY <2>1, <2>3
    <3>2. apiCall[mint[c]].at = "minting" /\ ClientOf(mint[c]) = c
      BY <2>3, <3>1 DEF ApiInv, MintsAreOwned
    <3> QED BY <1>2, <3>1, <3>2
  <2>4. ASSUME NEW v \in Workers, apiCall'[v].at = "joined" PROVE mint'[ClientOf(v)] # NoWorker
    <3>1. apiCall[v].at = "joined" /\ ClientOf(v) # ClientOf(w)
      BY <1>2, <2>4
    <3> QED BY <2>1, <3>1 DEF ApiInv, MintsAreOwned
  <2> QED BY <2>2, <2>3, <2>4 DEF MintsAreOwned
<1> QED BY <1>4, <1>5, <1>6 DEF ApiInv

\* A request is tried again where it stands.
LEMMA RetryMoves ==
  ASSUME CallsTyped, NEW w \in Workers, A!Retry(w), UNCHANGED <<apiScene, flight, mint>>
  PROVE  /\ Moves(w) /\ apiCall'[w].at = apiCall[w].at
         /\ apiCall'[w].op = apiCall[w].op /\ apiCall'[w].name = apiCall[w].name
<1>1. PICK r : r = [apiCall[w] EXCEPT !.tries = @ + 1]
  OBVIOUS
<1>2. r \in ApiCall /\ r.at = apiCall[w].at /\ r.op = apiCall[w].op /\ r.name = apiCall[w].name
  <2>1. apiCall[w] \in ApiCall
    BY DEF CallsTyped
  <2> QED BY <1>1, <2>1 DEF ApiCall
<1>3. apiCall' = [apiCall EXCEPT ![w] = r] /\ apiCall'[w] = r
  BY <1>1 DEF A!Retry, CallsTyped
<1> QED BY <1>2, <1>3 DEF Moves, CallsTyped

LEMMA RequestsKeep ==
  ASSUME ApiInv, NEW w \in Workers, NEW outcome \in A!Outcomes,
         A!ExtractNothing(w) \/ A!AskName(w, outcome) \/ A!Send(w, outcome)
  PROVE  ApiInv'
<1>0. CallsTyped /\ apiCall[w] \in ApiCall
  BY DEF ApiInv, CallsTyped
<1>1. CASE A!ExtractNothing(w)
  <2>1. apiCall[w].at \in {"lookId", "id"} /\ UNCHANGED <<apiScene, mint>>
    BY <1>1 DEF A!ExtractNothing
  <2>2. CASE A!Settled(w, FALSE)
    BY <2>1, <2>2, SettledKeeps
  <2>3. CASE A!Operation(w) \notin A!AccountScoped /\ A!Goto(w, "default") /\ UNCHANGED flight
    <3>1. apiCall[w].at = "id"
      BY <2>1, <2>3 DEF A!Operation, A!Looking, A!AccountScoped
    <3> QED BY <1>0, <2>1, <2>3, <3>1, GotoMoves, MoveKeeps DEF CallPhases, A!Looking
  <2> QED BY <1>1, <2>2, <2>3 DEF A!ExtractNothing
<1>2. CASE A!AskName(w, outcome)
  <2>1. apiCall[w].at = "ask" /\ UNCHANGED <<apiScene, mint>>
    BY <1>2 DEF A!AskName
  <2>2. CASE A!Retry(w) /\ UNCHANGED flight
    BY <1>0, <2>1, <2>2, RetryMoves, MoveKeeps DEF A!Looking
  <2>3. CASE A!Remint(w) /\ UNCHANGED flight
    <3>1. PICK r : r = [apiCall[w] EXCEPT !.at = "token", !.attempt = 2, !.tries = 0]
      OBVIOUS
    <3>2. r \in ApiCall /\ r.at = "token" /\ r.op = apiCall[w].op /\ r.name = apiCall[w].name
      BY <1>0, <3>1 DEF ApiCall, CallPhases
    <3>3. apiCall' = [apiCall EXCEPT ![w] = r] /\ apiCall'[w] = r
      BY <1>0, <2>3, <3>1 DEF A!Remint, CallsTyped
    <3>4. Moves(w)
      BY <1>0, <2>1, <2>3, <3>2, <3>3 DEF Moves, CallsTyped
    <3> QED BY <2>1, <3>2, <3>3, <3>4, MoveKeeps DEF A!Looking
  <2>4. ASSUME NEW ok \in BOOLEAN, A!Settled(w, ok) PROVE ApiInv'
    BY <2>1, <2>4, SettledKeeps
  <2>5. \/ A!Retry(w) /\ UNCHANGED flight
        \/ A!Remint(w) /\ UNCHANGED flight
        \/ \E ok \in BOOLEAN : A!Settled(w, ok)
    BY <1>2 DEF A!AskName
  <2> QED BY <2>2, <2>3, <2>4, <2>5
<1>3. CASE A!Send(w, outcome)
  <2>1. apiCall[w].at \in {"send", "default"} /\ UNCHANGED <<apiScene, flight, mint>>
    BY <1>3 DEF A!Send
  <2>2. CASE A!Retry(w)
    BY <1>0, <2>1, <2>2, RetryMoves, MoveKeeps DEF A!Looking
  <2>3. CASE apiCall' = [apiCall EXCEPT ![w] = A!Idle]
    BY <1>0, <2>1, <2>3, ResetMoves, MoveKeeps DEF A!Looking
  <2> QED BY <1>3, <2>2, <2>3 DEF A!Send
<1> QED BY <1>1, <1>2, <1>3

LEMMA ApiNextKeeps == ApiInv /\ [A!Next]_(A!vars) => ApiInv'
<1> SUFFICES ASSUME ApiInv, [A!Next]_(A!vars) PROVE ApiInv'
  OBVIOUS
<1>1. ASSUME NEW w \in Workers, A!Proceed(w) PROVE ApiInv'
  <2>1. CASE A!Extract(w)
    BY <2>1, FrameKeeps DEF A!Extract
  <2> QED BY <1>1, <2>1, WalksKeep, LookUpKeeps, TokenKeeps, MintedKeeps, RequestsKeep
          DEF A!Proceed, A!Outcomes
<1>2. CASE UNCHANGED A!vars \/ \E c \in A!Clients : A!Build(c)
  BY <1>2, FrameKeeps DEF A!vars, A!Build
<1>3. CASE (\E op \in A!Ops : A!Rotate(op)) \/ A!Age \/ A!Expire
  BY <1>3, FrameKeeps DEF A!Rotate, A!Age, A!Expire, A!cache
<1> QED BY <1>1, <1>2, <1>3, CallKeeps DEF A!Next

LEMMA ApiInvariant == SpidersSpec => []ApiInv
  BY ApiInitHolds, ApiNextKeeps, PartsBehave, PTL

\* However the workers of the crawls interleave, an account is looked up by one
\* of them at a time, and a client mints one guest token at a time (the maps of
\* pending lookups and tokens of x.ts).
THEOREM LookupsAreShared == SpidersSpec => []NoTwinRequests
<1>1. ApiInv => NoTwinRequests
  <2> SUFFICES ASSUME ApiInv, NEW v \in Workers, NEW w \in Workers
               PROVE  /\ A!Looking(v) /\ A!Looking(w) /\ "byName" \notin {apiCall[v].op, apiCall[w].op}
                         /\ apiCall[v].name = apiCall[w].name => v = w
                      /\ apiCall[v].at = "minting" /\ apiCall[w].at = "minting" /\ ClientOf(v) = ClientOf(w)
                           => v = w
    BY DEF NoTwinRequests, A!NoTwinRequests
  <2> QED BY DEF ApiInv, LookupsAreFlights, MintsAreOwned
<1> QED BY <1>1, ApiInvariant, PTL

\* Who waits for a lookup or for a guest token waits for one that is under way,
\* whoever gave up in between (x.ts).
THEOREM WaitsAreAnswered == SpidersSpec => []NobodyWaitsInVain
<1>1. ApiInv => NobodyWaitsInVain
  <2> SUFFICES ASSUME ApiInv, NEW w \in Workers
               PROVE  /\ apiCall[w].at = "wait" => /\ flight[apiCall[w].name] # NoWorker
                                                  /\ A!Looking(flight[apiCall[w].name])
                                                  /\ apiCall[flight[apiCall[w].name]].name = apiCall[w].name
                      /\ apiCall[w].at = "joined" => /\ mint[ClientOf(w)] # NoWorker
                                                    /\ apiCall[mint[ClientOf(w)]].at = "minting"
    BY DEF NobodyWaitsInVain, A!NobodyWaitsInVain
  <2>1. apiCall[w].at = "wait" => apiCall[w].name \in apiScene.names
    BY DEF ApiInv, CallsTyped
  <2> QED BY <2>1 DEF ApiInv, LookupsAreFlights, MintsAreOwned, A!Clients
<1> QED BY <1>1, ApiInvariant, PTL

-----------------------------------------------------------------------------
(* The rounds of TikTok.                                                   *)

RoundFields ==
  {"at", "task", "browser", "secUid", "content", "posts", "asked", "error", "thrown", "result"}

RoundTyped(p) ==
  /\ DOMAIN p = RoundFields
  /\ p.at \in {"idle", "onlyApi", "api", "browse", "load", "profile", "ask", "reject", "player"}

\* Only a round for posts keeps posts by, and only once a page was read; it
\* throws at its end, without posts or over data it cannot parse.
Keeps(p) ==
  /\ p.at \in {"onlyApi", "api", "browse"} \/ (p.at # "idle" /\ p.task # "posts") => p.posts = {}
  /\ p.at = "player" => p.task # "posts"
  /\ p.at \in {"onlyApi", "api", "browse", "ask", "reject"} => p.task = "posts"
  /\ p.at # "idle" => ~p.thrown
  /\ p.at = "idle" /\ p.posts # {} =>
       IF p.thrown THEN p.error = "malformed"
       ELSE {q.id : q \in p.posts} \subseteq {q.id : q \in p.result}

RoundsInv ==
  /\ DOMAIN round = Rounds
  /\ \A r \in Rounds : RoundTyped(round[r]) /\ Keeps(round[r])

LEMMA RoundChanges ==
  ASSUME RoundsInv, NEW r \in Rounds, NEW p, round' = [round EXCEPT ![r] = p], RoundTyped(p), Keeps(p)
  PROVE  RoundsInv'
BY DEF RoundsInv

LEMMA NoRoundIsTyped == RoundTyped(K!NoRound) /\ Keeps(K!NoRound) /\ K!NoRound.posts = {} /\ ~K!NoRound.thrown
BY DEF RoundTyped, Keeps, K!NoRound, RoundFields

\* What a round returns, and what it throws.
LEMMA ReturnKeeps ==
  ASSUME RoundsInv, NEW r \in Rounds, round[r].at # "idle", NEW items,
         round[r].posts = {} \/ {q.id : q \in round[r].posts} \subseteq {q.id : q \in items}
  PROVE  /\ RoundTyped(K!Return(r, items)) /\ Keeps(K!Return(r, items))
         /\ K!Return(r, items).at = "idle" /\ ~K!Return(r, items).thrown
         /\ K!Return(r, items).result = items /\ K!Return(r, items).posts = round[r].posts
BY DEF RoundsInv, RoundTyped, Keeps, K!Return, RoundFields

LEMMA ThrowKeeps ==
  ASSUME RoundsInv, NEW r \in Rounds, round[r].at # "idle", NEW error,
         round[r].posts = {} \/ error = "malformed"
  PROVE  /\ RoundTyped(K!Throw(r, error)) /\ Keeps(K!Throw(r, error))
         /\ K!Throw(r, error).at = "idle" /\ K!Throw(r, error).posts = round[r].posts
BY DEF RoundsInv, RoundTyped, Keeps, K!Throw, RoundFields

\* What was asked, and what was found missing, disturb nothing.
LEMMA NotesKeep ==
  ASSUME NEW p, RoundTyped(p), Keeps(p), NEW sent, NEW error
  PROVE  /\ RoundTyped([p EXCEPT !.asked = sent]) /\ Keeps([p EXCEPT !.asked = sent])
         /\ p.at # "idle" => /\ RoundTyped([p EXCEPT !.error = error]) /\ Keeps([p EXCEPT !.error = error])
                             /\ [p EXCEPT !.error = error].at = p.at
         /\ [p EXCEPT !.asked = sent].at = p.at
BY DEF RoundTyped, Keeps, RoundFields

LEMMA BeginKeeps ==
  ASSUME RoundsInv, NEW r \in Rounds, K!Begin(r)
  PROVE  RoundsInv'
<1>1. PICK task \in Tasks, page \in Browsers :
        LET p == [K!NoRound EXCEPT !.task = task, !.browser = page, !.secUid = cache["secUid"]]
        IN  round' = [round EXCEPT ![r] =
              IF task # "posts" THEN [p EXCEPT !.at = "load"]
              ELSE IF cache["invalid"] # None THEN [p EXCEPT !.error = "invalid handle"]
              ELSE IF cache["hydration"] # None /\ p.secUid # None THEN [p EXCEPT !.at = "onlyApi"]
              ELSE IF p.secUid # None /\ cache["rejected"] = None THEN [p EXCEPT !.at = "api"]
              ELSE K!Open(p)]
  BY DEF K!Begin
<1>2. PICK p : p = [K!NoRound EXCEPT !.task = task, !.browser = page, !.secUid = cache["secUid"]]
  OBVIOUS
<1>3. /\ DOMAIN p = RoundFields /\ p.at = "idle" /\ p.posts = {} /\ ~p.thrown /\ p.task = task
  BY <1>2 DEF K!NoRound, RoundFields
<1>4. \A at \in {"load", "onlyApi", "api", "browse"} :
        (at # "load" => task = "posts") =>
          RoundTyped([p EXCEPT !.at = at]) /\ Keeps([p EXCEPT !.at = at])
  BY <1>3 DEF RoundTyped, Keeps, RoundFields
<1>5. RoundTyped([p EXCEPT !.error = "invalid handle"]) /\ Keeps([p EXCEPT !.error = "invalid handle"])
  BY <1>3 DEF RoundTyped, Keeps, RoundFields
<1>6. PICK q : /\ round' = [round EXCEPT ![r] = q]
               /\ \/ q = [p EXCEPT !.error = "invalid handle"]
                  \/ \E at \in {"load", "onlyApi", "api", "browse"} :
                       q = [p EXCEPT !.at = at] /\ (at # "load" => task = "posts")
  BY <1>1, <1>2 DEF K!Open
<1> QED BY <1>4, <1>5, <1>6, RoundChanges

\* The rounds that ask the API.
LEMMA AskFirstKeeps ==
  ASSUME RoundsInv, NEW r \in Rounds, K!AskFirst(r)
  PROVE  RoundsInv'
<1>1. PICK answer \in Api :
        LET sent == [round[r] EXCEPT !.asked = Append(@, round[r].secUid)]
        IN  round' = [round EXCEPT ![r] =
              IF K!IsContent(answer) THEN [K!Return(r, K!Posts(answer.items)) EXCEPT !.asked = sent.asked]
              ELSE IF round[r].at = "onlyApi" THEN [K!Throw(r, answer.error) EXCEPT !.asked = sent.asked]
              ELSE K!Open([sent EXCEPT !.error = answer.error])]
  BY DEF K!AskFirst
<1>2. /\ round[r].at \in {"onlyApi", "api"} /\ round[r].posts = {} /\ ~round[r].thrown
      /\ RoundTyped(round[r]) /\ Keeps(round[r])
  BY DEF K!AskFirst, RoundsInv, Keeps
<1>3. PICK sent : sent = [round[r] EXCEPT !.asked = Append(@, round[r].secUid)]
  OBVIOUS
<1>4. \A x : /\ RoundTyped([K!Return(r, K!Posts(answer.items)) EXCEPT !.asked = x])
             /\ Keeps([K!Return(r, K!Posts(answer.items)) EXCEPT !.asked = x])
             /\ RoundTyped([K!Throw(r, answer.error) EXCEPT !.asked = x])
             /\ Keeps([K!Throw(r, answer.error) EXCEPT !.asked = x])
  BY <1>2, ReturnKeeps, ThrowKeeps, NotesKeep
<1>5. /\ RoundTyped(K!Open([sent EXCEPT !.error = answer.error]))
      /\ round[r].at = "api" => Keeps(K!Open([sent EXCEPT !.error = answer.error]))
  BY <1>2, <1>3 DEF K!Open, RoundTyped, Keeps, RoundFields
<1> QED BY <1>1, <1>2, <1>3, <1>4, <1>5, RoundChanges

\* The rounds that read a page.
LEMMA BrowseKeeps ==
  ASSUME RoundsInv, NEW r \in Rounds, K!Browse(r)
  PROVE  RoundsInv'
<1>1. PICK visit \in Visits :
        LET shown == K!FromBrowser(visit)
            heardPosts == IF visit.error # None \/ visit.posts = None THEN {} ELSE K!Posts(visit.posts)
            after == [round[r] EXCEPT !.posts = heardPosts]
        IN  round' = [round EXCEPT ![r] =
              IF K!IsContent(shown) THEN [after EXCEPT !.at = "profile", !.content = shown]
              ELSE IF shown.error # "login" THEN [after EXCEPT !.at = "load"]
              ELSE IF heardPosts # {} THEN [K!Return(r, heardPosts) EXCEPT !.posts = heardPosts]
              ELSE K!Throw(r, "login")]
  BY DEF K!Browse
<1>2. /\ round[r].at = "browse" /\ round[r].task = "posts" /\ ~round[r].thrown /\ round[r].posts = {}
      /\ RoundTyped(round[r]) /\ Keeps(round[r])
  BY DEF K!Browse, RoundsInv, Keeps
<1>3. PICK S : S = (IF visit.error # None \/ visit.posts = None THEN {} ELSE K!Posts(visit.posts))
  OBVIOUS
<1>4. PICK after : after = [round[r] EXCEPT !.posts = S]
  OBVIOUS
<1>5. \A c : /\ RoundTyped([after EXCEPT !.at = "profile", !.content = c])
             /\ Keeps([after EXCEPT !.at = "profile", !.content = c])
  BY <1>2, <1>4 DEF RoundTyped, Keeps, RoundFields
<1>6. RoundTyped([after EXCEPT !.at = "load"]) /\ Keeps([after EXCEPT !.at = "load"])
  BY <1>2, <1>4 DEF RoundTyped, Keeps, RoundFields
<1>7. RoundTyped([K!Return(r, S) EXCEPT !.posts = S]) /\ Keeps([K!Return(r, S) EXCEPT !.posts = S])
  BY <1>2 DEF RoundTyped, Keeps, RoundFields, K!Return
<1>8. RoundTyped(K!Throw(r, "login")) /\ Keeps(K!Throw(r, "login"))
  BY <1>2, ThrowKeeps
<1> QED BY <1>1, <1>3, <1>4, <1>5, <1>6, <1>7, <1>8, RoundChanges

LEMMA LoadKeeps ==
  ASSUME RoundsInv, NEW r \in Rounds, K!Load(r)
  PROVE  RoundsInv'
<1>1. PICK loaded :
        round' = [round EXCEPT ![r] =
          IF K!IsContent(loaded) THEN [round[r] EXCEPT !.at = "profile", !.content = loaded]
          ELSE IF round[r].task = "video" /\ round[r].browser THEN [round[r] EXCEPT !.at = "player"]
          ELSE IF round[r].posts # {} THEN K!Return(r, round[r].posts)
          ELSE K!Throw(r, loaded.error)]
  BY DEF K!Load
<1>2. round[r].at = "load" /\ ~round[r].thrown /\ RoundTyped(round[r]) /\ Keeps(round[r])
  BY DEF K!Load, RoundsInv, Keeps
<1>3. \A c : /\ RoundTyped([round[r] EXCEPT !.at = "profile", !.content = c])
             /\ Keeps([round[r] EXCEPT !.at = "profile", !.content = c])
  BY <1>2 DEF RoundTyped, Keeps, RoundFields
<1>4. round[r].task = "video" =>
        RoundTyped([round[r] EXCEPT !.at = "player"]) /\ Keeps([round[r] EXCEPT !.at = "player"])
  BY <1>2 DEF RoundTyped, Keeps, RoundFields
<1>5. RoundTyped(K!Return(r, round[r].posts)) /\ Keeps(K!Return(r, round[r].posts))
  BY <1>2, ReturnKeeps
<1>6. round[r].posts = {} => RoundTyped(K!Throw(r, loaded.error)) /\ Keeps(K!Throw(r, loaded.error))
  BY <1>2, ThrowKeeps
<1> QED BY <1>1, <1>3, <1>4, <1>5, <1>6, RoundChanges

LEMMA MergedHasAll ==
  ASSUME NEW P, NEW S
  PROVE  P \subseteq K!Merged(P, S)
BY DEF K!Merged

LEMMA ProfileKeeps ==
  ASSUME RoundsInv, NEW r \in Rounds, K!Profile(r)
  PROVE  RoundsInv'
<1>1. PICK S, secUid, gone :
        /\ S = K!Merged(round[r].posts, K!ProfilePosts(round[r].content)) /\ (gone => S = {})
        /\ round' = [round EXCEPT ![r] =
             IF gone THEN K!Throw(r, "invalid handle")
             ELSE IF secUid = None THEN [K!Return(r, S) EXCEPT !.posts = S]
             ELSE [round[r] EXCEPT !.at = IF round[r].asked = <<secUid>> THEN "reject" ELSE "ask",
                                   !.secUid = secUid, !.posts = S]]
  <2> DEFINE user == K!UserInfo(round[r].content)
             secUid == IF user = None THEN None ELSE user.secUid
             S == K!Merged(round[r].posts, K!ProfilePosts(round[r].content))
             gone == secUid = None /\ S = {}
  <2>1. round' = [round EXCEPT ![r] =
             IF gone THEN K!Throw(r, "invalid handle")
             ELSE IF secUid = None THEN [K!Return(r, S) EXCEPT !.posts = S]
             ELSE [round[r] EXCEPT !.at = IF round[r].asked = <<secUid>> THEN "reject" ELSE "ask",
                                   !.secUid = secUid, !.posts = S]]
    BY DEF K!Profile
  <2> QED BY <2>1
<1>2. /\ round[r].at = "profile" /\ round[r].task = "posts" /\ ~round[r].thrown
      /\ RoundTyped(round[r]) /\ Keeps(round[r]) /\ round[r].posts \subseteq S
  BY <1>1, MergedHasAll DEF K!Profile, RoundsInv, Keeps
<1>3. gone => RoundTyped(K!Throw(r, "invalid handle")) /\ Keeps(K!Throw(r, "invalid handle"))
  BY <1>1, <1>2, ThrowKeeps
<1>4. RoundTyped([K!Return(r, S) EXCEPT !.posts = S]) /\ Keeps([K!Return(r, S) EXCEPT !.posts = S])
  BY <1>2 DEF RoundTyped, Keeps, RoundFields, K!Return
<1>5. \A at \in {"reject", "ask"} :
        /\ RoundTyped([round[r] EXCEPT !.at = at, !.secUid = secUid, !.posts = S])
        /\ Keeps([round[r] EXCEPT !.at = at, !.secUid = secUid, !.posts = S])
  BY <1>2 DEF RoundTyped, Keeps, RoundFields
<1> QED BY <1>1, <1>3, <1>4, <1>5, RoundChanges

\* The rounds that end, one way or the other.
LEMMA EndsOfRounds ==
  ASSUME RoundsInv, NEW r \in Rounds,
         K!Malformed(r) \/ K!AskAgain(r) \/ K!Reject(r) \/ K!Video(r) \/ K!Play(r) \/ K!Follows(r)
  PROVE  RoundsInv'
<1>0. RoundTyped(round[r]) /\ Keeps(round[r])
  BY DEF RoundsInv
<1>1. ASSUME round[r].task # "posts", round[r].at \in {"profile", "player"}, NEW items
      PROVE  RoundTyped(K!Return(r, items)) /\ Keeps(K!Return(r, items))
  BY <1>0, <1>1, ReturnKeeps DEF Keeps
<1>2. ASSUME round[r].task # "posts", round[r].at = "profile"
      PROVE  RoundTyped([round[r] EXCEPT !.at = "player"]) /\ Keeps([round[r] EXCEPT !.at = "player"])
  BY <1>0, <1>2 DEF RoundTyped, Keeps, RoundFields
<1>3. CASE K!Malformed(r)
  <2>1. RoundTyped(K!Throw(r, "malformed")) /\ Keeps(K!Throw(r, "malformed"))
    BY <1>3, ThrowKeeps DEF K!Malformed
  <2> QED BY <1>2, <1>3, <2>1, RoundChanges DEF K!Malformed
<1>4. CASE K!AskAgain(r)
  <2>1. PICK answer \in Api :
          LET sent == Append(round[r].asked, round[r].secUid)
          IN  round' = [round EXCEPT ![r] =
                IF K!IsContent(answer)
                THEN [K!Return(r, K!Merged(round[r].posts, K!Posts(answer.items))) EXCEPT !.asked = sent]
                ELSE [round[r] EXCEPT !.at = "reject", !.asked = sent, !.error = answer.error]]
    BY <1>4 DEF K!AskAgain
  <2>2. \A x : /\ RoundTyped([K!Return(r, K!Merged(round[r].posts, K!Posts(answer.items))) EXCEPT !.asked = x])
               /\ Keeps([K!Return(r, K!Merged(round[r].posts, K!Posts(answer.items))) EXCEPT !.asked = x])
    <3>1. round[r].posts \subseteq K!Merged(round[r].posts, K!Posts(answer.items)) /\ round[r].at # "idle"
      BY <1>4, MergedHasAll DEF K!AskAgain
    <3>2. PICK S : S = K!Merged(round[r].posts, K!Posts(answer.items))
      OBVIOUS
    <3>3. RoundTyped(K!Return(r, S)) /\ Keeps(K!Return(r, S))
      BY <3>1, <3>2, ReturnKeeps
    <3> QED BY <3>2, <3>3, NotesKeep
  <2>3. \A x, e : /\ RoundTyped([round[r] EXCEPT !.at = "reject", !.asked = x, !.error = e])
                  /\ Keeps([round[r] EXCEPT !.at = "reject", !.asked = x, !.error = e])
    BY <1>0, <1>4 DEF K!AskAgain, RoundTyped, Keeps, RoundFields
  <2> QED BY <2>1, <2>2, <2>3, RoundChanges
<1>5. CASE K!Reject(r)
  <2>1. RoundTyped(K!Return(r, round[r].posts)) /\ Keeps(K!Return(r, round[r].posts))
    BY <1>5, ReturnKeeps DEF K!Reject
  <2>2. \A e : round[r].posts = {} => RoundTyped(K!Throw(r, e)) /\ Keeps(K!Throw(r, e))
    BY <1>5, ThrowKeeps DEF K!Reject
  <2> QED BY <1>5, <2>1, <2>2, RoundChanges DEF K!Reject
<1>6. CASE K!Video(r)
  BY <1>1, <1>2, <1>6, RoundChanges DEF K!Video
<1>7. CASE K!Play(r)
  <2>1. round[r].at = "player" /\ round[r].task # "posts" /\ round[r].posts = {}
    BY <1>0, <1>7 DEF K!Play, Keeps
  <2>2. \A e : RoundTyped(K!Throw(r, e)) /\ Keeps(K!Throw(r, e))
    BY <2>1, ThrowKeeps
  <2> QED BY <1>1, <1>7, <2>1, <2>2, RoundChanges DEF K!Play
<1>8. CASE K!Follows(r)
  BY <1>1, <1>8, RoundChanges DEF K!Follows
<1> QED BY <1>3, <1>4, <1>5, <1>6, <1>7, <1>8

LEMMA RoundsInvariant == SpidersSpec => []RoundsInv
<1>1. K!Init => RoundsInv
  BY NoRoundIsTyped DEF K!Init, RoundsInv
<1>2. RoundsInv /\ [K!Next]_(K!tiktokVars) => RoundsInv'
  <2> SUFFICES ASSUME RoundsInv, [K!Next]_(K!tiktokVars) PROVE RoundsInv'
    OBVIOUS
  <2>1. CASE UNCHANGED round
    BY <2>1 DEF RoundsInv
  <2> QED BY <2>1, BeginKeeps, AskFirstKeeps, BrowseKeeps, LoadKeeps, ProfileKeeps, EndsOfRounds
          DEF K!Next, K!tiktokVars, K!Expire
<1> QED BY <1>1, <1>2, PartsBehave, PTL

\* A round that has read posts of the handle returns them, whichever request
\* failed before or after; only data that cannot be parsed takes them away
\* (grabPosts of tiktok.ts).
THEOREM TikTokKeepsPosts == SpidersSpec => []PostsAreKept
<1>1. RoundsInv => PostsAreKept
  BY DEF RoundsInv, Keeps, PostsAreKept, K!PostsAreKept
<1> QED BY <1>1, RoundsInvariant, PTL

-----------------------------------------------------------------------------
(* The crawls of Instagram: once posts were captured the crawl is at a step *)
(* that ends with them, and the pages it opens then may fail without it.    *)

CaptureKept ==
  posts # None =>
    \/ stage \in {"shared tray", "reload", "backfill", "avatars", "highlights", "tray", "stories", "return"}
    \/ stage = "open" /\ step \in {"reload", "highlights"}
    \/ stage \in {"probe", "login", "posts"} /\ step = "reload"
    \/ stage = "idle" /\ ~result.thrown /\ {p.id : p \in posts} \subseteq result.items

\* What a failed page does, where posts are kept.
LEMMA FailureKeeps ==
  ASSUME CaptureKept, G!Fails, stage \in {"open", "login", "posts", "told"}, UNCHANGED <<posts, step>>
  PROVE  CaptureKept'
<1>1. CASE posts = None
  BY <1>1 DEF CaptureKept
<1>2. CASE posts # None
  <2>1. step \in {"reload", "highlights"} /\ (stage \in {"login", "posts"} => step = "reload")
    BY <1>2 DEF CaptureKept
  <2>2. stage' \in {"backfill", "stories", "return"}
    BY <2>1 DEF G!Fails, G!AfterPosts
  <2> QED BY <2>2 DEF CaptureKept
<1> QED BY <1>1, <1>2

LEMMA CrawlStepsKeep ==
  ASSUME CaptureKept, G!Next
  PROVE  CaptureKept'
<1>1. ASSUME UNCHANGED <<posts, stage, step, result>> PROVE CaptureKept'
  BY <1>1 DEF CaptureKept
<1>2. ASSUME NEW j, G!Begin(j) PROVE CaptureKept'
  BY <1>2 DEF G!Begin, CaptureKept
<1>3. CASE (\E k \in G!Kinds : G!Respond(k) \/ G!Timeout(k)) \/ G!Stash \/ G!Forget
  BY <1>1, <1>3 DEF G!Respond, G!Timeout, G!Stash, G!Forget
<1>4. CASE G!Listen
  BY <1>4 DEF G!Listen, G!Steps, CaptureKept
<1>5. CASE G!Opened
  <2>1. CASE stage' = [profile |-> "race", reload |-> "probe", highlights |-> "tray", user |-> "told"][step]
    <3>1. posts # None => step \in {"reload", "highlights"}
      BY <1>5 DEF G!Opened, CaptureKept
    <3>2. step = "reload" => stage' = "probe"
      BY <2>1
    <3>3. step = "highlights" => stage' = "tray"
      BY <2>1
    <3> QED BY <1>5, <3>1, <3>2, <3>3 DEF G!Opened, CaptureKept
  <2>2. CASE G!Fails
    BY <1>5, <2>2, FailureKeeps DEF G!Opened
  <2> QED BY <1>5, <2>1, <2>2 DEF G!Opened
<1>6. CASE G!Race
  BY <1>6 DEF G!Race, CaptureKept
<1>7. CASE G!Probe \/ G!Silence
  BY <1>7 DEF G!Probe, G!Silence, CaptureKept
<1>8. CASE G!LoginForm
  BY <1>8, FailureKeeps DEF G!LoginForm, CaptureKept
<1>9. CASE G!Capture
  <2>1. CASE G!Fails /\ UNCHANGED posts
    BY <1>9, <2>1, FailureKeeps DEF G!Capture
  <2>2. CASE stage' \in {"shared tray", "backfill"}
    BY <2>2 DEF CaptureKept
  <2> QED BY <1>9, <2>1, <2>2 DEF G!Capture
<1>10. CASE G!SharedTray \/ G!Backfill \/ G!Filled \/ G!Tray
  BY <1>10 DEF G!SharedTray, G!Backfill, G!Filled, G!Tray, G!AfterPosts, CaptureKept
<1>11. ASSUME NEW h \in missing, G!Avatar(h) PROVE CaptureKept'
  BY <1>11 DEF G!Avatar, CaptureKept
<1>12. CASE G!GrabStories
  BY <1>12 DEF G!GrabStories, CaptureKept
<1>13. CASE G!Return
  <2>1. posts # None => /\ result' = G!Gives({p.id : p \in posts} \cup {f.id : f \in found})
                        /\ stage' = "idle" /\ posts' = posts
    BY <1>13 DEF G!Return, G!Either
  <2>2. posts # None => ~result'.thrown /\ {p.id : p \in posts} \subseteq result'.items
    BY <2>1 DEF G!Gives
  <2> QED BY <1>13, <2>1, <2>2 DEF G!Return, CaptureKept
<1>14. CASE G!Join \/ G!Meta
  BY <1>14 DEF G!Join, G!Meta, CaptureKept
<1>15. CASE G!Told
  <2>1. posts = None
    BY <1>15 DEF G!Told, CaptureKept
  <2> QED BY <1>15, <2>1 DEF G!Told, CaptureKept
<1> QED BY <1>2, <1>3, <1>4, <1>5, <1>6, <1>7, <1>8, <1>9, <1>10, <1>11, <1>12, <1>13, <1>14, <1>15 DEF G!Next

\* Posts that were captured are returned, whatever becomes of the tray, the
\* profile, the second load, the avatars, the highlights and the stories
\* (the crawl of instagram.ts).
THEOREM InstagramKeepsPosts == SpidersSpec => []PostsSurvive
<1>1. G!Init => CaptureKept
  BY DEF G!Init, CaptureKept
<1>2. CaptureKept /\ [G!Next]_(G!instagramVars) => CaptureKept'
  BY CrawlStepsKeep DEF G!instagramVars, CaptureKept
<1>3. CaptureKept => PostsSurvive
  BY DEF CaptureKept, PostsSurvive, G!PostsSurvive
<1> QED BY <1>1, <1>2, <1>3, PartsBehave, PTL

-----------------------------------------------------------------------------
(* The rounds of a channel.                                                *)

OneEach(articles) ==
  /\ IsFiniteSet(articles)
  /\ \A a \in articles : {"id", "members"} \subseteq DOMAIN a
  /\ \A a, b \in articles : a.id = b.id => a = b

\* The round holds an article for each of the list, whatever completes it.
Completing ==
  /\ OneEach(listed) /\ asked \subseteq listed /\ left \subseteq listed
  /\ DOMAIN byId = {a.id : a \in listed}
  /\ \A a \in listed : byId[a.id].id = a.id /\ (a.members => byId[a.id].members)

ChannelInv ==
  /\ channel \in ChannelScenes /\ channelAt \in {"idle", "gate", "hydrate"}
  /\ channel.video # None => channelAt = "idle" /\ byId = <<>>
  /\ channelAt # "hydrate" => asked = {}
  /\ channelAt = "gate" => OneEach(listed)
  /\ channelAt = "hydrate" => Completing
  /\ channelAt = "idle" /\ byId # <<>> => Completing /\ returned = {byId[id] : id \in DOMAIN byId}

\* A list page that neither failed nor came without its data has items.
LEMMA PagesHaveItems ==
  ASSUME channel \in ChannelScenes, channel.video = None,
         NEW list \in channel.pages.videos \cup channel.pages.shorts,
         Y!ListPage(list.tries, list.curl).is \notin {"transient", "refused"}
  PROVE  \/ Y!ListPage(list.tries, list.curl) = Y!Shell
         \/ \E V : Y!ListPage(list.tries, list.curl).items \in Seq(V)
<1> DEFINE page == Y!ListPage(list.tries, list.curl)
<1>1. /\ list.tries \in Seq({list.tries[n] : n \in DOMAIN list.tries})
      /\ Len(list.tries) = ListAttempts /\ ListAttempts \in Nat \ {0}
      /\ ListAnswer(list.curl) /\ \A n \in DOMAIN list.tries : ListAnswer(list.tries[n])
  BY SpidersAssumption DEF Elements
<1>2. Head(list.tries) = list.tries[1] /\ 1 \in DOMAIN list.tries /\ ListAttempts \in DOMAIN list.tries
  BY <1>1
<1>3. page \in {list.curl, list.tries[1], list.tries[ListAttempts]}
  BY <1>2 DEF Y!ListPage
<1>4. ListAnswer(page)
  BY <1>1, <1>2, <1>3
<1> HIDE DEF page
<1>5. CASE page \in {[is |-> "shell"], [is |-> "refused"], [is |-> "transient"]}
  <2>1. page = Y!Shell \/ page.is \in {"transient", "refused"}
    BY <1>5 DEF Y!Shell
  <2> QED BY <2>1 DEF page
<1>6. CASE page.items \in Seq({page.items[n] : n \in DOMAIN page.items})
  BY <1>6 DEF page
<1> QED BY <1>4, <1>5, <1>6 DEF ListAnswer, Elements

\* Of the items with one id the last one is listed.
LEMMA ListingHasOneEach ==
  ASSUME NEW videos, NEW shorts,
         videos = Y!Shell \/ \E V : videos.items \in Seq(V),
         shorts = Y!Shell \/ \E V : shorts.items \in Seq(V)
  PROVE  OneEach(Y!Listing(videos, shorts))
<1>1. PICK v, V : v = (IF videos = Y!Shell THEN <<>> ELSE videos.items) /\ v \in Seq(V)
  <2>1. <<>> \in Seq({})
    OBVIOUS
  <2> QED BY <2>1
<1>2. PICK s, S : s = (IF shorts = Y!Shell THEN <<>> ELSE shorts.items) /\ s \in Seq(S)
  <2>1. <<>> \in Seq({})
    OBVIOUS
  <2> QED BY <2>1
<1>3. v \in Seq(V \cup S) /\ s \in Seq(V \cup S)
  BY <1>1, <1>2
<1>4. PICK items : items = v \o s
  OBVIOUS
<1>5. items \in Seq(V \cup S) /\ DOMAIN items = 1 .. Len(items) /\ Len(items) \in Nat
  BY <1>3, <1>4
<1> DEFINE chan == Y!ChannelMeta(IF videos = Y!Shell THEN shorts ELSE videos, channel.handle)
           parsed == {i \in DOMAIN items : items[i].id # None /\ (items[i].sort = "lockup" => items[i].isVideo)}
           lasts == {i \in parsed : \A j \in parsed : j > i => items[j].id # items[i].id}
<1>6. Y!Listing(videos, shorts) = {Y!Article(items[i], chan) : i \in lasts}
  BY <1>1, <1>2, <1>4 DEF Y!Listing
<1>7. /\ parsed \subseteq DOMAIN items /\ lasts \subseteq parsed
      /\ \A i \in lasts : \A j \in parsed : j > i => items[j].id # items[i].id
  OBVIOUS
<1> HIDE DEF chan, parsed, lasts
<1>8. \A i \in DOMAIN items :
        Y!Article(items[i], chan).id = items[i].id /\ {"id", "members"} \subseteq DOMAIN Y!Article(items[i], chan)
  BY DEF Y!Article
<1>9. \A i, j \in lasts : items[i].id = items[j].id => i = j
  BY <1>5, <1>6, <1>7
<1>10. IsFiniteSet(lasts)
  <2>1. IsFiniteSet(1 .. Len(items)) /\ lasts \subseteq 1 .. Len(items)
    BY <1>5, <1>6, <1>7, FS_Interval
  <2> QED BY <2>1, FS_Subset
<1>11. IsFiniteSet({Y!Article(items[i], chan) : i \in lasts})
  <2> DEFINE T == {Y!Article(items[i], chan) : i \in lasts}
             f == [i \in lasts |-> Y!Article(items[i], chan)]
  <2>1. f \in Surjection(lasts, T)
    BY DEF Surjection
  <2> HIDE DEF T, f
  <2>2. IsFiniteSet(T)
    BY <1>10, <2>1, FS_Surjection
  <2> QED BY <2>2 DEF T
<1> QED BY <1>6, <1>7, <1>8, <1>9, <1>11 DEF OneEach

LEMMA ListsKeep ==
  ASSUME ChannelInv, Y!Lists
  PROVE  ChannelInv'
<1>1. PICK v \in channel.pages.videos, s \in channel.pages.shorts :
        LET shown == Y!ListPage(v.tries, v.curl)
            short == Y!ListPage(s.tries, s.curl)
        IN  IF \/ {shown.is, short.is} \cap {"transient", "refused"} # {}
               \/ shown = Y!Shell /\ short = Y!Shell THEN Y!Fail
            ELSE /\ listed' = Y!Listing(shown, short)
                 /\ channelAt' = "gate"
                 /\ UNCHANGED <<channel, checked, catalog, byId, left, asked, premieres, returned>>
  BY DEF Y!Lists
<1>2. /\ channel \in ChannelScenes /\ channel.video = None /\ channelAt = "idle" /\ asked = {}
  BY DEF Y!Lists, ChannelInv
<1>3. CASE Y!Fail
  BY <1>3 DEF Y!Fail, ChannelInv, Completing
<1>4. PICK shown, short : shown = Y!ListPage(v.tries, v.curl) /\ short = Y!ListPage(s.tries, s.curl)
  OBVIOUS
<1>5. CASE /\ {shown.is, short.is} \cap {"transient", "refused"} = {}
           /\ listed' = Y!Listing(shown, short) /\ channelAt' = "gate"
           /\ UNCHANGED <<channel, checked, catalog, byId, left, asked, premieres, returned>>
  <2>1. shown = Y!Shell \/ \E V : shown.items \in Seq(V)
    BY <1>2, <1>4, <1>5, PagesHaveItems
  <2>2. short = Y!Shell \/ \E V : short.items \in Seq(V)
    BY <1>2, <1>4, <1>5, PagesHaveItems
  <2>3. OneEach(listed')
    BY <1>5, <2>1, <2>2, ListingHasOneEach
  <2> QED BY <1>2, <1>5, <2>3 DEF ChannelInv, OneEach
<1> QED BY <1>1, <1>3, <1>4, <1>5

\* The gate opens every article of the list, and queues some.
LEMMA GateKeeps ==
  ASSUME ChannelInv, NEW failed, Y!Gate(failed)
  PROVE  ChannelInv'
<1>1. /\ OneEach(listed) /\ asked = {} /\ channel \in ChannelScenes /\ channel.video = None
      /\ UNCHANGED <<channel, listed, asked>> /\ channelAt' = "hydrate"
      /\ byId' = [id \in {a.id : a \in listed} |-> CHOOSE a \in listed : a.id = id]
  BY DEF ChannelInv, Y!Gate
<1>2. left' \subseteq listed
  <2>1. PICK P, n : left' \in Y!Firsts(Y!Due(failed, P), n)
    BY DEF Y!Gate
  <2>2. Y!Due(failed, P) \subseteq listed
    BY DEF Y!Due
  <2>3. left' \in SUBSET Y!Due(failed, P)
    BY <2>1 DEF Y!Firsts
  <2> QED BY <2>2, <2>3
<1>3. \A a \in listed : byId'[a.id] = a
  BY <1>1 DEF OneEach
<1>4. Completing'
  BY <1>1, <1>2, <1>3 DEF Completing, OneEach
<1> QED BY <1>1, <1>4 DEF ChannelInv

\* A watch page completes its article, and takes nothing from it.
LEMMA CompletedIsKept ==
  ASSUME NEW a, {"id", "members"} \subseteq DOMAIN a, NEW page, NEW resolves
  PROVE  /\ Y!Completed(a, page, resolves).id = a.id
         /\ Y!Completed(a, page, resolves).members = a.members
BY DEF Y!Completed

LEMMA RoundGoesOn ==
  ASSUME ChannelInv, Y!Chunk \/ \E a \in asked : Y!Hydrate(a) \/ Y!HydrateFails(a)
  PROVE  ChannelInv'
<1>1. /\ channelAt = "hydrate" /\ Completing /\ channel \in ChannelScenes /\ channel.video = None
      /\ UNCHANGED <<channel, listed, channelAt>>
  BY DEF ChannelInv, Y!Chunk, Y!Hydrate, Y!HydrateFails
<1>2. CASE Y!Chunk
  <2>1. PICK n : asked' \in Y!Firsts(left, n)
    BY <1>2 DEF Y!Chunk
  <2>2. asked' \in SUBSET left /\ left' \subseteq left /\ byId' = byId
    BY <1>2, <2>1 DEF Y!Chunk, Y!Firsts
  <2> QED BY <1>1, <2>2 DEF ChannelInv, Completing, OneEach
<1>3. ASSUME NEW a \in asked, Y!Hydrate(a) PROVE ChannelInv'
  <2>1. PICK page, resolves : byId' = [byId EXCEPT ![a.id] = Y!Completed(a, page, resolves)]
    BY <1>3 DEF Y!Hydrate
  <2>2. a \in listed /\ {"id", "members"} \subseteq DOMAIN a /\ asked' \subseteq asked /\ left' = left
    BY <1>1, <1>3 DEF Completing, OneEach, Y!Hydrate
  <2>3. PICK c : c = Y!Completed(a, page, resolves) /\ c.id = a.id /\ c.members = a.members
    BY <2>2, CompletedIsKept
  <2>4. DOMAIN byId' = DOMAIN byId /\ byId'[a.id] = c
        /\ \A b \in listed : b # a => byId'[b.id] = byId[b.id]
    BY <1>1, <2>1, <2>2, <2>3 DEF Completing, OneEach
  <2>5. Completing'
    BY <1>1, <2>2, <2>3, <2>4 DEF Completing, OneEach
  <2> QED BY <1>1, <2>5 DEF ChannelInv
<1>4. ASSUME NEW a \in asked, Y!HydrateFails(a) PROVE ChannelInv'
  <2>1. asked' \subseteq asked /\ UNCHANGED <<byId, left>>
    BY <1>4 DEF Y!HydrateFails
  <2> QED BY <1>1, <2>1 DEF ChannelInv, Completing, OneEach
<1> QED BY <1>2, <1>3, <1>4

LEMMA ChannelNextKeeps == ChannelInv /\ [Y!Next]_(Y!channelVars) => ChannelInv'
<1> SUFFICES ASSUME ChannelInv, [Y!Next]_(Y!channelVars) PROVE ChannelInv'
  OBVIOUS
<1>1. CASE Y!GrabVideo
  BY <1>1 DEF Y!GrabVideo, ChannelInv, Completing
<1>2. CASE Y!Return
  BY <1>2 DEF Y!Return, ChannelInv, Completing, OneEach
<1>3. CASE (\E id \in checked : Y!Expire(id)) \/ UNCHANGED Y!channelVars
  <2>1. UNCHANGED <<channel, channelAt, listed, byId, left, asked, returned>>
    BY <1>3 DEF Y!Expire, Y!channelVars
  <2>2. (Completing => Completing') /\ (OneEach(listed) => OneEach(listed)')
    BY <2>1 DEF Completing, OneEach
  <2> QED BY <2>1, <2>2 DEF ChannelInv
<1> QED BY <1>1, <1>2, <1>3, ListsKeep, GateKeeps, RoundGoesOn DEF Y!Next

\* The channels count as everybody does.
LEMMA CountIsCardinality == \A S : Y!Cardinality(S) = Cardinality(S)
BY DEF Y!Cardinality, Cardinality

\* As many articles are returned as were listed: returning is one to one.
LEMMA NoneLeftOut ==
  ASSUME Completing, returned = {byId[id] : id \in DOMAIN byId}
  PROVE  /\ Cardinality(returned) = Cardinality(listed)
         /\ \A a \in listed : \E r \in returned : r.id = a.id /\ (a.members => r.members)
<1> DEFINE f == [a \in listed |-> byId[a.id]]
<1>1. \A a \in listed : f[a] = byId[a.id] /\ f[a] \in returned /\ f[a].id = a.id
  BY DEF Completing
<1>2. f \in Bijection(listed, returned)
  <2>1. f \in [listed -> returned]
    BY <1>1
  <2>2. IsInjective(f)
    BY <1>1 DEF IsInjective, Completing, OneEach
  <2>3. \A r \in returned : \E a \in listed : f[a] = r
    BY DEF Completing
  <2> HIDE DEF f
  <2> QED BY <2>1, <2>2, <2>3 DEF Bijection, Injection, Surjection
<1> HIDE DEF f
<1>3. IsFiniteSet(listed) /\ ExistsBijection(listed, returned)
  BY <1>2 DEF ExistsBijection, Completing, OneEach
<1> QED BY <1>1, <1>3, FS_Bijection DEF Completing

\* What a round returns is what its lists showed, every article once, whatever
\* failed on the way, and for members if the list said so (grabArticles of
\* youtube.ts).
THEOREM ChannelsReturnTheirLists == SpidersSpec => []ListedIsReturned
<1>1. Y!Init => ChannelInv
  BY DEF Y!Init, ChannelInv
<1>2. ChannelInv => ListedIsReturned
  <2> SUFFICES ASSUME ChannelInv, channelAt = "idle", byId # <<>>
               PROVE  /\ Cardinality(returned) = Cardinality(listed)
                      /\ \A a \in listed : \E r \in returned : r.id = a.id /\ (a.members => r.members)
    BY CountIsCardinality DEF ListedIsReturned, Y!ListedIsReturned
  <2>1. Completing /\ returned = {byId[id] : id \in DOMAIN byId}
    BY DEF ChannelInv
  <2> QED BY <2>1, NoneLeftOut
<1> QED BY <1>1, <1>2, ChannelNextKeeps, PartsBehave, PTL
-----------------------------------------------------------------------------
(* The rounds of a list: who is forwarded, asked or queued is configured or *)
(* belongs to the membership the round works with, which is the last one X  *)
(* answered, or nothing.                                                    *)

\* The lists filter as everybody does.
LEMMA ListsFilter == \A s, P : L!Kept(s, P) = Kept(s, P)
<1> SUFFICES ASSUME NEW s, NEW P PROVE L!Kept(s, P) = Kept(s, P)
  OBVIOUS
<1> QED BY Zenon DEF L!Kept, Kept, L!Cardinality, Cardinality

LEMMA TakenIsASequence ==
  ASSUME NEW V, NEW s \in Seq(V), NEW n \in Nat
  PROVE  L!Take(s, n) \in Seq(V)
<1>1. L!Least(n, Len(s)) \in Nat /\ L!Least(n, Len(s)) <= Len(s)
  BY DEF L!Least
<1>2. \A i \in 1 .. L!Least(n, Len(s)) : s[i] \in V
  BY <1>1
<1> QED BY <1>1, <1>2, SubSeqProperties DEF L!Take

LEMMA RotationIsASequence ==
  ASSUME NEW U, NEW pool \in Seq(U), NEW slots \in Int, cursor \in Nat
  PROVE  L!Rotated(pool, slots).users \in Seq(U) /\ L!Rotated(pool, slots).cursor \in Nat
<1>1. CASE slots <= 0 \/ pool = <<>>
  BY <1>1 DEF L!Rotated
<1>2. CASE slots > 0 /\ pool # <<>>
  <2> DEFINE offset == cursor % Len(pool)
             turn == SubSeq(pool, offset + 1, Len(pool)) \o SubSeq(pool, 1, offset)
  <2>1. Len(pool) \in Nat \ {0}
    BY <1>2, EmptySeq
  <2>2. offset \in 0 .. Len(pool) - 1
    BY <2>1
  <2>3. SubSeq(pool, offset + 1, Len(pool)) \in Seq(U) /\ SubSeq(pool, 1, offset) \in Seq(U)
    <3>1. \A i \in 1 .. Len(pool) : pool[i] \in U
      OBVIOUS
    <3>2. offset + 1 \in Int /\ offset \in Int /\ Len(pool) \in Int
          /\ offset + 1 .. Len(pool) \subseteq 1 .. Len(pool) /\ 1 .. offset \subseteq 1 .. Len(pool)
      BY <2>1, <2>2
    <3> HIDE DEF offset
    <3> QED BY <3>1, <3>2, SubSeqProperties
  <2>4. turn \in Seq(U) /\ slots \in Nat
    BY <1>2, <2>3
  <2>5. L!Take(turn, slots) \in Seq(U)
    BY <2>4, TakenIsASequence
  <2>6. (offset + L!Least(slots, Len(pool))) % Len(pool) \in Nat
    <3>1. offset + L!Least(slots, Len(pool)) \in Nat
      BY <1>2, <2>1, <2>2 DEF L!Least
    <3> QED BY <2>1, <3>1
  <2> HIDE DEF turn
  <2>7. L!Rotated(pool, slots) = [users |-> L!Take(turn, slots),
                                  cursor |-> (offset + L!Least(slots, Len(pool))) % Len(pool)]
    BY <1>2 DEF L!Rotated, turn
  <2> QED BY <2>5, <2>6, <2>7
<1> QED BY <1>1, <1>2

LEMMA SelectionIsASequence ==
  ASSUME NEW U, NEW active \in Seq(U), NEW ids \in Seq(U), listScene.configured \in Seq(U),
         listScene.limit \in Nat, cursor \in Nat
  PROVE  L!Selection(active, ids).users \in Seq(U) /\ L!Selection(active, ids).cursor \in Nat
<1> DEFINE configured == listScene.configured
           pool == L!Without(L!Sanitized(ids), L!ToSet(configured))
           lively == L!Within(active, L!ToSet(pool))
           remaining == L!Limit - Len(configured)
           slots == L!Least(L!Least(Len(pool), remaining),
                            IF lively = <<>> THEN remaining ELSE L!Most(1, L!Limit \div 2))
           first == configured \o L!Take(lively, remaining - slots)
           turn == L!Rotated(L!Without(pool, L!ToSet(first)), slots)
           refill == L!Without(lively, L!ToSet(first \o turn.users))
                       \o L!Without(pool, L!ToSet(first \o turn.users))
<1>1. ASSUME NEW v \in Seq(U), NEW S
      PROVE  L!Without(v, S) \in Seq(U) /\ L!Within(v, S) \in Seq(U) /\ L!Sanitized(v) \in Seq(U)
  BY KeptInType, ListsFilter DEF L!Without, L!Within, L!Sanitized
<1>2. pool \in Seq(U) /\ lively \in Seq(U)
  BY <1>1
<1>3. L!Limit \in Nat /\ remaining \in Nat
  BY SpidersAssumption DEF L!Limit, L!Most
<1>4. slots \in Int /\ remaining - slots \in Nat
  <2>1. Len(pool) \in Nat
    BY <1>2
  <2>2. L!Most(1, L!Limit \div 2) \in Nat
    BY <1>3 DEF L!Most
  <2> HIDE DEF pool, lively, remaining
  <2> QED BY <1>3, <2>1, <2>2 DEF L!Least
<1> HIDE DEF pool, lively, remaining, slots
<1>5. first \in Seq(U)
  BY <1>2, <1>4, TakenIsASequence
<1> HIDE DEF first
<1>6. turn.users \in Seq(U) /\ turn.cursor \in Nat
  BY <1>1, <1>2, <1>4, RotationIsASequence
<1> HIDE DEF turn
<1>7. refill \in Seq(U)
  <2>1. PICK S : S = L!ToSet(first \o turn.users)
    OBVIOUS
  <2>2. L!Without(lively, S) \in Seq(U) /\ L!Without(pool, S) \in Seq(U)
    BY <1>1, <1>2
  <2>3. L!Without(lively, S) \o L!Without(pool, S) \in Seq(U)
    BY <2>2
  <2> QED BY <2>1, <2>3
<1> HIDE DEF refill
<1>8. L!Take(L!Sanitized(first \o turn.users \o refill), L!Limit) \in Seq(U)
  <2>1. first \o turn.users \o refill \in Seq(U)
    BY <1>5, <1>6, <1>7
  <2> QED BY <1>1, <1>3, <2>1, TakenIsASequence
<1>9. L!Selection(active, ids) =
        IF pool = <<>> \/ remaining = 0 THEN [users |-> configured, cursor |-> cursor]
        ELSE [users |-> L!Take(L!Sanitized(first \o turn.users \o refill), L!Limit), cursor |-> turn.cursor]
  BY DEF L!Selection, pool, lively, remaining, slots, first, turn, refill
<1> QED BY <1>6, <1>8, <1>9

\* Settling lets through, and queues, only who may pass.
LEMMA SettledMayPass ==
  ASSUME NEW ids, NEW unrestricted, L!Settle(ids, unrestricted),
         NEW V, ids \in Seq(V), NEW W, timeline \in Seq(W), NEW X, sampled \in Seq(X),
         NEW Z, listScene.configured \in Seq(Z), listScene.limit \in Nat, cursor \in Nat
  PROVE  /\ \A u \in passed' : L!Allows(ids, unrestricted, u)
         /\ listQueue' \in Seq(Elements(listQueue'))
         /\ \A u \in Elements(listQueue') : L!Allows(ids, unrestricted, u)
         /\ cursor' \in Nat /\ listPhase' = "hydrate"
<1> DEFINE Allowed(users) == L!Kept(users, {i \in DOMAIN users : L!Allows(ids, unrestricted, users[i])})
           places == {i \in DOMAIN timeline : L!Allows(ids, unrestricted, timeline[i].by)}
           passes == L!Kept(timeline, places)
           authors == [i \in DOMAIN passes |-> passes[i].by]
           active == Allowed(L!Sanitized(authors \o sampled))
           chosen == L!Selection(active, ids)
<1>1. /\ passed' = L!ToSet(authors) /\ cursor' = chosen.cursor /\ listPhase' = "hydrate"
      /\ listQueue' = Allowed(chosen.users)
  BY DEF L!Settle
<1>2. passes \in Seq({timeline[i] : i \in places})
  BY PartsAreSequences, ListsFilter
<1>3. \A i \in DOMAIN passes : L!Allows(ids, unrestricted, passes[i].by)
  <2>1. PICK S : S = {timeline[j] : j \in places}
    OBVIOUS
  <2> HIDE DEF passes
  <2>2. \A i \in DOMAIN passes : passes[i] \in S
    BY <1>2, <2>1
  <2> QED BY <2>1, <2>2
<1>4. authors \in Seq({passes[i].by : i \in DOMAIN passes})
  <2>1. DOMAIN passes = 1 .. Len(passes) /\ Len(passes) \in Nat
    BY <1>2
  <2> HIDE DEF passes
  <2> QED BY <2>1
<1> DEFINE U == V \cup X \cup Z \cup {passes[i].by : i \in DOMAIN passes}
<1>5. authors \o sampled \in Seq(U)
  <2>1. {passes[i].by : i \in DOMAIN passes} \subseteq U /\ X \subseteq U
    OBVIOUS
  <2> HIDE DEF authors, U, passes
  <2>2. authors \in Seq(U) /\ sampled \in Seq(U)
    BY <1>4, <2>1, SeqMonotonic
  <2> QED BY <2>2
<1>6. ASSUME NEW v \in Seq(U)
      PROVE  /\ Allowed(v) \in Seq(U)
             /\ Allowed(v) \in Seq({v[i] : i \in {i \in DOMAIN v : L!Allows(ids, unrestricted, v[i])}})
  <2> HIDE DEF U
  <2> QED BY KeptInType, PartsAreSequences, ListsFilter
<1>7. L!Sanitized(authors \o sampled) \in Seq(U)
  <2> HIDE DEF U, authors
  <2> QED BY <1>5, KeptInType, ListsFilter DEF L!Sanitized
<1>8. active \in Seq(U) /\ ids \in Seq(U) /\ listScene.configured \in Seq(U)
  BY <1>6, <1>7, SeqMonotonic
<1>9. chosen.users \in Seq(U) /\ chosen.cursor \in Nat
  <2> HIDE DEF U, active
  <2> QED BY <1>8, SelectionIsASequence
<1>10. PICK T : T = {chosen.users[i] : i \in {i \in DOMAIN chosen.users : L!Allows(ids, unrestricted, chosen.users[i])}}
  OBVIOUS
<1>11. listQueue' \in Seq(T) /\ \A u \in T : L!Allows(ids, unrestricted, u)
  <2> HIDE DEF U, chosen
  <2> QED BY <1>1, <1>6, <1>9, <1>10
<1>12. listQueue' \in Seq(Elements(listQueue')) /\ Elements(listQueue') \subseteq T
  BY <1>11 DEF Elements
<1>13. \A u \in passed' : L!Allows(ids, unrestricted, u)
  <2> HIDE DEF passes
  <2> QED BY <1>1, <1>3 DEF L!ToSet
<1> HIDE DEF U, chosen, Allowed, passes
<1> QED BY <1>1, <1>9, <1>11, <1>12, <1>13

MayPass(u) ==
  Fold(u) \in L!Folded(listScene.configured) \cup (IF known = Unknown THEN {} ELSE L!Folded(known))

RestrictedTo(users) ==
  \/ listScene.configured = <<>> /\ known = <<>>
  \/ \A u \in users : MayPass(u)

ListInv ==
  /\ listScene \in ListScenes /\ cursor \in Nat
  /\ memberCache \in {Unknown, known}
  /\ known # Unknown => known \in Seq(Elements(known))
  /\ listPhase # "hydrate" => listQueue = <<>> /\ listAsked = {}
  /\ listPhase = "members" => timeline \in listScene.timelines /\ sampled \in listScene.samples
  /\ listQueue \in Seq(Elements(listQueue))
  /\ RestrictedTo(passed \cup listAsked \cup Elements(listQueue))

LEMMA ListStarts == L!Init => ListInv
<1>1. Elements(<<>>) = {} /\ <<>> \in Seq({})
  BY DEF Elements
<1> QED BY <1>1 DEF L!Init, ListInv, RestrictedTo

\* The membership is settled, with what X answered or with what is remembered.
LEMMA SettledIsRestricted ==
  ASSUME ListInv, listPhase = "members", NEW ids, NEW unrestricted, L!Settle(ids, unrestricted),
         NEW V, ids \in Seq(V), UNCHANGED <<listScene, listAsked>>,
         \/ ids = known' /\ known' # Unknown /\ (unrestricted => ids = <<>> /\ listScene.configured = <<>>)
         \/ ids = <<>> /\ ~unrestricted,
         memberCache' \in {Unknown, known'}, known' # Unknown => known' \in Seq(Elements(known'))
  PROVE  ListInv'
<1>1. /\ listScene \in ListScenes /\ cursor \in Nat /\ listAsked = {}
      /\ timeline \in Seq(Elements(timeline)) /\ sampled \in Seq(Elements(sampled))
      /\ listScene.configured \in Seq(Elements(listScene.configured)) /\ listScene.limit \in Nat
  BY SpidersAssumption DEF ListInv
<1>2. /\ \A u \in passed' : L!Allows(ids, unrestricted, u)
      /\ listQueue' \in Seq(Elements(listQueue'))
      /\ \A u \in Elements(listQueue') : L!Allows(ids, unrestricted, u)
      /\ cursor' \in Nat /\ listPhase' = "hydrate"
  BY <1>1, SettledMayPass
<1>3. L!Folded(<<>>) = {}
  BY DEF L!Folded, L!ToSet
<1>4. ASSUME NEW u, L!Allows(ids, unrestricted, u)
      PROVE  MayPass(u)' \/ (listScene.configured = <<>> /\ known' = <<>>)
  <2>1. L!Folded(listScene'.configured) = L!Folded(listScene.configured)
    OBVIOUS
  <2>2. CASE ids = known' /\ known' # Unknown /\ (unrestricted => ids = <<>> /\ listScene.configured = <<>>)
    BY <1>4, <2>1, <2>2 DEF L!Allows, MayPass
  <2>3. CASE ids = <<>> /\ ~unrestricted
    BY <1>3, <1>4, <2>1, <2>3 DEF L!Allows, MayPass
  <2> QED BY <2>2, <2>3
<1>5. RestrictedTo(passed \cup listAsked \cup Elements(listQueue))'
  BY <1>1, <1>2, <1>4 DEF RestrictedTo
<1> QED BY <1>1, <1>2, <1>5 DEF ListInv

LEMMA MembersAreRestricted ==
  ASSUME ListInv, L!Members \/ L!MembersFail
  PROVE  ListInv'
<1>1. CASE L!Members
  <2>1. PICK answer \in listScene.lists :
          /\ memberCache' = L!Sanitized(answer) /\ known' = L!Sanitized(answer)
          /\ L!Settle(L!Sanitized(answer), L!Sanitized(answer) = <<>> /\ listScene.configured = <<>>)
    BY <1>1 DEF L!Members
  <2>2. PICK ids : ids = L!Sanitized(answer)
    OBVIOUS
  <2>3. answer \in Seq(Elements(answer)) /\ Unknown \notin Seq(Elements(answer))
    BY <2>1, SpidersAssumption DEF ListInv
  <2>4. ids \in Seq(Elements(answer))
    BY <2>2, <2>3, KeptInType, ListsFilter DEF L!Sanitized
  <2>5. ids # Unknown /\ ids \in Seq(Elements(ids))
    BY <2>3, <2>4 DEF Elements
  <2>6. listPhase = "members" /\ UNCHANGED <<listScene, listAsked>>
    BY <1>1 DEF L!Members
  <2>7. PICK unrestricted : unrestricted = (ids = <<>> /\ listScene.configured = <<>>)
    OBVIOUS
  <2>8. L!Settle(ids, unrestricted) /\ memberCache' = ids /\ known' = ids
    BY <2>1, <2>2, <2>7
  <2>9. unrestricted => ids = <<>> /\ listScene.configured = <<>>
    BY <2>7
  <2> QED BY <2>4, <2>5, <2>6, <2>8, <2>9, SettledIsRestricted
<1>2. CASE L!MembersFail
  <2>1. PICK ids : ids = (IF memberCache \in {Unknown, <<>>} THEN <<>> ELSE memberCache)
    OBVIOUS
  <2>2. /\ listPhase = "members" /\ UNCHANGED <<listScene, listAsked, memberCache, known>>
        /\ L!Settle(ids, FALSE)
    BY <1>2, <2>1 DEF L!MembersFail
  <2>3. ids = <<>> \/ (ids = known' /\ known' # Unknown)
    BY <2>1, <2>2 DEF ListInv
  <2>4. \E V : ids \in Seq(V)
    <3>1. <<>> \in Seq({})
      OBVIOUS
    <3> QED BY <2>2, <2>3, <3>1 DEF ListInv
  <2>5. memberCache' \in {Unknown, known'} /\ (known' # Unknown => known' \in Seq(Elements(known')))
    BY <2>2 DEF ListInv, Elements
  <2> QED BY <2>2, <2>3, <2>4, <2>5, SettledIsRestricted
<1> QED BY <1>1, <1>2

LEMMA ChunkIsRestricted ==
  ASSUME ListInv, L!Chunk
  PROVE  ListInv'
<1>1. /\ listQueue \in Seq(Elements(listQueue)) /\ Len(listQueue) \in Nat
      /\ \A i \in 1 .. Len(listQueue) : listQueue[i] \in Elements(listQueue)
  BY DEF ListInv, Elements
<1>2. L!Concurrency \in Nat
  BY SpidersAssumption DEF ListInv, L!Concurrency, L!Least
<1>3. PICK chunk : chunk = L!Take(listQueue, L!Concurrency)
  OBVIOUS
<1>4. chunk \in Seq(Elements(listQueue)) /\ Len(chunk) \in Nat
  BY <1>1, <1>2, <1>3, TakenIsASequence
<1>5. /\ listAsked' = {u \in L!ToSet(chunk) : ~L!Covered(u)}
      /\ listQueue' = SubSeq(listQueue, Len(chunk) + 1, Len(listQueue))
      /\ listPhase = "hydrate"
      /\ UNCHANGED <<listScene, memberCache, cursor, listPhase, passed, known>>
  BY <1>3 DEF L!Chunk
<1>6. listAsked' \subseteq Elements(listQueue)
  BY <1>4, <1>5 DEF L!ToSet
<1>7. listQueue' \in Seq(Elements(listQueue))
  <2>1. \A i \in Len(chunk) + 1 .. Len(listQueue) : listQueue[i] \in Elements(listQueue)
    BY <1>1, <1>4
  <2> QED BY <1>1, <1>4, <1>5, <2>1, SubSeqProperties
<1>8. Elements(listQueue') \subseteq Elements(listQueue) /\ listQueue' \in Seq(Elements(listQueue'))
  BY <1>7 DEF Elements
<1>9. RestrictedTo(passed \cup listAsked \cup Elements(listQueue))'
  BY <1>5, <1>6, <1>8 DEF ListInv, RestrictedTo, MayPass, L!Folded
<1> QED BY <1>5, <1>8, <1>9 DEF ListInv, Elements

LEMMA ListNextKeeps == ListInv /\ [L!Next]_(L!vars) => ListInv'
<1> SUFFICES ASSUME ListInv, [L!Next]_(L!vars) PROVE ListInv'
  OBVIOUS
<1>0. Elements(<<>>) = {} /\ <<>> \in Seq({})
  BY DEF Elements
<1>1. CASE L!Timeline
  <2>1. /\ timeline' \in listScene.timelines /\ sampled' \in listScene.samples
        /\ passed' = {} /\ listPhase = "idle" /\ listPhase' = "members"
        /\ UNCHANGED <<listScene, memberCache, cursor, listQueue, listAsked, known>>
    BY <1>1 DEF L!Timeline
  <2> QED BY <1>0, <2>1 DEF ListInv, RestrictedTo
<1>2. ASSUME UNCHANGED <<listScene, cursor, memberCache, known, timeline, sampled, listPhase>>,
             listQueue' \in {listQueue, <<>>}, listAsked' \subseteq listAsked,
             passed' \subseteq passed \cup listAsked
      PROVE  ListInv'
  <2>1. Elements(listQueue') \subseteq Elements(listQueue) /\ listQueue' \in Seq(Elements(listQueue'))
    BY <1>0, <1>2 DEF ListInv
  <2>2. RestrictedTo(passed \cup listAsked \cup Elements(listQueue))'
    BY <1>2, <2>1 DEF ListInv, RestrictedTo, MayPass
  <2> QED BY <1>2, <2>1, <2>2 DEF ListInv
<1>3. ASSUME NEW u \in listAsked, L!Answered(u) \/ \E refusal \in BOOLEAN : L!Failed(u, refusal)
      PROVE  ListInv'
  BY <1>2, <1>3 DEF L!Answered, L!Failed
<1>4. CASE L!Deliver
  BY <1>4 DEF L!Deliver, L!round, ListInv, RestrictedTo, MayPass
<1>5. CASE L!Evict
  BY <1>5 DEF L!Evict, L!round, ListInv, RestrictedTo, MayPass
<1>6. CASE UNCHANGED L!vars
  BY <1>2, <1>6 DEF L!vars, L!round
<1> QED
  BY <1>1, <1>3, <1>4, <1>5, <1>6, MembersAreRestricted, ChunkIsRestricted DEF L!Next

\* Whatever becomes of the membership look-ups, round after round, a list
\* forwards nobody but configured accounts and members X answered last, unless X
\* itself called it empty and nobody is configured (grabTweetsUnified of x.ts).
THEOREM ListsFailClosed == SpidersSpec => []NeverFailsOpen
<1>1. ListInv => NeverFailsOpen
  BY DEF ListInv, RestrictedTo, MayPass, NeverFailsOpen, L!NeverFailsOpen
<1> QED BY <1>1, ListStarts, ListNextKeeps, PartsBehave, PTL

-----------------------------------------------------------------------------
(* The page: what is listened to is what is being grabbed, and what was     *)
(* grabbed is an answer of X.                                               *)

PageBodies(k) == {None} \cup H!Paged(k)

PageEnds(k) == {<<"unreadable">>, <<"timeout">>, <<"cleaned">>} \cup H!Refusals \cup PageBodies(k)

PageWaits(k) == [on : BOOLEAN, body : PageBodies(k), ended : PageEnds(k)]

PageTyped ==
  /\ DOMAIN pageWait = H!Kinds /\ pageWait = [k \in H!Kinds |-> pageWait[k]]
  /\ \A k \in H!Kinds : pageWait[k] \in PageWaits(k)
  /\ DOMAIN grabbed = H!Kinds /\ grabbed = [k \in H!Kinds |-> grabbed[k]]
  /\ grabbed["replies"] \in {None} \cup PageAnswers["replies"]

PageInv ==
  /\ PageTyped
  /\ \A k \in H!Kinds : pageWait[k].ended # None => ~pageWait[k].on
  /\ pageKind = "tweets" => pageWait["replies"] = H!NoWait
  /\ pageAt = "listen" /\ pageKind \in H!Kinds => pageWait[pageKind] = H!NoWait
  /\ \A k \in H!Kinds : pageWait[k].on => k = pageKind

LEMMA PageStarts == H!Init => PageInv
BY DEF H!Init, PageInv, PageTyped, PageWaits, PageBodies, PageEnds, H!Kinds, H!NoWait

\* What ends a wait leaves nothing to listen to, and touches no other wait.
LEMMA PageOver ==
  ASSUME PageInv, NEW k \in H!Kinds, NEW end \in PageEnds(k)
  PROVE  LET over == H!Ended(k, end)
         IN  /\ DOMAIN over = H!Kinds /\ over = [j \in H!Kinds |-> over[j]]
             /\ over[k] \in PageWaits(k) /\ ~over[k].on
             /\ \A j \in H!Kinds \ {k} : over[j] = pageWait[j]
<1> DEFINE over == H!Ended(k, end)
<1>1. CASE pageWait[k].ended # None
  BY <1>1 DEF PageInv, PageTyped, PageWaits, H!Ended
<1>2. CASE pageWait[k].ended = None
  <2>1. over = [pageWait EXCEPT ![k] = [pageWait[k] EXCEPT !.ended = end, !.on = FALSE]]
    BY <1>2 DEF PageInv, PageTyped, H!Ended
  <2>2. over[k] = [pageWait[k] EXCEPT !.ended = end, !.on = FALSE]
    BY <2>1 DEF PageInv, PageTyped
  <2>3. over[k] \in PageWaits(k) /\ ~over[k].on
    BY <2>2 DEF PageInv, PageTyped, PageWaits
  <2> HIDE DEF over
  <2> QED BY <2>1, <2>3 DEF PageInv, PageTyped, over
<1> QED BY <1>1, <1>2

LEMMA PageNextKeeps == PageInv /\ [H!Next]_(H!vars) => PageInv'
<1> SUFFICES ASSUME PageInv, [H!Next]_(H!vars) PROVE PageInv'
  OBVIOUS
<1>1. CASE UNCHANGED H!vars
  BY <1>1 DEF H!vars, PageInv, PageTyped
<1>2. CASE H!Listen
  <2>1. pageWait[pageKind] = H!NoWait /\ pageKind \in H!Kinds
    BY <1>2 DEF H!Listen, PageInv
  <2>2. pageWait' = [pageWait EXCEPT ![pageKind] = [H!NoWait EXCEPT !.on = TRUE]]
    BY <1>2, <2>1 DEF H!Listen, PageInv, PageTyped
  <2>3. [H!NoWait EXCEPT !.on = TRUE] \in PageWaits(pageKind) /\ [H!NoWait EXCEPT !.on = TRUE].ended = None
    BY DEF PageWaits, PageBodies, PageEnds, H!NoWait
  <2> HIDE DEF H!NoWait
  <2>4. PageTyped'
    BY <1>2, <2>1, <2>2, <2>3 DEF H!Listen, PageInv, PageTyped
  <2> QED BY <1>2, <2>1, <2>2, <2>3, <2>4 DEF H!Listen, PageInv, PageTyped, H!Kinds
<1>3. CASE H!Look
  BY <1>3 DEF H!Look, PageInv, PageTyped
<1>4. CASE H!LookFails
  <2>1. <<"cleaned">> \in PageEnds(pageKind)
    BY DEF PageEnds
  <2>2. pageKind \in H!Kinds /\ pageWait' = H!Ended(pageKind, <<"cleaned">>) /\ pageKind' = "failed" /\ UNCHANGED <<pageAt, grabbed>>
    BY <1>4 DEF H!LookFails
  <2> QED BY <2>1, <2>2, PageOver DEF PageInv, PageTyped, H!Kinds
<1>5. CASE H!Await
  <2> DEFINE end == pageWait[pageKind].ended
             parses == end # None /\ end[1] = "page" /\ ~H!Broken(end[2])
  <2>1. /\ pageKind \in H!Kinds /\ end # None
        /\ pageKind' = IF ~parses THEN "failed" ELSE IF pageKind = "tweets" THEN "replies" ELSE "ended"
        /\ grabbed' = IF parses THEN [grabbed EXCEPT ![pageKind] = end[2]] ELSE grabbed
        /\ UNCHANGED pageWait
    BY <1>5 DEF H!Await
  <2>2. end \in PageEnds(pageKind) /\ ~pageWait[pageKind].on
    BY <2>1 DEF PageInv, PageTyped, PageWaits
  <2>3. parses => end[2] \in PageAnswers[pageKind]
    <3> SUFFICES ASSUME end # None, end[1] = "page" PROVE end \in H!Paged(pageKind)
      BY DEF H!Paged
    <3> QED BY <2>2 DEF PageEnds, PageBodies, H!Refusals
  <2> HIDE DEF parses, end
  <2>4. PageTyped'
    <3>1. DOMAIN grabbed' = H!Kinds /\ grabbed' = [k \in H!Kinds |-> grabbed'[k]]
      BY <2>1 DEF PageInv, PageTyped
    <3>2. grabbed'["replies"] \in {None} \cup PageAnswers["replies"]
      BY <2>1, <2>3 DEF PageInv, PageTyped, H!Kinds
    <3> QED BY <2>1, <3>1, <3>2 DEF PageInv, PageTyped
  <2>5. \A k \in H!Kinds : pageWait[k].on => k = pageKind'
    BY <2>1, <2>2 DEF PageInv, H!Kinds, H!NoWait
  <2>6. pageKind' \in H!Kinds => pageKind' = "replies" /\ pageWait["replies"] = H!NoWait
    BY <2>1 DEF PageInv, H!Kinds
  <2> QED BY <2>1, <2>4, <2>5, <2>6 DEF PageInv, H!Kinds
<1>6. ASSUME NEW k \in H!Kinds, H!Respond(k) PROVE PageInv'
  <2>1. pageWait[k].on /\ pageWait[k].ended = None /\ UNCHANGED <<pageKind, pageAt, grabbed>> /\ k = pageKind /\ pageAt # "listen"
    BY <1>6 DEF H!Respond, H!Hears, PageInv
  <2>2. PICK answer \in H!Refusals \cup H!Paged(k) :
          pageWait' = IF answer \in H!Refusals THEN H!Ended(k, answer) ELSE [pageWait EXCEPT ![k].body = answer]
    BY <1>6 DEF H!Respond
  <2>3. CASE answer \in H!Refusals
    <3>1. answer \in PageEnds(k)
      BY <2>3 DEF PageEnds
    <3>2. pageWait' = H!Ended(k, answer)
      BY <2>2, <2>3
    <3>3. DOMAIN pageWait' = H!Kinds /\ pageWait'[k] \in PageWaits(k) /\ ~pageWait'[k].on
          /\ \A j \in H!Kinds \ {k} : pageWait'[j] = pageWait[j]
      BY <3>1, <3>2, PageOver
    <3>4. PageTyped'
      BY <2>1, <3>1, <3>2, <3>3, PageOver DEF PageInv, PageTyped
    <3> QED BY <2>1, <3>3, <3>4 DEF PageInv, H!Kinds
  <2>4. CASE answer \notin H!Refusals
    <3>1. pageWait' = [pageWait EXCEPT ![k] = [pageWait[k] EXCEPT !.body = answer]]
      BY <2>2, <2>4 DEF PageInv, PageTyped
    <3>2. [pageWait[k] EXCEPT !.body = answer] \in PageWaits(k) /\ [pageWait[k] EXCEPT !.body = answer].on = pageWait[k].on
          /\ [pageWait[k] EXCEPT !.body = answer].ended = pageWait[k].ended
      BY <2>2, <2>4 DEF PageInv, PageTyped, PageWaits, PageBodies
    <3>3. PageTyped'
      BY <2>1, <3>1, <3>2 DEF PageInv, PageTyped
    <3> QED BY <2>1, <3>1, <3>2, <3>3 DEF PageInv, PageTyped
  <2> QED BY <2>3, <2>4
<1>7. ASSUME NEW k \in H!Kinds, H!Timeout(k) PROVE PageInv'
  <2>1. pageWait[k].on /\ UNCHANGED <<pageKind, pageAt, grabbed>> /\ pageWait' = H!Ended(k, <<"timeout">>) /\ <<"timeout">> \in PageEnds(k)
    BY <1>7 DEF H!Timeout, PageEnds
  <2>2. DOMAIN pageWait' = H!Kinds /\ pageWait'[k] \in PageWaits(k) /\ ~pageWait'[k].on
        /\ \A j \in H!Kinds \ {k} : pageWait'[j] = pageWait[j]
    BY <2>1, PageOver
  <2>3. PageTyped'
    BY <2>1, <2>2, PageOver DEF PageInv, PageTyped
  <2>4. k = pageKind /\ pageAt # "listen"
    BY <2>1 DEF PageInv, H!NoWait
  <2> QED BY <2>1, <2>2, <2>3, <2>4 DEF PageInv, H!Kinds
<1>8. ASSUME NEW k \in H!Kinds, NEW read \in BOOLEAN, H!Body(k, read) PROVE PageInv'
  <2> DEFINE end == IF read THEN pageWait[k].body ELSE <<"unreadable">>
             over == H!Ended(k, end)
  <2>1. pageWait[k].body # None /\ UNCHANGED <<pageKind, pageAt, grabbed>> /\ pageWait' = [over EXCEPT ![k].body = None]
    BY <1>8 DEF H!Body
  <2>2. end \in PageEnds(k)
    BY DEF PageInv, PageTyped, PageWaits, PageEnds
  <2> HIDE DEF end
  <2>3. /\ DOMAIN over = H!Kinds /\ over[k] \in PageWaits(k) /\ ~over[k].on
        /\ \A j \in H!Kinds \ {k} : over[j] = pageWait[j]
    BY <2>2, PageOver
  <2> HIDE DEF over
  <2>4. pageWait' = [over EXCEPT ![k] = [over[k] EXCEPT !.body = None]]
    BY <2>1, <2>3
  <2>5. [over[k] EXCEPT !.body = None] \in PageWaits(k) /\ ~[over[k] EXCEPT !.body = None].on
    BY <2>3 DEF PageWaits, PageBodies
  <2>6. PageTyped'
    BY <2>1, <2>3, <2>4, <2>5 DEF PageInv, PageTyped
  <2>7. \A j \in H!Kinds : pageWait'[j].on => j # k /\ pageWait[j].on
    BY <2>3, <2>4, <2>5
  <2>8. \A j \in H!Kinds \ {k} : pageWait'[j] = pageWait[j]
    BY <2>3, <2>4
  <2>9. pageWait[k] # H!NoWait
    BY <2>1 DEF H!NoWait
  <2> QED BY <2>1, <2>6, <2>7, <2>8, <2>9 DEF PageInv, H!Kinds
<1> QED BY <1>1, <1>2, <1>3, <1>4, <1>5, <1>6, <1>7, <1>8 DEF H!Next

-----------------------------------------------------------------------------
(* Counting up: what holds at the start and goes on holding holds for every *)
(* natural number, by the least one it would not hold for.                  *)

LEMMA CountingUp ==
  ASSUME NEW S, 0 \in S, \A n \in Nat : n \in S => n + 1 \in S
  PROVE  \A n \in Nat : n \in S
<1> DEFINE R == {p \in Nat \X Nat : p[1] < p[2]}
           T == Nat \ S
<1> SUFFICES ASSUME T # {} PROVE FALSE
  OBVIOUS
<1>1. IsWellFoundedOn(R, Nat)
  BY NatLessThanWellFounded DEF OpToRel
<1>2. PICK x \in T : \A y \in T : <<y, x>> \notin R
  BY <1>1, WFMin
<1>3. x \in Nat \ {0} /\ x - 1 \in Nat /\ x - 1 < x
  BY <1>2
<1>4. x - 1 \notin T
  BY <1>2, <1>3
<1> QED BY <1>2, <1>3, <1>4

-----------------------------------------------------------------------------
(* Tweets that can be read.                                                 *)

\* The page filters and counts as everybody does.
LEMMA PagesFilter == \A s, P : H!Kept(s, P) = Kept(s, P)
<1> SUFFICES ASSUME NEW s, NEW P PROVE H!Kept(s, P) = Kept(s, P)
  OBVIOUS
<1> QED BY Zenon DEF H!Kept, H!Cardinality, Kept, Cardinality

LEMMA PagesCount == \A S : H!Cardinality(S) = Cardinality(S)
BY DEF H!Cardinality, Cardinality

LEMMA PlacesOfASequence ==
  ASSUME NEW V, NEW s \in Seq(V), NEW P, P \subseteq DOMAIN s
  PROVE  /\ Cardinality(P) \in Nat
         /\ \E e \in Bijection(1 .. Cardinality(P), P) : Kept(s, P) = [n \in 1 .. Cardinality(P) |-> s[e[n]]]
<1>1. DOMAIN s = 1 .. Len(s) /\ Len(s) \in Nat
  OBVIOUS
<1>2. IsFiniteSet(1 .. Len(s))
  BY <1>1, FS_Interval
<1>3. P \in SUBSET Nat /\ IsFiniteSet(P)
  BY <1>1, <1>2, FS_Subset
<1> QED BY <1>3, PlacesAreCounted, FS_CardinalityType

IsArticle(t) == {"id", "ref"} \subseteq DOMAIN t

LEMMA TweetsAreArticles ==
  ASSUME NEW r, H!Readable(r)
  PROVE  IsArticle(H!Tweet(r)) /\ H!Tweet(r).id = r.id
BY DEF H!Tweet, H!Article, IsArticle

\* The readable ones of some results, one by one.
LEMMA ParsedReads ==
  ASSUME NEW V, NEW results \in Seq(V)
  PROVE  LET P == {i \in DOMAIN results : H!Readable(results[i])}
             N == Cardinality(P)
             talk == H!Parsed(results)
         IN  /\ N \in Nat /\ Len(talk) = N /\ DOMAIN talk = 1 .. N /\ talk \in Seq({talk[n] : n \in 1 .. N})
             /\ \E e \in Bijection(1 .. N, P) :
                  \A n \in 1 .. N : IsArticle(talk[n]) /\ talk[n].id = results[e[n]].id
<1> DEFINE P == {i \in DOMAIN results : H!Readable(results[i])}
           N == Cardinality(P)
           talk == H!Parsed(results)
           readable == Kept(results, P)
<1>1. N \in Nat
  BY PlacesOfASequence
<1>2. PICK e \in Bijection(1 .. N, P) : readable = [n \in 1 .. N |-> results[e[n]]]
  <2>1. P \subseteq DOMAIN results
    OBVIOUS
  <2> HIDE DEF P
  <2> QED BY <2>1, PlacesOfASequence
<1>3. talk = [n \in DOMAIN readable |-> H!Tweet(readable[n])]
  BY PagesFilter DEF H!Parsed
<1>4. \A n \in 1 .. N : e[n] \in P
  BY <1>2 DEF Bijection, Injection
<1> HIDE DEF N
<1>5. \A n \in 1 .. N : talk[n] = H!Tweet(results[e[n]]) /\ H!Readable(results[e[n]])
  BY <1>2, <1>3, <1>4
<1>6. DOMAIN talk = 1 .. N
  BY <1>2, <1>3
<1>7. talk = [n \in 1 .. N |-> H!Tweet(results[e[n]])]
  BY <1>2, <1>3
<1> HIDE DEF talk, readable
<1>8. Len(talk) = N /\ talk \in Seq({talk[n] : n \in 1 .. N})
  BY <1>1, <1>7
<1>9. \A n \in 1 .. N : IsArticle(talk[n]) /\ talk[n].id = results[e[n]].id
  BY <1>5, TweetsAreArticles
<1> QED BY <1>1, <1>2, <1>6, <1>8, <1>9 DEF N, talk

-----------------------------------------------------------------------------
(* A conversation is told from its first tweet on.                          *)

LEMMA ChainGoesOn ==
  ASSUME NEW V, NEW talk \in Seq(V)
  PROVE  H!Chain(talk) =
           [n \in DOMAIN talk |-> IF n = 1 THEN H!Unmentioned(talk[1]) ELSE H!Linked(H!Chain(talk)[n - 1], talk[n])]
<1> DEFINE Goes(f, k) == f = [n \in 1 .. k |-> IF n = 1 THEN H!Unmentioned(talk[1]) ELSE H!Linked(f[n - 1], talk[n])]
           S == {k \in Nat : \E f : Goes(f, k)}
<1>1. 0 \in S
  <2>1. Goes([n \in 1 .. 0 |-> None], 0)
    OBVIOUS
  <2> QED BY <2>1
<1>2. ASSUME NEW k \in Nat, k \in S PROVE k + 1 \in S
  <2>1. PICK f : Goes(f, k)
    BY <1>2
  <2> DEFINE last == IF k = 0 THEN H!Unmentioned(talk[1]) ELSE H!Linked(f[k], talk[k + 1])
             g == [n \in 1 .. k + 1 |-> IF n = k + 1 THEN last ELSE f[n]]
  <2>2. g = [n \in 1 .. k + 1 |-> IF n = 1 THEN H!Unmentioned(talk[1]) ELSE H!Linked(g[n - 1], talk[n])]
    <3>1. ASSUME NEW n \in 1 .. k + 1
          PROVE  g[n] = IF n = 1 THEN H!Unmentioned(talk[1]) ELSE H!Linked(g[n - 1], talk[n])
      <4>1. CASE n = k + 1
        BY <4>1
      <4>2. CASE n # k + 1
        <5>1. n \in 1 .. k /\ (n # 1 => n - 1 \in 1 .. k)
          BY <4>2
        <5>2. f[n] = IF n = 1 THEN H!Unmentioned(talk[1]) ELSE H!Linked(f[n - 1], talk[n])
          BY <2>1, <5>1
        <5> QED BY <4>2, <5>1, <5>2
      <4> QED BY <4>1, <4>2
    <3> HIDE DEF last
    <3> QED BY <3>1
  <2> HIDE DEF g
  <2>3. Goes(g, k + 1)
    BY <2>2
  <2> QED BY <2>3
<1> HIDE DEF S
<1>3. Len(talk) \in S
  BY <1>1, <1>2, CountingUp
<1>4. PICK f : Goes(f, Len(talk))
  BY <1>3 DEF S
<1>5. DOMAIN talk = 1 .. Len(talk)
  OBVIOUS
<1> QED BY <1>4, <1>5 DEF H!Chain

LEMMA ChainTells ==
  ASSUME NEW V, NEW talk \in Seq(V), \A t \in V : IsArticle(t)
  PROVE  \A n \in DOMAIN talk :
           /\ IsArticle(H!Chain(talk)[n]) /\ H!Chain(talk)[n].id = talk[n].id
           /\ n > 1 => H!Chain(talk)[n].ref = H!Chain(talk)[n - 1]
<1>1. ASSUME NEW t, IsArticle(t)
      PROVE  IsArticle(H!Unmentioned(t)) /\ H!Unmentioned(t).id = t.id
  BY <1>1 DEF H!Unmentioned, IsArticle
<1>2. ASSUME NEW before, NEW t, IsArticle(t)
      PROVE  IsArticle(H!Linked(before, t)) /\ H!Linked(before, t).id = t.id /\ H!Linked(before, t).ref = before
  <2>1. IsArticle(H!Unmentioned(t)) /\ H!Unmentioned(t).id = t.id
    BY <1>1, <1>2
  <2> QED BY <2>1 DEF H!Linked, IsArticle
<1> TAKE n \in DOMAIN talk
<1>3. n \in Nat /\ IsArticle(talk[n]) /\ (n = 1 => IsArticle(talk[1]))
  OBVIOUS
<1>4. H!Chain(talk)[n] = IF n = 1 THEN H!Unmentioned(talk[1]) ELSE H!Linked(H!Chain(talk)[n - 1], talk[n])
  BY ChainGoesOn
<1> QED BY <1>1, <1>2, <1>3, <1>4

\* Up from the last tweet, reference by reference, every tweet of a conversation
\* is met.
LEMMA ChainIsTold ==
  ASSUME NEW V, NEW talk \in Seq(V), \A t \in V : IsArticle(t), talk # <<>>
  PROVE  H!Tells(H!Chain(talk)[Len(talk)], talk)
<1> DEFINE N == Len(talk)
           article == H!Chain(talk)[N]
           Goes(f) == f = [n \in 0 .. N - 1 |-> IF n = 0 THEN article ELSE f[n - 1].ref]
           back == [n \in 0 .. N - 1 |-> H!Chain(talk)[N - n]]
           up == CHOOSE f : Goes(f)
           S == {n \in Nat : n <= N - 1 => up[n] = H!Chain(talk)[N - n]}
<1>1. N \in Nat \ {0} /\ DOMAIN talk = 1 .. N
  BY EmptySeq
<1>2. \A n \in 1 .. N - 1 : H!Chain(talk)[N - (n - 1)].ref = H!Chain(talk)[N - n]
  <2> TAKE n \in 1 .. N - 1
  <2>1. N - (n - 1) \in DOMAIN talk /\ N - (n - 1) > 1 /\ (N - (n - 1)) - 1 = N - n
    BY <1>1
  <2> QED BY <2>1, ChainTells
<1>3. Goes(back)
  <2>1. \A n \in 1 .. N - 1 : n - 1 \in 0 .. N - 1 /\ back[n - 1].ref = back[n]
    BY <1>1, <1>2
  <2>2. back[0] = article
    BY <1>1
  <2>3. \A n \in 0 .. N - 1 : back[n] = IF n = 0 THEN article ELSE back[n - 1].ref
    <3> SUFFICES ASSUME NEW n \in 0 .. N - 1 PROVE back[n] = IF n = 0 THEN article ELSE back[n - 1].ref
      OBVIOUS
    <3>1. n # 0 => n \in 1 .. N - 1
      BY <1>1
    <3> HIDE DEF back, article, N
    <3> QED BY <2>1, <2>2, <3>1
  <2>4. back = [n \in 0 .. N - 1 |-> back[n]]
    OBVIOUS
  <2> HIDE DEF back, article, N
  <2> QED BY <2>3, <2>4
<1>4. Goes(up)
  <2> HIDE DEF back
  <2> QED BY <1>3
<1> HIDE DEF up, back
<1>5. \A n \in Nat : n \in S
  <2>1. 0 \in S
    BY <1>1, <1>4
  <2>2. ASSUME NEW n \in Nat, n \in S PROVE n + 1 \in S
    <3> SUFFICES ASSUME n + 1 <= N - 1 PROVE up[n + 1] = H!Chain(talk)[N - (n + 1)]
      OBVIOUS
    <3>1. up[n + 1] = up[n].ref /\ up[n] = H!Chain(talk)[N - n]
      BY <1>1, <1>4, <2>2
    <3>2. n + 1 \in 1 .. N - 1 /\ N - ((n + 1) - 1) = N - n
      BY <1>1
    <3>3. H!Chain(talk)[N - n].ref = H!Chain(talk)[N - (n + 1)]
      BY <1>2, <3>2
    <3> QED BY <3>1, <3>3
  <2> HIDE DEF S
  <2> QED BY <2>1, <2>2, CountingUp
<1>6. \A n \in 0 .. N - 1 : up[n].id = talk[N - n].id
  <2> TAKE n \in 0 .. N - 1
  <2>1. N - n \in DOMAIN talk /\ n \in Nat /\ n <= N - 1
    BY <1>1
  <2> QED BY <1>5, <2>1, ChainTells
<1> QED BY <1>6 DEF H!Tells, up

-----------------------------------------------------------------------------
(* What an answer holds.                                                    *)

LEMMA OfItsElements ==
  ASSUME NEW V, NEW s \in Seq(V)
  PROVE  s \in Seq(Elements(s))
<1>1. \A n \in 1 .. Len(s) : s[n] \in Elements(s)
  BY DEF Elements
<1>2. DOMAIN s = 1 .. Len(s) /\ Len(s) \in Nat /\ s = [n \in 1 .. Len(s) |-> s[n]]
  OBVIOUS
<1> HIDE DEF Elements
<1> QED BY <1>1, <1>2

LEMMA PresentIsASequence ==
  ASSUME NEW V, NEW s \in Seq(V)
  PROVE  H!Present(s) \in Seq(V)
<1>1. {i \in DOMAIN s : s[i] # None} \subseteq DOMAIN s
  OBVIOUS
<1> QED BY <1>1, KeptInType, PagesFilter DEF H!Present

\* What the parsers of a timeline gather are sequences.
LEMMA AnswersAreSequences ==
  ASSUME NEW answer, ReplyAnswer(answer)
  PROVE  /\ H!Singles(answer) \in Seq(Elements(H!Singles(answer)))
         /\ H!Groups(answer) \in Seq(Elements(H!Groups(answer)))
         /\ \A g \in Elements(H!Groups(answer)) : g \in Seq(Elements(g))
<1> DEFINE mixed == H!Entries(answer)
           Es == Elements(mixed)
           alone == Kept(mixed, {i \in DOMAIN mixed : mixed[i].kind = "tweet"})
           opening == [i \in DOMAIN alone |-> alone[i].items[1]]
           talks == Kept(mixed, {i \in DOMAIN mixed : mixed[i].kind = "profile-conversation"})
           sent == [i \in DOMAIN talks |-> H!Present(talks[i].items)]
           added == [i \in DOMAIN answer.modules |-> H!Present(answer.modules[i])]
           present == sent \o added
           Items == {e.items : e \in Es} \cup Elements(answer.modules)
           Gs == {H!Present(x) : x \in Items}
<1>1. mixed \in Seq(Es)
  <2>1. answer.entries \in Seq(Elements(answer.entries) \cup {answer.pinned})
    BY SeqMonotonic DEF ReplyAnswer
  <2>2. mixed \in Seq(Elements(answer.entries) \cup {answer.pinned})
    <3> DEFINE V == Elements(answer.entries) \cup {answer.pinned}
    <3>1. CASE answer.pinned = None
      <4>1. <<>> \in Seq(V) /\ mixed = <<>> \o answer.entries
        BY <3>1 DEF H!Entries
      <4> HIDE DEF V, mixed
      <4> QED BY <2>1, <4>1 DEF V
    <3>2. CASE answer.pinned # None
      <4>1. <<answer.pinned>> \in Seq(V) /\ mixed = <<answer.pinned>> \o answer.entries
        BY <3>2 DEF H!Entries
      <4> HIDE DEF V, mixed
      <4> QED BY <2>1, <4>1 DEF V
    <3> QED BY <3>1, <3>2
  <2> HIDE DEF mixed
  <2> QED BY <2>2, OfItsElements
<1>2. \A x \in Items : x \in Seq(Elements(x))
  BY DEF ReplyAnswer
<1> HIDE DEF mixed, Es
<1>3. alone \in Seq(Es) /\ talks \in Seq(Es)
  <2>1. {i \in DOMAIN mixed : mixed[i].kind = "tweet"} \subseteq DOMAIN mixed
        /\ {i \in DOMAIN mixed : mixed[i].kind = "profile-conversation"} \subseteq DOMAIN mixed
    OBVIOUS
  <2> QED BY <1>1, <2>1, KeptInType
<1>4. H!Singles(answer) = H!Present(opening) /\ H!Groups(answer) = Kept(present, {i \in DOMAIN present : present[i] # <<>>})
  BY PagesFilter DEF H!Singles, H!Groups, mixed
<1> HIDE DEF alone, talks
<1>5. opening \in Seq({e.items[1] : e \in Es})
  BY <1>3
<1>6. H!Singles(answer) \in Seq(Elements(H!Singles(answer)))
  <2> HIDE DEF opening
  <2>1. H!Singles(answer) \in Seq({e.items[1] : e \in Es})
    BY <1>4, <1>5, PresentIsASequence
  <2> QED BY <2>1, OfItsElements
<1>7. sent \in Seq(Gs)
  <2>1. \A i \in DOMAIN talks : H!Present(talks[i].items) \in Gs
    BY <1>3
  <2> HIDE DEF Gs
  <2> QED BY <1>3, <2>1
<1>8. added \in Seq(Gs)
  <2>1. answer.modules \in Seq(Elements(answer.modules))
    BY DEF ReplyAnswer
  <2>2. \A i \in DOMAIN answer.modules : H!Present(answer.modules[i]) \in Gs
    BY <2>1
  <2> HIDE DEF Gs
  <2> QED BY <2>1, <2>2
<1>9. \A g \in Gs : g \in Seq(Elements(g))
  <2> SUFFICES ASSUME NEW x \in Items PROVE H!Present(x) \in Seq(Elements(H!Present(x)))
    OBVIOUS
  <2>1. H!Present(x) \in Seq(Elements(x))
    BY <1>2, PresentIsASequence
  <2> QED BY <2>1, OfItsElements
<1> HIDE DEF Gs, sent, added
<1>10. H!Groups(answer) \in Seq(Gs)
  <2>1. present \in Seq(Gs)
    BY <1>7, <1>8
  <2>2. {i \in DOMAIN present : present[i] # <<>>} \subseteq DOMAIN present
    OBVIOUS
  <2> HIDE DEF present
  <2> QED BY <1>4, <2>1, <2>2, KeptInType
<1>11. H!Groups(answer) \in Seq(Elements(H!Groups(answer))) /\ Elements(H!Groups(answer)) \subseteq Gs
  BY <1>10, OfItsElements DEF Elements
<1> QED BY <1>6, <1>9, <1>11

-----------------------------------------------------------------------------
(* The tweets of an answer and where they are shown.                        *)

Talk(answer, g) == H!Parsed(H!Groups(answer)[g])

\* What is told of the conversations is what they hold and can be read, each tweet
\* at one place of one conversation.
LEMMA TalksReadOnce ==
  ASSUME NEW answer, ReplyAnswer(answer)
  PROVE  LET groups == H!Groups(answer)
         IN  /\ \A g \in DOMAIN groups :
                  /\ Talk(answer, g) \in Seq({Talk(answer, g)[n] : n \in DOMAIN Talk(answer, g)})
                  /\ DOMAIN Talk(answer, g) = 1 .. Len(Talk(answer, g)) /\ Len(Talk(answer, g)) \in Nat
             /\ \A g \in DOMAIN groups : \A m \in DOMAIN Talk(answer, g) :
                  /\ IsArticle(Talk(answer, g)[m])
                  /\ \E n \in DOMAIN groups[g] : groups[g][n].id = Talk(answer, g)[m].id
             /\ \A g \in DOMAIN groups : \A n \in DOMAIN groups[g] :
                  H!Readable(groups[g][n]) => \E m \in DOMAIN Talk(answer, g) : Talk(answer, g)[m].id = groups[g][n].id
             /\ \A g, h \in DOMAIN groups : \A m \in DOMAIN Talk(answer, g), n \in DOMAIN Talk(answer, h) :
                  Talk(answer, g)[m].id = Talk(answer, h)[n].id => g = h /\ m = n
<1> DEFINE groups == H!Groups(answer)
           P(g) == {i \in DOMAIN groups[g] : H!Readable(groups[g][i])}
           N(g) == Cardinality(P(g))
           Follows(g, e) == /\ e \in Bijection(1 .. N(g), P(g))
                          /\ \A n \in 1 .. N(g) : /\ IsArticle(Talk(answer, g)[n])
                                                 /\ Talk(answer, g)[n].id = groups[g][e[n]].id
           at(g) == CHOOSE e : Follows(g, e)
<1>1. ASSUME NEW g \in DOMAIN groups
      PROVE  /\ Len(Talk(answer, g)) = N(g) /\ DOMAIN Talk(answer, g) = 1 .. N(g) /\ N(g) \in Nat
             /\ Talk(answer, g) \in Seq({Talk(answer, g)[n] : n \in DOMAIN Talk(answer, g)})
             /\ Follows(g, at(g))
  <2>1. groups[g] \in Seq(Elements(groups[g]))
    <3>1. groups[g] \in Elements(groups)
      BY DEF Elements
    <3> QED BY <3>1, AnswersAreSequences
  <2>2. /\ Len(Talk(answer, g)) = N(g) /\ DOMAIN Talk(answer, g) = 1 .. N(g) /\ N(g) \in Nat
        /\ Talk(answer, g) \in Seq({Talk(answer, g)[n] : n \in 1 .. N(g)})
    BY <2>1, ParsedReads DEF Talk
  <2>3. Follows(g, at(g))
    <3>1. PICK e \in Bijection(1 .. N(g), P(g)) :
            \A n \in 1 .. N(g) : /\ IsArticle(H!Parsed(groups[g])[n])
                                 /\ H!Parsed(groups[g])[n].id = groups[g][e[n]].id
      <4> HIDE DEF groups
      <4> QED BY <2>1, ParsedReads
    <3>2. Talk(answer, g) = H!Parsed(groups[g])
      BY DEF Talk
    <3>3. Follows(g, e)
      <4> HIDE DEF groups, N, P
      <4> QED BY <3>1, <3>2
    <3> HIDE DEF Follows
    <3> QED BY <3>3
  <2> HIDE DEF N, P, Follows, at
  <2> QED BY <2>2, <2>3
<1>2. \A g, h \in DOMAIN groups : \A m \in DOMAIN groups[g], n \in DOMAIN groups[h] :
        H!Readable(groups[g][m]) /\ H!Readable(groups[h][n]) /\ groups[g][m].id = groups[h][n].id => g = h /\ m = n
  BY DEF ReplyAnswer
<1>3. \A g \in DOMAIN groups : \A i \in P(g) : i \in DOMAIN groups[g] /\ H!Readable(groups[g][i])
  OBVIOUS
<1>4. \A g \in DOMAIN groups : \A n \in DOMAIN groups[g] : H!Readable(groups[g][n]) => n \in P(g)
  OBVIOUS
<1> HIDE DEF groups, N, P
<1>5. ASSUME NEW g, NEW e, Follows(g, e)
      PROVE  /\ \A n \in 1 .. N(g) : e[n] \in P(g)
             /\ \A x \in P(g) : \E n \in 1 .. N(g) : e[n] = x
             /\ \A m, n \in 1 .. N(g) : e[m] = e[n] => m = n
             /\ \A n \in 1 .. N(g) : IsArticle(Talk(answer, g)[n]) /\ Talk(answer, g)[n].id = groups[g][e[n]].id
  BY <1>5 DEF Bijection, Injection, Surjection, IsInjective
<1> HIDE DEF Follows, at
<1>6. ASSUME NEW g \in DOMAIN groups
      PROVE  /\ \A m \in DOMAIN Talk(answer, g) :
                  /\ IsArticle(Talk(answer, g)[m])
                  /\ \E n \in DOMAIN groups[g] : groups[g][n].id = Talk(answer, g)[m].id
             /\ \A n \in DOMAIN groups[g] :
                  H!Readable(groups[g][n]) => \E m \in DOMAIN Talk(answer, g) : Talk(answer, g)[m].id = groups[g][n].id
  <2>1. Follows(g, at(g))
    BY <1>1
  <2>2. ASSUME NEW m \in DOMAIN Talk(answer, g)
        PROVE  /\ IsArticle(Talk(answer, g)[m])
               /\ \E n \in DOMAIN groups[g] : groups[g][n].id = Talk(answer, g)[m].id
    <3>1. m \in 1 .. N(g)
      BY <1>1
    <3>2. at(g)[m] \in DOMAIN groups[g] /\ Talk(answer, g)[m].id = groups[g][at(g)[m]].id
      BY <1>3, <1>5, <2>1, <3>1
    <3> QED BY <1>5, <2>1, <3>1, <3>2
  <2>3. ASSUME NEW n \in DOMAIN groups[g], H!Readable(groups[g][n])
        PROVE  \E m \in DOMAIN Talk(answer, g) : Talk(answer, g)[m].id = groups[g][n].id
    <3>1. PICK m \in 1 .. N(g) : at(g)[m] = n
      BY <1>4, <1>5, <2>1, <2>3
    <3>2. Talk(answer, g)[m].id = groups[g][at(g)[m]].id
      BY <1>5, <2>1
    <3>3. m \in DOMAIN Talk(answer, g)
      BY <1>1
    <3> QED BY <3>1, <3>2, <3>3
  <2> QED BY <2>2, <2>3
<1>7. ASSUME NEW g \in DOMAIN groups, NEW h \in DOMAIN groups,
             NEW m \in DOMAIN Talk(answer, g), NEW n \in DOMAIN Talk(answer, h),
             Talk(answer, g)[m].id = Talk(answer, h)[n].id
      PROVE  g = h /\ m = n
  <2>1. m \in 1 .. N(g) /\ n \in 1 .. N(h) /\ Follows(g, at(g)) /\ Follows(h, at(h))
    BY <1>1
  <2>2. groups[g][at(g)[m]].id = groups[h][at(h)[n]].id /\ at(g)[m] \in P(g) /\ at(h)[n] \in P(h)
    BY <1>5, <1>7, <2>1
  <2>3. g = h /\ at(g)[m] = at(h)[n]
    BY <1>2, <1>3, <2>2
  <2> QED BY <1>5, <2>1, <2>3
<1>8. \A g \in DOMAIN groups : DOMAIN Talk(answer, g) = 1 .. Len(Talk(answer, g)) /\ Len(Talk(answer, g)) \in Nat
  BY <1>1
<1> QED BY <1>1, <1>6, <1>7, <1>8 DEF groups

\* The single entries that reply and that no conversation holds, and their articles.
Direct(answer) ==
  LET singles == H!Singles(answer)
  IN  {i \in DOMAIN singles : singles[i].replyTo # None /\ singles[i].id \notin H!Grouped(answer)}

Alone(answer) == H!Parsed(Kept(H!Singles(answer), Direct(answer)))

\* They come one by one, each that can be read once.
LEMMA DirectReplies ==
  ASSUME NEW answer, ReplyAnswer(answer)
  PROVE  LET singles == H!Singles(answer)
             alone == Alone(answer)
         IN  /\ Len(alone) \in Nat /\ alone \in Seq({alone[k] : k \in DOMAIN alone})
             /\ \E f : /\ \A k \in DOMAIN alone : /\ f[k] \in Direct(answer) /\ H!Readable(singles[f[k]])
                                                /\ alone[k].id = singles[f[k]].id
                       /\ \A i \in Direct(answer) :
                            H!Readable(singles[i]) => \E k \in DOMAIN alone : f[k] = i
                       /\ \A j, k \in DOMAIN alone : f[j] = f[k] => j = k
<1> DEFINE singles == H!Singles(answer)
           D == Direct(answer)
           direct == Kept(singles, D)
           alone == H!Parsed(direct)
           N == Cardinality(D)
           R == {i \in DOMAIN direct : H!Readable(direct[i])}
           O == Cardinality(R)
<1>1. singles \in Seq(Elements(singles))
  BY AnswersAreSequences
<1>2. D \subseteq DOMAIN singles
  BY DEF Direct
<1> HIDE DEF singles, D
<1>3. N \in Nat /\ \E e \in Bijection(1 .. N, D) : direct = [n \in 1 .. N |-> singles[e[n]]]
  BY <1>1, <1>2, PlacesOfASequence
<1>4. direct \in Seq(Elements(singles))
  BY <1>1, <1>2, KeptInType
<1> HIDE DEF direct
<1>5. /\ O \in Nat /\ Len(alone) = O /\ DOMAIN alone = 1 .. O /\ alone \in Seq({alone[n] : n \in 1 .. O})
      /\ \E e \in Bijection(1 .. O, R) : \A n \in 1 .. O : alone[n].id = direct[e[n]].id
  BY <1>4, ParsedReads
<1> HIDE DEF alone, O, N
<1>6. PICK d : d \in Bijection(1 .. N, D) /\ direct = [n \in 1 .. N |-> singles[d[n]]]
  BY <1>3
<1>7. PICK e : e \in Bijection(1 .. O, R) /\ \A n \in 1 .. O : alone[n].id = direct[e[n]].id
  BY <1>5
<1>8. /\ \A n \in 1 .. N : d[n] \in D
      /\ \A x \in D : \E n \in 1 .. N : d[n] = x
      /\ \A m, n \in 1 .. N : d[m] = d[n] => m = n
  BY <1>6 DEF Bijection, Injection, Surjection, IsInjective
<1>9. \A n \in R : n \in 1 .. N /\ H!Readable(singles[d[n]]) /\ direct[n] = singles[d[n]]
  BY <1>6
<1>10. \A n \in 1 .. N : H!Readable(singles[d[n]]) => n \in R
  BY <1>6
<1> HIDE DEF R
<1>11. /\ \A n \in 1 .. O : e[n] \in R
       /\ \A x \in R : \E n \in 1 .. O : e[n] = x
       /\ \A m, n \in 1 .. O : e[m] = e[n] => m = n
  BY <1>7 DEF Bijection, Injection, Surjection, IsInjective
<1> DEFINE f == [k \in 1 .. O |-> d[e[k]]]
<1>12. \A k \in 1 .. O : f[k] \in D /\ H!Readable(singles[f[k]]) /\ alone[k].id = singles[f[k]].id
  BY <1>7, <1>8, <1>9, <1>11
<1>13. ASSUME NEW i \in D, H!Readable(singles[i]) PROVE \E k \in 1 .. O : f[k] = i
  <2>1. PICK n \in 1 .. N : d[n] = i
    BY <1>8
  <2>2. n \in R
    BY <1>10, <1>13, <2>1
  <2>3. PICK k \in 1 .. O : e[k] = n
    BY <1>11, <2>2
  <2> QED BY <2>1, <2>3
<1>14. \A j, k \in 1 .. O : f[j] = f[k] => j = k
  <2> SUFFICES ASSUME NEW j \in 1 .. O, NEW k \in 1 .. O, d[e[j]] = d[e[k]] PROVE j = k
    OBVIOUS
  <2>1. e[j] \in 1 .. N /\ e[k] \in 1 .. N
    BY <1>9, <1>11
  <2>2. e[j] = e[k]
    BY <1>8, <2>1
  <2> QED BY <1>11, <2>2
<1> HIDE DEF f
<1>15. Len(alone) \in Nat /\ DOMAIN alone = 1 .. O /\ alone \in Seq({alone[k] : k \in DOMAIN alone})
  BY <1>5
<1>16. \E h : /\ \A k \in DOMAIN alone : h[k] \in D /\ H!Readable(singles[h[k]]) /\ alone[k].id = singles[h[k]].id
              /\ \A i \in D : H!Readable(singles[i]) => \E k \in DOMAIN alone : h[k] = i
              /\ \A j, k \in DOMAIN alone : h[j] = h[k] => j = k
  BY <1>12, <1>13, <1>14, <1>15
<1> QED BY <1>15, <1>16 DEF Alone, alone, direct, D, singles

\* The articles of the conversations come first, then the replies by themselves.
\* The conversations with something to tell.
Filled(answer) == {g \in DOMAIN H!Groups(answer) : Talk(answer, g) # <<>>}

\* N conversations in the order of e, then O single replies in the order of f.
LaidOut(answer, N, O, e, f) ==
  /\ DOMAIN H!Replies(answer) = 1 .. N + O
  /\ e \in Bijection(1 .. N, Filled(answer))
  /\ \A n \in 1 .. N : H!Replies(answer)[n] = H!Conversation(H!Groups(answer)[e[n]])
  /\ \A k \in 1 .. O : /\ f[k] \in Direct(answer) /\ H!Readable(H!Singles(answer)[f[k]])
                      /\ H!Replies(answer)[N + k].id = H!Singles(answer)[f[k]].id
  /\ \A i \in Direct(answer) : H!Readable(H!Singles(answer)[i]) => \E k \in 1 .. O : f[k] = i
  /\ \A j, k \in 1 .. O : f[j] = f[k] => j = k

LEMMA ArticlesOfReplies ==
  ASSUME NEW answer, ReplyAnswer(answer)
  PROVE  \E N, O \in Nat : \E e, f : LaidOut(answer, N, O, e, f)
<1> DEFINE groups == H!Groups(answer)
           singles == H!Singles(answer)
           filled == Filled(answer)
           D == Direct(answer)
           alone == Alone(answer)
           talks == Kept(groups, filled)
           told == [i \in DOMAIN talks |-> H!Conversation(talks[i])]
           N == Cardinality(filled)
           O == Len(alone)
           Matches(f) ==
                      /\ \A k \in 1 .. O : f[k] \in D /\ H!Readable(singles[f[k]]) /\ alone[k].id = singles[f[k]].id
                      /\ \A i \in D : H!Readable(singles[i]) => \E k \in 1 .. O : f[k] = i
                      /\ \A j, k \in 1 .. O : f[j] = f[k] => j = k
<1>1. H!Replies(answer) = told \o alone
  BY PagesFilter DEF H!Replies, Talk, Filled, Alone, Direct
<1>2. alone \in Seq({alone[k] : k \in DOMAIN alone}) /\ O \in Nat /\ DOMAIN alone = 1 .. O
  <2>1. alone \in Seq({alone[k] : k \in DOMAIN alone}) /\ O \in Nat
    BY DirectReplies
  <2> HIDE DEF alone
  <2> QED BY <2>1
<1>3. \E f : Matches(f)
  <2>1. \E f : /\ \A k \in DOMAIN alone : f[k] \in D /\ H!Readable(singles[f[k]]) /\ alone[k].id = singles[f[k]].id
               /\ \A i \in D : H!Readable(singles[i]) => \E k \in DOMAIN alone : f[k] = i
               /\ \A j, k \in DOMAIN alone : f[j] = f[k] => j = k
    BY DirectReplies
  <2> HIDE DEF alone, D, singles, O
  <2> QED BY <1>2, <2>1
<1> HIDE DEF alone, O
<1>4. N \in Nat /\ \E e \in Bijection(1 .. N, filled) : talks = [n \in 1 .. N |-> groups[e[n]]]
  <2>1. groups \in Seq(Elements(groups)) /\ filled \subseteq DOMAIN groups
    BY AnswersAreSequences DEF Filled
  <2> HIDE DEF groups, filled
  <2> QED BY <2>1, PlacesOfASequence
<1>5. PICK e \in Bijection(1 .. N, filled) : talks = [n \in 1 .. N |-> groups[e[n]]]
  BY <1>4
<1> HIDE DEF talks, N, filled, groups, singles, D
<1>6. told = [n \in 1 .. N |-> H!Conversation(groups[e[n]])]
  BY <1>5
<1> HIDE DEF told
<1> DEFINE both == told \o alone
<1>7. /\ DOMAIN both = 1 .. N + O
      /\ \A n \in 1 .. N : both[n] = H!Conversation(groups[e[n]])
      /\ \A k \in 1 .. O : both[N + k] = alone[k]
  <2> DEFINE V == {told[n] : n \in 1 .. N} \cup {alone[k] : k \in DOMAIN alone}
  <2>1. Len(told) = N /\ told \in Seq({told[n] : n \in 1 .. N}) /\ Len(alone) = O
    BY <1>4, <1>6 DEF O
  <2>2. told \in Seq(V) /\ alone \in Seq(V)
    BY <1>2, <2>1, SeqMonotonic
  <2> HIDE DEF V
  <2>3. /\ both \in Seq(V) /\ Len(both) = N + O
        /\ \A n \in 1 .. N + O : both[n] = IF n <= N THEN told[n] ELSE alone[n - N]
    BY <2>1, <2>2, ConcatProperties
  <2> HIDE DEF both
  <2>4. DOMAIN both = 1 .. N + O
    BY <2>3
  <2>5. \A n \in 1 .. N : both[n] = told[n] /\ told[n] = H!Conversation(groups[e[n]])
    BY <1>2, <1>4, <1>6, <2>3
  <2>6. ASSUME NEW k \in 1 .. O PROVE both[N + k] = alone[k]
    <3>1. N + k \in 1 .. N + O /\ ~ (N + k <= N) /\ (N + k) - N = k
      BY <1>2, <1>4
    <3> QED BY <2>3, <3>1
  <2> QED BY <2>4, <2>5, <2>6
<1>8. PICK f : Matches(f)
  BY <1>3
<1> HIDE DEF both
<1>9. N \in Nat /\ O \in Nat
  BY <1>2, <1>4
<1>10. H!Replies(answer) = both
  BY <1>1 DEF both
<1>11. LaidOut(answer, N, O, e, f)
  BY <1>5, <1>7, <1>8, <1>10 DEF LaidOut, groups, singles, filled, D
<1> QED BY <1>9, <1>11

\* The article of a conversation is that of its last tweet, and leads to its first.
LEMMA ConversationIsTold ==
  ASSUME NEW answer, ReplyAnswer(answer), NEW g \in Filled(answer)
  PROVE  LET talk == Talk(answer, g)
             article == H!Conversation(H!Groups(answer)[g])
         IN  Len(talk) \in DOMAIN talk /\ article.id = talk[Len(talk)].id /\ H!Tells(article, talk)
<1> DEFINE talk == Talk(answer, g)
           V == {talk[n] : n \in DOMAIN talk}
           article == H!Conversation(H!Groups(answer)[g])
<1>1. g \in DOMAIN H!Groups(answer) /\ talk # <<>>
  BY DEF Filled
<1>2. talk \in Seq(V) /\ DOMAIN talk = 1 .. Len(talk) /\ Len(talk) \in Nat
  BY <1>1, TalksReadOnce
<1>3. \A t \in V : IsArticle(t)
  <2>1. \A n \in DOMAIN talk : IsArticle(talk[n])
    BY <1>1, TalksReadOnce
  <2> QED BY <2>1
<1>4. article = H!Chain(talk)[Len(talk)]
  BY DEF H!Conversation, Talk
<1> HIDE DEF talk, V, article
<1>5. Len(talk) \in DOMAIN talk
  BY <1>1, <1>2, EmptySeq
<1>6. article.id = talk[Len(talk)].id
  BY <1>2, <1>3, <1>4, <1>5, ChainTells
<1>7. H!Tells(article, talk)
  BY <1>1, <1>2, <1>3, <1>4, ChainIsTold
<1> QED BY <1>5, <1>6, <1>7 DEF talk, article

\* One place is one.
LEMMA OnePlace == \A p : Cardinality({p}) = 1
BY FS_Singleton

\* A tweet of a conversation is told by the article of the conversation when it
\* is the last, and above it when it is not.
LEMMA GroupedIsShownOnce ==
  ASSUME NEW answer, ReplyAnswer(answer), NEW N \in Nat, NEW O \in Nat, NEW e, NEW f,
         LaidOut(answer, N, O, e, f),
         NEW g \in DOMAIN H!Groups(answer), NEW m \in DOMAIN Talk(answer, g),
         Talk(answer, g)[m].id \in H!Grouped(answer)
  PROVE  LET talks == [h \in DOMAIN H!Groups(answer) |-> Talk(answer, h)]
         IN  \E p : H!Places(Talk(answer, g)[m].id, H!Replies(answer), talks) = {p}
<1> DEFINE groups == H!Groups(answer)
           articles == H!Replies(answer)
           talks == [h \in DOMAIN groups |-> Talk(answer, h)]
           id == Talk(answer, g)[m].id
           Told(h, n) == h \in DOMAIN groups /\ n \in 1 .. Len(talks[h]) - 1 /\ talks[h][n].id = id
<1>1. \A h \in DOMAIN groups : \A n \in DOMAIN Talk(answer, h) : Talk(answer, h)[n].id = id => h = g /\ n = m
  BY TalksReadOnce
<1>2. \A h \in DOMAIN groups : DOMAIN Talk(answer, h) = 1 .. Len(Talk(answer, h)) /\ Len(Talk(answer, h)) \in Nat
  BY TalksReadOnce
<1>3. /\ DOMAIN articles = 1 .. N + O
      /\ \A n \in 1 .. N : articles[n] = H!Conversation(groups[e[n]]) /\ e[n] \in Filled(answer)
      /\ \A x \in Filled(answer) : \E n \in 1 .. N : e[n] = x
      /\ \A i, j \in 1 .. N : e[i] = e[j] => i = j
  BY DEF LaidOut, Bijection, Injection, Surjection, IsInjective
<1>4. \A k \in 1 .. O : articles[N + k].id # id
  BY DEF LaidOut, Direct
<1>5. \A n \in 1 .. N : /\ articles[n].id = Talk(answer, e[n])[Len(Talk(answer, e[n]))].id
                        /\ Len(Talk(answer, e[n])) \in DOMAIN Talk(answer, e[n])
  BY <1>3, ConversationIsTold
<1>6. \A x \in Filled(answer) : x \in DOMAIN groups
  BY DEF Filled
<1> HIDE DEF id, articles, groups
<1>7. ASSUME NEW i \in DOMAIN articles, articles[i].id = id
      PROVE  i \in 1 .. N /\ e[i] = g /\ m = Len(Talk(answer, g))
  <2>1. i \in 1 .. N
    <3> SUFFICES ASSUME ~ (i <= N) PROVE FALSE
      BY <1>3
    <3>1. i - N \in 1 .. O /\ N + (i - N) = i
      BY <1>3
    <3> QED BY <1>4, <1>7, <3>1
  <2> QED BY <1>1, <1>3, <1>5, <1>6, <1>7, <2>1
<1>8. \A h, n : Told(h, n) => h = g /\ n = m /\ m # Len(Talk(answer, g))
  BY <1>1, <1>2
<1>9. H!Places(id, articles, talks)
        = {<<i, 0>> : i \in {i \in DOMAIN articles : articles[i].id = id}}
            \cup UNION {{<<h, n>> : n \in {n \in 1 .. Len(talks[h]) - 1 : talks[h][n].id = id}} : h \in DOMAIN groups}
  BY DEF H!Places
<1>10. CASE m = Len(Talk(answer, g))
  <2>1. Talk(answer, g) # <<>> /\ g \in Filled(answer)
    BY <1>2, <1>10 DEF Filled, groups
  <2>2. PICK i \in 1 .. N : e[i] = g
    BY <1>3, <2>1
  <2>3. i \in DOMAIN articles /\ articles[i].id = id
    BY <1>3, <1>5, <1>10, <2>2 DEF id
  <2>4. {j \in DOMAIN articles : articles[j].id = id} = {i}
    BY <1>3, <1>7, <2>2, <2>3
  <2>5. \A h \in DOMAIN groups : {n \in 1 .. Len(talks[h]) - 1 : talks[h][n].id = id} = {}
    BY <1>8, <1>10
  <2>6. H!Places(id, articles, talks) = {<<i, 0>>}
    <3> HIDE DEF talks
    <3> QED BY <1>9, <2>4, <2>5
  <2> QED BY <2>6 DEF id, articles, groups
<1>11. CASE m # Len(Talk(answer, g))
  <2>1. {i \in DOMAIN articles : articles[i].id = id} = {}
    BY <1>7, <1>11
  <2>2. {n \in 1 .. Len(talks[g]) - 1 : talks[g][n].id = id} = {m}
    <3>1. m \in 1 .. Len(talks[g]) - 1 /\ talks[g][m].id = id
      BY <1>2, <1>11 DEF id, groups
    <3> QED BY <1>8, <3>1 DEF groups
  <2>3. \A h \in DOMAIN groups : h # g => {n \in 1 .. Len(talks[h]) - 1 : talks[h][n].id = id} = {}
    BY <1>8
  <2>4. g \in DOMAIN groups
    BY DEF groups
  <2>5. H!Places(id, articles, talks) = {<<g, m>>}
    <3> DEFINE At(h) == {n \in 1 .. Len(talks[h]) - 1 : talks[h][n].id = id}
               Seen(h) == {<<h, n>> : n \in At(h)}
    <3>1. H!Places(id, articles, talks) = UNION {Seen(h) : h \in DOMAIN groups}
      BY <1>9, <2>1
    <3> HIDE DEF At
    <3>2. Seen(g) = {<<g, m>>}
      BY <2>2 DEF At
    <3>3. \A h \in DOMAIN groups : h # g => Seen(h) = {}
      BY <2>3 DEF At
    <3> HIDE DEF Seen
    <3> QED BY <2>4, <3>1, <3>2, <3>3
  <2> QED BY <2>5 DEF id, articles, groups
<1> QED BY <1>10, <1>11

\* A reply that no conversation holds is told by an article of its own.
LEMMA DirectIsShownOnce ==
  ASSUME NEW answer, ReplyAnswer(answer), NEW N \in Nat, NEW O \in Nat, NEW e, NEW f,
         LaidOut(answer, N, O, e, f),
         NEW i \in Direct(answer), H!Readable(H!Singles(answer)[i])
  PROVE  LET talks == [h \in DOMAIN H!Groups(answer) |-> Talk(answer, h)]
         IN  \E p : H!Places(H!Singles(answer)[i].id, H!Replies(answer), talks) = {p}
<1> DEFINE groups == H!Groups(answer)
           singles == H!Singles(answer)
           articles == H!Replies(answer)
           talks == [h \in DOMAIN groups |-> Talk(answer, h)]
           id == singles[i].id
<1>1. \A h \in DOMAIN groups : \A n \in DOMAIN Talk(answer, h) : Talk(answer, h)[n].id # id
  <2> SUFFICES ASSUME NEW h \in DOMAIN groups, NEW n \in DOMAIN Talk(answer, h), Talk(answer, h)[n].id = id
               PROVE  FALSE
    OBVIOUS
  <2>1. PICK m \in DOMAIN groups[h] : groups[h][m].id = id
    BY TalksReadOnce
  <2>2. id \in H!Grouped(answer)
    BY <2>1 DEF H!Grouped, H!ToSet
  <2> QED BY <2>2 DEF Direct
<1>2. \A h \in DOMAIN groups : DOMAIN Talk(answer, h) = 1 .. Len(Talk(answer, h)) /\ Len(Talk(answer, h)) \in Nat
  BY TalksReadOnce
<1>3. /\ DOMAIN articles = 1 .. N + O
      /\ \A n \in 1 .. N : articles[n] = H!Conversation(groups[e[n]]) /\ e[n] \in Filled(answer)
      /\ \A k \in 1 .. O : /\ articles[N + k].id = singles[f[k]].id /\ f[k] \in DOMAIN singles
                          /\ H!Readable(singles[f[k]])
      /\ i \in DOMAIN singles
  BY DEF LaidOut, Direct, Bijection, Injection
<1>4. \A n \in 1 .. N : articles[n].id # id
  <2> TAKE n \in 1 .. N
  <2>1. /\ articles[n].id = Talk(answer, e[n])[Len(Talk(answer, e[n]))].id
        /\ Len(Talk(answer, e[n])) \in DOMAIN Talk(answer, e[n])
    BY <1>3, ConversationIsTold
  <2>2. e[n] \in DOMAIN groups
    BY <1>3 DEF Filled
  <2> QED BY <1>1, <2>1, <2>2
<1>5. \A k \in 1 .. O : articles[N + k].id = id => f[k] = i
  BY <1>3 DEF ReplyAnswer
<1>6. PICK k \in 1 .. O : f[k] = i
  BY DEF LaidOut
<1>7. \A j \in 1 .. O : articles[N + j].id = id => j = k
  BY <1>5, <1>6 DEF LaidOut
<1>8. articles[N + k].id = id /\ N + k \in DOMAIN articles
  BY <1>3, <1>6
<1>9. H!Places(id, articles, talks)
        = {<<j, 0>> : j \in {j \in DOMAIN articles : articles[j].id = id}}
            \cup UNION {{<<h, n>> : n \in {n \in 1 .. Len(talks[h]) - 1 : talks[h][n].id = id}} : h \in DOMAIN groups}
  BY DEF H!Places
<1> HIDE DEF id, articles, groups
<1>10. \A h \in DOMAIN groups : {n \in 1 .. Len(talks[h]) - 1 : talks[h][n].id = id} = {}
  BY <1>1, <1>2
<1>11. {j \in DOMAIN articles : articles[j].id = id} = {N + k}
  <2>1. ASSUME NEW j \in DOMAIN articles, articles[j].id = id PROVE j = N + k
    <3>1. ~ (j <= N)
      BY <1>3, <1>4, <2>1
    <3>2. j - N \in 1 .. O /\ N + (j - N) = j
      BY <1>3, <3>1
    <3> QED BY <1>7, <2>1, <3>2
  <2> QED BY <1>8, <2>1
<1>12. H!Places(id, articles, talks) = {<<N + k, 0>>}
  <2> HIDE DEF talks
  <2> QED BY <1>9, <1>10, <1>11
<1> QED BY <1>12 DEF id, articles, groups

\* Whatever the answer holds, its replies are shown once.
LEMMA AnswersAreShown ==
  ASSUME NEW answer, ReplyAnswer(answer)
  PROVE  LET articles == H!Replies(answer)
             talks == [g \in DOMAIN H!Groups(answer) |-> H!Parsed(H!Groups(answer)[g])]
         IN  /\ \A g \in DOMAIN talks :
                  talks[g] # <<>> => \E i \in DOMAIN articles : H!Tells(articles[i], talks[g])
             /\ \A r \in H!ToSet(H!Singles(answer)) :
                  r.replyTo # None /\ H!Readable(r) => H!Cardinality(H!Places(r.id, articles, talks)) = 1
<1> DEFINE groups == H!Groups(answer)
           singles == H!Singles(answer)
           articles == H!Replies(answer)
           talks == [g \in DOMAIN groups |-> Talk(answer, g)]
<1>1. talks = [g \in DOMAIN groups |-> H!Parsed(groups[g])]
  BY DEF Talk
<1>2. PICK N \in Nat, O \in Nat : \E e, f : LaidOut(answer, N, O, e, f)
  BY ArticlesOfReplies
<1>3. PICK e, f : LaidOut(answer, N, O, e, f)
  BY <1>2
<1>4. ASSUME NEW g \in DOMAIN groups, talks[g] # <<>>
      PROVE  \E i \in DOMAIN articles : H!Tells(articles[i], talks[g])
  <2>1. g \in Filled(answer)
    BY <1>4 DEF Filled
  <2>2. PICK n \in 1 .. N : e[n] = g
    BY <1>3, <2>1 DEF LaidOut, Bijection, Surjection
  <2>3. n \in DOMAIN articles /\ articles[n] = H!Conversation(groups[g])
    BY <1>3, <2>2 DEF LaidOut
  <2>4. H!Tells(articles[n], talks[g])
    BY <2>1, <2>3, ConversationIsTold
  <2> QED BY <2>3, <2>4
<1>5. ASSUME NEW s \in DOMAIN singles, singles[s].replyTo # None, H!Readable(singles[s])
      PROVE  H!Cardinality(H!Places(singles[s].id, articles, talks)) = 1
  <2>1. CASE singles[s].id \in H!Grouped(answer)
    <3>1. PICK g \in DOMAIN groups : \E n \in DOMAIN groups[g] : groups[g][n].id = singles[s].id
      BY <2>1 DEF H!Grouped, H!ToSet
    <3>2. PICK n \in DOMAIN groups[g] : groups[g][n].id = singles[s].id
      BY <3>1
    <3>3. H!Readable(groups[g][n])
      BY <1>5, <3>2 DEF ReplyAnswer
    <3>4. PICK m \in DOMAIN Talk(answer, g) : Talk(answer, g)[m].id = singles[s].id
      BY <3>3, <3>2, TalksReadOnce
    <3>5. PICK p : H!Places(Talk(answer, g)[m].id, articles, talks) = {p}
      BY <1>3, <2>1, <3>4, GroupedIsShownOnce
    <3> QED BY <3>4, <3>5, OnePlace, PagesCount
  <2>2. CASE singles[s].id \notin H!Grouped(answer)
    <3>1. s \in Direct(answer)
      BY <1>5, <2>2 DEF Direct
    <3>2. PICK p : H!Places(singles[s].id, articles, talks) = {p}
      BY <1>3, <1>5, <3>1, DirectIsShownOnce
    <3> QED BY <3>2, OnePlace, PagesCount
  <2> QED BY <2>1, <2>2
<1>6. DOMAIN talks = DOMAIN groups
  OBVIOUS
<1>7. \A r \in H!ToSet(singles) : \E s \in DOMAIN singles : singles[s] = r
  BY DEF H!ToSet
<1> HIDE DEF talks, singles, articles
<1>8. /\ \A g \in DOMAIN talks : talks[g] # <<>> => \E i \in DOMAIN articles : H!Tells(articles[i], talks[g])
      /\ \A r \in H!ToSet(singles) :
           r.replyTo # None /\ H!Readable(r) => H!Cardinality(H!Places(r.id, articles, talks)) = 1
  BY <1>4, <1>5, <1>6, <1>7
<1> QED BY <1>1, <1>8 DEF singles, articles

LEMMA PageInvariant == SpidersSpec => []PageInv
BY PageStarts, PageNextKeeps, PartsBehave, PTL

\* However the page, its answers and the timers interleave, a grab that is over, well
\* or not, has no listener left on the page (waitForResponse, which ends once and
\* cleans up then).
THEOREM PagesListenNoMore == SpidersSpec => []NoListenerLeft
<1>1. PageInv => NoListenerLeft
  BY DEF PageInv, NoListenerLeft, H!NoListenerLeft
<1> QED BY <1>1, PageInvariant, PTL

\* Every conversation of the answer that was grabbed is told from its last tweet to
\* its first, and every reply is shown once: in its conversation, or by itself
\* (tweetsRepliesParser, which takes out of the single entries what is grouped).
THEOREM RepliesShownOnce == SpidersSpec => []RepliesAreShownOnce
<1>1. PageInv => RepliesAreShownOnce
  <2> SUFFICES ASSUME PageInv, grabbed["replies"] # None PROVE RepliesAreShownOnce
    BY DEF RepliesAreShownOnce, H!RepliesAreShownOnce
  <2>1. PICK answer : answer = grabbed["replies"] /\ ReplyAnswer(answer)
    BY SpidersAssumption DEF PageInv, PageTyped
  <2> QED BY <2>1, AnswersAreShown DEF RepliesAreShownOnce, H!RepliesAreShownOnce
<1> QED BY <1>1, PageInvariant, PTL
=============================================================================
