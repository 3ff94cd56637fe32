---------------------------- MODULE BrowserPool ----------------------------
(***************************************************************************)
(* The pool of Chrome sessions (src/components/browser-pool.ts).  A crawl  *)
(* asks createPage for a page of the session `sessionProfile:browserMode`; *)
(* the pool hands out the session it has, joins a launch in flight, or     *)
(* launches one, after a pause when the session was evicted a moment ago.  *)
(* Everything between two awaits is one action.  A launch is named by the  *)
(* call and the attempt that made it; it is also the name of its browser.  *)
(***************************************************************************)
EXTENDS Naturals, FiniteSets

CONSTANTS
  Callers,       \* the calls of createPage
  Keys,          \* the session keys; each has one user data directory
  Wants(_),      \* the key a call's request resolves to
  Attempts,      \* CREATE_PAGE_MAX_ATTEMPTS
  SkipBackoff,   \* the pool's skipBackoff option
  Fragile,       \* the launches whose browser may lose its connection (a bound)
  None

ASSUME PoolAssumption ==
  /\ \A c \in Callers : Wants(c) \in Keys
  /\ Attempts \in Nat \ {0}
  /\ SkipBackoff \in BOOLEAN
  /\ Fragile \subseteq Callers \X (1..Attempts)
  /\ None \notin Callers \X (1..Attempts)

VARIABLES
  sessions,     \* key -> the browser registered for it, or None
  pending,      \* key -> the launch registered as in flight, or None
  backoff,      \* the keys whose evictionBackoff lies in the future
  browser,      \* launch -> what became of its browser
  ending,       \* the browsers a closeBrowser is working on
  call,         \* caller -> [phase, attempt, on]
  closing,      \* open, awaiting, draining, closed
  awaited,      \* what closeAll waits for
  waited        \* the keys for which a call launched after a pause (history)

poolVars == <<sessions, pending, backoff, browser, ending, call, closing, awaited,
          waited>>

Launches == Callers \X (1..Attempts)
KeyOf(l) == Wants(l[1])

Phases == {"idle", "evicting", "retiring", "paused", "joined", "opening",
           "profiling", "page", "failed"}

(* A session counts as alive while its browser is connected. *)
isSessionAlive(l) == browser[l] = "up"

PoolInit ==
  /\ sessions = [k \in Keys |-> None] /\ pending = [k \in Keys |-> None]
  /\ backoff = {} /\ ending = {}
  /\ browser = [l \in Launches |-> "unborn"]
  /\ call = [c \in Callers |-> [phase |-> "idle", attempt |-> 1, on |-> None]]
  /\ closing = "open" /\ awaited = {} /\ waited = {}

(* Attempt n of a call goes to a phase. *)
Attempt(c, n, phase, on) ==
  call' = [call EXCEPT ![c] = [phase |-> phase, attempt |-> n, on |-> on]]

Goto(c, phase, on) == Attempt(c, call[c].attempt, phase, on)

(***************************************************************************)
(* A call ends with a page or an error, and holds on to nothing.           *)
(***************************************************************************)
Ends(c, phase) ==
  call' = [call EXCEPT ![c] = [phase |-> phase, attempt |-> 1, on |-> None]]

(* Mutant: an eviction does not ask whether the session is still registered. *)
EvictByKey(k, l) ==
  /\ sessions' = [sessions EXCEPT ![k] = None]
  /\ backoff' = backoff \cup {k}
  /\ ending' = IF browser[l] = "gone" THEN ending ELSE ending \cup {l}

(***************************************************************************)
(* Evicting: only the session that is still registered is taken out and    *)
(* earns the key a pause; its browser is closed in any case.               *)
(***************************************************************************)
evictSession(k, l) ==
  /\ IF sessions[k] = l
     THEN sessions' = [sessions EXCEPT ![k] = None] /\ backoff' = backoff \cup {k}
     ELSE UNCHANGED <<sessions, backoff>>
  /\ ending' = IF browser[l] = "gone" THEN ending ELSE ending \cup {l}

(* launchSession is called and its promise becomes the key's launch in flight. *)
Launch(c, n) ==
  /\ browser' = [browser EXCEPT ![<<c, n>>] = "launching"]
  /\ pending' = [pending EXCEPT ![Wants(c)] = <<c, n>>]
  /\ Attempt(c, n, "joined", <<c, n>>)

(* Mutant: launches in flight are not joined. *)
LaunchAlone(c, n) ==
  LET k == Wants(c)
      paused == ~SkipBackoff /\ k \in backoff
      taken == sessions[k] # None /\ isSessionAlive(sessions[k])
  IN  IF ~taken /\ ~paused
      THEN Launch(c, n)
      ELSE /\ IF taken THEN Attempt(c, n, "opening", sessions[k])
              ELSE Attempt(c, n, "paused", None)
           /\ UNCHANGED <<browser, pending>>

(* The second half of getOrCreateSession: join, take the replacement, pause or launch. *)
JoinOrLaunch(c, n) ==
  LET k == Wants(c)
      paused == ~SkipBackoff /\ k \in backoff
      taken == sessions[k] # None /\ isSessionAlive(sessions[k])
  IN  IF pending[k] = None /\ ~taken /\ ~paused
      THEN Launch(c, n)
      ELSE /\ IF pending[k] # None THEN Attempt(c, n, "joined", pending[k])
              ELSE IF taken THEN Attempt(c, n, "opening", sessions[k])
              ELSE Attempt(c, n, "paused", None)
           /\ UNCHANGED <<browser, pending>>

(* getOrCreateSession up to its first await. *)
getOrCreateSession(c, n) ==
  LET existing == sessions[Wants(c)]
  IN  IF existing = None
      THEN JoinOrLaunch(c, n) /\ UNCHANGED <<sessions, backoff, ending>>
      ELSE IF isSessionAlive(existing)
      THEN /\ Attempt(c, n, "opening", existing)
           /\ UNCHANGED <<sessions, pending, backoff, browser, ending>>
      ELSE /\ evictSession(Wants(c), existing)
           /\ Attempt(c, n, "evicting", existing)
           /\ UNCHANGED <<pending, browser>>

(* A crawl asks for a page; a closing pool refuses. *)
createPage(c) ==
  /\ call[c].phase = "idle"
  /\ IF closing # "open"
     THEN /\ Ends(c, "failed")
          /\ UNCHANGED <<sessions, pending, backoff, browser, ending>>
     ELSE getOrCreateSession(c, 1)
  /\ UNCHANGED <<closing, awaited, waited>>

(* The dead session it found is closed: the call goes on where it stood. *)
Evicted(c) ==
  /\ call[c].phase = "evicting" /\ call[c].on \notin ending
  /\ JoinOrLaunch(c, call[c].attempt)
  /\ UNCHANGED <<sessions, backoff, ending, closing, awaited, waited>>

(* The pause is over: the call launches, whatever happened meanwhile. *)
Resumes(c) ==
  /\ call[c].phase = "paused"
  /\ Launch(c, call[c].attempt)
  /\ waited' = waited \cup {Wants(c)}
  /\ UNCHANGED <<sessions, backoff, ending, closing, awaited>>

(***************************************************************************)
(* A launch succeeds: it is registered over whatever stands there, and its *)
(* own entry among the launches in flight is removed.                      *)
(***************************************************************************)
launchSession(l) ==
  LET k == KeyOf(l)
  IN  /\ browser[l] = "launching"
      /\ browser' = [browser EXCEPT ![l] = "up"]
      /\ sessions' = [sessions EXCEPT ![k] = l]
      /\ pending' = [pending EXCEPT ![k] = IF @ = l THEN None ELSE @]
      /\ UNCHANGED <<backoff, ending, call, closing, awaited, waited>>

LaunchFails(l) ==
  /\ browser[l] = "launching"
  /\ browser' = [browser EXCEPT ![l] = "stillborn"]
  /\ pending' = [pending EXCEPT ![KeyOf(l)] = IF @ = l THEN None ELSE @]
  /\ UNCHANGED <<sessions, backoff, ending, call, closing, awaited, waited>>

(* Whoever awaited the launch gets its session, or its error. *)
Joined(c) ==
  /\ call[c].phase = "joined" /\ browser[call[c].on] # "launching"
  /\ IF browser[call[c].on] = "stillborn"
     THEN Ends(c, "failed") ELSE Goto(c, "opening", call[c].on)
  /\ UNCHANGED <<sessions, pending, backoff, browser, ending, closing, awaited, waited>>

(***************************************************************************)
(* newPage answers on a connected browser.  Anything it throws there that  *)
(* is no connection error, or a profile that cannot be applied, fails the  *)
(* call; a connection error, and anything on a dead session, evicts it.    *)
(***************************************************************************)
NewPage(c, phase) ==
  /\ call[c].phase = "opening" /\ isSessionAlive(call[c].on)
  /\ \/ phase = "profiling" /\ Goto(c, phase, call[c].on)
     \/ phase = "failed" /\ Ends(c, phase)
  /\ UNCHANGED <<sessions, pending, backoff, browser, ending, closing, awaited, waited>>

ConnectionError(c) ==
  /\ call[c].phase = "opening"
  /\ evictSession(Wants(c), call[c].on)
  /\ Goto(c, "retiring", call[c].on)
  /\ UNCHANGED <<pending, browser, closing, awaited, waited>>

Profiled(c, phase) ==
  /\ call[c].phase = "profiling"
  /\ phase = "page" => isSessionAlive(call[c].on)
  /\ phase \in {"page", "failed"}
  /\ Ends(c, phase)
  /\ UNCHANGED <<sessions, pending, backoff, browser, ending, closing, awaited, waited>>

(* The bad session is closed: the next attempt, or the last error. *)
Retry(c) ==
  /\ call[c].phase = "retiring" /\ call[c].on \notin ending
  /\ IF call[c].attempt < Attempts
     THEN getOrCreateSession(c, call[c].attempt + 1)
     ELSE /\ Ends(c, "failed")
          /\ UNCHANGED <<sessions, pending, backoff, browser, ending>>
  /\ UNCHANGED <<closing, awaited, waited>>

(* The connection of a browser is lost, and its event is delivered. *)
Drops(l) ==
  /\ isSessionAlive(l) /\ l \in Fragile
  /\ browser' = [browser EXCEPT ![l] = "down"]
  /\ UNCHANGED <<sessions, pending, backoff, ending, call, closing, awaited, waited>>

(* The event of a lost connection evicts the session if it is still the registered one. *)
Disconnected(l) ==
  /\ browser[l] \in {"down", "gone"} /\ sessions[KeyOf(l)] = l
  /\ evictSession(KeyOf(l), l)
  /\ UNCHANGED <<pending, browser, call, closing, awaited, waited>>

(* closeBrowser ends: closed in time, or killed. *)
closeBrowser(l) ==
  /\ l \in ending
  /\ ending' = ending \ {l}
  /\ browser' = [browser EXCEPT ![l] = "gone"]
  /\ UNCHANGED <<sessions, pending, backoff, call, closing, awaited, waited>>

(* Thirty seconds after the last eviction of a key. *)
Calms(k) ==
  /\ k \in backoff
  /\ backoff' = backoff \ {k}
  /\ UNCHANGED <<sessions, pending, browser, ending, call, closing, awaited, waited>>

(***************************************************************************)
(* closeAll: no more calls; the launches in flight now are awaited; then   *)
(* every registered session is closed and the registry is cleared.         *)
(***************************************************************************)
closeAll ==
  /\ closing = "open"
  /\ closing' = "awaiting"
  /\ awaited' = {pending[k] : k \in Keys} \ {None}
  /\ UNCHANGED <<sessions, pending, backoff, browser, ending, call, waited>>

Drain ==
  /\ closing = "awaiting" /\ \A l \in awaited : browser[l] # "launching"
  /\ closing' = "draining"
  /\ awaited' = {sessions[k] : k \in Keys} \ {None}
  /\ ending' = ending \cup {l \in awaited' : browser[l] # "gone"}
  /\ UNCHANGED <<sessions, pending, backoff, browser, call, waited>>

Closed ==
  /\ closing = "draining" /\ awaited \cap ending = {}
  /\ closing' = "closed" /\ awaited' = {}
  /\ sessions' = [k \in Keys |-> None]
  /\ UNCHANGED <<pending, backoff, browser, ending, call, waited>>

PoolNext ==
  \/ \E c \in Callers :
       \/ createPage(c) \/ Evicted(c) \/ Resumes(c) \/ Joined(c) \/ Retry(c)
       \/ \E phase \in {"profiling", "failed"} : NewPage(c, phase)
       \/ ConnectionError(c)
       \/ \E phase \in {"page", "failed"} : Profiled(c, phase)
  \/ \E l \in Launches :
       launchSession(l) \/ LaunchFails(l) \/ Drops(l) \/ Disconnected(l) \/ closeBrowser(l)
  \/ \E k \in Keys : Calms(k)
  \/ closeAll \/ Drain \/ Closed

PoolSpec == PoolInit /\ [][PoolNext]_poolVars
-----------------------------------------------------------------------------
TypeOK ==
  /\ sessions \in [Keys -> Launches \cup {None}]
  /\ pending \in [Keys -> Launches \cup {None}]
  /\ backoff \subseteq Keys /\ ending \subseteq Launches
  /\ browser \in [Launches -> {"unborn", "launching", "stillborn", "up", "down", "gone"}]
  /\ call \in [Callers -> [phase : Phases, attempt : 1..Attempts,
                           on : Launches \cup {None}]]
  /\ closing \in {"open", "awaiting", "draining", "closed"}
  /\ awaited \subseteq Launches /\ waited \subseteq Keys

(***************************************************************************)
(* Every connected browser has an owner: it is the one registered for its  *)
(* key or it is being closed.  The one way to lose a browser while the     *)
(* pool is open is a call that paused: it launches without looking at what *)
(* was registered meanwhile (browser-pool.ts:173-180).  Without a pause,   *)
(* joins, replacements, evictions and late events of all calls lose none.  *)
(***************************************************************************)
NoBrowserIsLost ==
  \A l \in Launches :
    isSessionAlive(l) /\ closing = "open"
      => \/ sessions[KeyOf(l)] = l \/ l \in ending
         \/ KeyOf(l) \in waited

(***************************************************************************)
(* A session is taken out of the registry only for its own fault: it was   *)
(* dead, a call holding that very session met its connection error, or the *)
(* pool closed.  An eviction that comes late never takes the replacement   *)
(* with it (browser-pool.ts:194, 221).                                     *)
(***************************************************************************)
ReplacementsStay ==
  [][\A k \in Keys :
       LET s == sessions[k]
       IN  (s # None /\ sessions'[k] = None)
             => \/ browser[s] \in {"down", "gone"}
                \/ \E c \in Callers : call[c].phase = "opening" /\ call[c].on = s
                \/ closing # "open"]_poolVars
=============================================================================
