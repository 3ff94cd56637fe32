---------------------------- MODULE FiberRuntime ----------------------------
(***************************************************************************)
(* The fiber lifecycle of src/core/runtime.ts: components are mounted as   *)
(* fibers, a fiber loads when every key it injects is bound by an ACTIVE   *)
(* owner, and it leaves again when one of them goes away.                  *)
(*                                                                         *)
(* The program runs on one thread, so a handler runs to completion.  What  *)
(* a handler does synchronously through notify -> refresh -> kick ->       *)
(* startUnload -> notify -> ... is a worklist here: `pending' holds the    *)
(* fibers notify has still to refresh, and nothing but Refresh is enabled  *)
(* while it is not empty.  A key stands for a (key, realm) pair: isolate() *)
(* fixes the realm of a context when it is created.                        *)
(***************************************************************************)
EXTENDS Naturals, Sequences

CONSTANTS
  Fiber,       \* the uids the process may hand out
  Key,         \* (key, realm) pairs
  Root,        \* the owner of a binding made on the root context
  None,        \* no target / no committed view / no binding
  Inject,      \* [Fiber -> SUBSET Key]: component.inject
  Provides,    \* [Fiber -> SUBSET Key]: the keys its apply() sets
  Parent,      \* [Fiber -> Fiber \cup {Root}]: the fiber that calls use()
  RootKeys,    \* the keys the root context may set and unset
  Flaky,       \* the fibers whose apply() may throw
  Acquiring,   \* the fibers whose apply() acquires a resource of its own
  GuardExpires,\* whether the unload guards may run out
  MaxGen,      \* bound: reset() is called only below this generation
  MaxRootSets  \* bound: how often the root context may set a key

Owner == Fiber \cup {Root}

ASSUME FiberAssumption ==
  /\ Root \notin Fiber
  /\ Inject \in [Fiber -> SUBSET Key]
  /\ Provides \in [Fiber -> SUBSET Key]
  /\ Parent \in [Fiber -> Owner]
  /\ RootKeys \subseteq Key
  /\ Flaky \subseteq Fiber
  /\ Acquiring \subseteq Fiber
  /\ GuardExpires \in BOOLEAN
  /\ MaxGen \in Nat
  /\ MaxRootSets \in Nat

ASSUME NoneAssumption ==
  /\ \A f \in Fiber : None \notin [Inject[f] -> Owner]
  /\ None \notin [owner : Owner, gen : Nat]

VARIABLES
  fibers,      \* Root.fibers: the registered fibers
  used,        \* the uids handed out so far
  state,       \* Fiber.state
  phase,       \* where the transition in flight (inertia) stands
  retired,     \* Fiber.retired
  failing,     \* startUnload was given an outcome: the unload ends FAILED
  generation,  \* Fiber.generation
  target,      \* Fiber.targetDigest / targetView
  committed,   \* Fiber.committed, which is also digestAtStart
  store,       \* Root.store
  acc,         \* the accumulator of the fiber's context, last entry first
  zombies,     \* accumulators detached under a drain that still holds them
  forced,      \* the dependents guard of this unload ran out
  rootSets,    \* sets made by the root context
  pending      \* fibers notify has still to refresh

registry == <<fibers, used>>
lifecycle == <<state, phase, retired, failing, generation>>
views == <<target, committed>>
inverses == <<acc, zombies>>
vars == <<registry, lifecycle, views, store, inverses, forced, rootSets, pending>>

View(f) == [Inject[f] -> Owner]
Binding == [owner : Owner, gen : Nat]
\* What an accumulator holds: the inverse of apply() or of an effect, of
\* ctx.set, and of use().  gen is the generation that registered it.
Inverse == [op : {"recover"}, gen : Nat]
             \cup [op : {"unset"}, key : Key, gen : Nat]
             \cup [op : {"dispose"}, fiber : Fiber, gen : Nat]

Terminal == {"INACTIVE", "FAILED"}
IsTerminal(f) == state[f] \in Terminal

Views == {None} \cup UNION {View(f) : f \in Fiber}

\* The type of every field; only registered fibers are ever waiting for a refresh.
TypeOK ==
  /\ fibers \subseteq Fiber
  /\ used \subseteq Fiber
  /\ state \in [Fiber -> {"INACTIVE", "LOADING", "ACTIVE", "UNLOADING", "FAILED"}]
  /\ phase \in [Fiber -> {"idle", "applying", "waiting", "draining"}]
  /\ retired \in [Fiber -> BOOLEAN]
  /\ failing \in [Fiber -> BOOLEAN]
  /\ generation \in [Fiber -> Nat]
  /\ target \in [Fiber -> Views]
  /\ committed \in [Fiber -> Views]
  /\ \A f \in Fiber : /\ target[f] \in View(f) \cup {None}
                      /\ committed[f] \in View(f) \cup {None}
  /\ store \in [Key -> Binding \cup {None}]
  /\ acc \in [Fiber -> Seq(Inverse)]
  /\ zombies \in [Fiber -> SUBSET Seq(Inverse)]
  /\ forced \in [Fiber -> BOOLEAN]
  /\ rootSets \in Nat
  /\ pending \subseteq fibers

-----------------------------------------------------------------------------
(* What a fiber sees of the coeffect store.                                *)

Bound(k) == store[k] # None
OwnerIsLive(k) == store[k].owner = Root \/ state[store[k].owner] = "ACTIVE"

Ready(f) == ~retired[f] /\ \A k \in Inject[f] : Bound(k) /\ OwnerIsLive(k)

ComputeTarget(f) ==
  IF Ready(f) THEN [k \in Inject[f] |-> store[k].owner] ELSE None

\* The fibers notify() refreshes when the keys in K change.
Injecting(K) == {g \in fibers : state[g] # "FAILED" /\ Inject[g] \cap K # {}}

ProvidedBy(f) == {k \in Key : Bound(k) /\ store[k].owner = f}

\* Bug: a dependent that is still loading, or already leaving, does not count.
DependsOnActive(g, f) == /\ state[g] = "ACTIVE"
                         /\ committed[g] # None
                         /\ \E k \in Inject[g] : committed[g][k] = f

DependsOn(g, f) == /\ ~IsTerminal(g)
                   /\ committed[g] # None
                   /\ \E k \in Inject[g] : committed[g][k] = f

\* The fibers waitDependents() waits for.
Blocking(f) == {g \in fibers \ {f} : DependsOn(g, f)}

\* writeEntry's single-source discipline: only a retired owner is succeeded.
MayBind(k) ==
  Bound(k) => store[k].owner # Root /\ retired[store[k].owner]

SetBy(f, k) == \E i \in DOMAIN acc[f] :
                 acc[f][i] = [op |-> "unset", key |-> k, gen |-> generation[f]]

Ancestors[f \in Fiber] ==
  IF Parent[f] = Root THEN {} ELSE {Parent[f]} \cup Ancestors[Parent[f]]

\* pruneIfDead(f), f retired and terminal: f goes if it has no children left,
\* then its parent under the same condition, and so on up.
PruneChain(f) ==
  LET line == {f} \cup Ancestors[f]
      gone(d) == d \in line /\ retired[d] /\ (d = f \/ IsTerminal(d))
  IN  {a \in line : \A d \in fibers : (d = a \/ a \in Ancestors[d]) => gone(d)}

-----------------------------------------------------------------------------
(* The transitions, shared by the handlers that start them.                *)

StartLoad(f, view) ==
  /\ state' = [state EXCEPT ![f] = "LOADING"]
  /\ phase' = [phase EXCEPT ![f] = "applying"]
  /\ generation' = [generation EXCEPT ![f] = @ + 1]
  /\ committed' = [committed EXCEPT ![f] = view]
  /\ acc' = [acc EXCEPT ![f] =
               <<[op |-> "recover", gen |-> generation[f] + 1]>> \o @]

\* L-Leave: dependents are told before any inverse is scheduled.
StartUnload(f) ==
  /\ state' = [state EXCEPT ![f] = "UNLOADING"]
  /\ phase' = [phase EXCEPT ![f] = "waiting"]
  /\ pending' = (pending \ {f}) \cup Injecting(ProvidedBy(f))

\* The synchronous part of Fiber.dispose().
Retire(f) ==
  /\ ~retired[f]
  /\ retired' = [retired EXCEPT ![f] = TRUE]
  /\ target' = [target EXCEPT ![f] = None]
  /\ IF state[f] = "ACTIVE" THEN StartUnload(f)
                            ELSE UNCHANGED <<state, phase, pending>>
  /\ UNCHANGED <<registry, failing, generation, committed, store, inverses,
                 forced, rootSets>>

-----------------------------------------------------------------------------
(* refresh(), one fiber of the notify worklist.                            *)

RefreshNothing(f) ==
  /\ state[f] = "FAILED" \/ ComputeTarget(f) = target[f]
  /\ pending' = pending \ {f}
  /\ UNCHANGED <<registry, lifecycle, views, store, inverses, forced, rootSets>>

RefreshRecord(f) ==
  /\ \/ state[f] \in {"LOADING", "UNLOADING"}
     \/ state[f] = "INACTIVE" /\ ComputeTarget(f) = None
  /\ ComputeTarget(f) # target[f]
  /\ target' = [target EXCEPT ![f] = ComputeTarget(f)]
  /\ pending' = pending \ {f}
  /\ UNCHANGED <<registry, lifecycle, committed, store, inverses, forced, rootSets>>

RefreshLoad(f) ==
  /\ state[f] \in {"INACTIVE", "ACTIVE"}
  /\ ComputeTarget(f) \notin {target[f], None}
  /\ target' = [target EXCEPT ![f] = ComputeTarget(f)]
  /\ StartLoad(f, ComputeTarget(f))
  /\ pending' = pending \ {f}
  /\ UNCHANGED <<registry, retired, failing, store, zombies, forced, rootSets>>

RefreshUnload(f) ==
  /\ state[f] = "ACTIVE"
  /\ ComputeTarget(f) = None /\ target[f] # None
  /\ target' = [target EXCEPT ![f] = None]
  /\ StartUnload(f)
  /\ UNCHANGED <<registry, retired, failing, generation, committed, store,
                 inverses, forced, rootSets>>

Refresh(f) ==
  /\ f \in pending
  /\ \/ RefreshNothing(f)
     \/ RefreshRecord(f)
     \/ RefreshLoad(f)
     \/ RefreshUnload(f)

-----------------------------------------------------------------------------
(* use(), and what apply() does while the fiber is LOADING.                *)

Use(f) ==
  /\ f \notin used
  /\ used' = used \cup {f}
  /\ fibers' = fibers \cup {f}
  /\ IF Parent[f] = Root
       THEN UNCHANGED acc
       ELSE /\ phase[Parent[f]] = "applying"
            /\ acc' = [acc EXCEPT ![Parent[f]] =
                         <<[op |-> "dispose", fiber |-> f,
                            gen |-> generation[Parent[f]]]>> \o @]
  /\ pending' = {f}
  /\ UNCHANGED <<lifecycle, views, store, zombies, forced, rootSets>>

ApplySet(f, k) ==
  /\ phase[f] = "applying"
  /\ k \in Provides[f] /\ ~SetBy(f, k)
  /\ MayBind(k)
  /\ store' = [store EXCEPT ![k] = [owner |-> f, gen |-> generation[f]]]
  /\ acc' = [acc EXCEPT ![f] =
               <<[op |-> "unset", key |-> k, gen |-> generation[f]]>> \o @]
  /\ pending' = Injecting({k})
  /\ UNCHANGED <<registry, lifecycle, views, zombies, forced, rootSets>>

\* An effect above the bindings, whose inverse may hang; one per generation.
ApplyAcquire(f) ==
  /\ phase[f] = "applying" /\ f \in Acquiring
  /\ \A i \in 1 .. Len(acc[f]) - 1 : acc[f][i].op # "recover"
  /\ acc' = [acc EXCEPT ![f] =
               <<[op |-> "recover", gen |-> generation[f]]>> \o @]
  /\ UNCHANGED <<registry, lifecycle, views, store, zombies, forced, rootSets,
                 pending>>

\* apply() rejects: a failure of its own, or a key someone else still owns.
ApplyThrows(f) ==
  /\ phase[f] = "applying"
  /\ \/ f \in Flaky
     \/ \E k \in Provides[f] : ~SetBy(f, k) /\ ~MayBind(k)
  /\ failing' = [failing EXCEPT ![f] = TRUE]
  /\ StartUnload(f)
  /\ UNCHANGED <<registry, retired, generation, views, store, inverses, forced,
                 rootSets>>

\* Bug: a target that moved during the load is not noticed.
LoadIsRetired(f) == retired[f]

LoadIsStale(f) == retired[f] \/ target[f] # committed[f]

\* The load guard tripped between two iterations, or apply() completed after
\* the fiber was retired or its target moved.
ApplyStale(f) ==
  /\ phase[f] = "applying"
  /\ LoadIsStale(f)
  /\ StartUnload(f)
  /\ UNCHANGED <<registry, retired, failing, generation, views, store, inverses,
                 forced, rootSets>>

ApplyDone(f) ==
  /\ phase[f] = "applying"
  /\ ~LoadIsStale(f)
  /\ \A k \in Provides[f] : SetBy(f, k)
  /\ state' = [state EXCEPT ![f] = "ACTIVE"]
  /\ phase' = [phase EXCEPT ![f] = "idle"]
  /\ pending' = Injecting(ProvidedBy(f))
  /\ UNCHANGED <<registry, retired, failing, generation, views, store, inverses,
                 forced, rootSets>>

-----------------------------------------------------------------------------
(* startUnload(): wait for the dependents, run the inverses, settle.       *)

\* Bug: the unload does not wait for its dependents.
DependentsIgnored(f) ==
  /\ phase[f] = "waiting"
  /\ phase' = [phase EXCEPT ![f] = "draining"]
  /\ UNCHANGED <<registry, state, retired, failing, generation, views, store,
                 inverses, forced, rootSets, pending>>

DependentsLeft(f) ==
  /\ phase[f] = "waiting"
  /\ Blocking(f) = {}
  /\ phase' = [phase EXCEPT ![f] = "draining"]
  /\ UNCHANGED <<registry, state, retired, failing, generation, views, store,
                 inverses, forced, rootSets, pending>>

DependentsGuardExpires(f) ==
  /\ GuardExpires
  /\ phase[f] = "waiting"
  /\ Blocking(f) # {}
  /\ phase' = [phase EXCEPT ![f] = "draining"]
  /\ forced' = [forced EXCEPT ![f] = TRUE]
  /\ UNCHANGED <<registry, state, retired, failing, generation, views, store,
                 inverses, rootSets, pending>>

\* The arrays being drained on behalf of f: the live one and the zombies.
Drained(f) == (IF phase[f] = "draining" THEN {acc[f]} ELSE {}) \cup zombies[f]

HasTop(f, array, op) == /\ array \in Drained(f)
                        /\ array # <<>>
                        /\ Head(array).op = op

Pop(f, array) ==
  \/ /\ phase[f] = "draining" /\ array = acc[f]
     /\ acc' = [acc EXCEPT ![f] = Tail(@)]
     /\ UNCHANGED zombies
  \/ /\ array \in zombies[f]
     /\ zombies' = [zombies EXCEPT ![f] =
                      (@ \ {array}) \cup ({Tail(array)} \ {<<>>})]
     /\ UNCHANGED acc

Recover(f, array) ==
  /\ HasTop(f, array, "recover")
  /\ Pop(f, array)
  /\ UNCHANGED <<registry, lifecycle, views, store, forced, rootSets, pending>>

\* Bug: the key is removed whoever holds it by now.
UnsetWhoever(f, array) ==
  /\ HasTop(f, array, "unset")
  /\ Pop(f, array)
  /\ store' = [store EXCEPT ![Head(array).key] = None]
  /\ pending' = Injecting({Head(array).key})
  /\ UNCHANGED <<registry, lifecycle, views, forced, rootSets>>

\* removeEntryIf: only the very value this inverse bound is removed.
Unset(f, array) ==
  /\ HasTop(f, array, "unset")
  /\ Pop(f, array)
  /\ LET inv == Head(array)
         own == store[inv.key] = [owner |-> f, gen |-> inv.gen]
     IN  /\ store' = IF own THEN [store EXCEPT ![inv.key] = None] ELSE store
         /\ pending' = IF own THEN Injecting({inv.key}) ELSE {}
  /\ UNCHANGED <<registry, lifecycle, views, forced, rootSets>>

\* The inverse of use(): dispose the child, then await its terminal state.
DisposeChild(f, array) ==
  /\ HasTop(f, array, "dispose")
  /\ Retire(Head(array).fiber)

ChildDisposed(f, array) ==
  /\ HasTop(f, array, "dispose")
  /\ LET c == Head(array).fiber
     IN  /\ retired[c] /\ IsTerminal(c)
         /\ fibers' = fibers \ PruneChain(c)
  /\ Pop(f, array)
  /\ UNCHANGED <<used, lifecycle, views, store, forced, rootSets, pending>>

\* Bug: on the timeout the rest of the inverses are dropped.
InversesDropped(f) ==
  /\ GuardExpires
  /\ phase[f] = "draining" /\ acc[f] # <<>>
  /\ acc' = [acc EXCEPT ![f] = <<>>]
  /\ UNCHANGED <<registry, lifecycle, views, store, zombies, forced, rootSets,
                 pending>>

\* Bug: there is no guard over the inverses.
InversesUnguarded(f) == FALSE /\ InversesDropped(f)

\* The inverses guard: the drain keeps the array, the fiber a fresh one.
InversesGuardExpires(f) ==
  /\ GuardExpires
  /\ phase[f] = "draining" /\ acc[f] # <<>>
  /\ zombies' = [zombies EXCEPT ![f] = @ \cup {acc[f]}]
  /\ acc' = [acc EXCEPT ![f] = <<>>]
  /\ UNCHANGED <<registry, lifecycle, views, store, forced, rootSets, pending>>

Drain(f) == phase[f] = "draining" /\ acc[f] = <<>>

UnloadFails(f) ==
  /\ Drain(f) /\ failing[f]
  /\ state' = [state EXCEPT ![f] = "FAILED"]
  /\ phase' = [phase EXCEPT ![f] = "idle"]
  /\ failing' = [failing EXCEPT ![f] = FALSE]
  /\ committed' = [committed EXCEPT ![f] = None]
  /\ forced' = [forced EXCEPT ![f] = FALSE]
  /\ UNCHANGED <<registry, retired, generation, target, store, inverses,
                 rootSets, pending>>

\* Bug: the fiber rests although its target came back during the unload.
UnloadRestsAnyway(f) ==
  /\ Drain(f) /\ ~failing[f]
  /\ state' = [state EXCEPT ![f] = "INACTIVE"]
  /\ phase' = [phase EXCEPT ![f] = "idle"]
  /\ committed' = [committed EXCEPT ![f] = None]
  /\ forced' = [forced EXCEPT ![f] = FALSE]
  /\ fibers' = IF retired[f] THEN fibers \ PruneChain(f) ELSE fibers
  /\ UNCHANGED <<used, retired, failing, generation, target, store, inverses,
                 rootSets, pending>>

UnloadRests(f) ==
  /\ Drain(f) /\ ~failing[f]
  /\ retired[f] \/ target[f] = None
  /\ state' = [state EXCEPT ![f] = "INACTIVE"]
  /\ phase' = [phase EXCEPT ![f] = "idle"]
  /\ committed' = [committed EXCEPT ![f] = None]
  /\ forced' = [forced EXCEPT ![f] = FALSE]
  /\ fibers' = IF retired[f] THEN fibers \ PruneChain(f) ELSE fibers
  /\ UNCHANGED <<used, retired, failing, generation, target, store, inverses,
                 rootSets, pending>>

UnloadReloads(f) ==
  /\ Drain(f) /\ ~failing[f]
  /\ ~retired[f] /\ target[f] # None
  /\ StartLoad(f, target[f])
  /\ forced' = [forced EXCEPT ![f] = FALSE]
  /\ UNCHANGED <<registry, retired, failing, target, store, zombies, rootSets,
                 pending>>

-----------------------------------------------------------------------------
(* The callers: the loader and the root context.                           *)

Dispose(f) == f \in fibers /\ Retire(f)

\* dispose() resumes behind waitTerminal() and prunes what never ran, or failed.
DisposeReturns(f) ==
  /\ f \in fibers /\ retired[f] /\ IsTerminal(f)
  /\ PruneChain(f) # {}
  /\ fibers' = fibers \ PruneChain(f)
  /\ UNCHANGED <<used, lifecycle, views, store, inverses, forced, rootSets, pending>>

Reset(f) ==
  /\ f \in fibers /\ state[f] = "FAILED"
  /\ generation[f] < MaxGen
  /\ state' = [state EXCEPT ![f] = "INACTIVE"]
  /\ target' = [target EXCEPT ![f] = None]
  /\ pending' = {f}
  /\ UNCHANGED <<registry, phase, retired, failing, generation, committed, store,
                 inverses, forced, rootSets>>

RootSet(k) ==
  /\ k \in RootKeys /\ rootSets < MaxRootSets
  /\ MayBind(k)
  /\ rootSets' = rootSets + 1
  /\ store' = [store EXCEPT ![k] = [owner |-> Root, gen |-> rootSets + 1]]
  /\ pending' = Injecting({k})
  /\ UNCHANGED <<registry, lifecycle, views, inverses, forced>>

RootUnset(k) ==
  /\ Bound(k) /\ store[k].owner = Root
  /\ store' = [store EXCEPT ![k] = None]
  /\ pending' = Injecting({k})
  /\ UNCHANGED <<registry, lifecycle, views, inverses, forced, rootSets>>

-----------------------------------------------------------------------------
Init ==
  /\ fibers = {} /\ used = {}
  /\ state = [f \in Fiber |-> "INACTIVE"]
  /\ phase = [f \in Fiber |-> "idle"]
  /\ retired = [f \in Fiber |-> FALSE]
  /\ failing = [f \in Fiber |-> FALSE]
  /\ generation = [f \in Fiber |-> 0]
  /\ target = [f \in Fiber |-> None]
  /\ committed = [f \in Fiber |-> None]
  /\ store = [k \in Key |-> None]
  /\ acc = [f \in Fiber |-> <<>>]
  /\ zombies = [f \in Fiber |-> {}]
  /\ forced = [f \in Fiber |-> FALSE]
  /\ rootSets = 0
  /\ pending = {}

Apply(f) == ApplyThrows(f) \/ ApplyStale(f) \/ ApplyDone(f)

Settle(f) == UnloadFails(f) \/ UnloadRests(f) \/ UnloadReloads(f)

RunInverse(f, array) ==
  Unset(f, array) \/ DisposeChild(f, array) \/ ChildDisposed(f, array)

Task(f) ==
  \/ Use(f) \/ Dispose(f) \/ DisposeReturns(f) \/ Reset(f)
  \/ \E k \in Key : ApplySet(f, k)
  \/ ApplyAcquire(f) \/ Apply(f)
  \/ DependentsLeft(f) \/ DependentsGuardExpires(f)
  \/ \E array \in Drained(f) : Recover(f, array) \/ RunInverse(f, array)
  \/ InversesGuardExpires(f) \/ Settle(f)

Next ==
  \/ \E f \in Fiber : Refresh(f)
  \/ /\ pending = {}
     /\ \/ \E f \in Fiber : Task(f)
        \/ \E k \in Key : RootSet(k) \/ RootUnset(k)

Spec == Init /\ [][Next]_vars

-----------------------------------------------------------------------------
(* Safety.                                                                 *)

\* The target a fiber last recorded is the one its keys call for now, as soon
\* as notify has refreshed it: no change of an owner or of a binding is missed
\* (notify, notifyProvidedBy and the calls of both).
Coherent ==
  \A f \in fibers \ pending :
    state[f] # "FAILED" => target[f] = ComputeTarget(f)

\* Between two tasks an ACTIVE fiber runs on exactly the owners it committed
\* to, each of them ACTIVE and still holding the key (startLoad, refresh, kick).
ActiveIsServed ==
  pending = {} =>
    \A f \in fibers : state[f] = "ACTIVE" =>
      \A k \in Inject[f] :
        Bound(k) /\ store[k].owner = committed[f][k] /\ OwnerIsLive(k)

\* A provider's inverses run only after every fiber that loaded against it has
\* left, unless the dependents guard ran out (L-Leave, waitDependents).
DependentsLeaveFirst ==
  \A p \in Fiber : phase[p] = "draining" /\ ~forced[p] => Blocking(p) = {}

\* A binding outlives the load that made it only in the hands of a drain that
\* was given up: no unload leaves one behind (removeEntryIf, runAccumulated).
NoBindingLeftBehind ==
  \A k \in Key : Bound(k) /\ store[k].owner # Root =>
    LET p == store[k].owner
        inverse == [op |-> "unset", key |-> k, gen |-> store[k].gen]
    IN  \E array \in {acc[p]} \cup zombies[p] :
          \E i \in DOMAIN array : array[i] = inverse

\* A fiber that took a key over from a retiring one keeps it: a binding goes
\* only in its own owner's drain, or to the successor of a retired owner.
SuccessorKeepsKey ==
  [][\A k \in Key : Bound(k) /\ store[k].owner # Root /\ store'[k] # store[k] =>
       LET p == store[k].owner
       IN  \/ retired[p] /\ store'[k] # None
           \/ store'[k] = None /\ (phase[p] = "draining" \/ zombies[p] # {})]_vars

\* kick() can start a load from ACTIVE, and never does: every change of an
\* owner passes through an unload that runs the inverses of the last load.
NoReloadOverActive ==
  [][\A f \in Fiber : state[f] = "ACTIVE" => state'[f] # "LOADING"]_vars

-----------------------------------------------------------------------------
(* Liveness.  Promise callbacks run, apply() of every component ends, and   *)
(* timers fire; a resource's own inverse (Recover) may hang for ever.       *)

Fairness ==
  \A f \in Fiber :
    /\ WF_vars(Refresh(f))
    /\ WF_vars(pending = {} /\ DisposeReturns(f))
    /\ WF_vars(pending = {} /\ (Apply(f) \/ \E k \in Key : ApplySet(f, k)))
    /\ WF_vars(pending = {} /\ (DependentsLeft(f) \/ DependentsGuardExpires(f)))
    /\ WF_vars(pending = {} /\ InversesGuardExpires(f))
    /\ WF_vars(pending = {} /\ Settle(f))
    /\ WF_vars(pending = {} /\ \E array \in Drained(f) : RunInverse(f, array))

FairSpec == Spec /\ Fairness

\* No inverse hangs either.
Promptness ==
  \A f \in Fiber : WF_vars(pending = {} /\ \E array \in Drained(f) : Recover(f, array))

\* An unload always ends: a fiber cannot be wedged in UNLOADING by dependents
\* that never leave or by inverses that hang (waitDependents, runInversesGuarded).
UnloadEnds == \A f \in Fiber : (state[f] = "UNLOADING") ~> (state[f] # "UNLOADING")

\* A fiber whose keys stay bound by ACTIVE owners loads, or fails loudly.
ReadyLoads ==
  \A f \in Fiber :
    <>[](f \in fibers /\ Ready(f)) => []<>(state[f] \in {"ACTIVE", "FAILED"})

=============================================================================
