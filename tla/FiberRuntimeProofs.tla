------------------------- MODULE FiberRuntimeProofs -------------------------
(***************************************************************************)
(* Proofs about FiberRuntime, and about the history FiberGenerations adds  *)
(* to it, for every set of fibers and keys.                                *)
(***************************************************************************)
EXTENDS FiberGenerations, TLAPS

\* A view computed from a well-typed store has the type of a target.
LEMMA ComputeTargetType ==
  ASSUME TypeOK, NEW f \in Fiber
  PROVE  ComputeTarget(f) \in View(f) \cup {None}
<1> USE FiberAssumption
<1>1. CASE Ready(f)
  <2>1. \A k \in Inject[f] : store[k].owner \in Owner
    BY <1>1 DEF Ready, Bound, TypeOK, Binding
  <2> QED BY <1>1, <2>1 DEF ComputeTarget, View
<1>2. CASE ~Ready(f)
  BY <1>2 DEF ComputeTarget
<1> QED BY <1>1, <1>2

LEMMA ViewsType == ASSUME NEW f \in Fiber PROVE View(f) \cup {None} \subseteq Views
BY DEF Views

LEMMA PushType ==
  ASSUME NEW s \in Seq(Inverse), NEW inv \in Inverse
  PROVE  <<inv>> \o s \in Seq(Inverse)
OBVIOUS

LEMMA StartLoadType ==
  ASSUME TypeOK, NEW f \in Fiber, NEW view \in View(f), StartLoad(f, view)
  PROVE  /\ state' \in [Fiber -> {"INACTIVE", "LOADING", "ACTIVE", "UNLOADING", "FAILED"}]
         /\ phase' \in [Fiber -> {"idle", "applying", "waiting", "draining"}]
         /\ generation' \in [Fiber -> Nat]
         /\ committed' \in [Fiber -> Views]
         /\ \A g \in Fiber : committed'[g] \in View(g) \cup {None}
         /\ acc' \in [Fiber -> Seq(Inverse)]
<1>1. [op |-> "recover", gen |-> generation[f] + 1] \in Inverse
  BY DEF TypeOK, Inverse
<1>2. acc' \in [Fiber -> Seq(Inverse)]
  BY <1>1, PushType DEF TypeOK, StartLoad
<1>3. view \in Views
  BY ViewsType
<1> QED BY <1>2, <1>3 DEF TypeOK, StartLoad

LEMMA StartUnloadType ==
  ASSUME TypeOK, NEW f \in Fiber, StartUnload(f)
  PROVE  /\ state' \in [Fiber -> {"INACTIVE", "LOADING", "ACTIVE", "UNLOADING", "FAILED"}]
         /\ phase' \in [Fiber -> {"idle", "applying", "waiting", "draining"}]
         /\ pending' \subseteq fibers
BY DEF TypeOK, StartUnload, Injecting

LEMMA RetireType ==
  ASSUME TypeOK, NEW f \in Fiber, Retire(f)
  PROVE  TypeOK'
<1>1. None \in Views
  BY DEF Views
<1>2. CASE state[f] = "ACTIVE"
  <2>1. StartUnload(f)
    BY <1>2 DEF Retire
  <2> QED BY <1>1, <2>1, StartUnloadType DEF TypeOK, Retire, registry, inverses
<1>3. CASE state[f] # "ACTIVE"
  BY <1>1, <1>3 DEF TypeOK, Retire, registry, inverses
<1> QED BY <1>2, <1>3

LEMMA PopType ==
  ASSUME TypeOK, NEW f \in Fiber, NEW array \in Seq(Inverse), array # <<>>,
         Pop(f, array)
  PROVE  /\ acc' \in [Fiber -> Seq(Inverse)]
         /\ zombies' \in [Fiber -> SUBSET Seq(Inverse)]
<1>1. Tail(array) \in Seq(Inverse)
  OBVIOUS
<1>2. CASE array = acc[f] /\ acc' = [acc EXCEPT ![f] = Tail(@)] /\ UNCHANGED zombies
  BY <1>1, <1>2 DEF TypeOK
<1>3. CASE /\ zombies' = [zombies EXCEPT ![f] =
                            (@ \ {array}) \cup ({Tail(array)} \ {<<>>})]
           /\ UNCHANGED acc
  BY <1>1, <1>3 DEF TypeOK
<1> QED BY <1>2, <1>3 DEF Pop

LEMMA DrainedType ==
  ASSUME TypeOK, NEW f \in Fiber, NEW array \in Drained(f)
  PROVE  array \in Seq(Inverse)
BY DEF TypeOK, Drained

\* The top of a drained array is an inverse of the kind HasTop says.
LEMMA TopType ==
  ASSUME TypeOK, NEW f \in Fiber, NEW array, NEW op, HasTop(f, array, op)
  PROVE  /\ array \in Seq(Inverse) /\ array # <<>>
         /\ Head(array) \in Inverse
         /\ op = "unset" => Head(array).key \in Key /\ Head(array).gen \in Nat
         /\ op = "dispose" => Head(array).fiber \in Fiber
<1>1. array \in Seq(Inverse) /\ array # <<>>
  BY DrainedType DEF HasTop
<1>2. Head(array) \in Inverse
  BY <1>1
<1> QED BY <1>1, <1>2 DEF HasTop, Inverse

LEMMA RefreshType ==
  ASSUME TypeOK, NEW f \in Fiber, Refresh(f)
  PROVE  TypeOK'
<1> USE DEF registry, lifecycle, views, inverses
<1>t. ComputeTarget(f) \in View(f) \cup {None} /\ ComputeTarget(f) \in Views
  BY ComputeTargetType, ViewsType
<1>1. CASE RefreshNothing(f)
  BY <1>1 DEF RefreshNothing, TypeOK
<1>2. CASE RefreshRecord(f)
  BY <1>2, <1>t DEF RefreshRecord, TypeOK
<1>3. CASE RefreshLoad(f)
  <2>1. ComputeTarget(f) \in View(f) /\ StartLoad(f, ComputeTarget(f))
    BY <1>3, <1>t DEF RefreshLoad
  <2> HIDE DEF registry, lifecycle, views, inverses
  <2>2. /\ target' \in [Fiber -> Views]
        /\ \A g \in Fiber : target'[g] \in View(g) \cup {None}
    BY <1>3, <1>t DEF RefreshLoad, TypeOK
  <2> QED BY <1>3, <2>1, <2>2, StartLoadType DEF RefreshLoad, TypeOK, registry
<1>4. CASE RefreshUnload(f)
  <2>1. StartUnload(f)
    BY <1>4 DEF RefreshUnload
  <2>2. /\ target' \in [Fiber -> Views]
        /\ \A g \in Fiber : target'[g] \in View(g) \cup {None}
    BY <1>4 DEF RefreshUnload, TypeOK, Views
  <2> QED BY <1>4, <2>1, <2>2, StartUnloadType DEF RefreshUnload, TypeOK
<1> QED BY <1>1, <1>2, <1>3, <1>4 DEF Refresh

LEMMA UseType ==
  ASSUME TypeOK, NEW f \in Fiber, Use(f)
  PROVE  TypeOK'
<1>1. acc' \in [Fiber -> Seq(Inverse)]
  <2>1. CASE Parent[f] = Root
    BY <2>1 DEF Use, TypeOK
  <2>2. CASE Parent[f] # Root
    <3> DEFINE inv == [op |-> "dispose", fiber |-> f, gen |-> generation[Parent[f]]]
    <3>1. Parent[f] \in Fiber
      BY <2>2, FiberAssumption DEF Owner
    <3>2. inv \in Inverse
      BY <3>1 DEF Inverse, TypeOK
    <3>3. <<inv>> \o acc[Parent[f]] \in Seq(Inverse)
      BY <3>1, <3>2, PushType DEF TypeOK
    <3> QED BY <2>2, <3>3 DEF Use, TypeOK
  <2> QED BY <2>1, <2>2
<1> QED BY <1>1 DEF Use, TypeOK, lifecycle, views

LEMMA ApplySetType ==
  ASSUME TypeOK, NEW f \in Fiber, NEW k \in Key, ApplySet(f, k)
  PROVE  TypeOK'
<1> DEFINE inv == [op |-> "unset", key |-> k, gen |-> generation[f]]
<1>1. inv \in Inverse
  BY DEF Inverse, TypeOK
<1>2. <<inv>> \o acc[f] \in Seq(Inverse)
  BY <1>1, PushType DEF TypeOK
<1>3. acc' \in [Fiber -> Seq(Inverse)]
  BY <1>2 DEF ApplySet, TypeOK
<1>4. store' \in [Key -> Binding \cup {None}]
  BY DEF ApplySet, TypeOK, Binding, Owner
<1> QED BY <1>3, <1>4 DEF ApplySet, TypeOK, Injecting, registry, lifecycle, views

LEMMA ApplyAcquireType ==
  ASSUME TypeOK, NEW f \in Fiber, ApplyAcquire(f)
  PROVE  TypeOK'
<1> DEFINE inv == [op |-> "recover", gen |-> generation[f]]
<1>1. inv \in Inverse
  BY DEF Inverse, TypeOK
<1>2. <<inv>> \o acc[f] \in Seq(Inverse)
  BY <1>1, PushType DEF TypeOK
<1>3. acc' \in [Fiber -> Seq(Inverse)]
  BY <1>2 DEF ApplyAcquire, TypeOK
<1> QED BY <1>3 DEF ApplyAcquire, TypeOK, registry, lifecycle, views

LEMMA ApplyType ==
  ASSUME TypeOK, NEW f \in Fiber, Apply(f)
  PROVE  TypeOK'
<1>1. CASE ApplyThrows(f)
  <2>1. StartUnload(f)
    BY <1>1 DEF ApplyThrows
  <2> QED BY <1>1, <2>1, StartUnloadType
          DEF ApplyThrows, TypeOK, registry, views, inverses
<1>2. CASE ApplyStale(f)
  <2>1. StartUnload(f)
    BY <1>2 DEF ApplyStale
  <2> QED BY <1>2, <2>1, StartUnloadType
          DEF ApplyStale, TypeOK, registry, views, inverses
<1>3. CASE ApplyDone(f)
  BY <1>3 DEF ApplyDone, TypeOK, Injecting, registry, views, inverses
<1> QED BY <1>1, <1>2, <1>3 DEF Apply

LEMMA RunInverseType ==
  ASSUME TypeOK, pending = {}, NEW f \in Fiber, NEW array,
         Recover(f, array) \/ RunInverse(f, array)
  PROVE  TypeOK'
<1>1. CASE Recover(f, array)
  BY <1>1, TopType, PopType DEF Recover, TypeOK, registry, lifecycle, views
<1>2. CASE Unset(f, array)
  <2>1. HasTop(f, array, "unset") /\ Pop(f, array)
    BY <1>2 DEF Unset
  <2>2. /\ acc' \in [Fiber -> Seq(Inverse)]
        /\ zombies' \in [Fiber -> SUBSET Seq(Inverse)]
    BY <2>1, TopType, PopType
  <2>3. store' \in [Key -> Binding \cup {None}] /\ pending' \subseteq fibers
    BY <1>2 DEF Unset, TypeOK, Injecting
  <2> QED BY <1>2, <2>2, <2>3 DEF Unset, TypeOK, registry, lifecycle, views
<1>3. CASE DisposeChild(f, array)
  <2>1. Head(array).fiber \in Fiber
    BY <1>3, TopType DEF DisposeChild
  <2> QED BY <1>3, <2>1, RetireType DEF DisposeChild
<1>4. CASE ChildDisposed(f, array)
  <2>1. HasTop(f, array, "dispose") /\ Pop(f, array)
    BY <1>4 DEF ChildDisposed
  <2>2. /\ acc' \in [Fiber -> Seq(Inverse)]
        /\ zombies' \in [Fiber -> SUBSET Seq(Inverse)]
    BY <2>1, TopType, PopType
  <2>3. fibers' \subseteq fibers
    BY <1>4 DEF ChildDisposed
  <2> QED BY <1>4, <2>2, <2>3 DEF ChildDisposed, TypeOK, lifecycle, views
<1> QED BY <1>1, <1>2, <1>3, <1>4 DEF RunInverse

LEMMA SettleType ==
  ASSUME TypeOK, pending = {}, NEW f \in Fiber, Settle(f)
  PROVE  TypeOK'
<1>n. None \in Views
  BY DEF Views
<1>1. CASE UnloadFails(f)
  BY <1>1, <1>n DEF UnloadFails, TypeOK, registry, inverses
<1>2. CASE UnloadRests(f)
  <2>1. fibers' \subseteq fibers
    BY <1>2 DEF UnloadRests
  <2> QED BY <1>2, <1>n, <2>1 DEF UnloadRests, TypeOK, inverses
<1>3. CASE UnloadReloads(f)
  <2>1. target[f] \in View(f) /\ StartLoad(f, target[f])
    BY <1>3 DEF UnloadReloads, TypeOK
  <2> QED BY <1>3, <2>1, StartLoadType DEF UnloadReloads, TypeOK, registry
<1> QED BY <1>1, <1>2, <1>3 DEF Settle

LEMMA TaskType ==
  ASSUME TypeOK, pending = {}, NEW f \in Fiber, Task(f)
  PROVE  TypeOK'
<1>1. CASE Use(f)
  BY <1>1, UseType
<1>2. CASE Dispose(f)
  BY <1>2, RetireType DEF Dispose
<1>3. CASE DisposeReturns(f)
  <2>1. fibers' \subseteq fibers
    BY <1>3 DEF DisposeReturns
  <2> QED BY <1>3, <2>1 DEF DisposeReturns, TypeOK, lifecycle, views, inverses
<1>4. CASE Reset(f)
  BY <1>4 DEF Reset, TypeOK, Views, registry, inverses
<1>5. CASE \E k \in Key : ApplySet(f, k)
  BY <1>5, ApplySetType
<1>6. CASE ApplyAcquire(f) \/ Apply(f)
  BY <1>6, ApplyAcquireType, ApplyType
<1>7. CASE DependentsLeft(f) \/ DependentsGuardExpires(f)
  BY <1>7 DEF DependentsLeft, DependentsGuardExpires, TypeOK, registry, views, inverses
<1>8. CASE \E array \in Drained(f) : Recover(f, array) \/ RunInverse(f, array)
  BY <1>8, RunInverseType
<1>9. CASE InversesGuardExpires(f)
  <2>1. /\ acc' \in [Fiber -> Seq(Inverse)]
        /\ zombies' \in [Fiber -> SUBSET Seq(Inverse)]
    BY <1>9 DEF InversesGuardExpires, TypeOK
  <2> QED BY <1>9, <2>1 DEF InversesGuardExpires, TypeOK, registry, lifecycle, views
<1>10. CASE Settle(f)
  BY <1>10, SettleType
<1> QED BY <1>1, <1>2, <1>3, <1>4, <1>5, <1>6, <1>7, <1>8, <1>9, <1>10 DEF Task

LEMMA RootType ==
  ASSUME TypeOK, NEW k \in Key, RootSet(k) \/ RootUnset(k)
  PROVE  TypeOK'
<1>1. store' \in [Key -> Binding \cup {None}]
  BY DEF RootSet, RootUnset, TypeOK, Binding, Owner
<1> QED BY <1>1 DEF RootSet, RootUnset, TypeOK, Injecting, registry, lifecycle,
                    views, inverses

\* Every variable keeps the type its declaration names, whatever the fibers,
\* their wiring and the bounds (TypeOK).
THEOREM TypeCorrect == Spec => []TypeOK
<1>1. Init => TypeOK
  BY DEF Init, TypeOK, Views
<1>2. TypeOK /\ [Next]_vars => TypeOK'
  <2> SUFFICES ASSUME TypeOK, [Next]_vars PROVE TypeOK'
    OBVIOUS
  <2>1. CASE \E f \in Fiber : Refresh(f)
    BY <2>1, RefreshType
  <2>2. CASE pending = {} /\ \E f \in Fiber : Task(f)
    BY <2>2, TaskType
  <2>3. CASE \E k \in Key : RootSet(k) \/ RootUnset(k)
    BY <2>3, RootType
  <2>4. CASE UNCHANGED vars
    BY <2>4 DEF vars, registry, lifecycle, views, inverses, TypeOK
  <2> QED BY <2>1, <2>2, <2>3, <2>4 DEF Next
<1> QED BY <1>1, <1>2, PTL DEF Spec

-----------------------------------------------------------------------------
(***************************************************************************)
(* The inductive invariant behind the safety theorems.  Coherent alone is  *)
(* not inductive: that an ACTIVE fiber's target is its committed view needs *)
(* the shape of the lifecycle (Shape), and that no handler moves it from   *)
(* one owner to another without an unload in between needs Steady.         *)
(***************************************************************************)
Shape ==
  /\ fibers \subseteq used
  /\ \A f \in Fiber :
       /\ phase[f] = "applying" <=> state[f] = "LOADING"
       /\ phase[f] \in {"waiting", "draining"} <=> state[f] = "UNLOADING"
       /\ ~IsTerminal(f) => f \in fibers
       /\ retired[f] => state[f] # "ACTIVE"
       /\ state[f] = "ACTIVE" => target[f] = committed[f]
       /\ state[f] \in {"LOADING", "ACTIVE"} => committed[f] # None

\* The owners an ACTIVE fiber sees are those it committed to, or one is gone.
Steady ==
  \A f \in fibers : state[f] = "ACTIVE" => ComputeTarget(f) \in {None, committed[f]}

IInv == TypeOK /\ Shape /\ Steady /\ Coherent /\ DependentsLeaveFirst

-----------------------------------------------------------------------------
(* When a computed target stays where it is.                               *)

LEMMA TargetUnmoved ==
  ASSUME NEW f \in Fiber,
         retired'[f] = retired[f],
         \A k \in Inject[f] : store'[k] = store[k],
         \A k \in Inject[f] :
           Bound(k) /\ store[k].owner # Root =>
             (state'[store[k].owner] = "ACTIVE" <=> state[store[k].owner] = "ACTIVE")
  PROVE  ComputeTarget(f)' = ComputeTarget(f)
<1>1. Ready(f)' <=> Ready(f)
  BY DEF Ready, Bound, OwnerIsLive
<1>2. [k \in Inject[f] |-> store[k].owner]' = [k \in Inject[f] |-> store[k].owner]
  OBVIOUS
<1> QED BY <1>1, <1>2 DEF ComputeTarget

\* One fiber p changes its state; f injects nothing p provides, or p neither
\* becomes nor stops being ACTIVE.
LEMMA StateMove ==
  ASSUME TypeOK, NEW f \in Fiber, NEW p \in Fiber,
         store' = store,
         retired'[f] = retired[f],
         \A q \in Fiber \ {p} : state'[q] = state[q],
         \/ Inject[f] \cap ProvidedBy(p) = {}
         \/ state'[p] = "ACTIVE" <=> state[p] = "ACTIVE"
  PROVE  ComputeTarget(f)' = ComputeTarget(f)
<1>1. ASSUME NEW k \in Inject[f], Bound(k), store[k].owner # Root
      PROVE  state'[store[k].owner] = "ACTIVE" <=> state[store[k].owner] = "ACTIVE"
  <2>1. k \in Key /\ store[k].owner \in Fiber
    BY <1>1, FiberAssumption DEF TypeOK, Binding, Bound, Owner
  <2>2. CASE store[k].owner = p
    BY <1>1, <2>1, <2>2 DEF ProvidedBy
  <2>3. CASE store[k].owner # p
    BY <2>1, <2>3
  <2> QED BY <2>2, <2>3
<1> QED BY <1>1, TargetUnmoved

\* The binding of one key changes, and f does not inject it.
LEMMA StoreMove ==
  ASSUME TypeOK, NEW f \in Fiber, NEW k \in Key,
         UNCHANGED <<state, retired>>,
         \A j \in Key \ {k} : store'[j] = store[j],
         k \notin Inject[f]
  PROVE  ComputeTarget(f)' = ComputeTarget(f)
<1>1. \A j \in Inject[f] : store'[j] = store[j]
  BY FiberAssumption
<1> QED BY <1>1, TargetUnmoved

LEMMA NothingMoves ==
  ASSUME NEW f \in Fiber, UNCHANGED <<state, retired, store>>
  PROVE  ComputeTarget(f)' = ComputeTarget(f)
BY DEF ComputeTarget, Ready, Bound, OwnerIsLive

LEMMA RetiredHasNoTarget ==
  ASSUME NEW f \in Fiber, retired[f]
  PROVE  ComputeTarget(f) = None
BY DEF ComputeTarget, Ready

\* The owners of a target that is not None are ACTIVE or the root.
LEMMA TargetOwnersAreLive ==
  ASSUME TypeOK, NEW f \in Fiber, ComputeTarget(f) # None, NEW k \in Inject[f]
  PROVE  /\ Bound(k) /\ OwnerIsLive(k)
         /\ ComputeTarget(f)[k] = store[k].owner
BY DEF ComputeTarget, Ready

LEMMA ComputeTargetIsNoneOrView ==
  ASSUME TypeOK, NEW f \in Fiber
  PROVE  ComputeTarget(f) # None <=> Ready(f)
<1>1. ASSUME Ready(f) PROVE ComputeTarget(f) \in View(f)
  <2>1. \A k \in Inject[f] : store[k].owner \in Owner
    BY <1>1, FiberAssumption DEF Ready, Bound, TypeOK, Binding
  <2> QED BY <1>1, <2>1 DEF ComputeTarget, View
<1>2. None \notin View(f)
  BY NoneAssumption DEF View
<1> QED BY <1>1, <1>2 DEF ComputeTarget

-----------------------------------------------------------------------------
(* Shape is preserved.                                                     *)

\* What pruneIfDead removes is retired and at rest, f itself aside.
LEMMA PruneChainIsDead ==
  ASSUME NEW f \in Fiber, NEW a \in PruneChain(f), a \in fibers
  PROVE  retired[a] /\ (a = f \/ IsTerminal(a))
BY DEF PruneChain

LEMMA RetireShape ==
  ASSUME TypeOK, Shape, NEW f \in Fiber, Retire(f)
  PROVE  Shape'
<1>1. CASE state[f] = "ACTIVE"
  BY <1>1 DEF Retire, StartUnload, TypeOK, Shape, IsTerminal, Terminal, registry
<1>2. CASE state[f] # "ACTIVE"
  BY <1>2 DEF Retire, TypeOK, Shape, IsTerminal, Terminal, registry
<1> QED BY <1>1, <1>2

LEMMA RefreshShape ==
  ASSUME TypeOK, Shape, Steady, NEW f \in Fiber, Refresh(f)
  PROVE  Shape'
<1> USE DEF TypeOK, Shape, IsTerminal, Terminal, registry, lifecycle
<1>1. CASE RefreshNothing(f)
  BY <1>1 DEF RefreshNothing, views
<1>2. CASE RefreshRecord(f)
  BY <1>2 DEF RefreshRecord
<1>3. CASE RefreshLoad(f)
  BY <1>3 DEF RefreshLoad, StartLoad, Refresh
<1>4. CASE RefreshUnload(f)
  BY <1>4 DEF RefreshUnload, StartUnload
<1> QED BY <1>1, <1>2, <1>3, <1>4 DEF Refresh

LEMMA ApplyShape ==
  ASSUME TypeOK, Shape, NEW f \in Fiber, Apply(f)
  PROVE  Shape'
<1> USE DEF TypeOK, Shape, IsTerminal, Terminal, registry, views
<1>1. CASE ApplyThrows(f)
  BY <1>1 DEF ApplyThrows, StartUnload
<1>2. CASE ApplyStale(f)
  BY <1>2 DEF ApplyStale, StartUnload
<1>3. CASE ApplyDone(f)
  BY <1>3 DEF ApplyDone, LoadIsStale
<1> QED BY <1>1, <1>2, <1>3 DEF Apply

LEMMA SettleShape ==
  ASSUME TypeOK, Shape, NEW f \in Fiber, Settle(f)
  PROVE  Shape'
<1> USE DEF TypeOK, Shape, IsTerminal, Terminal, Drain
<1>1. CASE UnloadFails(f)
  BY <1>1 DEF UnloadFails, registry
<1>2. CASE UnloadRests(f)
  <2>1. \A a \in fibers \ fibers' : a = f \/ IsTerminal(a)
    BY <1>2, PruneChainIsDead DEF UnloadRests
  <2> QED BY <1>2, <2>1 DEF UnloadRests
<1>3. CASE UnloadReloads(f)
  BY <1>3 DEF UnloadReloads, StartLoad, registry
<1> QED BY <1>1, <1>2, <1>3 DEF Settle

LEMMA RunInverseShape ==
  ASSUME TypeOK, Shape, NEW f \in Fiber, NEW array,
         Recover(f, array) \/ RunInverse(f, array)
  PROVE  Shape'
<1>1. CASE Recover(f, array) \/ Unset(f, array)
  BY <1>1 DEF Recover, Unset, TypeOK, Shape, IsTerminal, registry, lifecycle, views
<1>2. CASE DisposeChild(f, array)
  BY <1>2, TopType, RetireShape DEF DisposeChild
<1>3. CASE ChildDisposed(f, array)
  <2> DEFINE c == Head(array).fiber
  <2>1. c \in Fiber /\ IsTerminal(c)
    BY <1>3, TopType DEF ChildDisposed
  <2>2. \A a \in fibers \ fibers' : IsTerminal(a)
    BY <1>3, <2>1, PruneChainIsDead DEF ChildDisposed
  <2> QED BY <1>3, <2>2 DEF ChildDisposed, TypeOK, Shape, IsTerminal, lifecycle, views
<1> QED BY <1>1, <1>2, <1>3 DEF RunInverse

LEMMA TaskShape ==
  ASSUME TypeOK, Shape, NEW f \in Fiber, Task(f)
  PROVE  Shape'
<1> USE DEF TypeOK, Shape, IsTerminal, Terminal
<1>1. CASE Use(f)
  BY <1>1 DEF Use, lifecycle, views
<1>2. CASE Dispose(f)
  BY <1>2, RetireShape DEF Dispose
<1>3. CASE DisposeReturns(f)
  <2>1. \A a \in fibers \ fibers' : IsTerminal(a)
    BY <1>3, PruneChainIsDead DEF DisposeReturns
  <2> QED BY <1>3, <2>1 DEF DisposeReturns, lifecycle, views
<1>4. CASE Reset(f)
  BY <1>4 DEF Reset, registry
<1>5. CASE (\E k \in Key : ApplySet(f, k)) \/ ApplyAcquire(f)
  <2>1. UNCHANGED <<registry, lifecycle, views>>
    BY <1>5 DEF ApplySet, ApplyAcquire
  <2> QED BY <2>1 DEF registry, lifecycle, views
<1>6. CASE Apply(f)
  BY <1>6, ApplyShape
<1>7. CASE DependentsLeft(f) \/ DependentsGuardExpires(f)
  BY <1>7 DEF DependentsLeft, DependentsGuardExpires, registry, views
<1>8. CASE \E array \in Drained(f) : Recover(f, array) \/ RunInverse(f, array)
  BY <1>8, RunInverseShape
<1>9. CASE InversesGuardExpires(f)
  BY <1>9 DEF InversesGuardExpires, registry, lifecycle, views
<1>10. CASE Settle(f)
  BY <1>10, SettleShape
<1> QED BY <1>1, <1>2, <1>3, <1>4, <1>5, <1>6, <1>7, <1>8, <1>9, <1>10 DEF Task

LEMMA ShapePreserved ==
  ASSUME TypeOK, Shape, Steady, [Next]_vars
  PROVE  Shape'
<1>1. CASE \E f \in Fiber : Refresh(f)
  BY <1>1, RefreshShape
<1>2. CASE \E f \in Fiber : Task(f)
  BY <1>2, TaskShape
<1>3. CASE \E k \in Key : RootSet(k) \/ RootUnset(k)
  BY <1>3 DEF RootSet, RootUnset, Shape, IsTerminal, registry, lifecycle, views
<1>4. CASE UNCHANGED vars
  BY <1>4 DEF vars, Shape, IsTerminal, registry, lifecycle, views
<1> QED BY <1>1, <1>2, <1>3, <1>4 DEF Next

-----------------------------------------------------------------------------
(* Coherent and Steady are preserved, with the worklist as the witness that *)
(* whoever may see a change is told of it.                                  *)

\* The part of the induction that is about what fibers see.
Sees == Coherent /\ Steady

\* A step that neither changes what a fiber sees nor empties the worklist of
\* it, and keeps its state and views, keeps Sees.
LEMMA UnseenStep ==
  ASSUME TypeOK, Sees, fibers' \subseteq fibers, pending \cap fibers' \subseteq pending',
         UNCHANGED <<target, store, retired>>,
         \A g \in Fiber : state'[g] = "ACTIVE" <=> state[g] = "ACTIVE",
         \A g \in Fiber : state[g] = "ACTIVE" => committed'[g] = committed[g],
         \A g \in Fiber : state'[g] # state[g] => state'[g] = "FAILED" \/ state[g] # "FAILED"
  PROVE  Sees'
<1>1. \A g \in fibers : g \in Fiber
  BY DEF TypeOK
<1>2. ASSUME NEW g \in Fiber PROVE ComputeTarget(g)' = ComputeTarget(g)
  <2>1. ASSUME NEW k \in Inject[g], Bound(k), store[k].owner # Root
        PROVE  state'[store[k].owner] = "ACTIVE" <=> state[store[k].owner] = "ACTIVE"
    BY <2>1, FiberAssumption DEF TypeOK, Bound, Binding, Owner
  <2> QED BY <2>1, TargetUnmoved
<1>3. Coherent'
  BY <1>1, <1>2 DEF Sees, Coherent
<1>4. Steady'
  BY <1>1, <1>2 DEF Sees, Steady
<1> QED BY <1>3, <1>4 DEF Sees

\* StartUnload tells every fiber that injects what p provides.
LEMMA StartUnloadSees ==
  ASSUME TypeOK, Shape, Sees, NEW p \in Fiber, p \in fibers, StartUnload(p),
         pending = {} \/ p \in pending,
         state[p] \in {"LOADING", "ACTIVE"},
         UNCHANGED <<fibers, store, committed>>,
         \A g \in Fiber \ {p} : target'[g] = target[g] /\ retired'[g] = retired[g],
         \/ target'[p] = target[p] /\ retired'[p] = retired[p] /\ p \notin pending
         \/ target'[p] = None /\ retired'[p] = retired[p] /\ ComputeTarget(p) = None
         \/ target'[p] = None /\ retired'[p] = TRUE
  PROVE  Sees'
<1> USE DEF StartUnload
<1>1. \A g \in fibers : g \in Fiber
  BY DEF TypeOK
<1>2. \A q \in Fiber \ {p} : state'[q] = state[q]
  BY DEF TypeOK
<1>3. state'[p] = "UNLOADING"
  BY DEF TypeOK
<1>4. ASSUME NEW g \in fibers, g \notin pending', g # p, state[g] # "FAILED"
      PROVE  ComputeTarget(g)' = ComputeTarget(g) /\ g \notin pending
  <2>1. Inject[g] \cap ProvidedBy(p) = {}
    BY <1>4 DEF Injecting
  <2> QED BY <1>1, <1>2, <1>4, <2>1, StateMove
<1>5. ASSUME p \notin pending'
      PROVE  target'[p] = ComputeTarget(p)'
  <2>1. Inject[p] \cap ProvidedBy(p) = {}
    BY <1>5 DEF Injecting
  <2>2. CASE retired'[p] = retired[p]
    <3>1. ComputeTarget(p)' = ComputeTarget(p)
      BY <1>2, <2>1, <2>2, StateMove
    <3>2. CASE p \notin pending /\ target'[p] = target[p]
      BY <3>1, <3>2 DEF Sees, Coherent
    <3>3. CASE target'[p] = None /\ ComputeTarget(p) = None
      BY <3>1, <3>3
    <3>4. CASE target'[p] = None /\ retired'[p] = TRUE
      BY <3>1, <3>4, <2>2, RetiredHasNoTarget
    <3> QED BY <3>2, <3>3, <3>4
  <2>3. CASE target'[p] = None /\ retired'[p] = TRUE
    BY <2>3 DEF ComputeTarget, Ready
  <2> QED BY <2>2, <2>3
<1>6. Coherent'
  BY <1>1, <1>2, <1>4, <1>5 DEF Sees, Coherent
<1>7. ASSUME NEW g \in fibers, state'[g] = "ACTIVE"
      PROVE  ComputeTarget(g)' \in {None, committed[g]}
  <2>1. g # p /\ state[g] = "ACTIVE" /\ g \in Fiber
    BY <1>1, <1>2, <1>3, <1>7
  <2>2. CASE ComputeTarget(g)' = None
    BY <2>2
  <2>3. CASE ComputeTarget(g)' # None
    <3>1. Ready(g)'
      BY <2>3 DEF ComputeTarget
    <3>2. Ready(g)
      BY <1>2, <1>3, <2>1, <3>1 DEF Ready, Bound, OwnerIsLive
    <3>3. ComputeTarget(g)' = ComputeTarget(g)
      BY <3>1, <3>2 DEF ComputeTarget
    <3> QED BY <2>1, <3>3 DEF Sees, Steady
  <2> QED BY <2>2, <2>3
<1>8. Steady'
  BY <1>7 DEF Steady
<1> QED BY <1>6, <1>8 DEF Sees

LEMMA RefreshSees ==
  ASSUME TypeOK, Shape, Sees, NEW f \in Fiber, Refresh(f)
  PROVE  Sees'
<1>1. f \in fibers /\ \A g \in fibers : g \in Fiber
  BY DEF Refresh, TypeOK
<1>2. CASE RefreshNothing(f)
  <2>1. \A g \in Fiber : ComputeTarget(g)' = ComputeTarget(g)
    BY <1>2, NothingMoves DEF RefreshNothing, lifecycle
  <2> QED BY <1>1, <1>2, <2>1
          DEF RefreshNothing, Sees, Coherent, Steady, registry, lifecycle, views
<1>3. CASE RefreshRecord(f)
  <2>1. \A g \in Fiber : ComputeTarget(g)' = ComputeTarget(g)
    BY <1>3, NothingMoves DEF RefreshRecord, lifecycle
  <2>2. target'[f] = ComputeTarget(f) /\ \A g \in Fiber \ {f} : target'[g] = target[g]
    BY <1>3 DEF RefreshRecord, TypeOK
  <2> QED BY <1>1, <1>3, <2>1, <2>2
          DEF RefreshRecord, Sees, Coherent, Steady, registry, lifecycle
<1>4. CASE RefreshLoad(f)
  <2>1. state[f] = "INACTIVE"
    BY <1>1, <1>4 DEF RefreshLoad, Shape, Sees, Steady
  <2>2. /\ state'[f] = "LOADING" /\ \A g \in Fiber \ {f} : state'[g] = state[g]
        /\ target'[f] = ComputeTarget(f)
        /\ \A g \in Fiber \ {f} : target'[g] = target[g] /\ committed'[g] = committed[g]
        /\ pending' = pending \ {f}
        /\ UNCHANGED <<fibers, store, retired>>
    BY <1>4 DEF RefreshLoad, StartLoad, TypeOK, registry
  <2>3. \A g \in Fiber : ComputeTarget(g)' = ComputeTarget(g)
    BY <2>1, <2>2, StateMove
  <2>4. Coherent'
    BY <1>1, <2>2, <2>3 DEF Sees, Coherent
  <2>5. Steady'
    BY <1>1, <2>2, <2>3 DEF Sees, Steady
  <2> QED BY <2>4, <2>5 DEF Sees
<1>5. CASE RefreshUnload(f)
  <2>1. /\ StartUnload(f) /\ state[f] = "ACTIVE" /\ ComputeTarget(f) = None
        /\ target'[f] = None /\ \A g \in Fiber \ {f} : target'[g] = target[g]
        /\ f \in pending
        /\ UNCHANGED <<fibers, store, committed, retired>>
    BY <1>5 DEF RefreshUnload, Refresh, TypeOK, registry
  <2> QED BY <1>1, <2>1, StartUnloadSees
<1> QED BY <1>2, <1>3, <1>4, <1>5 DEF Refresh

LEMMA RetireSees ==
  ASSUME TypeOK, Shape, Sees, pending = {}, NEW f \in Fiber, Retire(f)
  PROVE  Sees'
<1>1. /\ retired'[f] = TRUE /\ target'[f] = None
      /\ \A g \in Fiber \ {f} : target'[g] = target[g] /\ retired'[g] = retired[g]
      /\ UNCHANGED <<fibers, store, committed>>
  BY DEF Retire, TypeOK, registry
<1>2. CASE state[f] = "ACTIVE"
  <2>1. f \in fibers /\ StartUnload(f)
    BY <1>2 DEF Retire, Shape, IsTerminal, Terminal
  <2> QED BY <1>1, <1>2, <2>1, StartUnloadSees
<1>3. CASE state[f] # "ACTIVE"
  <2>1. UNCHANGED <<state, pending>>
    BY <1>3 DEF Retire
  <2>2. \A g \in Fiber \ {f} : ComputeTarget(g)' = ComputeTarget(g)
    BY <1>1, <2>1, TargetUnmoved
  <2>3. ComputeTarget(f)' = None
    BY <1>1 DEF ComputeTarget, Ready
  <2>4. \A g \in fibers : g \in Fiber
    BY DEF TypeOK
  <2>5. Coherent'
    BY <1>1, <2>1, <2>2, <2>3, <2>4 DEF Sees, Coherent
  <2>6. Steady'
    BY <1>1, <1>3, <2>1, <2>2, <2>3, <2>4 DEF Sees, Steady
  <2> QED BY <2>5, <2>6 DEF Sees
<1> QED BY <1>2, <1>3

\* No ACTIVE fiber is waiting to be told: at rest, each sees what it runs on.
LEMMA ActiveAtRest ==
  ASSUME TypeOK, Shape, Sees, pending = {}, NEW g \in Fiber, state[g] = "ACTIVE"
  PROVE  /\ g \in fibers
         /\ ComputeTarget(g) = committed[g]
         /\ Ready(g)
         /\ \A k \in Inject[g] : Bound(k) /\ OwnerIsLive(k) /\ committed[g][k] = store[k].owner
<1>1. g \in fibers /\ committed[g] # None /\ target[g] = committed[g]
  BY DEF Shape, IsTerminal, Terminal
<1>2. ComputeTarget(g) = committed[g]
  BY <1>1 DEF Sees, Coherent
<1> QED BY <1>1, <1>2, TargetOwnersAreLive, ComputeTargetIsNoneOrView

\* A key that may be bound anew has no ACTIVE user.
LEMMA MayBindHasNoUser ==
  ASSUME TypeOK, Shape, Sees, pending = {}, NEW k \in Key, MayBind(k),
         NEW g \in Fiber, k \in Inject[g]
  PROVE  state[g] # "ACTIVE"
<1> SUFFICES ASSUME state[g] = "ACTIVE" PROVE FALSE
  OBVIOUS
<1>1. Bound(k) /\ OwnerIsLive(k)
  BY ActiveAtRest
<1>2. store[k].owner \in Fiber /\ retired[store[k].owner]
  BY <1>1 DEF MayBind, Bound, TypeOK, Binding, Owner
<1> QED BY <1>1, <1>2 DEF MayBind, OwnerIsLive, Shape

\* One key is bound or unbound, and notify is told.
LEMMA StoreStepSees ==
  ASSUME TypeOK, Shape, Sees, pending = {}, NEW k \in Key,
         \A j \in Key \ {k} : store'[j] = store[j],
         MayBind(k) \/ store'[k] = None,
         pending' = Injecting({k}),
         UNCHANGED <<fibers, state, retired, target, committed>>
  PROVE  Sees'
<1>1. \A g \in fibers : g \in Fiber
  BY DEF TypeOK
<1>2. ASSUME NEW g \in fibers, k \notin Inject[g]
      PROVE  ComputeTarget(g)' = ComputeTarget(g)
  BY <1>1, <1>2, StoreMove
<1>3. Coherent'
  BY <1>1, <1>2 DEF Sees, Coherent, Injecting
<1>4. ASSUME NEW g \in fibers, state[g] = "ACTIVE"
      PROVE  ComputeTarget(g)' \in {None, committed[g]}
  <2>1. CASE k \notin Inject[g]
    BY <1>2, <1>4, <2>1 DEF Sees, Steady
  <2>2. CASE k \in Inject[g] /\ store'[k] = None
    BY <2>2 DEF ComputeTarget, Ready, Bound
  <2> QED BY <1>1, <1>4, <2>1, <2>2, MayBindHasNoUser
<1>5. Steady'
  BY <1>4 DEF Steady
<1> QED BY <1>3, <1>5 DEF Sees

LEMMA ApplySees ==
  ASSUME TypeOK, Shape, Sees, pending = {}, NEW f \in Fiber, Apply(f)
  PROVE  Sees'
<1>1. state[f] = "LOADING" /\ f \in fibers
  BY DEF Apply, ApplyThrows, ApplyStale, ApplyDone, Shape, IsTerminal, Terminal
<1>2. CASE ApplyThrows(f)
  BY <1>1, <1>2, StartUnloadSees DEF ApplyThrows, registry, views
<1>3. CASE ApplyStale(f)
  BY <1>1, <1>3, StartUnloadSees DEF ApplyStale, registry, views
<1>4. CASE ApplyDone(f)
  <2>1. /\ state'[f] = "ACTIVE" /\ \A g \in Fiber \ {f} : state'[g] = state[g]
        /\ pending' = Injecting(ProvidedBy(f))
        /\ target[f] = committed[f] /\ retired[f] = FALSE
        /\ UNCHANGED <<fibers, store, retired, target, committed>>
    BY <1>4 DEF ApplyDone, LoadIsStale, TypeOK, registry, views
  <2>2. \A g \in fibers : g \in Fiber
    BY DEF TypeOK
  <2>3. ASSUME NEW g \in fibers, Inject[g] \cap ProvidedBy(f) = {}
        PROVE  ComputeTarget(g)' = ComputeTarget(g)
    BY <2>1, <2>2, <2>3, StateMove
  <2>4. Coherent'
    BY <1>1, <2>1, <2>2, <2>3 DEF Sees, Coherent, Injecting
  <2>5. ComputeTarget(f) = committed[f] /\ committed[f] # None
    BY <1>1, <2>1 DEF Sees, Coherent, Shape
  <2>6. ASSUME NEW g \in fibers, state'[g] = "ACTIVE", NEW k \in Inject[g]
        PROVE  k \notin ProvidedBy(f)
    <3>1. ComputeTarget(g) # None
      BY <2>1, <2>2, <2>5, <2>6, ActiveAtRest DEF Shape
    <3>2. Bound(k) /\ OwnerIsLive(k)
      BY <2>2, <3>1, TargetOwnersAreLive
    <3> QED BY <1>1, <3>2, FiberAssumption DEF OwnerIsLive, ProvidedBy
  <2>7. ASSUME NEW g \in fibers, state'[g] = "ACTIVE"
        PROVE  ComputeTarget(g)' = committed[g]
    <3>1. ComputeTarget(g)' = ComputeTarget(g)
      BY <2>3, <2>6, <2>7
    <3> QED BY <2>1, <2>2, <2>5, <2>7, <3>1, ActiveAtRest
  <2>8. Steady'
    BY <2>1, <2>7 DEF Steady
  <2> QED BY <2>4, <2>8 DEF Sees
<1> QED BY <1>2, <1>3, <1>4 DEF Apply

LEMMA SettleSees ==
  ASSUME TypeOK, Shape, Sees, pending = {}, NEW f \in Fiber, Settle(f)
  PROVE  Sees'
<1>1. state[f] = "UNLOADING"
  BY DEF Settle, UnloadFails, UnloadRests, UnloadReloads, Drain, Shape
<1>2. CASE UnloadFails(f)
  BY <1>1, <1>2, UnseenStep DEF UnloadFails, TypeOK, registry
<1>3. CASE UnloadRests(f)
  BY <1>1, <1>3, UnseenStep DEF UnloadRests, TypeOK
<1>4. CASE UnloadReloads(f)
  BY <1>1, <1>4, UnseenStep DEF UnloadReloads, StartLoad, TypeOK, registry
<1> QED BY <1>2, <1>3, <1>4 DEF Settle

LEMMA RunInverseSees ==
  ASSUME TypeOK, Shape, Sees, pending = {}, NEW f \in Fiber, NEW array,
         Recover(f, array) \/ RunInverse(f, array)
  PROVE  Sees'
<1>1. CASE Recover(f, array)
  BY <1>1, UnseenStep DEF Recover, registry, lifecycle, views
<1>2. CASE Unset(f, array)
  <2> DEFINE k == Head(array).key
             own == store[k] = [owner |-> f, gen |-> Head(array).gen]
  <2>1. k \in Key
    BY <1>2, TopType DEF Unset
  <2>2. UNCHANGED <<fibers, state, retired, target, committed>>
    BY <1>2 DEF Unset, registry, lifecycle, views
  <2>3. CASE own
    <3>1. store' = [store EXCEPT ![k] = None] /\ pending' = Injecting({k})
      BY <1>2, <2>3 DEF Unset
    <3>2. store'[k] = None /\ \A j \in Key \ {k} : store'[j] = store[j]
      BY <2>1, <3>1 DEF TypeOK
    <3> QED BY <2>1, <2>2, <3>1, <3>2, StoreStepSees
  <2>4. CASE ~own
    <3>1. UNCHANGED store
      BY <1>2, <2>4 DEF Unset
    <3> QED BY <2>2, <3>1, UnseenStep DEF views
  <2> QED BY <2>3, <2>4
<1>3. CASE DisposeChild(f, array)
  BY <1>3, TopType, RetireSees DEF DisposeChild
<1>4. CASE ChildDisposed(f, array)
  BY <1>4, UnseenStep DEF ChildDisposed, registry, lifecycle, views
<1> QED BY <1>1, <1>2, <1>3, <1>4 DEF RunInverse

LEMMA UseSees ==
  ASSUME TypeOK, Shape, Sees, pending = {}, NEW f \in Fiber, Use(f)
  PROVE  Sees'
<1>1. /\ fibers' = fibers \cup {f} /\ pending' = {f}
      /\ UNCHANGED <<state, retired, store, target, committed>>
  BY DEF Use, lifecycle, views
<1>2. \A g \in fibers' : g \in Fiber /\ ComputeTarget(g)' = ComputeTarget(g)
  BY <1>1, NothingMoves DEF TypeOK
<1>3. Coherent'
  BY <1>1, <1>2 DEF Sees, Coherent
<1>4. state[f] # "ACTIVE"
  BY DEF Use, Shape, IsTerminal, Terminal
<1>5. Steady'
  BY <1>1, <1>2, <1>4 DEF Sees, Steady
<1> QED BY <1>3, <1>5 DEF Sees

LEMMA ResetSees ==
  ASSUME TypeOK, Shape, Sees, pending = {}, NEW f \in Fiber, Reset(f)
  PROVE  Sees'
<1>1. /\ pending' = {f} /\ state[f] = "FAILED" /\ state'[f] = "INACTIVE"
      /\ \A g \in Fiber \ {f} : state'[g] = state[g] /\ target'[g] = target[g]
      /\ UNCHANGED <<fibers, store, retired, committed>>
  BY DEF Reset, TypeOK, registry
<1>2. \A g \in fibers : g \in Fiber /\ ComputeTarget(g)' = ComputeTarget(g)
  BY <1>1, StateMove DEF TypeOK
<1>3. Coherent'
  BY <1>1, <1>2 DEF Sees, Coherent
<1>4. Steady'
  BY <1>1, <1>2 DEF Sees, Steady
<1> QED BY <1>3, <1>4 DEF Sees

LEMMA TaskSees ==
  ASSUME TypeOK, Shape, Sees, pending = {}, NEW f \in Fiber, Task(f)
  PROVE  Sees'
<1>1. CASE Use(f) \/ Reset(f)
  BY <1>1, UseSees, ResetSees
<1>2. CASE Dispose(f)
  BY <1>2, RetireSees DEF Dispose
<1>3. CASE DisposeReturns(f)
  BY <1>3, UnseenStep DEF DisposeReturns, lifecycle, views
<1>4. ASSUME NEW k \in Key, ApplySet(f, k)
      PROVE  Sees'
  <2>1. \A j \in Key \ {k} : store'[j] = store[j]
    BY <1>4 DEF ApplySet, TypeOK
  <2> QED BY <1>4, <2>1, StoreStepSees DEF ApplySet, registry, lifecycle, views
<1>5. CASE ApplyAcquire(f) \/ InversesGuardExpires(f)
  BY <1>5, UnseenStep
     DEF ApplyAcquire, InversesGuardExpires, registry, lifecycle, views
<1>6. CASE Apply(f)
  BY <1>6, ApplySees
<1>7. CASE DependentsLeft(f) \/ DependentsGuardExpires(f)
  BY <1>7, UnseenStep
     DEF DependentsLeft, DependentsGuardExpires, registry, views
<1>8. CASE \E array \in Drained(f) : Recover(f, array) \/ RunInverse(f, array)
  BY <1>8, RunInverseSees
<1>9. CASE Settle(f)
  BY <1>9, SettleSees
<1> QED BY <1>1, <1>2, <1>3, <1>4, <1>5, <1>6, <1>7, <1>8, <1>9 DEF Task

LEMMA SeesPreserved ==
  ASSUME TypeOK, Shape, Sees, [Next]_vars
  PROVE  Sees'
<1>1. CASE \E f \in Fiber : Refresh(f)
  BY <1>1, RefreshSees
<1>2. CASE pending = {} /\ \E f \in Fiber : Task(f)
  BY <1>2, TaskSees
<1>3. ASSUME pending = {}, NEW k \in Key, RootSet(k) \/ RootUnset(k)
      PROVE  Sees'
  <2>1. /\ \A j \in Key \ {k} : store'[j] = store[j]
        /\ MayBind(k) \/ store'[k] = None
        /\ pending' = Injecting({k})
        /\ UNCHANGED <<fibers, state, retired, target, committed>>
    BY <1>3 DEF RootSet, RootUnset, TypeOK, registry, lifecycle, views
  <2> QED BY <1>3, <2>1, StoreStepSees
<1>4. CASE UNCHANGED vars
  BY <1>4, UnseenStep DEF vars, registry, lifecycle, views
<1> QED BY <1>1, <1>2, <1>3, <1>4 DEF Next

-----------------------------------------------------------------------------
(* Dependents leave first.                                                 *)

\* No step of this kind starts an unforced drain or a new dependency.
LEMMA NoNewDependency ==
  ASSUME TypeOK, DependentsLeaveFirst,
         fibers' \subseteq fibers,
         \A p \in Fiber : phase'[p] = "draining" => phase[p] = "draining",
         \A p \in Fiber : phase'[p] = "draining" /\ ~forced'[p] => ~forced[p],
         \A g \in fibers : ~IsTerminal(g)' =>
           ~IsTerminal(g) /\ (committed'[g] = committed[g] \/ committed'[g] = None)
  PROVE  DependentsLeaveFirst'
<1> SUFFICES ASSUME NEW p \in Fiber, phase'[p] = "draining", ~forced'[p],
                    NEW g \in fibers', g # p, DependsOn(g, p)'
             PROVE  FALSE
  BY DEF DependentsLeaveFirst, Blocking
<1>1. DependsOn(g, p)
  BY DEF DependsOn
<1> QED BY <1>1 DEF DependentsLeaveFirst, Blocking

\* A load starts only on owners that are not leaving.
LEMMA LoadNeedsLiveOwners ==
  ASSUME TypeOK, Shape, NEW f \in Fiber, ComputeTarget(f) # None,
         NEW p \in Fiber, phase[p] = "draining", NEW k \in Inject[f]
  PROVE  ComputeTarget(f)[k] # p
<1>1. state[p] # "ACTIVE"
  BY DEF Shape
<1> QED BY <1>1, TargetOwnersAreLive, FiberAssumption DEF OwnerIsLive

LEMMA StartLoadLeavesFirst ==
  ASSUME TypeOK, Shape, DependentsLeaveFirst, NEW f \in Fiber,
         ComputeTarget(f) # None, StartLoad(f, ComputeTarget(f)),
         UNCHANGED fibers,
         \A p \in Fiber \ {f} : forced'[p] = forced[p]
  PROVE  DependentsLeaveFirst'
<1>1. /\ phase'[f] = "applying"
      /\ \A g \in Fiber \ {f} : /\ phase'[g] = phase[g] /\ state'[g] = state[g]
                                /\ committed'[g] = committed[g]
      /\ committed'[f] = ComputeTarget(f)
  BY DEF StartLoad, TypeOK
<1> SUFFICES ASSUME NEW p \in Fiber, phase'[p] = "draining", ~forced'[p],
                    NEW g \in fibers, g # p, DependsOn(g, p)'
             PROVE  FALSE
  BY DEF DependentsLeaveFirst, Blocking
<1>2. p # f /\ phase[p] = "draining" /\ ~forced[p]
  BY <1>1
<1>3. g \in Fiber
  BY DEF TypeOK
<1>4. CASE g = f
  BY <1>1, <1>2, <1>4, LoadNeedsLiveOwners DEF DependsOn
<1>5. CASE g # f
  <2>1. DependsOn(g, p)
    BY <1>1, <1>3, <1>5 DEF DependsOn, IsTerminal
  <2> QED BY <1>2, <2>1 DEF DependentsLeaveFirst, Blocking
<1> QED BY <1>4, <1>5

LEMMA StartUnloadLeavesFirst ==
  ASSUME TypeOK, DependentsLeaveFirst, NEW f \in Fiber, StartUnload(f),
         state[f] \in {"LOADING", "ACTIVE"},
         UNCHANGED <<fibers, forced, committed>>
  PROVE  DependentsLeaveFirst'
<1>1. \A p \in Fiber : phase'[p] = "draining" => phase[p] = "draining"
  BY DEF StartUnload, TypeOK
<1>2. \A g \in fibers : ~IsTerminal(g)' => ~IsTerminal(g)
  BY DEF StartUnload, TypeOK, IsTerminal, Terminal
<1> QED BY <1>1, <1>2, NoNewDependency

LEMMA RetireLeavesFirst ==
  ASSUME TypeOK, DependentsLeaveFirst, NEW f \in Fiber, Retire(f)
  PROVE  DependentsLeaveFirst'
<1>1. CASE state[f] = "ACTIVE"
  BY <1>1, StartUnloadLeavesFirst DEF Retire, registry
<1>2. CASE state[f] # "ACTIVE"
  BY <1>2, NoNewDependency DEF Retire, registry, IsTerminal
<1> QED BY <1>1, <1>2

LEMMA RefreshLeavesFirst ==
  ASSUME TypeOK, Shape, DependentsLeaveFirst, NEW f \in Fiber, Refresh(f)
  PROVE  DependentsLeaveFirst'
<1>1. CASE RefreshNothing(f)
  BY <1>1, NoNewDependency DEF RefreshNothing, IsTerminal, registry, lifecycle, views
<1>2. CASE RefreshRecord(f)
  BY <1>2, NoNewDependency DEF RefreshRecord, IsTerminal, registry, lifecycle
<1>3. CASE RefreshLoad(f)
  BY <1>3, StartLoadLeavesFirst DEF RefreshLoad, registry
<1>4. CASE RefreshUnload(f)
  BY <1>4, StartUnloadLeavesFirst DEF RefreshUnload, registry
<1> QED BY <1>1, <1>2, <1>3, <1>4 DEF Refresh

LEMMA SettleLeavesFirst ==
  ASSUME TypeOK, Shape, Sees, DependentsLeaveFirst, pending = {},
         NEW f \in Fiber, Settle(f)
  PROVE  DependentsLeaveFirst'
<1>1. CASE UnloadFails(f)
  <2>1. /\ \A p \in Fiber : phase'[p] = "draining" => p # f /\ phase[p] = "draining"
        /\ \A p \in Fiber \ {f} : forced'[p] = forced[p]
        /\ \A g \in Fiber : ~IsTerminal(g)' => ~IsTerminal(g) /\ committed'[g] = committed[g]
        /\ UNCHANGED fibers
    BY <1>1 DEF UnloadFails, TypeOK, IsTerminal, Terminal, registry
  <2>2. \A g \in fibers : g \in Fiber
    BY DEF TypeOK
  <2> QED BY <2>1, <2>2, NoNewDependency
<1>2. CASE UnloadRests(f)
  <2>1. /\ \A p \in Fiber : phase'[p] = "draining" => p # f /\ phase[p] = "draining"
        /\ \A p \in Fiber \ {f} : forced'[p] = forced[p]
        /\ \A g \in Fiber : ~IsTerminal(g)' => ~IsTerminal(g) /\ committed'[g] = committed[g]
        /\ fibers' \subseteq fibers
    BY <1>2 DEF UnloadRests, TypeOK, IsTerminal, Terminal
  <2>2. \A g \in fibers : g \in Fiber
    BY DEF TypeOK
  <2> QED BY <2>1, <2>2, NoNewDependency
<1>3. CASE UnloadReloads(f)
  <2>1. f \in fibers /\ state[f] = "UNLOADING"
    BY <1>3 DEF UnloadReloads, Drain, Shape, IsTerminal, Terminal
  <2>2. target[f] = ComputeTarget(f) /\ target[f] # None
    BY <1>3, <2>1 DEF UnloadReloads, Sees, Coherent
  <2>3. UNCHANGED fibers /\ \A p \in Fiber \ {f} : forced'[p] = forced[p]
    BY <1>3 DEF UnloadReloads, TypeOK, registry
  <2> QED BY <1>3, <2>2, <2>3, StartLoadLeavesFirst DEF UnloadReloads
<1> QED BY <1>1, <1>2, <1>3 DEF Settle

LEMMA TaskLeavesFirst ==
  ASSUME TypeOK, Shape, Sees, DependentsLeaveFirst, pending = {},
         NEW f \in Fiber, Task(f)
  PROVE  DependentsLeaveFirst'
<1>1. CASE Use(f)
  <2>1. /\ fibers' = fibers \cup {f}
        /\ UNCHANGED <<state, phase, committed, forced>>
    BY <1>1 DEF Use, lifecycle, views
  <2>2. IsTerminal(f)
    BY <1>1 DEF Use, Shape
  <2> QED BY <2>1, <2>2 DEF DependentsLeaveFirst, Blocking, DependsOn, IsTerminal
<1>2. CASE Dispose(f)
  BY <1>2, RetireLeavesFirst DEF Dispose
<1>3. CASE DisposeReturns(f)
  BY <1>3, NoNewDependency DEF DisposeReturns, IsTerminal, lifecycle, views
<1>4. CASE Reset(f)
  <2>1. \A g \in fibers : ~IsTerminal(g)' => ~IsTerminal(g)
    BY <1>4 DEF Reset, TypeOK, IsTerminal, Terminal
  <2> QED BY <1>4, <2>1, NoNewDependency DEF Reset, registry
<1>5. CASE \E k \in Key : ApplySet(f, k)
  BY <1>5, NoNewDependency DEF ApplySet, IsTerminal, registry, lifecycle, views
<1>6. CASE ApplyAcquire(f) \/ InversesGuardExpires(f)
  BY <1>6, NoNewDependency
     DEF ApplyAcquire, InversesGuardExpires, IsTerminal, registry, lifecycle, views
<1>7. CASE Apply(f)
  <2>1. CASE ApplyThrows(f)
    BY <2>1, StartUnloadLeavesFirst DEF ApplyThrows, Shape, registry, views
  <2>2. CASE ApplyStale(f)
    BY <2>2, StartUnloadLeavesFirst DEF ApplyStale, Shape, registry, views
  <2>3. CASE ApplyDone(f)
    <3>1. \A p \in Fiber : phase'[p] = "draining" => phase[p] = "draining"
      BY <2>3 DEF ApplyDone, TypeOK
    <3>2. \A g \in fibers : ~IsTerminal(g)' => ~IsTerminal(g)
      BY <2>3 DEF ApplyDone, TypeOK, IsTerminal, Terminal, Shape
    <3> QED BY <2>3, <3>1, <3>2, NoNewDependency DEF ApplyDone, registry, views
  <2> QED BY <1>7, <2>1, <2>2, <2>3 DEF Apply
<1>8. CASE DependentsLeft(f)
  BY <1>8 DEF DependentsLeft, DependentsLeaveFirst, Blocking, DependsOn,
              IsTerminal, TypeOK, registry, views
<1>9. CASE DependentsGuardExpires(f)
  BY <1>9 DEF DependentsGuardExpires, DependentsLeaveFirst, Blocking, DependsOn,
              IsTerminal, TypeOK, registry, views
<1>10. ASSUME NEW array, Recover(f, array) \/ RunInverse(f, array)
       PROVE  DependentsLeaveFirst'
  <2>1. CASE Recover(f, array) \/ Unset(f, array) \/ ChildDisposed(f, array)
    <3>1. fibers' \subseteq fibers /\ UNCHANGED <<state, phase, committed, forced>>
      BY <2>1 DEF Recover, Unset, ChildDisposed, registry, lifecycle, views
    <3> QED BY <3>1, NoNewDependency DEF IsTerminal
  <2>2. CASE DisposeChild(f, array)
    BY <2>2, TopType, RetireLeavesFirst DEF DisposeChild
  <2> QED BY <1>10, <2>1, <2>2 DEF RunInverse
<1>11. CASE Settle(f)
  BY <1>11, SettleLeavesFirst
<1> QED BY <1>1, <1>2, <1>3, <1>4, <1>5, <1>6, <1>7, <1>8, <1>9, <1>10, <1>11 DEF Task

-----------------------------------------------------------------------------
(* The theorems.                                                           *)

LEMMA InductiveInvariant == Spec => []IInv
<1>1. Init => IInv
  BY DEF Init, IInv, TypeOK, Views, Shape, IsTerminal, Terminal, Steady, Coherent,
         DependentsLeaveFirst
<1>2. IInv /\ TypeOK' /\ [Next]_vars => IInv'
  <2> SUFFICES ASSUME IInv, TypeOK', [Next]_vars PROVE IInv'
    OBVIOUS
  <2> USE DEF IInv
  <2>1. Sees
    BY DEF Sees
  <2>2. Shape' /\ Sees'
    BY <2>1, ShapePreserved, SeesPreserved
  <2>3. DependentsLeaveFirst'
    <3>1. CASE \E f \in Fiber : Refresh(f)
      BY <3>1, RefreshLeavesFirst
    <3>2. CASE pending = {} /\ \E f \in Fiber : Task(f)
      BY <2>1, <3>2, TaskLeavesFirst
    <3>3. CASE (\E k \in Key : RootSet(k) \/ RootUnset(k)) \/ UNCHANGED vars
      <4>1. UNCHANGED <<fibers, state, phase, committed, forced>>
        BY <3>3 DEF RootSet, RootUnset, vars, registry, lifecycle, views
      <4> QED BY <4>1, NoNewDependency DEF IsTerminal
    <3> QED BY <3>1, <3>2, <3>3 DEF Next
  <2> QED BY <2>2, <2>3 DEF Sees
<1> QED BY <1>1, <1>2, TypeCorrect, PTL DEF Spec

\* No change of an owner or of a binding is missed: outside the worklist every
\* fiber's target is the one its keys call for (notify, notifyProvidedBy).
THEOREM TargetsAreCoherent == Spec => []Coherent
BY InductiveInvariant, PTL DEF IInv

\* A provider's inverses run only when no fiber depends on it any more, unless
\* the dependents guard was forced (waitDependents).
THEOREM DependentsDoLeaveFirst == Spec => []DependentsLeaveFirst
BY InductiveInvariant, PTL DEF IInv

\* Between two tasks every ACTIVE fiber runs on the owners it committed to, all
\* of them ACTIVE and holding the key (startLoad, refresh, kick).
THEOREM ActiveFibersAreServed == Spec => []ActiveIsServed
<1>1. IInv => ActiveIsServed
  <2> SUFFICES ASSUME IInv, pending = {}, NEW f \in fibers, state[f] = "ACTIVE",
                      NEW k \in Inject[f]
               PROVE  Bound(k) /\ store[k].owner = committed[f][k] /\ OwnerIsLive(k)
    BY DEF ActiveIsServed
  <2>1. f \in Fiber /\ Sees
    BY DEF IInv, TypeOK, Sees
  <2> QED BY <2>1, ActiveAtRest DEF IInv
<1> QED BY <1>1, InductiveInvariant, PTL

\* kick() never starts a load over one that is ACTIVE: the inverses of the last
\* load always run in between.
THEOREM NeverReloadsOverActive == Spec => NoReloadOverActive
<1>1. IInv /\ [Next]_vars =>
        [\A f \in Fiber : state[f] = "ACTIVE" => state'[f] # "LOADING"]_vars
  <2> SUFFICES ASSUME IInv, Next, NEW f \in Fiber, state[f] = "ACTIVE"
               PROVE  state'[f] # "LOADING"
    BY DEF vars
  <2> USE DEF IInv, TypeOK
  <2>1. ASSUME NEW g \in Fiber, Refresh(g) PROVE state'[f] # "LOADING"
    <3>1. CASE RefreshLoad(g)
      <4>1. g # f
        BY <2>1, <3>1 DEF RefreshLoad, Refresh, Shape, Steady
      <4> QED BY <3>1, <4>1 DEF RefreshLoad, StartLoad
    <3>2. CASE RefreshNothing(g) \/ RefreshRecord(g)
      BY <3>2 DEF RefreshNothing, RefreshRecord, lifecycle
    <3>3. CASE RefreshUnload(g)
      BY <3>3 DEF RefreshUnload, StartUnload
    <3> QED BY <2>1, <3>1, <3>2, <3>3 DEF Refresh
  <2>2. ASSUME NEW g \in Fiber, Retire(g) PROVE state'[f] # "LOADING"
    BY <2>2 DEF Retire, StartUnload
  <2>3. ASSUME NEW g \in Fiber, NEW array, Recover(g, array) \/ RunInverse(g, array)
        PROVE  state'[f] # "LOADING"
    <3>1. CASE DisposeChild(g, array)
      BY <2>2, <3>1, TopType DEF DisposeChild
    <3>2. CASE Recover(g, array) \/ Unset(g, array) \/ ChildDisposed(g, array)
      BY <3>2 DEF Recover, Unset, ChildDisposed, lifecycle
    <3> QED BY <2>3, <3>1, <3>2 DEF RunInverse
  <2>4. ASSUME NEW g \in Fiber, Settle(g) PROVE state'[f] # "LOADING"
    <3>1. g # f
      BY <2>4 DEF Settle, UnloadFails, UnloadRests, UnloadReloads, Drain, Shape
    <3> QED BY <2>4, <3>1
            DEF Settle, UnloadFails, UnloadRests, UnloadReloads, StartLoad
  <2>5. ASSUME NEW g \in Fiber, Apply(g) PROVE state'[f] # "LOADING"
    BY <2>5 DEF Apply, ApplyThrows, ApplyStale, ApplyDone, StartUnload
  <2>6. ASSUME NEW g \in Fiber, Task(g) PROVE state'[f] # "LOADING"
    <3>1. CASE Use(g) \/ DisposeReturns(g) \/ Reset(g) \/ (\E k \in Key : ApplySet(g, k))
      BY <3>1 DEF Use, DisposeReturns, Reset, ApplySet, lifecycle
    <3>2. CASE ApplyAcquire(g) \/ DependentsLeft(g) \/ DependentsGuardExpires(g)
               \/ InversesGuardExpires(g)
      BY <3>2 DEF ApplyAcquire, DependentsLeft, DependentsGuardExpires,
                  InversesGuardExpires, lifecycle
    <3> QED BY <2>2, <2>3, <2>4, <2>5, <2>6, <3>1, <3>2 DEF Task, Dispose
  <2>7. ASSUME NEW k \in Key, RootSet(k) \/ RootUnset(k) PROVE state'[f] # "LOADING"
    BY <2>7 DEF RootSet, RootUnset, lifecycle
  <2> QED BY <2>1, <2>6, <2>7 DEF Next
<1> QED BY <1>1, InductiveInvariant, PTL DEF Spec, NoReloadOverActive

-----------------------------------------------------------------------------
(* Bindings and their inverses.                                            *)

Holds(array, inv) == \E i \in DOMAIN array : array[i] = inv

\* Some accumulator of p, the live one or one left to a drain, holds inv.
Held(p, inv) == \E array \in {acc[p]} \cup zombies[p] : Holds(array, inv)

UnsetOf(k, gen) == [op |-> "unset", key |-> k, gen |-> gen]

\* What NoBindingLeftBehind says of one binding.
LEMMA BindingHasInverse ==
  NoBindingLeftBehind <=>
    \A k \in Key : Bound(k) /\ store[k].owner # Root =>
      Held(store[k].owner, UnsetOf(k, store[k].gen))
BY DEF NoBindingLeftBehind, Holds, Held, UnsetOf

LEMMA PushFinds ==
  ASSUME NEW s \in Seq(Inverse), NEW top \in Inverse, NEW inv, Holds(s, inv)
  PROVE  Holds(<<top>> \o s, inv)
<1>1. PICK i \in 1 .. Len(s) : s[i] = inv
  BY DEF Holds
<1>2. PICK t \in Seq(Inverse) : t = <<top>> \o s
  BY PushType, Zenon
<1>3. i + 1 \in DOMAIN t /\ t[i + 1] = inv
  BY <1>1, <1>2
<1> QED BY <1>2, <1>3 DEF Holds

LEMMA PushTop ==
  ASSUME NEW s \in Seq(Inverse), NEW top \in Inverse
  PROVE  Holds(<<top>> \o s, top)
<1>1. PICK t \in Seq(Inverse) : t = <<top>> \o s
  BY PushType, Zenon
<1>2. 1 \in DOMAIN t /\ t[1] = top
  BY <1>1
<1> QED BY <1>1, <1>2 DEF Holds

LEMMA TailFinds ==
  ASSUME NEW s \in Seq(Inverse), s # <<>>, NEW inv, Head(s) # inv, Holds(s, inv)
  PROVE  Tail(s) # <<>> /\ Holds(Tail(s), inv)
<1>1. PICK i \in 1 .. Len(s) : s[i] = inv
  BY DEF Holds
<1>2. i # 1
  BY <1>1
<1>3. PICK t \in Seq(Inverse) : t = Tail(s)
  <2>1. Tail(s) \in Seq(Inverse)
    OBVIOUS
  <2> QED BY <2>1, Zenon
<1>4. i - 1 \in DOMAIN t /\ t[i - 1] = inv /\ Len(t) > 0
  BY <1>1, <1>2, <1>3
<1>5. t # <<>>
  BY <1>4
<1> QED BY <1>3, <1>4, <1>5 DEF Holds

\* Registering one more inverse loses none.
LEMMA PushHolds ==
  ASSUME TypeOK, NEW f \in Fiber, NEW top \in Inverse,
         acc' = [acc EXCEPT ![f] = <<top>> \o @], UNCHANGED zombies,
         NEW p \in Fiber, NEW inv
  PROVE  /\ Held(p, inv) => Held(p, inv)'
         /\ Held(f, top)'
<1>1. /\ acc'[f] = <<top>> \o acc[f] /\ acc[f] \in Seq(Inverse)
      /\ p # f => acc'[p] = acc[p]
  BY DEF TypeOK
<1>2. Held(f, top)'
  BY <1>1, PushTop DEF Held
<1>3. ASSUME Held(p, inv) PROVE Held(p, inv)'
  <2>1. PICK array \in {acc[p]} \cup zombies[p] : Holds(array, inv)
    BY <1>3 DEF Held
  <2>2. CASE array = acc[p] /\ p = f
    BY <1>1, <2>1, <2>2, PushFinds DEF Held
  <2>3. CASE array # acc[p] \/ p # f
    BY <1>1, <2>1, <2>3 DEF Held
  <2> QED BY <2>2, <2>3
<1> QED BY <1>2, <1>3

\* Running one inverse of f loses that one only.
LEMMA PopHolds ==
  ASSUME TypeOK, NEW f \in Fiber, NEW array \in Seq(Inverse), array # <<>>,
         Pop(f, array),
         NEW p \in Fiber, NEW inv, Held(p, inv), p # f \/ Head(array) # inv
  PROVE  Held(p, inv)'
<1>1. PICK a \in {acc[p]} \cup zombies[p] : Holds(a, inv)
  BY DEF Held
<1>2. CASE array = acc[f] /\ acc' = [acc EXCEPT ![f] = Tail(@)] /\ UNCHANGED zombies
  <2>1. acc'[f] = Tail(acc[f]) /\ (p # f => acc'[p] = acc[p])
    BY <1>2 DEF TypeOK
  <2>2. CASE a \in zombies[p] \/ p # f
    BY <1>1, <1>2, <2>1, <2>2 DEF Held
  <2>3. CASE a = acc[p] /\ p = f
    BY <1>1, <1>2, <2>1, <2>3, TailFinds DEF Held
  <2> QED BY <2>2, <2>3
<1>3. CASE /\ zombies' = [zombies EXCEPT ![f] =
                            (@ \ {array}) \cup ({Tail(array)} \ {<<>>})]
           /\ UNCHANGED acc
  <2>1. /\ zombies'[f] = (zombies[f] \ {array}) \cup ({Tail(array)} \ {<<>>})
        /\ p # f => zombies'[p] = zombies[p]
    BY <1>3 DEF TypeOK
  <2>2. CASE a = acc[p] \/ p # f \/ a # array
    BY <1>1, <1>3, <2>1, <2>2 DEF Held
  <2>3. CASE p = f /\ a = array
    <3>1. Tail(array) # <<>> /\ Holds(Tail(array), inv)
      BY <1>1, <2>3, TailFinds
    <3>2. Tail(array) \in zombies'[p]
      BY <2>1, <2>3, <3>1
    <3> QED BY <3>1, <3>2 DEF Held
  <2> QED BY <2>2, <2>3
<1> QED BY <1>2, <1>3 DEF Pop

\* A step that loses no inverse and makes no binding of a fiber's.
LEMMA InversesKept ==
  ASSUME TypeOK, NoBindingLeftBehind,
         \A k \in Key : store'[k] \in {store[k], None} \/ store'[k].owner = Root,
         \A p \in Fiber, k \in Key : \A inv :
           /\ store'[k] = store[k] /\ Bound(k) /\ store[k].owner = p
           /\ inv = UnsetOf(k, store[k].gen)
           => (Held(p, inv) => Held(p, inv)')
  PROVE  NoBindingLeftBehind'
<1> SUFFICES ASSUME NEW k \in Key, Bound(k)', store'[k].owner # Root
             PROVE  Held(store[k].owner, UnsetOf(k, store[k].gen))'
  BY DEF NoBindingLeftBehind, Holds, Held, UnsetOf
<1>1. store'[k] = store[k] /\ Bound(k)
  BY DEF Bound
<1>2. store[k].owner \in Fiber
  BY <1>1, FiberAssumption DEF TypeOK, Bound, Binding, Owner
<1>3. Held(store[k].owner, UnsetOf(k, store[k].gen))
  BY <1>1, BindingHasInverse
<1>4. PICK p \in Fiber : \E inv : p = store[k].owner /\ inv = UnsetOf(k, store[k].gen)
  BY <1>2
<1>5. PICK inv : p = store[k].owner /\ inv = UnsetOf(k, store[k].gen)
  BY <1>4
<1>6. store'[k].owner = p /\ UnsetOf(k, store'[k].gen) = inv
  BY <1>1, <1>5
<1>7. Held(p, inv)
  BY <1>3, <1>5 DEF Held
<1>8. Held(p, inv)'
  BY <1>1, <1>5, <1>7
<1> QED BY <1>1, <1>5, <1>6, <1>8 DEF Held, UnsetOf

LEMMA QuietStep ==
  ASSUME TypeOK, NoBindingLeftBehind, UNCHANGED <<store, inverses>>
  PROVE  NoBindingLeftBehind'
BY DEF NoBindingLeftBehind, Bound, inverses

LEMMA PushStep ==
  ASSUME TypeOK, NoBindingLeftBehind, NEW f \in Fiber, NEW top \in Inverse,
         acc' = [acc EXCEPT ![f] = <<top>> \o @], UNCHANGED <<store, zombies>>
  PROVE  NoBindingLeftBehind'
<1>1. \A p \in Fiber : \A inv : Held(p, inv) => Held(p, inv)'
  BY PushHolds
<1> QED BY <1>1, InversesKept

LEMMA StartLoadStep ==
  ASSUME TypeOK, NoBindingLeftBehind, NEW f \in Fiber, NEW view, StartLoad(f, view),
         UNCHANGED <<store, zombies>>
  PROVE  NoBindingLeftBehind'
<1>1. PICK top \in Inverse : top = [op |-> "recover", gen |-> generation[f] + 1]
  <2>1. [op |-> "recover", gen |-> generation[f] + 1] \in Inverse
    BY DEF TypeOK, Inverse
  <2> QED BY <2>1, Zenon
<1> QED BY <1>1, PushStep DEF StartLoad

LEMMA ApplySetBinds ==
  ASSUME TypeOK, NoBindingLeftBehind, NEW f \in Fiber, NEW k \in Key, ApplySet(f, k)
  PROVE  NoBindingLeftBehind'
<1>1. PICK top \in Inverse : top = UnsetOf(k, generation[f])
  <2>1. UnsetOf(k, generation[f]) \in Inverse
    BY DEF TypeOK, Inverse, UnsetOf
  <2> QED BY <2>1, Zenon
<1>2. /\ acc' = [acc EXCEPT ![f] = <<top>> \o @]
      /\ UNCHANGED zombies
      /\ store'[k] = [owner |-> f, gen |-> generation[f]]
      /\ \A j \in Key \ {k} : store'[j] = store[j]
  BY <1>1 DEF ApplySet, UnsetOf, TypeOK
<1> SUFFICES ASSUME NEW j \in Key, Bound(j)', store'[j].owner # Root,
                    NEW p, NEW inv, p = store'[j].owner, inv = UnsetOf(j, store'[j].gen)
             PROVE  Held(p, inv)'
  <2>1. ASSUME NEW j \in Key, Bound(j)', store'[j].owner # Root
        PROVE  \E p, inv : p = store'[j].owner /\ inv = UnsetOf(j, store'[j].gen)
    BY Zenon
  <2> QED BY <2>1 DEF NoBindingLeftBehind, Held, Holds, UnsetOf
<1>3. CASE j = k
  <2>1. p = f /\ inv = top
    BY <1>1, <1>2, <1>3
  <2> QED BY <1>2, <2>1, PushHolds
<1>4. CASE j # k
  <2>1. Bound(j) /\ store'[j] = store[j]
    BY <1>2, <1>4 DEF Bound
  <2>2. p \in Fiber
    BY <2>1, FiberAssumption DEF TypeOK, Bound, Binding, Owner
  <2>3. Held(p, inv)
    BY <2>1, BindingHasInverse DEF Held
  <2> QED BY <1>2, <2>2, <2>3, PushHolds
<1> QED BY <1>3, <1>4

\* removeEntryIf: the inverse that leaves was of no binding, or of the one that
\* leaves with it.
LEMMA UnsetUnbinds ==
  ASSUME TypeOK, NoBindingLeftBehind, NEW f \in Fiber, NEW array, Unset(f, array)
  PROVE  NoBindingLeftBehind'
<1>1. /\ HasTop(f, array, "unset") /\ Pop(f, array)
      /\ array \in Seq(Inverse) /\ array # <<>>
      /\ Head(array) \in Inverse /\ Head(array).op = "unset"
      /\ Head(array).key \in Key
  BY TopType DEF Unset, HasTop
<1>2. PICK k \in Key : k = Head(array).key
  BY <1>1
<1>3. /\ \A j \in Key \ {k} : store'[j] = store[j]
      /\ store[k] = [owner |-> f, gen |-> Head(array).gen] => store'[k] = None
      /\ store'[k] \in {store[k], None}
  BY <1>2 DEF Unset, TypeOK
<1>4. ASSUME NEW p \in Fiber, NEW j \in Key, NEW inv,
             store'[j] = store[j], Bound(j), store[j].owner = p,
             inv = UnsetOf(j, store[j].gen), Held(p, inv)
      PROVE  Held(p, inv)'
  <2>1. CASE p = f /\ Head(array) = inv
    <3>1. j = k /\ Head(array).gen = store[j].gen
      BY <1>2, <1>4, <2>1 DEF UnsetOf
    <3>2. store[k] = [owner |-> f, gen |-> Head(array).gen]
      BY <1>4, <2>1, <3>1 DEF TypeOK, Bound, Binding
    <3> QED BY <1>3, <1>4, <3>1, <3>2 DEF Bound
  <2>2. CASE p # f \/ Head(array) # inv
    BY <1>1, <1>4, <2>2, PopHolds
  <2> QED BY <2>1, <2>2
<1>5. \A j \in Key : store'[j] \in {store[j], None}
  BY <1>3
<1> QED BY <1>4, <1>5, InversesKept

\* Running an inverse of another kind loses no inverse of a binding.
LEMMA PopStep ==
  ASSUME TypeOK, NoBindingLeftBehind, NEW f \in Fiber, NEW array, NEW op,
         op \in {"recover", "dispose"}, HasTop(f, array, op), Pop(f, array),
         UNCHANGED store
  PROVE  NoBindingLeftBehind'
<1>1. array \in Seq(Inverse) /\ array # <<>> /\ Head(array).op = op
  BY TopType DEF HasTop
<1>2. ASSUME NEW k, NEW gen PROVE Head(array) # UnsetOf(k, gen)
  BY <1>1 DEF UnsetOf
<1>3. ASSUME NEW p \in Fiber, NEW j \in Key, NEW inv,
             inv = UnsetOf(j, store[j].gen), Held(p, inv)
      PROVE  Held(p, inv)'
  BY <1>1, <1>2, <1>3, PopHolds
<1> QED BY <1>3, InversesKept

LEMMA TaskBindings ==
  ASSUME TypeOK, NoBindingLeftBehind, NEW f \in Fiber, Task(f)
  PROVE  NoBindingLeftBehind'
<1>r. ASSUME NEW g \in Fiber, Retire(g) PROVE NoBindingLeftBehind'
  BY <1>r, QuietStep DEF Retire
<1>1. CASE Use(f)
  <2>1. CASE Parent[f] = Root
    BY <1>1, <2>1, QuietStep DEF Use, inverses
  <2>2. CASE Parent[f] # Root
    <3>1. Parent[f] \in Fiber
      BY <2>2, FiberAssumption DEF Owner
    <3>2. PICK top \in Inverse :
            top = [op |-> "dispose", fiber |-> f, gen |-> generation[Parent[f]]]
      <4>1. [op |-> "dispose", fiber |-> f, gen |-> generation[Parent[f]]] \in Inverse
        BY <3>1 DEF Inverse, TypeOK
      <4> QED BY <4>1, Zenon
    <3> QED BY <1>1, <2>2, <3>1, <3>2, PushStep DEF Use
  <2> QED BY <2>1, <2>2
<1>2. CASE Dispose(f)
  BY <1>r, <1>2 DEF Dispose
<1>3. CASE DisposeReturns(f) \/ Reset(f) \/ Apply(f)
  BY <1>3, QuietStep
     DEF DisposeReturns, Reset, Apply, ApplyThrows, ApplyStale, ApplyDone
<1>4. CASE \E k \in Key : ApplySet(f, k)
  BY <1>4, ApplySetBinds
<1>5. CASE ApplyAcquire(f)
  <2>1. PICK top \in Inverse : top = [op |-> "recover", gen |-> generation[f]]
    <3>1. [op |-> "recover", gen |-> generation[f]] \in Inverse
      BY DEF Inverse, TypeOK
    <3> QED BY <3>1, Zenon
  <2> QED BY <1>5, <2>1, PushStep DEF ApplyAcquire
<1>6. CASE DependentsLeft(f) \/ DependentsGuardExpires(f)
  BY <1>6, QuietStep DEF DependentsLeft, DependentsGuardExpires
<1>7. ASSUME NEW array, Recover(f, array) \/ RunInverse(f, array)
      PROVE  NoBindingLeftBehind'
  <2>1. CASE Recover(f, array) \/ ChildDisposed(f, array)
    BY <2>1, PopStep DEF Recover, ChildDisposed
  <2>2. CASE Unset(f, array)
    BY <2>2, UnsetUnbinds
  <2>3. CASE DisposeChild(f, array)
    BY <1>r, <2>3, TopType DEF DisposeChild
  <2> QED BY <1>7, <2>1, <2>2, <2>3 DEF RunInverse
<1>8. CASE InversesGuardExpires(f)
  <2>1. /\ zombies' = [zombies EXCEPT ![f] = @ \cup {acc[f]}]
        /\ acc' = [acc EXCEPT ![f] = <<>>]
        /\ UNCHANGED store
    BY <1>8 DEF InversesGuardExpires
  <2>2. \A p \in Fiber : {acc[p]} \cup zombies[p] \subseteq ({acc[p]} \cup zombies[p])'
    BY <2>1 DEF TypeOK
  <2>3. \A p \in Fiber : \A inv : Held(p, inv) => Held(p, inv)'
    BY <2>2, Zenon DEF Held
  <2> QED BY <2>1, <2>3, InversesKept
<1>9. CASE Settle(f)
  <2>1. CASE UnloadFails(f) \/ UnloadRests(f)
    BY <2>1, QuietStep DEF UnloadFails, UnloadRests
  <2>2. CASE UnloadReloads(f)
    BY <2>2, StartLoadStep DEF UnloadReloads
  <2> QED BY <1>9, <2>1, <2>2 DEF Settle
<1> QED BY <1>1, <1>2, <1>3, <1>4, <1>5, <1>6, <1>7, <1>8, <1>9 DEF Task

\* No unload leaves a binding behind: whatever a fiber has bound and still holds,
\* an accumulator of its own, or one a drain was left with, has the inverse of
\* (writeEntry's pushInverse, removeEntryIf, runAccumulated).
THEOREM NoBindingIsLeftBehind == Spec => []NoBindingLeftBehind
<1>1. Init => NoBindingLeftBehind
  BY DEF Init, NoBindingLeftBehind, Bound
<1>2. TypeOK /\ NoBindingLeftBehind /\ [Next]_vars => NoBindingLeftBehind'
  <2> SUFFICES ASSUME TypeOK, NoBindingLeftBehind, [Next]_vars
               PROVE  NoBindingLeftBehind'
    OBVIOUS
  <2>1. ASSUME NEW f \in Fiber, Refresh(f) PROVE NoBindingLeftBehind'
    <3>1. CASE RefreshNothing(f) \/ RefreshRecord(f) \/ RefreshUnload(f)
      BY <3>1, QuietStep DEF RefreshNothing, RefreshRecord, RefreshUnload
    <3>2. CASE RefreshLoad(f)
      BY <3>2, StartLoadStep DEF RefreshLoad
    <3> QED BY <2>1, <3>1, <3>2 DEF Refresh
  <2>2. ASSUME NEW k \in Key, RootSet(k) \/ RootUnset(k) PROVE NoBindingLeftBehind'
    <3>1. UNCHANGED inverses
      BY <2>2 DEF RootSet, RootUnset
    <3>2. \A j \in Key : store'[j] \in {store[j], None} \/ store'[j].owner = Root
      BY <2>2 DEF RootSet, RootUnset, TypeOK
    <3> QED BY <3>1, <3>2, InversesKept DEF Held, inverses
  <2>3. CASE UNCHANGED vars
    BY <2>3, QuietStep DEF vars
  <2> QED BY <2>1, <2>2, <2>3, TaskBindings DEF Next
<1> QED BY <1>1, <1>2, TypeCorrect, PTL DEF Spec

\* A fiber that took a key over from a retiring one keeps it: a binding goes
\* only in a drain of its own owner, or to the successor of a retired one
\* (writeEntry's single-source check, removeEntryIf).
THEOREM SuccessorsKeepTheirKeys == Spec => SuccessorKeepsKey
<1> DEFINE Kept(k) ==
      Bound(k) /\ store[k].owner # Root /\ store'[k] # store[k] =>
        LET p == store[k].owner
        IN  \/ retired[p] /\ store'[k] # None
            \/ store'[k] = None /\ (phase[p] = "draining" \/ zombies[p] # {})
<1>1. TypeOK /\ [Next]_vars => [\A k \in Key : Kept(k)]_vars
  <2> SUFFICES ASSUME TypeOK, Next, NEW k \in Key, Bound(k), store[k].owner # Root,
                      store'[k] # store[k]
               PROVE  Kept(k)
    OBVIOUS
  <2>1. ASSUME NEW f \in Fiber, NEW j \in Key, ApplySet(f, j) PROVE Kept(k)
    <3>1. j = k /\ store'[k] = [owner |-> f, gen |-> generation[f]] /\ MayBind(k)
      BY <2>1 DEF ApplySet, TypeOK
    <3>2. store'[k] # None
      BY <3>1, NoneAssumption DEF TypeOK, Owner
    <3> QED BY <3>1, <3>2 DEF MayBind
  <2>2. ASSUME NEW f \in Fiber, NEW array, Unset(f, array) PROVE Kept(k)
    <3>1. array \in Drained(f) /\ Head(array).key \in Key
      BY <2>2, TopType DEF Unset, HasTop
    <3>2. store[k].owner = f /\ store'[k] = None
      BY <2>2, <3>1 DEF Unset, TypeOK
    <3>3. phase[f] = "draining" \/ zombies[f] # {}
      BY <3>1 DEF Drained
    <3> QED BY <3>2, <3>3
  <2>3. ASSUME NEW j \in Key, RootSet(j) PROVE Kept(k)
    <3>1. j = k /\ store'[k] = [owner |-> Root, gen |-> rootSets + 1] /\ MayBind(k)
      BY <2>3 DEF RootSet, TypeOK
    <3>2. store'[k] # None
      BY <3>1, NoneAssumption DEF TypeOK, Owner
    <3> QED BY <3>1, <3>2 DEF MayBind
  <2>4. ASSUME NEW j \in Key, RootUnset(j) PROVE FALSE
    BY <2>4 DEF RootUnset, TypeOK
  <2>5. ASSUME NEW f \in Fiber, Refresh(f) \/ Retire(f) PROVE FALSE
    BY <2>5 DEF Refresh, RefreshNothing, RefreshRecord, RefreshLoad, RefreshUnload, Retire
  <2>6. ASSUME NEW f \in Fiber,
               Use(f) \/ DisposeReturns(f) \/ Reset(f) \/ ApplyAcquire(f) \/ Apply(f)
               \/ DependentsLeft(f) \/ DependentsGuardExpires(f)
               \/ InversesGuardExpires(f) \/ Settle(f)
        PROVE  FALSE
    BY <2>6 DEF Use, DisposeReturns, Reset, ApplyAcquire, Apply, ApplyThrows,
                ApplyStale, ApplyDone, DependentsLeft, DependentsGuardExpires,
                InversesGuardExpires, Settle, UnloadFails, UnloadRests, UnloadReloads
  <2>7. ASSUME NEW f \in Fiber, NEW array, Recover(f, array) \/ ChildDisposed(f, array)
        PROVE  FALSE
    BY <2>7 DEF Recover, ChildDisposed
  <2>8. ASSUME NEW f \in Fiber, Task(f) PROVE Kept(k)
    <3> HIDE DEF Kept
    <3>1. ASSUME NEW array, DisposeChild(f, array) PROVE FALSE
      BY <2>5, <3>1, TopType DEF DisposeChild
    <3> QED BY <2>1, <2>2, <2>5, <2>6, <2>7, <2>8, <3>1 DEF Task, Dispose, RunInverse
  <2> HIDE DEF Kept
  <2> QED BY <2>3, <2>4, <2>5, <2>8 DEF Next
<1> QED BY <1>1, TypeCorrect, PTL DEF Spec, SuccessorKeepsKey

-----------------------------------------------------------------------------
(***************************************************************************)
(* Which load a fiber is served by.  While no dependents guard runs out,   *)
(* an owner somebody loaded against does not start its drain, so it cannot *)
(* come back as another load under the same uid.                           *)
(***************************************************************************)
Unforced == \A f \in Fiber : ~forced[f]

OwnersStand ==
  \A f, p \in Fiber :
    DependsOn(f, p) => f # p /\ (state[p] = "ACTIVE" \/ phase[p] = "waiting")

SameLoad ==
  \A f \in Fiber : ~IsTerminal(f) /\ committed[f] # None =>
    \A k \in Inject[f] :
      committed[f][k] # Root /\ Bound(k) /\ store[k].owner = committed[f][k]
        => store[k].gen = loaded[f][k]

Standing(p) == state[p] = "ACTIVE" \/ phase[p] = "waiting"

\* A step that starts no load, and takes no owner somebody depends on down.
LEMMA NoLoadStarts ==
  ASSUME TypeOK, OwnersStand, SameLoad,
         \A g \in Fiber : ~IsTerminal(g)' => ~IsTerminal(g) /\ committed'[g] = committed[g],
         \A p \in Fiber : Standing(p) =>
           Standing(p)' \/ \A g \in Fiber : ~DependsOn(g, p),
         \A k \in Key : \/ store'[k] \in {store[k], None}
                        \/ store'[k].owner = Root
                        \/ ~Standing(store'[k].owner),
         \A g \in Fiber : loaded'[g] = loaded[g]
  PROVE  OwnersStand' /\ SameLoad'
<1>1. ASSUME NEW g \in Fiber, NEW p \in Fiber, DependsOn(g, p)'
      PROVE  DependsOn(g, p) /\ g # p /\ Standing(p)'
  <2>1. DependsOn(g, p)
    BY <1>1 DEF DependsOn
  <2> QED BY <2>1 DEF OwnersStand, Standing
<1>2. OwnersStand'
  BY <1>1 DEF OwnersStand, Standing
<1>3. ASSUME NEW g \in Fiber, ~IsTerminal(g)', committed'[g] # None, NEW k \in Inject[g],
             committed'[g][k] # Root, Bound(k)', store'[k].owner = committed'[g][k]
      PROVE  store'[k].gen = loaded'[g][k]
  <2>1. k \in Key /\ ~IsTerminal(g) /\ committed'[g] = committed[g]
    BY <1>3, FiberAssumption
  <2>2. store'[k] = store[k]
    <3>1. committed[g][k] \in Fiber
      BY <1>3, <2>1, FiberAssumption DEF TypeOK, View, Owner
    <3>2. DependsOn(g, committed[g][k])
      BY <1>3, <2>1 DEF DependsOn
    <3>3. Standing(store'[k].owner)
      BY <1>3, <2>1, <3>1, <3>2 DEF OwnersStand, Standing
    <3> QED BY <1>3, <2>1, <3>3 DEF Bound
  <2> QED BY <1>3, <2>1, <2>2 DEF SameLoad, Bound
<1>4. SameLoad'
  BY <1>3 DEF SameLoad
<1> QED BY <1>2, <1>4

\* A fiber loads on the owners its keys have now, and nobody depends on it.
LEMMA LoadStarts ==
  ASSUME TypeOK, OwnersStand, SameLoad, NEW f \in Fiber, ~Standing(f),
         ComputeTarget(f) # None, StartLoad(f, ComputeTarget(f)), UNCHANGED store,
         \A g \in Fiber : loaded'[g] = IF generation'[g] = generation[g]
                                         THEN loaded[g] ELSE Behind(g)
  PROVE  OwnersStand' /\ SameLoad'
<1>1. /\ committed'[f] = ComputeTarget(f)
      /\ loaded'[f] = Behind(f)
      /\ \A g \in Fiber \ {f} : /\ state'[g] = state[g] /\ phase'[g] = phase[g]
                                /\ committed'[g] = committed[g]
                                /\ loaded'[g] = loaded[g]
  BY DEF StartLoad, TypeOK
<1>2. ASSUME NEW g \in Fiber, NEW p \in Fiber, DependsOn(g, p)'
      PROVE  g # p /\ Standing(p)'
  <2>1. CASE g = f
    <3>1. PICK k \in Inject[f] : ComputeTarget(f)[k] = p
      BY <1>1, <1>2, <2>1 DEF DependsOn
    <3>2. store[k].owner = p /\ OwnerIsLive(k)
      BY <3>1, TargetOwnersAreLive
    <3>3. state[p] = "ACTIVE" /\ p # f
      BY <3>2, FiberAssumption DEF OwnerIsLive, Standing
    <3> QED BY <1>1, <2>1, <3>3 DEF Standing
  <2>2. CASE g # f
    <3>1. DependsOn(g, p)
      BY <1>1, <1>2, <2>2 DEF DependsOn, IsTerminal
    <3>2. g # p /\ Standing(p) /\ p # f
      BY <3>1 DEF OwnersStand, Standing
    <3> QED BY <1>1, <3>2 DEF Standing
  <2> QED BY <2>1, <2>2
<1>3. OwnersStand'
  BY <1>2 DEF OwnersStand, Standing
<1>4. ASSUME NEW g \in Fiber, ~IsTerminal(g)', committed'[g] # None, NEW k \in Inject[g],
             committed'[g][k] # Root, Bound(k)', store'[k].owner = committed'[g][k]
      PROVE  store'[k].gen = loaded'[g][k]
  <2>1. CASE g = f
    BY <1>1, <2>1 DEF Behind
  <2>2. CASE g # f
    BY <1>1, <1>4, <2>2 DEF SameLoad, Bound, IsTerminal
  <2> QED BY <2>1, <2>2
<1>5. SameLoad'
  BY <1>4 DEF SameLoad
<1> QED BY <1>3, <1>5

\* dispose(), refresh() and apply() send a fiber into its unload, where it still
\* stands.
LEMMA UnloadStands ==
  ASSUME TypeOK, Shape, OwnersStand, SameLoad, NEW f \in Fiber, StartUnload(f),
         state[f] \in {"LOADING", "ACTIVE"}, UNCHANGED <<committed, store>>,
         \A g \in Fiber : loaded'[g] = loaded[g]
  PROVE  OwnersStand' /\ SameLoad'
<1>1. \A g \in Fiber : ~IsTerminal(g)' => ~IsTerminal(g) /\ committed'[g] = committed[g]
  BY DEF StartUnload, TypeOK, IsTerminal, Terminal
<1>2. \A p \in Fiber : Standing(p) => Standing(p)'
  BY DEF StartUnload, TypeOK, Standing
<1> QED BY <1>1, <1>2, NoLoadStarts

LEMMA RetireStands ==
  ASSUME TypeOK, Shape, OwnersStand, SameLoad, NEW f \in Fiber, Retire(f),
         \A g \in Fiber : loaded'[g] = loaded[g]
  PROVE  OwnersStand' /\ SameLoad'
<1>1. CASE state[f] = "ACTIVE"
  BY <1>1, UnloadStands DEF Retire
<1>2. CASE state[f] # "ACTIVE"
  <2>1. UNCHANGED <<state, phase, committed, store>>
    BY <1>2 DEF Retire
  <2> QED BY <2>1, NoLoadStarts DEF IsTerminal, Standing
<1> QED BY <1>1, <1>2

\* What HNext adds: only a load changes what is behind a fiber.
LEMMA HistoryKept ==
  ASSUME HNext, UNCHANGED generation
  PROVE  \A g \in Fiber : loaded'[g] = loaded[g]
BY DEF HNext

LEMMA RefreshStands ==
  ASSUME TypeOK, Shape, Sees, OwnersStand, SameLoad, HNext, NEW f \in Fiber, Refresh(f)
  PROVE  OwnersStand' /\ SameLoad'
<1>1. CASE RefreshNothing(f) \/ RefreshRecord(f)
  <2>1. UNCHANGED <<state, phase, generation, committed, store>>
    BY <1>1 DEF RefreshNothing, RefreshRecord, lifecycle, views
  <2> QED BY <2>1, HistoryKept, NoLoadStarts DEF IsTerminal, Standing
<1>2. CASE RefreshLoad(f)
  <2>1. state[f] = "INACTIVE"
    BY <1>2 DEF Refresh, RefreshLoad, TypeOK, Shape, Sees, Steady
  <2>2. ~Standing(f)
    BY <2>1 DEF Shape, Standing
  <2> QED BY <1>2, <2>2, LoadStarts DEF RefreshLoad, HNext
<1>3. CASE RefreshUnload(f)
  BY <1>3, HistoryKept, UnloadStands DEF RefreshUnload
<1> QED BY <1>1, <1>2, <1>3 DEF Refresh

LEMMA SettleStands ==
  ASSUME TypeOK, Shape, Sees, OwnersStand, SameLoad, pending = {}, HNext,
         NEW f \in Fiber, Settle(f)
  PROVE  OwnersStand' /\ SameLoad'
<1>1. ~Standing(f) /\ state[f] = "UNLOADING" /\ f \in fibers
  BY DEF Settle, UnloadFails, UnloadRests, UnloadReloads, Drain, Shape, Standing,
         IsTerminal, Terminal
<1>2. CASE UnloadFails(f) \/ UnloadRests(f)
  <2>1. UNCHANGED <<generation, store>>
    BY <1>2 DEF UnloadFails, UnloadRests
  <2>2. \A g \in Fiber : ~IsTerminal(g)' => ~IsTerminal(g) /\ committed'[g] = committed[g]
    BY <1>2 DEF UnloadFails, UnloadRests, TypeOK, IsTerminal, Terminal
  <2>3. \A p \in Fiber : Standing(p) => Standing(p)'
    BY <1>1, <1>2 DEF UnloadFails, UnloadRests, TypeOK, Standing
  <2> QED BY <2>1, <2>2, <2>3, HistoryKept, NoLoadStarts
<1>3. CASE UnloadReloads(f)
  <2>1. target[f] = ComputeTarget(f) /\ target[f] # None
    BY <1>1, <1>3 DEF UnloadReloads, Sees, Coherent
  <2> QED BY <1>1, <1>3, <2>1, LoadStarts DEF UnloadReloads, HNext
<1> QED BY <1>2, <1>3 DEF Settle

LEMMA TaskStands ==
  ASSUME TypeOK, Shape, Sees, OwnersStand, SameLoad, pending = {}, HNext, Unforced',
         NEW f \in Fiber, Task(f)
  PROVE  OwnersStand' /\ SameLoad'
<1>r. ASSUME NEW g \in Fiber, Retire(g) PROVE OwnersStand' /\ SameLoad'
  BY <1>r, HistoryKept, RetireStands DEF Retire
<1>1. CASE Use(f) \/ DisposeReturns(f) \/ ApplyAcquire(f) \/ InversesGuardExpires(f)
  <2>1. UNCHANGED <<state, phase, generation, committed, store>>
    BY <1>1 DEF Use, DisposeReturns, ApplyAcquire, InversesGuardExpires, lifecycle, views
  <2> QED BY <2>1, HistoryKept, NoLoadStarts DEF IsTerminal, Standing
<1>2. CASE Dispose(f)
  BY <1>r, <1>2 DEF Dispose
<1>3. CASE Reset(f)
  <2>1. UNCHANGED <<phase, generation, committed, store>>
    BY <1>3 DEF Reset
  <2>2. \A g \in Fiber : ~IsTerminal(g)' => ~IsTerminal(g)
    BY <1>3 DEF Reset, TypeOK, IsTerminal, Terminal
  <2>3. \A p \in Fiber : Standing(p) => Standing(p)'
    BY <1>3 DEF Reset, TypeOK, Standing
  <2> QED BY <2>1, <2>2, <2>3, HistoryKept, NoLoadStarts
<1>4. ASSUME NEW k \in Key, ApplySet(f, k)
      PROVE  OwnersStand' /\ SameLoad'
  <2>1. UNCHANGED <<state, phase, generation, committed>>
    BY <1>4 DEF ApplySet, lifecycle, views
  <2>2. ~Standing(f)
    BY <1>4 DEF ApplySet, Shape, Standing
  <2>3. \A j \in Key : store'[j] = store[j] \/ ~Standing(store'[j].owner)
    BY <1>4, <2>2 DEF ApplySet, TypeOK
  <2> QED BY <2>1, <2>3, HistoryKept, NoLoadStarts DEF IsTerminal, Standing
<1>5. CASE ApplyThrows(f) \/ ApplyStale(f)
  BY <1>5, HistoryKept, UnloadStands DEF ApplyThrows, ApplyStale, Shape, views
<1>6. CASE ApplyDone(f)
  <2>1. UNCHANGED <<generation, committed, store>>
    BY <1>6 DEF ApplyDone, views
  <2>2. \A g \in Fiber : ~IsTerminal(g)' => ~IsTerminal(g)
    BY <1>6 DEF ApplyDone, TypeOK, IsTerminal, Terminal, Shape
  <2>3. \A p \in Fiber : Standing(p) => Standing(p)'
    BY <1>6 DEF ApplyDone, TypeOK, Standing
  <2> QED BY <2>1, <2>2, <2>3, HistoryKept, NoLoadStarts
<1>7. CASE DependentsLeft(f)
  <2>1. UNCHANGED <<state, generation, committed, store>>
    BY <1>7 DEF DependentsLeft, views
  <2>2. \A g \in Fiber : ~DependsOn(g, f)
    <3> SUFFICES ASSUME NEW g \in Fiber, DependsOn(g, f) PROVE FALSE
      OBVIOUS
    <3>1. g # f /\ g \in fibers
      BY DEF OwnersStand, Shape, DependsOn
    <3> QED BY <1>7, <3>1 DEF DependentsLeft, Blocking
  <2>3. \A p \in Fiber \ {f} : Standing(p) => Standing(p)'
    BY <1>7 DEF DependentsLeft, TypeOK, Standing
  <2> QED BY <2>1, <2>2, <2>3, HistoryKept, NoLoadStarts DEF IsTerminal
<1>8. CASE DependentsGuardExpires(f)
  BY <1>8 DEF DependentsGuardExpires, Unforced, TypeOK
<1>9. ASSUME NEW array, Recover(f, array) \/ RunInverse(f, array)
      PROVE  OwnersStand' /\ SameLoad'
  <2>1. CASE Recover(f, array) \/ Unset(f, array) \/ ChildDisposed(f, array)
    <3>1. UNCHANGED <<state, phase, generation, committed>>
      BY <2>1 DEF Recover, Unset, ChildDisposed, lifecycle, views
    <3>2. \A k \in Key : store'[k] \in {store[k], None}
      BY <2>1 DEF Recover, Unset, ChildDisposed, TypeOK
    <3> QED BY <3>1, <3>2, HistoryKept, NoLoadStarts DEF IsTerminal, Standing
  <2>2. CASE DisposeChild(f, array)
    BY <1>r, <2>2, TopType DEF DisposeChild
  <2> QED BY <1>9, <2>1, <2>2 DEF RunInverse
<1>10. CASE Settle(f)
  BY <1>10, SettleStands
<1> QED BY <1>1, <1>2, <1>3, <1>4, <1>5, <1>6, <1>7, <1>8, <1>9, <1>10 DEF Task, Apply

LEMMA StandsPreserved ==
  ASSUME IInv, OwnersStand, SameLoad, [HNext]_<<vars, loaded>>, Unforced'
  PROVE  OwnersStand' /\ SameLoad'
<1> USE DEF IInv
<1>0. Sees
  BY DEF Sees
<1>1. CASE HNext /\ \E f \in Fiber : Refresh(f)
  BY <1>0, <1>1, RefreshStands
<1>2. CASE HNext /\ pending = {} /\ \E f \in Fiber : Task(f)
  BY <1>0, <1>2, TaskStands
<1>3. ASSUME HNext, NEW k \in Key, RootSet(k) \/ RootUnset(k)
      PROVE  OwnersStand' /\ SameLoad'
  <2>1. UNCHANGED <<state, phase, generation, committed>>
    BY <1>3 DEF RootSet, RootUnset, lifecycle, views
  <2>2. \A j \in Key : store'[j] \in {store[j], None} \/ store'[j].owner = Root
    BY <1>3 DEF RootSet, RootUnset, TypeOK
  <2> QED BY <1>3, <2>1, <2>2, HistoryKept, NoLoadStarts DEF IsTerminal, Standing
<1>4. CASE UNCHANGED <<vars, loaded>>
  <2>1. UNCHANGED <<state, phase, committed, store, loaded>>
    BY <1>4 DEF vars, lifecycle, views
  <2> QED BY <2>1, NoLoadStarts DEF IsTerminal, Standing
<1> QED BY <1>1, <1>2, <1>3, <1>4 DEF HNext, Next

LEMMA HistoryIsAddedOnly == HSpec => Spec
<1>1. HInit => Init
  BY DEF HInit
<1>2. [HNext]_<<vars, loaded>> => [Next]_vars
  BY DEF HNext
<1> QED BY <1>1, <1>2, PTL DEF HSpec, Spec

\* As long as no dependents guard runs out, an ACTIVE fiber is served by the very
\* load of each owner it was loaded against: comparing uids is enough to notice
\* every change of an owner (refresh's digests, waitDependents).
THEOREM ServedWhileUnforced ==
  HSpec /\ []Unforced => []ServedByTheSameLoad
<1>1. HInit => OwnersStand /\ SameLoad
  BY DEF HInit, Init, OwnersStand, SameLoad, DependsOn, IsTerminal, Terminal
<1>2. /\ IInv /\ OwnersStand /\ SameLoad
      /\ [HNext]_<<vars, loaded>>
      /\ Unforced'
      => OwnersStand' /\ SameLoad'
  BY StandsPreserved
<1>3. IInv /\ SameLoad => ServedByTheSameLoad
  <2> SUFFICES ASSUME IInv, SameLoad, pending = {}, NEW f \in fibers,
                      state[f] = "ACTIVE", NEW k \in Inject[f], store[k].owner # Root
               PROVE  store[k].gen = loaded[f][k]
    BY DEF ServedByTheSameLoad
  <2>1. f \in Fiber /\ Sees
    BY DEF IInv, TypeOK, Sees
  <2>2. Bound(k) /\ store[k].owner = committed[f][k]
    BY <2>1, ActiveAtRest DEF IInv
  <2>3. ~IsTerminal(f) /\ committed[f] # None
    BY <2>1 DEF IInv, Shape, IsTerminal, Terminal
  <2> QED BY <2>1, <2>2, <2>3 DEF SameLoad
<1> QED BY <1>1, <1>2, <1>3, HistoryIsAddedOnly, InductiveInvariant, PTL DEF HSpec

\* With guards that never run out nothing is forced, and an ACTIVE fiber is always
\* served by the loads it was loaded against.
THEOREM ServedWithPatientGuards ==
  ASSUME ~GuardExpires
  PROVE  HSpec => []ServedByTheSameLoad
<1>1. Init => Unforced
  BY DEF Init, Unforced
<1>2. TypeOK /\ Unforced /\ [Next]_vars => Unforced'
  <2> SUFFICES ASSUME TypeOK, Unforced, [Next]_vars PROVE Unforced'
    OBVIOUS
  <2>1. ASSUME NEW f \in Fiber, Settle(f) PROVE Unforced'
    BY <2>1 DEF Settle, UnloadFails, UnloadRests, UnloadReloads, Unforced, TypeOK
  <2>2. ASSUME UNCHANGED forced PROVE Unforced'
    BY <2>2 DEF Unforced
  <2>3. ASSUME NEW f \in Fiber, Retire(f) PROVE UNCHANGED forced
    BY <2>3 DEF Retire
  <2>4. ASSUME NEW f \in Fiber, NEW array, Recover(f, array) \/ RunInverse(f, array)
        PROVE  UNCHANGED forced
    BY <2>3, <2>4, TopType DEF RunInverse, Recover, Unset, DisposeChild, ChildDisposed
  <2>5. ASSUME NEW f \in Fiber,
               Use(f) \/ DisposeReturns(f) \/ Reset(f) \/ ApplyAcquire(f) \/ Apply(f)
               \/ (\E k \in Key : ApplySet(f, k)) \/ DependentsLeft(f)
               \/ InversesGuardExpires(f)
        PROVE  UNCHANGED forced
    BY <2>5 DEF Use, DisposeReturns, Reset, ApplyAcquire, ApplySet, Apply, ApplyThrows,
                ApplyStale, ApplyDone, DependentsLeft, InversesGuardExpires
  <2>6. ASSUME NEW f \in Fiber, Task(f) PROVE Unforced'
    BY <2>1, <2>2, <2>3, <2>4, <2>5, <2>6 DEF Task, Dispose, DependentsGuardExpires
  <2>7. ASSUME NEW f \in Fiber, Refresh(f) PROVE UNCHANGED forced
    BY <2>7 DEF Refresh, RefreshNothing, RefreshRecord, RefreshLoad, RefreshUnload
  <2>8. ASSUME NEW k \in Key, RootSet(k) \/ RootUnset(k) PROVE UNCHANGED forced
    BY <2>8 DEF RootSet, RootUnset
  <2> QED BY <2>2, <2>6, <2>7, <2>8 DEF Next, vars
<1> QED BY <1>1, <1>2, TypeCorrect, ServedWhileUnforced, HistoryIsAddedOnly, PTL DEF Spec

=============================================================================
