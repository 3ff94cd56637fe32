-------------------------- MODULE FiberGenerations --------------------------
(***************************************************************************)
(* The runtime compares target digests (runtime.ts: refresh, startLoad),   *)
(* and a digest names owners by uid only.  An owner that unloads and loads *)
(* again keeps its uid, so a digest that went away and came back compares  *)
(* equal.  The history variable `loaded' records what each load of a fiber *)
(* really started from: the generation of the owner behind every key.      *)
(***************************************************************************)
EXTENDS FiberRuntime

VARIABLE loaded  \* [Fiber -> the owner's generation behind each injected key]

Behind(f) == [k \in Inject[f] |-> store[k].gen]

HInit == Init /\ loaded = [f \in Fiber |-> None]

HNext ==
  /\ Next
  /\ loaded' = [f \in Fiber |->
                  IF generation'[f] = generation[f] THEN loaded[f] ELSE Behind(f)]

HSpec == HInit /\ [][HNext]_<<vars, loaded>>

PromptSpec == HSpec /\ Fairness /\ Promptness

\* An ACTIVE fiber is served by the very load of each owner it was loaded
\* against, not by a later one under the same uid: a comparison of uids is
\* enough because an owner cannot come back before its dependents have left
\* (computeTarget's digest, waitDependents).  It needs guards that never run
\* out, and does not extend to keys the root context binds.
ServedByTheSameLoad ==
  pending = {} =>
    \A f \in fibers : state[f] = "ACTIVE" =>
      \A k \in Inject[f] :
        store[k].owner # Root => store[k].gen = loaded[f][k]

=============================================================================
