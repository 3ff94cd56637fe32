--------------------------- MODULE MCFiberRuntime ---------------------------
(* Two providers of one key, a consumer of it and the consumer's child; the *)
(* first provider itself needs a key of the root context.                   *)
EXTENDS FiberRuntime

CONSTANTS p1, p2, x, kid, k, r

MCInject == [f \in Fiber |-> IF f = p1 THEN {r} ELSE IF f = p2 THEN {} ELSE {k}]
MCProvides == [f \in Fiber |-> IF f \in {p1, p2} THEN {k} ELSE {}]
MCParent == [f \in Fiber |-> IF f = kid THEN x ELSE Root]
=============================================================================
