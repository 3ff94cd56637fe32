------------------------- MODULE MCFiberGenerations -------------------------
(* A provider that needs a key of the root context, a relay that injects    *)
(* the provider's key and provides one of its own, a consumer of both, and *)
(* the consumer's child.                                                    *)
EXTENDS FiberGenerations

CONSTANTS p1, y, x, kid, k, ky, r

MCInject == [f \in Fiber |-> IF f = p1 THEN {r} ELSE IF f = x THEN {k, ky} ELSE {k}]
MCProvides == [f \in Fiber |-> IF f = p1 THEN {k} ELSE IF f = y THEN {ky} ELSE {}]
MCParent == [f \in Fiber |-> IF f = kid THEN x ELSE Root]
=============================================================================
