------------------------------ MODULE Courier -------------------------------
(***************************************************************************)
(* What the delivery promises to a chat group: the parts of a message are  *)
(* posted in order and once each, once more for every crash that cut the   *)
(* message off, and nothing is posted of a message that is settled, be it  *)
(* complete, cut short or given up.                                        *)
(***************************************************************************)
EXTENDS Naturals

CONSTANTS
  Message,
  Parts     \* [Message -> Nat]

VARIABLES
  posts,    \* [Message -> [1 .. Parts -> Nat]]: how often each part was posted
  settled,  \* messages the sender is through with
  cuts      \* [Message -> Nat]: crashes in the middle of the message

vars == <<posts, settled, cuts>>

Post(m, n) ==
  /\ m \notin settled
  /\ posts[m][n] <= cuts[m]
  /\ n > 1 => posts[m][n] < posts[m][n - 1]
  /\ posts' = [posts EXCEPT ![m][n] = @ + 1]
  /\ settled' \in {settled, settled \cup {m}}
  /\ UNCHANGED cuts

Settle(m) ==
  /\ m \notin settled
  /\ settled' = settled \cup {m}
  /\ UNCHANGED <<posts, cuts>>

\* The sender goes down: what it was posting is cut.
Cut(S) ==
  /\ S \cap settled = {}
  /\ cuts' = [m \in Message |-> IF m \in S THEN cuts[m] + 1 ELSE cuts[m]]
  /\ UNCHANGED <<posts, settled>>

Init ==
  /\ posts = [m \in Message |-> [n \in 1 .. Parts[m] |-> 0]]
  /\ settled = {}
  /\ cuts = [m \in Message |-> 0]

Next ==
  \/ \E m \in Message : Settle(m) \/ \E n \in 1 .. Parts[m] : Post(m, n)
  \/ \E S \in SUBSET Message : Cut(S)

Spec == Init /\ [][Next]_vars

=============================================================================
