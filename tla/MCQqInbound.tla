---------------------------- MODULE MCQqInbound ----------------------------
(* A chat whose second message is the bot's own; one rule that             *)
(* replies and answers the webhook, one that forwards and has a quota.     *)
EXTENDS QqInbound

CONSTANTS p1, p2, hook

Bot == 9

Said(n, user) ==
  [object |-> TRUE, post |-> "message", account |-> "none", messageType |-> "group", group |-> 5,
   user |-> user, target |-> Missing, self |-> Bot, id |-> n, notice |-> "none", sub |-> "none",
   message |-> <<[type |-> "text", value |-> n]>>]

AnyMatch ==
  [kinds |-> {"message"}, groups |-> {}, users |-> {}, selfIds |-> {}, words |-> {},
   notices |-> {}, subs |-> {}, adminsOnly |-> FALSE]

Reply == [type |-> "reply"]
Forward == [type |-> "forward", to |-> {<<"group", 6>>}, toAdmins |-> FALSE]
QuickDelete == [type |-> "quick_operation", fields |-> {"delete"}]

MCRules ==
  << [id |-> "answer", match |-> [AnyMatch EXCEPT !.words = {1}], skipRecovered |-> FALSE, max |-> 0,
      actions |-> <<Reply, QuickDelete>>],
     [id |-> "relay", match |-> [AnyMatch EXCEPT !.words = {1, 2}], skipRecovered |-> TRUE, max |-> 1,
      actions |-> <<Forward>>] >>

MCBody == << Said(1, 1), Said(2, Bot), Said(3, 1), Said(4, 1), Said(5, 1), Said(6, 1) >>
MCPasses == {p1, p2}
MCScenes ==
  { [length |-> 1, passes |-> {p1, p2}, posts |-> <<1>>, restarts |-> 1, slips |-> 0],
    [length |-> 2, passes |-> {p1}, posts |-> <<1, 1>>, restarts |-> 1, slips |-> 0],
    [length |-> 2, passes |-> {p1}, posts |-> <<2, 1>>, restarts |-> 0, slips |-> 1],
    [length |-> 6, passes |-> {}, posts |-> <<0, 0, 1, 0, 1, 0>>, restarts |-> 0, slips |-> 0] }
MCSelf == {Bot}
=============================================================================
