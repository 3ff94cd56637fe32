------------------------------ MODULE QqEvents ------------------------------
(***************************************************************************)
(* What a webhook body of the bridge means: the normalization of           *)
(* src/pipeline/qq-events.ts, and which rules it fires and what they plan, *)
(* src/pipeline/qq-reactions.ts.  All of it is pure.                       *)
(*                                                                         *)
(* A body is a record: `post' its post_type, `account' the event of the    *)
(* account webhook, group, user, target, self and id numbers or Missing,   *)
(* `message' a sequence of segments [type, value], which is also what a    *)
(* CQ string decodes to, `notice' and `sub' the types of a notice.         *)
(***************************************************************************)
EXTENDS Integers, Sequences, FiniteSets

Missing == 0

EventKind == {"message", "message_sent", "notice", "request", "meta_event", "notification", "unknown"}

\* parseMessageField: the text and whom it mentions.
Parse(message) ==
  LET Heard(segment) == segment.type \in {"text", "at"}
  IN  [text |-> SelectSeq(message, Heard),
       mentions |-> {message[n].value : n \in {k \in DOMAIN message : message[k].type = "at"}}]

ScopeOf(body) ==
  CASE body.messageType = "group" \/ body.group # Missing -> "group"
    [] OTHER -> CASE body.messageType = "private" -> "friend"
                  [] body.messageType # "private" /\ body.post \in {"notice", "request"}
                     /\ body.user # Missing /\ body.target # Missing -> "friend"
                  [] OTHER -> "none"

\* eventScopeKey: a scope without its number has no key.
ScopeKey(scope, group, user) ==
  CASE scope = "group" /\ group # Missing -> <<"group", group>>
    [] scope = "friend" /\ user # Missing -> <<"friend", user>>
    [] OTHER -> <<"none", Missing>>

KindOfPost(post) ==
  IF post \in {"message", "message_sent", "notice", "request", "meta_event"} THEN post ELSE "unknown"

\* A message is known by its scope and id, whichever way it comes; everything else by its body.
KeyOf(body) ==
  IF body.post \in {"message", "message_sent"} /\ body.id # Missing
  THEN <<"msg", ScopeKey(ScopeOf(body), body.group, body.user), body.id>>
  ELSE <<"evt", body>>

Normalizable(body) == body.object /\ (body.post # "none" \/ body.account \in {"online", "offline"})

\* normalizeQqEvent of a normalizable body.
Normalize(body) ==
  LET account == body.post = "none"
      talk == body.post \in {"message", "message_sent"}
      parsed == Parse(IF talk THEN body.message ELSE <<>>)
  IN  [key |-> KeyOf(body),
       kind |-> IF account THEN "notification" ELSE KindOfPost(body.post),
       scope |-> IF account THEN "none" ELSE ScopeOf(body),
       group |-> IF account THEN Missing ELSE body.group,
       user |-> IF account THEN Missing ELSE body.user,
       self |-> body.self,
       id |-> IF account THEN Missing ELSE body.id,
       text |-> parsed.text, mentions |-> parsed.mentions,
       notice |-> IF account THEN "account" ELSE IF body.post = "notice" THEN body.notice ELSE "none",
       sub |-> IF account THEN body.account ELSE IF body.post = "notice" THEN body.sub ELSE "none",
       recovered |-> FALSE]

\* noteHealth: what an event says of the bridge.
Says(event) ==
  CASE event.kind = "notice" /\ event.notice = "bot_offline" -> "offline"
    [] event.kind = "notification" /\ event.sub \in {"online", "offline"} -> event.sub
    [] OTHER -> "nothing"

-----------------------------------------------------------------------------
(* Rules: [id, match, actions, skipRecovered, max]; a filter of a match    *)
(* that is empty lets everything pass.                                     *)

InList(list, value) == list = {} \/ (value # Missing /\ value \in list)

OneOf(filter, value) == filter = {} \/ value \in filter

RuleMatches(rule, event, admins) ==
  LET match == rule.match
  IN  /\ ~(rule.skipRecovered /\ event.recovered)
      /\ OneOf(match.kinds, event.kind)
      /\ InList(match.groups, event.group)
      /\ InList(match.users, event.user)
      /\ InList(match.selfIds, event.self)
      /\ match.words = {} \/ \E n \in DOMAIN event.text : event.text[n].value \in match.words
      /\ OneOf(match.notices, event.notice)
      /\ OneOf(match.subs, event.sub)
      /\ match.adminsOnly => event.user # Missing /\ event.user \in admins

\* destOf
HasDest(event) == ScopeKey(event.scope, event.group, event.user)[1] # "none"

\* Whom an action sends to: back where the event came from, or where it is told.
Destinations(action, event, admins) ==
  IF action.type = "forward"
  THEN action.to \cup (IF action.toAdmins THEN {<<"friend", a>> : a \in admins} ELSE {})
  ELSE IF HasDest(event) THEN {ScopeKey(event.scope, event.group, event.user)} ELSE {}

\* planQuickOperation: which of the action's fields the event's kind admits.
QuickOperation(event, action) ==
  CASE event.kind \in {"message", "message_sent"} ->
         action.fields \cap {"reply", "at_sender", "auto_escape", "delete", "ban", "kick"}
    [] event.kind = "request" -> action.fields \cap {"approve", "remark", "reason"}
    [] OTHER -> {}

\* What compileRules lets pass.
ValidRules(rules) ==
  /\ \A a, b \in DOMAIN rules : rules[a].id = rules[b].id => a = b
  /\ \A n \in DOMAIN rules :
       /\ rules[n].actions # <<>>
       /\ rules[n].match.kinds \subseteq EventKind
       /\ \A k \in DOMAIN rules[n].actions :
            LET action == rules[n].actions[k]
            IN  /\ action.type \in {"reply", "forward", "command", "quick_operation"}
                /\ action.type = "command" => action.name \in {"status", "recall"}
                /\ action.type = "forward" => action.to # {} \/ action.toAdmins
=============================================================================
