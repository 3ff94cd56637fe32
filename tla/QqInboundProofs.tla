--------------------------- MODULE QqInboundProofs ---------------------------
(***************************************************************************)
(* For any chat, rules, number of passes, failures and restarts: a verdict *)
(* `ok' is earned, and the cursor of the history sync passes what it has   *)
(* not mirrored only past its page budget or by a live message.            *)
(***************************************************************************)
EXTENDS QqInbound, WellFoundedInduction, TLAPS

-----------------------------------------------------------------------------
(* Least and greatest members.                                             *)

LEMMA LeastOf ==
  ASSUME NEW S \in SUBSET Nat, S # {}
  PROVE  Min(S) \in S /\ \A x \in S : Min(S) <= x
<1> DEFINE R == {p \in Nat \X Nat : p[1] < p[2]}
<1>1. IsWellFoundedOn(R, Nat)
  BY NatLessThanWellFounded DEF OpToRel
<1>2. PICK x \in S : \A y \in S : <<y, x>> \notin R
  BY <1>1, WFMin
<1>3. ASSUME NEW y \in S PROVE x <= y
  <2>1. x \in Nat /\ y \in Nat /\ ~(<<y, x>> \in Nat \X Nat /\ y < x)
    BY <1>2
  <2> QED BY <2>1
<1> QED BY <1>3 DEF Min

LEMMA GreatestOf ==
  ASSUME NEW n \in Nat, NEW S \in SUBSET (0 .. n), S # {}
  PROVE  Max(S) \in S /\ \A x \in S : x <= Max(S)
<1> DEFINE T == {n - x : x \in S}
<1>1. T \in SUBSET Nat /\ T # {}
  <2>1. \A x \in S : x \in 0 .. n /\ n - x \in Nat
    OBVIOUS
  <2> QED BY <2>1
<1>2. PICK t \in T : \A u \in T : t <= u
  BY <1>1, LeastOf
<1>3. PICK x \in S : t = n - x
  OBVIOUS
<1>4. \A y \in S : y <= x
  BY <1>2, <1>3
<1> QED BY <1>4 DEF Max

-----------------------------------------------------------------------------
(* The configuration.                                                      *)

LEMMA BodyShape ==
  /\ Len(Body) \in Nat /\ Messages = 1 .. Len(Body)
  /\ scene \in Scenes => scene.length \in 1 .. Len(Body) /\ scene.passes \subseteq Passes
BY InboundAssumption DEF Messages

LEMMA RulesShape ==
  /\ Len(Rules) \in Nat /\ DOMAIN Rules = 1 .. Len(Rules)
  /\ \A r \in DOMAIN Rules :
       /\ Len(Rules[r].actions) \in Nat \ {0}
       /\ DOMAIN Rules[r].actions = 1 .. Len(Rules[r].actions)
<1>1. Len(Rules) \in Nat /\ DOMAIN Rules = 1 .. Len(Rules)
  BY InboundAssumption
<1>2. ASSUME NEW r \in DOMAIN Rules
      PROVE  /\ Len(Rules[r].actions) \in Nat \ {0}
             /\ DOMAIN Rules[r].actions = 1 .. Len(Rules[r].actions)
  <2>1. PICK T : Rules[r].actions \in Seq(T)
    BY InboundAssumption
  <2>2. Rules[r].actions # <<>>
    BY <2>1, InboundAssumption DEF ValidRules
  <2> QED BY <2>1, <2>2
<1> QED BY <1>1, <1>2

LEMMA ActionsShape ==
  \A k \in Actions : k[1] \in DOMAIN Rules /\ k[2] \in DOMAIN Rules[k[1]].actions /\ k = <<k[1], k[2]>>
BY DEF Actions

LEMMA ActionOf ==
  ASSUME NEW r \in DOMAIN Rules, NEW a \in DOMAIN Rules[r].actions
  PROVE  <<r, a>> \in Actions
BY DEF Actions

-----------------------------------------------------------------------------
(* Types.  What is known is at most as long as the chat.                   *)

Statuses == {"none", "received", "dispatching", "ok", "error", "skipped", "bad"}

Row == [status : Statuses, stale : BOOLEAN, raw : {"object", "string"}]

Run == [pc : {"idle", "first", "page"}, from : Nat, top : Nat, anchor : Nat, page : Nat, by : Workers]

PCs == {"idle", "sync", "list", "replay", "pending", "rule", "act", "send"}

Phases == {"live", "replay", "pending"}

QuickFields == {"reply", "at_sender", "auto_escape", "delete", "ban", "kick", "approve", "remark", "reason"}

Job == [pc : PCs, n : Nat, recovered : BOOLEAN, rule : Nat, action : Nat, failed : BOOLEAN,
        quick : SUBSET QuickFields, todo : SUBSET Nat, phase : Phases]

AtWork(j) == j.pc \in {"rule", "act", "send"}

Fits(j, top) ==
  /\ j \in Job /\ j.todo \subseteq 1 .. top
  /\ AtWork(j) => j.n \in 1 .. top /\ j.rule \in 1 .. (Len(Rules) + 1)
  /\ j.pc \in {"act", "send"} => j.rule \in DOMAIN Rules /\ j.action \in DOMAIN Rules[j.rule].actions

RowsTyped ==
  /\ ledger \in [Messages -> Row]
  /\ \A n \in Messages : ledger[n].status # "none" => n <= last

WorkTyped ==
  /\ work \in [Workers -> Job]
  /\ \A w \in Workers : Fits(work[w], last)

SendsTyped ==
  /\ claims \in [Messages -> [Actions -> {"none", "sending", "sent", "failed"}]]
  /\ shown \in [Messages -> [Actions -> {0, 1}]]

PageTyped(run) == run.pc = "page" => run.top \in 1 .. last /\ run.anchor \in 1 .. run.top

Typed ==
  /\ scene \in Scenes /\ last \in 0 .. scene.length
  /\ RowsTyped
  /\ mirror \subseteq 1 .. last /\ cursor \in 0 .. last
  /\ sync \in Run /\ PageTyped(sync)
  /\ WorkTyped
  /\ SendsTyped

LEMMA IdleFits ==
  ASSUME NEW top \in Nat
  PROVE  /\ Fits(Idle, top) /\ ~AtWork(Idle) /\ Idle \in Job
         /\ Idle.todo = {}
BY DEF Fits, Idle, Job, AtWork, PCs, Phases

\* An idle worker's job with another pc, list and phase.
Resting(pc, todo, phase) == [Idle EXCEPT !.pc = pc, !.todo = todo, !.phase = phase]

RestsAt(j, top) == Fits(j, top) /\ ~AtWork(j)

LEMMA RestingFits ==
  ASSUME NEW top \in Nat, NEW pc \in {"idle", "sync", "list", "replay", "pending"}, NEW phase \in Phases,
         NEW todo \in SUBSET (1 .. top)
  PROVE  RestsAt(Resting(pc, todo, phase), top)
<1>1. todo \in SUBSET Nat
  OBVIOUS
<1> QED BY <1>1 DEF RestsAt, Resting, Fits, Idle, Job, AtWork, PCs, Phases

LEMMA PassFits ==
  ASSUME NEW top \in Nat, NEW pc \in {"idle", "sync", "list", "replay", "pending"}
  PROVE  LET j == [Idle EXCEPT !.pc = pc, !.phase = "replay"]
         IN  Fits(j, top) /\ ~AtWork(j)
BY DEF Fits, Idle, Job, AtWork, PCs, Phases

-----------------------------------------------------------------------------
(* How the job of a dispatch moves.                                        *)

\* The same dispatch, as far as what it is about goes.
SameDispatch(j, t) == t.n = j.n /\ t.recovered = j.recovered /\ t.todo = j.todo

LEMMA RuleIsLeft ==
  ASSUME WorkTyped, NEW w \in Workers, AtWork(work[w]), work[w].rule \in DOMAIN Rules, last \in Nat
  PROVE  /\ Fits(NextRule(w), last) /\ SameDispatch(work[w], NextRule(w))
         /\ NextRule(w).pc = "rule" /\ NextRule(w).rule = work[w].rule + 1
         /\ NextRule(w).action = 0 /\ NextRule(w).failed = work[w].failed
<1> DEFINE j == work[w]
<1>1. Fits(j, last) /\ j \in Job /\ AtWork(j) /\ j.rule \in DOMAIN Rules
  BY DEF WorkTyped, Fits
<1>2. j.rule + 1 \in 1 .. (Len(Rules) + 1) /\ j.rule + 1 \in Nat
  BY <1>1, RulesShape
<1>3. PICK t : t = NextRule(w)
  OBVIOUS
<1>4. t = [j EXCEPT !.pc = "rule", !.rule = j.rule + 1, !.action = 0]
  BY <1>3 DEF NextRule
<1> HIDE DEF j
<1>5. /\ t \in Job /\ t.pc = "rule" /\ t.rule = j.rule + 1 /\ t.action = 0
      /\ t.n = j.n /\ t.recovered = j.recovered /\ t.failed = j.failed /\ t.todo = j.todo
  <2>1. "rule" \in PCs /\ 0 \in Nat
    BY DEF PCs
  <2>2. PICK r \in Nat : r = j.rule + 1
    BY <1>2
  <2>3. t = [j EXCEPT !.pc = "rule", !.rule = r, !.action = 0]
    BY <1>4, <2>2
  <2> QED BY <1>1, <2>1, <2>2, <2>3 DEF Job
<1>6. Fits(t, last)
  BY <1>1, <1>2, <1>5 DEF Fits, AtWork
<1> QED BY <1>3, <1>5, <1>6 DEF SameDispatch, j

\* Where a dispatch goes from one of its actions.
LEMMA ActionIsLeft ==
  ASSUME WorkTyped, NEW w \in Workers, work[w].pc \in {"act", "send"}, NEW failed \in BOOLEAN, last \in Nat
  PROVE  LET j == work[w]
             t == NextAction(w, failed)
         IN  /\ Fits(t, last) /\ SameDispatch(j, t) /\ t.failed = (j.failed \/ failed)
             /\ \/ t.pc = "act" /\ t.rule = j.rule /\ t.action = j.action + 1
                \/ /\ t.pc = "rule" /\ t.rule = j.rule + 1 /\ t.action = 0
                   /\ j.action = Len(Rules[j.rule].actions)
<1>1. PICK j : j = work[w]
  OBVIOUS
<1>2. Fits(j, last) /\ j \in Job /\ AtWork(j) /\ j.failed \in BOOLEAN
      /\ j.rule \in DOMAIN Rules /\ j.action \in DOMAIN Rules[j.rule].actions
  BY <1>1 DEF WorkTyped, Fits, AtWork, Job
<1>3. PICK t : t = NextAction(w, failed)
  OBVIOUS
<1>4. (j.failed \/ failed) \in BOOLEAN
  OBVIOUS
<1>5. CASE j.action < Len(Rules[j.rule].actions)
  <2>1. t = [j EXCEPT !.pc = "act", !.action = j.action + 1, !.failed = j.failed \/ failed]
    BY <1>1, <1>3, <1>5 DEF NextAction
  <2>2. j.action + 1 \in Nat /\ j.action + 1 \in DOMAIN Rules[j.rule].actions
    BY <1>2, <1>5, RulesShape
  <2>3. /\ t \in Job /\ t.pc = "act" /\ t.rule = j.rule /\ t.action = j.action + 1
        /\ t.n = j.n /\ t.recovered = j.recovered /\ t.failed = (j.failed \/ failed) /\ t.todo = j.todo
    <3>1. "act" \in PCs
      BY DEF PCs
    <3>2. PICK f \in BOOLEAN : f = (j.failed \/ failed)
      BY <1>4
    <3>3. PICK a \in Nat : a = j.action + 1
      BY <2>2
    <3>4. t = [j EXCEPT !.pc = "act", !.action = a, !.failed = f]
      BY <2>1, <3>2, <3>3
    <3> QED BY <1>2, <3>1, <3>2, <3>3, <3>4 DEF Job
  <2>4. Fits(t, last)
    BY <1>2, <2>2, <2>3 DEF Fits, AtWork
  <2> QED BY <1>1, <1>3, <2>3, <2>4 DEF SameDispatch
<1>6. CASE ~(j.action < Len(Rules[j.rule].actions))
  <2>1. PICK s : s = NextRule(w)
    OBVIOUS
  <2>2. /\ Fits(s, last) /\ SameDispatch(j, s) /\ s.pc = "rule" /\ s.rule = j.rule + 1
        /\ s.action = 0 /\ s.failed = j.failed
    BY <1>1, <1>2, <2>1, RuleIsLeft
  <2>3. t = [s EXCEPT !.failed = s.failed \/ failed]
    BY <1>1, <1>3, <1>6, <2>1 DEF NextAction
  <2>4. s \in Job /\ (s.failed \/ failed) \in BOOLEAN
    BY <2>2 DEF Fits
  <2>5. /\ t \in Job /\ t.pc = s.pc /\ t.rule = s.rule /\ t.action = s.action
        /\ t.n = s.n /\ t.recovered = s.recovered /\ t.failed = (j.failed \/ failed) /\ t.todo = s.todo
    <3>1. PICK f \in BOOLEAN : f = (s.failed \/ failed)
      BY <2>4
    <3>2. t = [s EXCEPT !.failed = f]
      BY <2>3, <3>1
    <3>3. f = (j.failed \/ failed)
      BY <2>2, <3>1
    <3> QED BY <2>2, <2>4, <3>1, <3>2, <3>3 DEF Job
  <2>6. Fits(t, last)
    BY <2>2, <2>5 DEF Fits, AtWork
  <2>7. j.action = Len(Rules[j.rule].actions)
    BY <1>2, <1>6, RulesShape
  <2> QED BY <1>1, <1>3, <2>2, <2>5, <2>6, <2>7 DEF SameDispatch
<1> QED BY <1>5, <1>6

-----------------------------------------------------------------------------
(* A worker takes an event up: a webhook, a replayed row or an interrupted *)
(* dispatch.                                                               *)

\* A row keeps what its event was read from, and no row turns `ok' by itself.
RowsKept(rows, later) ==
  \A m \in Messages :
    /\ rows[m].status # "none" => later[m].status # "none" /\ later[m].raw = rows[m].raw
    /\ later[m].status = "ok" => rows[m].status = "ok"

MirrorGrows ==
  \/ UNCHANGED <<mirror, beyond>>
  \/ \E n \in 1 .. last :
       /\ mirror' = mirror \cup {n}
       /\ beyond' = IF sync.pc = "page" THEN beyond \cup ((sync.top + 1) .. (n - 1)) ELSE beyond

\* A job that starts knows how the row of its event was written.
Starts(t) ==
  AtWork(t) => /\ t.pc = "rule" /\ t.rule = 1 /\ t.action = 0 /\ t.failed = FALSE
               /\ ledger'[t.n].status # "none"
               /\ t.recovered = (ledger'[t.n].raw = "string")

LEMMA RowWritten ==
  ASSUME RowsTyped, last \in 0 .. Len(Body), NEW n \in 1 .. last, NEW row \in Row,
         ledger' = [ledger EXCEPT ![n] = row],
         ledger[n].status # "none" => row.status # "none" /\ row.raw = ledger[n].raw,
         row.status = "ok" => ledger[n].status = "ok"
  PROVE  /\ ledger' \in [Messages -> Row] /\ ledger'[n] = row
         /\ \A m \in Messages : ledger'[m].status # "none" => m <= last
         /\ RowsKept(ledger, ledger')
<1>1. n \in Messages /\ n <= last
  BY BodyShape
<1>2. ledger'[n] = row /\ \A m \in Messages : m # n => ledger'[m] = ledger[m]
  BY <1>1 DEF RowsTyped
<1>3. ledger' \in [Messages -> Row]
  BY <1>1 DEF RowsTyped
<1>4. \A m \in Messages : ledger'[m].status # "none" => m <= last
  BY <1>1, <1>2 DEF RowsTyped
<1>5. RowsKept(ledger, ledger')
  BY <1>2 DEF RowsKept
<1> QED BY <1>2, <1>3, <1>4, <1>5

\* What process() of message n leaves.
Leaves(w, n, recovered, rows) ==
  /\ \E t : /\ work' = [work EXCEPT ![w] = t] /\ Fits(t, last)
            /\ AtWork(t) => /\ t.n = n /\ t.recovered = recovered
                            /\ t.pc = "rule" /\ t.rule = 1 /\ t.action = 0 /\ t.failed = FALSE
  /\ \E s \in {"skipped", "dispatching"} : ledger' = [rows EXCEPT ![n].status = s]
  /\ MirrorGrows

LEMMA ProcessTakesUp ==
  ASSUME Typed, NEW w \in Workers, NEW n \in 1 .. last, NEW recovered \in BOOLEAN, NEW rows,
         NEW todo \in SUBSET (1 .. last), NEW phase \in Phases,
         Process(w, n, recovered, rows, todo, phase)
  PROVE  Leaves(w, n, recovered, rows)
<1> DEFINE pc == IF phase = "live" THEN "idle" ELSE phase
           next == [Idle EXCEPT !.pc = pc, !.todo = todo, !.phase = phase]
           j == [next EXCEPT !.pc = "rule", !.n = n, !.recovered = recovered, !.rule = 1]
<1>1. last \in Nat
  BY BodyShape DEF Typed
<1>2. pc \in {"idle", "sync", "list", "replay", "pending"} /\ pc \in PCs
  BY DEF Phases, PCs
<1> HIDE DEF pc
<1>3. Fits(next, last) /\ ~AtWork(next)
  <2>1. RestsAt(Resting(pc, todo, phase), last)
    BY <1>1, <1>2, RestingFits
  <2> QED BY <2>1 DEF RestsAt, Resting
<1>4. /\ Fits(j, last) /\ j.pc = "rule" /\ j.n = n /\ j.recovered = recovered
      /\ j.rule = 1 /\ j.action = 0 /\ j.failed = FALSE
  <2>1. next.action = 0 /\ next.failed = FALSE
    BY DEF Idle
  <2>2. PICK e : e = next
    OBVIOUS
  <2>3. PICK f : f = [e EXCEPT !.pc = "rule", !.n = n, !.recovered = recovered, !.rule = 1]
    OBVIOUS
  <2>4. /\ Fits(f, last) /\ f.pc = "rule" /\ f.n = n /\ f.recovered = recovered
        /\ f.rule = 1 /\ f.action = 0 /\ f.failed = FALSE
    <3>1. Fits(e, last) /\ e.action = 0 /\ e.failed = FALSE
      <4> HIDE DEF next
      <4> QED BY <1>3, <2>1, <2>2
    <3> HIDE DEF next
    <3>2. /\ Fits(f, last) /\ f.pc = "rule" /\ f.n = n /\ f.recovered = recovered
          /\ f.rule = 1 /\ f.action = e.action /\ f.failed = e.failed
      <4>1. n \in Nat /\ 1 \in 1 .. (Len(Rules) + 1)
        BY <1>1, RulesShape
      <4> QED BY <1>1, <2>3, <3>1, <4>1 DEF Fits, Job, AtWork, PCs
    <3> QED BY <3>1, <3>2
  <2> QED BY <2>2, <2>3, <2>4
<1>5. \/ /\ ledger' = [rows EXCEPT ![n].status = "skipped"]
         /\ work' = [work EXCEPT ![w] = next]
         /\ UNCHANGED <<mirror, beyond>>
      \/ /\ ledger' = [rows EXCEPT ![n].status = "dispatching"]
         /\ mirror' = mirror \cup {n}
         /\ work' = [work EXCEPT ![w] = j]
         /\ beyond' = IF sync.pc = "page" THEN beyond \cup ((sync.top + 1) .. (n - 1)) ELSE beyond
  BY DEF Process, pc
<1> HIDE DEF next, j
<1> QED BY <1>3, <1>4, <1>5 DEF Leaves, MirrorGrows

LEMMA TakenUp ==
  ASSUME Typed, NEW w \in Workers,
         (w = Hook /\ \E n \in Messages : Post(n)) \/ Replay(w) \/ Redispatch(w)
  PROVE  /\ ledger' \in [Messages -> Row]
         /\ \A m \in Messages : ledger'[m].status # "none" => m <= last
         /\ RowsKept(ledger, ledger')
         /\ MirrorGrows
         /\ \E t : work' = [work EXCEPT ![w] = t] /\ Fits(t, last) /\ Starts(t)
<1>1. /\ last \in 0 .. Len(Body) /\ ledger \in [Messages -> Row] /\ RowsTyped
      /\ work[w] \in Job /\ Fits(work[w], last)
      /\ \A n \in 1 .. last : n \in Messages
  BY BodyShape DEF Typed, RowsTyped, WorkTyped, Fits
<1>2. RowsKept(ledger, ledger) /\ \A m \in Messages : ledger[m].status # "none" => m <= last
  BY <1>1 DEF RowsKept, RowsTyped
<1>3. ASSUME NEW n \in 1 .. last, NEW raw \in {"object", "string"}, ledger[n].status = "none",
             NEW todo \in SUBSET (1 .. last), NEW phase \in Phases,
             Process(w, n, raw = "string", Recorded(n, raw), todo, phase)
      PROVE  /\ ledger' \in [Messages -> Row]
             /\ \A m \in Messages : ledger'[m].status # "none" => m <= last
             /\ RowsKept(ledger, ledger')
             /\ MirrorGrows
             /\ \E t : work' = [work EXCEPT ![w] = t] /\ Fits(t, last) /\ Starts(t)
  <2>1. PICK recovered \in BOOLEAN : recovered = (raw = "string")
    OBVIOUS
  <2>2. Leaves(w, n, recovered, Recorded(n, raw))
    <3>1. Process(w, n, recovered, Recorded(n, raw), todo, phase)
      BY <1>3, <2>1
    <3> QED BY <3>1, ProcessTakesUp
  <2>3. PICK t : /\ work' = [work EXCEPT ![w] = t] /\ Fits(t, last)
                 /\ AtWork(t) => /\ t.n = n /\ t.recovered = recovered
                                 /\ t.pc = "rule" /\ t.rule = 1 /\ t.action = 0 /\ t.failed = FALSE
    BY <2>2 DEF Leaves
  <2>4. MirrorGrows
    BY <2>2 DEF Leaves
  <2>5. PICK s \in {"skipped", "dispatching"} : ledger' = [Recorded(n, raw) EXCEPT ![n].status = s]
    BY <2>2 DEF Leaves
  <2> DEFINE row == [status |-> s, stale |-> FALSE, raw |-> raw]
  <2>6. ledger' = [ledger EXCEPT ![n] = row]
    BY <1>1, <2>5 DEF Recorded
  <2>7. row \in Row /\ row.status = s /\ row.raw = raw /\ s # "ok" /\ s # "none"
    BY DEF Row, Statuses
  <2> HIDE DEF row
  <2>8. /\ ledger' \in [Messages -> Row] /\ ledger'[n] = row
        /\ \A m \in Messages : ledger'[m].status # "none" => m <= last
        /\ RowsKept(ledger, ledger')
    <3>1. /\ ledger[n].status # "none" => row.status # "none" /\ row.raw = ledger[n].raw
          /\ row.status = "ok" => ledger[n].status = "ok"
      BY <1>3, <2>7
    <3> QED BY <1>1, <2>6, <2>7, <3>1, RowWritten
  <2>9. Starts(t)
    BY <2>1, <2>3, <2>7, <2>8 DEF Starts
  <2> QED BY <2>3, <2>4, <2>8, <2>9
<1>4. CASE \E n \in Messages : w = Hook /\ Post(n)
  <2>1. PICK n \in Messages : Post(n) /\ w = Hook
    BY <1>4
  <2>2. n \in 1 .. last /\ work[w].pc = "idle"
    BY <2>1 DEF Post
  <2>3. CASE ledger[n].status # "none"
    <3>1. UNCHANGED <<ledger, mirror, work, beyond>>
      BY <2>1, <2>3 DEF Post
    <3>2. work' = [work EXCEPT ![w] = work[w]] /\ Starts(work[w])
      BY <2>2, <3>1 DEF Typed, WorkTyped, Starts, AtWork
    <3> QED BY <1>1, <1>2, <3>1, <3>2 DEF MirrorGrows
  <2>4. CASE ledger[n].status = "none"
    <3>1. Process(w, n, "object" = "string", Recorded(n, "object"), {}, "live")
      BY <2>1, <2>4 DEF Post
    <3>2. {} \in SUBSET (1 .. last) /\ "live" \in Phases
      BY DEF Phases
    <3> QED BY <1>3, <2>2, <2>4, <3>1, <3>2
  <2> QED BY <2>3, <2>4
<1>5. CASE Replay(w)
  <2> DEFINE n == Min(work[w].todo)
             rest == work[w].todo \ {n}
  <2>1. /\ work[w].pc = "replay" /\ work[w].todo # {}
        /\ \/ /\ work' = [work EXCEPT ![w].todo = rest] /\ UNCHANGED <<ledger, mirror, beyond>>
           \/ /\ ledger[n].status = "none"
              /\ Process(w, n, "string" = "string", Recorded(n, "string"), rest, "replay")
    BY <1>5 DEF Replay, Skips
  <2>2. n \in 1 .. last /\ rest \in SUBSET (1 .. last)
    <3>1. work[w].todo \subseteq 1 .. last /\ work[w].todo \in SUBSET Nat
      BY <1>1 DEF Fits
    <3>2. n \in work[w].todo
      BY <2>1, <3>1, LeastOf
    <3> QED BY <3>1, <3>2
  <2> HIDE DEF n, rest
  <2>3. CASE work' = [work EXCEPT ![w].todo = rest] /\ UNCHANGED <<ledger, mirror, beyond>>
    <3>1. PICK t : t = [work[w] EXCEPT !.todo = rest]
      OBVIOUS
    <3>2. t \in Job /\ t.pc = "replay" /\ t.todo = rest
      <4>1. rest \in SUBSET Nat
        BY <2>2
      <4> QED BY <1>1, <2>1, <3>1, <4>1 DEF Job
    <3>3. Fits(t, last) /\ Starts(t)
      BY <2>2, <3>2 DEF Fits, Starts, AtWork
    <3>4. work' = [work EXCEPT ![w] = t]
      BY <2>3, <3>1
    <3> QED BY <1>1, <1>2, <2>3, <3>3, <3>4 DEF MirrorGrows
  <2>4. CASE ledger[n].status = "none"
             /\ Process(w, n, "string" = "string", Recorded(n, "string"), rest, "replay")
    <3>1. "replay" \in Phases
      BY DEF Phases
    <3> QED BY <1>3, <2>2, <2>4, <3>1
  <2> QED BY <2>1, <2>3, <2>4
<1>6. CASE Redispatch(w)
  <2> DEFINE n == Min(work[w].todo)
             rest == work[w].todo \ {n}
  <2>1. /\ work[w].pc = "pending" /\ work[w].todo # {}
        /\ \/ /\ ledger[n].raw = "string" /\ ledger' = [ledger EXCEPT ![n].status = "bad"]
              /\ work' = [work EXCEPT ![w].todo = rest] /\ UNCHANGED <<mirror, beyond>>
           \/ /\ ledger[n].raw # "string"
              /\ Process(w, n, FALSE, ledger, rest, "pending")
    BY <1>6 DEF Redispatch
  <2>2. n \in 1 .. last /\ rest \in SUBSET (1 .. last)
    <3>1. work[w].todo \subseteq 1 .. last /\ work[w].todo \in SUBSET Nat
      BY <1>1 DEF Fits
    <3>2. n \in work[w].todo
      BY <2>1, <3>1, LeastOf
    <3> QED BY <3>1, <3>2
  <2> HIDE DEF n, rest
  <2>3. PICK old \in Row : old = ledger[n]
    BY <1>1, <2>2
  <2>4. ASSUME NEW s \in {"bad", "skipped", "dispatching"}, ledger' = [ledger EXCEPT ![n].status = s]
        PROVE  /\ ledger' \in [Messages -> Row]
               /\ \A m \in Messages : ledger'[m].status # "none" => m <= last
               /\ RowsKept(ledger, ledger')
               /\ ledger'[n].status = s /\ ledger'[n].raw = old.raw
    <3>1. PICK row : row = [old EXCEPT !.status = s]
      OBVIOUS
    <3>2. row \in Row /\ row.status = s /\ row.raw = old.raw /\ s # "none" /\ s # "ok"
      BY <3>1 DEF Row, Statuses
    <3>3. ledger' = [ledger EXCEPT ![n] = row]
      BY <2>3, <2>4, <3>1
    <3>4. /\ ledger[n].status # "none" => row.status # "none" /\ row.raw = ledger[n].raw
          /\ row.status = "ok" => ledger[n].status = "ok"
      BY <2>3, <3>2
    <3> QED BY <1>1, <2>2, <3>2, <3>3, <3>4, RowWritten
  <2>5. CASE /\ ledger[n].raw = "string" /\ ledger' = [ledger EXCEPT ![n].status = "bad"]
             /\ work' = [work EXCEPT ![w].todo = rest] /\ UNCHANGED <<mirror, beyond>>
    <3>1. PICK t : t = [work[w] EXCEPT !.todo = rest]
      OBVIOUS
    <3>2. t \in Job /\ t.pc = "pending" /\ t.todo = rest
      <4>1. rest \in SUBSET Nat
        BY <2>2
      <4> QED BY <1>1, <2>1, <3>1, <4>1 DEF Job
    <3>3. Fits(t, last) /\ Starts(t)
      BY <2>2, <3>2 DEF Fits, Starts, AtWork
    <3>4. work' = [work EXCEPT ![w] = t]
      BY <2>5, <3>1
    <3> QED BY <2>4, <2>5, <3>3, <3>4 DEF MirrorGrows
  <2>6. CASE ledger[n].raw # "string" /\ Process(w, n, FALSE, ledger, rest, "pending")
    <3>1. "pending" \in Phases /\ FALSE \in BOOLEAN
      BY DEF Phases
    <3>6. Leaves(w, n, FALSE, ledger)
      BY <2>2, <2>6, <3>1, ProcessTakesUp
    <3>2. PICK t : /\ work' = [work EXCEPT ![w] = t] /\ Fits(t, last)
                   /\ AtWork(t) => /\ t.n = n /\ t.recovered = FALSE
                                   /\ t.pc = "rule" /\ t.rule = 1 /\ t.action = 0 /\ t.failed = FALSE
      BY <3>6 DEF Leaves
    <3>3. PICK s \in {"skipped", "dispatching"} : ledger' = [ledger EXCEPT ![n].status = s]
      BY <3>6 DEF Leaves
    <3>4. MirrorGrows
      BY <3>6 DEF Leaves
    <3>5. Starts(t)
      BY <2>3, <2>4, <2>6, <3>2, <3>3 DEF Starts
    <3> QED BY <2>4, <3>2, <3>3, <3>4, <3>5
  <2> QED BY <2>1, <2>5, <2>6
<1> QED BY <1>4, <1>5, <1>6

-----------------------------------------------------------------------------
(* The outbound rows.                                                      *)

Claim == {"none", "sending", "sent", "failed"}

\* Everything else of what was claimed, or shown, stays.
Only(n, k, was, is, value) ==
  \A m \in Messages, l \in Actions :
    is[m][l] = IF m = n /\ l = k THEN value ELSE was[m][l]

Marks(n, k, value) == claims' = [claims EXCEPT ![n][k] = value]

LEMMA ClaimMarked ==
  ASSUME SendsTyped, NEW n \in Messages, NEW k \in Actions, NEW value \in Claim, Marks(n, k, value)
  PROVE  claims' \in [Messages -> [Actions -> Claim]] /\ Only(n, k, claims, claims', value)
BY DEF SendsTyped, Only, Claim, Marks

LEMMA ShownMarked ==
  ASSUME SendsTyped, NEW n \in Messages, NEW k \in Actions,
         shown' = [shown EXCEPT ![n][k] = 1]
  PROVE  shown' \in [Messages -> [Actions -> {0, 1}]] /\ Only(n, k, shown, shown', 1)
BY DEF SendsTyped, Only

-----------------------------------------------------------------------------
(* A dispatch advances: what it has passed without failing is no action it *)
(* had to take, or one that was sent.                                      *)

Passed(k, j) == k[1] < j.rule \/ (k[1] = j.rule /\ k[2] < j.action)

Needs(n, k, recovered) ==
  /\ Rules[k[1]].max = 0 /\ RuleMatches(Rules[k[1]], EventOf(n, recovered), Admins)
  /\ Rules[k[1]].actions[k[2]].type # "quick_operation"
  /\ Rules[k[1]].actions[k[2]].type = "forward" =>
       Destinations(Rules[k[1]].actions[k[2]], EventOf(n, recovered), Admins) # {}

AdvancesTo(w, t) ==
  LET j == work[w]
  IN  /\ Fits(t, last) /\ AtWork(t)
      /\ SameDispatch(j, t) /\ (j.failed => t.failed)
      /\ \A k \in Actions :
           Passed(k, t) /\ ~t.failed =>
             Passed(k, j) \/ ~Needs(j.n, k, j.recovered) \/ claims'[j.n][k] = "sent"

Advances(w, t) == work' = [work EXCEPT ![w] = t] /\ AdvancesTo(w, t)

LEMMA AtWorkIsTyped ==
  ASSUME Typed, NEW w \in Workers, AtWork(work[w])
  PROVE  /\ WorkTyped /\ last \in Nat /\ last \in 0 .. Len(Body)
         /\ work \in [Workers -> Job] /\ work[w] \in Job /\ Fits(work[w], last)
         /\ work[w].n \in 1 .. last /\ work[w].n \in Messages
         /\ work[w].rule \in Nat /\ work[w].action \in Nat
         /\ work[w].failed \in BOOLEAN /\ work[w].recovered \in BOOLEAN
         /\ work[w].rule \in 1 .. (Len(Rules) + 1)
<1>1. /\ WorkTyped /\ last \in 0 .. Len(Body) /\ last \in Nat
      /\ \A n \in 1 .. last : n \in Messages
  BY BodyShape DEF Typed
<1>2. work \in [Workers -> Job] /\ work[w] \in Job /\ Fits(work[w], last)
  BY <1>1 DEF WorkTyped
<1> QED BY <1>1, <1>2 DEF Fits, Job

\* Leaving the action it is at, passed only that one.
LEMMA PassedByAction ==
  ASSUME Typed, NEW w \in Workers, work[w].pc \in {"act", "send"}, NEW failed \in BOOLEAN,
         LET j == work[w]
             k == <<j.rule, j.action>>
         IN  failed \/ ~Needs(j.n, k, j.recovered) \/ claims'[j.n][k] = "sent"
  PROVE  AdvancesTo(w, NextAction(w, failed))
<1> DEFINE j == work[w]
           here == <<j.rule, j.action>>
<1>1. PICK t : t = NextAction(w, failed)
  OBVIOUS
<1>2. /\ AtWork(j) /\ WorkTyped /\ last \in Nat /\ Fits(j, last) /\ j.failed \in BOOLEAN
      /\ j.rule \in Nat /\ j.action \in Nat
  <2>1. AtWork(j)
    BY DEF AtWork
  <2> QED BY <2>1, AtWorkIsTyped
<1>3. /\ Fits(t, last) /\ SameDispatch(j, t) /\ t.failed = (j.failed \/ failed)
      /\ \/ t.pc = "act" /\ t.rule = j.rule /\ t.action = j.action + 1
         \/ /\ t.pc = "rule" /\ t.rule = j.rule + 1 /\ t.action = 0
            /\ j.action = Len(Rules[j.rule].actions)
  BY <1>1, <1>2, ActionIsLeft
<1>4. AtWork(t) /\ (j.failed => t.failed)
  BY <1>3 DEF AtWork
<1>5. failed \/ ~Needs(j.n, here, j.recovered) \/ claims'[j.n][here] = "sent"
  OBVIOUS
<1>6. j.rule \in DOMAIN Rules
  BY <1>2 DEF Fits
<1> HIDE DEF j
<1>7. ASSUME NEW k \in Actions, Passed(k, t), ~t.failed, ~Passed(k, j)
      PROVE  ~Needs(j.n, k, j.recovered) \/ claims'[j.n][k] = "sent"
  <2>1. /\ k[1] \in DOMAIN Rules /\ k[2] \in DOMAIN Rules[k[1]].actions /\ k = <<k[1], k[2]>>
        /\ k[1] \in Nat /\ k[2] \in Nat
        /\ k[1] = j.rule => k[2] <= Len(Rules[j.rule].actions)
    BY <1>6, ActionsShape, RulesShape
  <2>2. k[1] = j.rule /\ k[2] = j.action
    BY <1>2, <1>3, <1>7, <2>1 DEF Passed
  <2>3. k = here
    BY <2>1, <2>2
  <2>4. ~failed
    BY <1>3, <1>7
  <2> QED BY <1>5, <2>3, <2>4
<1> QED BY <1>1, <1>3, <1>4, <1>7 DEF AdvancesTo, j

LEMMA RuleAdvances ==
  ASSUME Typed, NEW w \in Workers, Rule(w)
  PROVE  \E t : Advances(w, t) /\ t.pc \in {"act", "rule"}
<1> DEFINE j == work[w]
           fires == RuleMatches(Rules[j.rule], EventOf(j.n, j.recovered), Admins) /\ Allowed(j.rule)
<1>1. /\ j.pc = "rule" /\ j.rule \in DOMAIN Rules
      /\ work' = [work EXCEPT ![w] = IF fires THEN [j EXCEPT !.pc = "act", !.action = 1] ELSE NextRule(w)]
  BY DEF Rule
<1>2. /\ AtWork(j) /\ WorkTyped /\ last \in Nat /\ Fits(j, last) /\ j.failed \in BOOLEAN /\ j \in Job
      /\ j.rule \in Nat /\ j.action \in Nat /\ j.n \in 1 .. last
  <2>1. AtWork(j)
    BY <1>1 DEF AtWork
  <2> QED BY <2>1, AtWorkIsTyped
<1>3. CASE fires
  <2>1. PICK t : t = [j EXCEPT !.pc = "act", !.action = 1]
    OBVIOUS
  <2>2. work' = [work EXCEPT ![w] = t]
    BY <1>1, <1>3, <2>1
  <2> HIDE DEF j, fires
  <2>3. 1 \in DOMAIN Rules[j.rule].actions
    BY <1>1, RulesShape
  <2>4. /\ t \in Job /\ t.pc = "act" /\ t.rule = j.rule /\ t.action = 1 /\ t.n = j.n
        /\ t.recovered = j.recovered /\ t.failed = j.failed /\ t.todo = j.todo
    BY <1>2, <2>1 DEF Job, PCs
  <2>5. Fits(t, last) /\ AtWork(t)
    BY <1>1, <1>2, <2>3, <2>4 DEF Fits, AtWork
  <2>6. ASSUME NEW k \in Actions, Passed(k, t) PROVE Passed(k, j)
    <3>1. k[2] \in Nat \ {0} /\ k[1] \in Nat
      BY ActionsShape, RulesShape
    <3> QED BY <1>2, <2>4, <2>6, <3>1 DEF Passed
  <2> QED BY <2>2, <2>4, <2>5, <2>6 DEF Advances, AdvancesTo, SameDispatch, j
<1>4. CASE ~fires
  <2>1. PICK t : t = NextRule(w)
    OBVIOUS
  <2>2. work' = [work EXCEPT ![w] = t]
    BY <1>1, <1>4, <2>1
  <2>3. /\ Fits(t, last) /\ SameDispatch(j, t) /\ t.pc = "rule" /\ t.rule = j.rule + 1
        /\ t.action = 0 /\ t.failed = j.failed /\ AtWork(t)
    BY <1>1, <1>2, <2>1, RuleIsLeft DEF AtWork
  <2>4. ASSUME NEW k \in Actions, Passed(k, t), ~Passed(k, j)
        PROVE  ~Needs(j.n, k, j.recovered)
    <3>1. k[1] \in Nat /\ k[2] \in Nat
      BY ActionsShape, RulesShape
    <3>2. k[1] = j.rule
      <4> HIDE DEF j
      <4> QED BY <1>2, <2>3, <2>4, <3>1 DEF Passed
    <3> QED BY <1>4, <3>2 DEF Needs, Allowed
  <2> QED BY <2>2, <2>3, <2>4 DEF Advances, AdvancesTo
<1> QED BY <1>3, <1>4

LEMMA QuickAdvances ==
  ASSUME Typed, NEW w \in Workers, Quick(w)
  PROVE  \E t : Advances(w, t) /\ t.pc \in {"act", "rule"}
<1> DEFINE j == work[w]
           planned == QuickOperation(EventOf(j.n, j.recovered), ActionAt(w))
<1>1. /\ j.pc = "act" /\ ActionAt(w).type = "quick_operation"
      /\ work' = [work EXCEPT ![w] = [NextAction(w, FALSE) EXCEPT !.quick = IF @ = {} THEN planned ELSE @]]
  BY DEF Quick
<1>2. planned \in SUBSET QuickFields
  BY DEF QuickOperation, QuickFields
<1> HIDE DEF planned
<1>3. PICK s : s = NextAction(w, FALSE)
  OBVIOUS
<1>4. ~Needs(j.n, <<j.rule, j.action>>, j.recovered)
  BY <1>1 DEF Needs, ActionAt
<1>5. AdvancesTo(w, s)
  BY <1>1, <1>3, <1>4, PassedByAction
<1>6. s \in Job /\ s.pc \in {"act", "rule"}
  <2>1. AtWork(j)
    BY <1>1 DEF AtWork
  <2>2. WorkTyped /\ last \in Nat
    BY <2>1, AtWorkIsTyped
  <2> QED BY <1>1, <1>3, <1>5, <2>2, ActionIsLeft DEF AdvancesTo, Fits
<1>7. PICK q \in SUBSET QuickFields : q = IF s.quick = {} THEN planned ELSE s.quick
  BY <1>2, <1>6 DEF Job
<1>8. PICK t : t = [s EXCEPT !.quick = q]
  OBVIOUS
<1>9. work' = [work EXCEPT ![w] = t]
  BY <1>1, <1>3, <1>7, <1>8
<1>10. /\ t \in Job /\ t.pc = s.pc /\ t.rule = s.rule /\ t.action = s.action /\ t.n = s.n
       /\ t.recovered = s.recovered /\ t.failed = s.failed /\ t.todo = s.todo
  BY <1>6, <1>8 DEF Job
<1>11. AdvancesTo(w, t)
  BY <1>5, <1>10 DEF AdvancesTo, Fits, AtWork, SameDispatch, Passed
<1> QED BY <1>6, <1>9, <1>10, <1>11 DEF Advances

\* The outbound row a worker is at.
Here(w) == <<work[w].rule, work[w].action>>

LEMMA HereIsAnAction ==
  ASSUME Typed, NEW w \in Workers, work[w].pc \in {"act", "send"}
  PROVE  Here(w) \in Actions /\ work[w].n \in Messages
<1>1. AtWork(work[w])
  BY DEF AtWork
<1>2. Fits(work[w], last) /\ work[w].n \in Messages
  BY <1>1, AtWorkIsTyped
<1> QED BY <1>2, ActionOf DEF Fits, Here

\* A row is claimed and its sender is at it, or the worker goes on.
LEMMA BeginAdvances ==
  ASSUME Typed, NEW w \in Workers, Begin(w)
  PROVE  /\ work[w].pc = "act"
         /\ \E t :
              /\ Advances(w, t)
              /\ \/ /\ UNCHANGED claims /\ t.pc \in {"act", "rule"}
                 \/ /\ claims[work[w].n][Here(w)] \in {"none", "failed"}
                    /\ claims' = [claims EXCEPT ![work[w].n][Here(w)] = "sending"]
                    /\ t.pc = "send" /\ t.rule = work[w].rule /\ t.action = work[w].action
<1> DEFINE j == work[w]
           to == Destinations(ActionAt(w), EventOf(j.n, j.recovered), Admins)
           here == <<j.rule, j.action>>
           fails == IF to = {} THEN ActionAt(w).type # "forward" ELSE claims[j.n][here] = "sending"
<1>1. /\ j.pc = "act"
      /\ \/ /\ claims[j.n][here] \in {"none", "failed"}
            /\ claims' = [claims EXCEPT ![j.n][here] = "sending"]
            /\ work' = [work EXCEPT ![w].pc = "send"]
         \/ /\ to = {} \/ claims[j.n][here] \in {"sending", "sent"}
            /\ work' = [work EXCEPT ![w] = NextAction(w, fails)]
            /\ UNCHANGED claims
  BY DEF Begin
<1>2. /\ AtWork(j) /\ WorkTyped /\ last \in Nat /\ Fits(j, last) /\ j.failed \in BOOLEAN /\ j \in Job
      /\ j.rule \in Nat /\ j.action \in Nat /\ j.n \in 1 .. last
  <2>1. AtWork(j)
    BY <1>1 DEF AtWork
  <2> QED BY <2>1, AtWorkIsTyped
<1> HIDE DEF to, fails
<1>3. CASE /\ claims[j.n][here] \in {"none", "failed"}
           /\ claims' = [claims EXCEPT ![j.n][here] = "sending"]
           /\ work' = [work EXCEPT ![w].pc = "send"]
  <2>1. PICK t : t = [j EXCEPT !.pc = "send"]
    OBVIOUS
  <2>2. work' = [work EXCEPT ![w] = t]
    BY <1>3, <2>1
  <2> HIDE DEF j
  <2>3. /\ t \in Job /\ t.pc = "send" /\ t.rule = j.rule /\ t.action = j.action /\ t.n = j.n
        /\ t.recovered = j.recovered /\ t.failed = j.failed /\ t.todo = j.todo
    BY <1>2, <2>1 DEF Job, PCs
  <2>4. Fits(t, last) /\ AtWork(t)
    BY <1>1, <1>2, <2>3 DEF Fits, AtWork
  <2>5. AdvancesTo(w, t)
    BY <2>3, <2>4 DEF AdvancesTo, SameDispatch, Passed, j
  <2> QED BY <1>1, <1>3, <2>2, <2>3, <2>5 DEF Advances, Here, j
<1>4. CASE /\ to = {} \/ claims[j.n][here] \in {"sending", "sent"}
           /\ work' = [work EXCEPT ![w] = NextAction(w, fails)]
           /\ UNCHANGED claims
  <2>1. PICK failed \in BOOLEAN : failed = fails
    BY DEF fails
  <2>2. failed \/ ~Needs(j.n, here, j.recovered) \/ claims'[j.n][here] = "sent"
    <3>1. CASE to = {}
      <4>1. Rules[here[1]].actions[here[2]] = ActionAt(w)
        BY DEF ActionAt
      <4>2. ActionAt(w).type = "forward" => ~Needs(j.n, here, j.recovered)
        BY <3>1, <4>1 DEF Needs, to
      <4> QED BY <2>1, <3>1, <4>2 DEF fails
    <3>2. CASE to # {}
      BY <1>4, <2>1, <3>2 DEF fails
    <3> QED BY <3>1, <3>2
  <2>3. PICK t : t = NextAction(w, failed)
    OBVIOUS
  <2>4. AdvancesTo(w, t)
    BY <1>1, <2>2, <2>3, PassedByAction
  <2>5. t.pc \in {"act", "rule"}
    BY <1>1, <1>2, <2>3, ActionIsLeft
  <2>6. work' = [work EXCEPT ![w] = t]
    BY <1>4, <2>1, <2>3
  <2> QED BY <1>1, <1>4, <2>4, <2>5, <2>6 DEF Advances
<1> QED BY <1>1, <1>3, <1>4

LEMMA EndAdvances ==
  ASSUME Typed, NEW w \in Workers, End(w)
  PROVE  /\ work[w].pc = "send"
         /\ \E t : Advances(w, t) /\ t.pc \in {"act", "rule"}
         /\ \/ /\ claims' = [claims EXCEPT ![work[w].n][Here(w)] = "sent"]
               /\ shown' = [shown EXCEPT ![work[w].n][Here(w)] = 1]
            \/ /\ claims' = [claims EXCEPT ![work[w].n][Here(w)] = "failed"]
               /\ UNCHANGED shown
<1> DEFINE j == work[w]
           here == <<j.rule, j.action>>
<1>1. /\ j.pc = "send"
      /\ \/ /\ claims' = [claims EXCEPT ![j.n][here] = "sent"]
            /\ shown' = [shown EXCEPT ![j.n][here] = 1]
            /\ work' = [work EXCEPT ![w] = NextAction(w, FALSE)]
         \/ /\ claims' = [claims EXCEPT ![j.n][here] = "failed"]
            /\ work' = [work EXCEPT ![w] = NextAction(w, TRUE)]
            /\ UNCHANGED shown
  BY DEF End
<1>2. AtWork(j)
  BY <1>1 DEF AtWork
<1>3. WorkTyped /\ last \in Nat /\ SendsTyped
  BY <1>2, AtWorkIsTyped DEF Typed
<1>4. here \in Actions /\ j.n \in Messages
  BY <1>1, HereIsAnAction DEF Here
<1>5. ASSUME NEW failed \in BOOLEAN, work' = [work EXCEPT ![w] = NextAction(w, failed)],
             failed \/ claims'[j.n][here] = "sent"
      PROVE  \E t : Advances(w, t) /\ t.pc \in {"act", "rule"}
  <2>1. PICK t : t = NextAction(w, failed)
    OBVIOUS
  <2>2. AdvancesTo(w, t)
    BY <1>1, <1>5, <2>1, PassedByAction
  <2>3. t.pc \in {"act", "rule"}
    BY <1>1, <1>3, <2>1, ActionIsLeft
  <2> QED BY <1>5, <2>1, <2>2, <2>3 DEF Advances
<1>6. CASE /\ claims' = [claims EXCEPT ![j.n][here] = "sent"]
           /\ shown' = [shown EXCEPT ![j.n][here] = 1]
           /\ work' = [work EXCEPT ![w] = NextAction(w, FALSE)]
  <2>1. claims'[j.n][here] = "sent"
    BY <1>3, <1>4, <1>6 DEF SendsTyped
  <2> QED BY <1>1, <1>5, <1>6, <2>1 DEF Here
<1>7. CASE /\ claims' = [claims EXCEPT ![j.n][here] = "failed"]
           /\ work' = [work EXCEPT ![w] = NextAction(w, TRUE)]
           /\ UNCHANGED shown
  BY <1>1, <1>5, <1>7 DEF Here
<1> QED BY <1>1, <1>6, <1>7

LEMMA VerdictIsPassed ==
  ASSUME Typed, NEW w \in Workers, Verdict(w)
  PROVE  /\ AtWork(work[w]) /\ \A k \in Actions : Passed(k, work[w])
         /\ \E t : work' = [work EXCEPT ![w] = t] /\ Fits(t, last) /\ ~AtWork(t)
<1> DEFINE j == work[w]
           pc == IF j.phase = "live" THEN "idle" ELSE j.phase
           t == [Idle EXCEPT !.pc = pc, !.todo = j.todo, !.phase = j.phase]
<1>1. j.pc = "rule" /\ j.rule \notin DOMAIN Rules /\ work' = [work EXCEPT ![w] = t]
  BY DEF Verdict
<1>2. AtWork(j)
  BY <1>1 DEF AtWork
<1>3. j \in Job /\ Fits(j, last) /\ last \in Nat /\ j.rule \in 1 .. (Len(Rules) + 1)
  BY <1>2, AtWorkIsTyped
<1>4. j.phase \in Phases /\ j.todo \in SUBSET (1 .. last)
  BY <1>3 DEF Fits, Job
<1>5. pc \in {"idle", "sync", "list", "replay", "pending"}
  BY <1>4 DEF Phases
<1> HIDE DEF pc
<1>6. Fits(t, last) /\ ~AtWork(t)
  <2>1. PICK phase \in Phases : phase = j.phase
    BY <1>4
  <2>2. PICK todo \in SUBSET (1 .. last) : todo = j.todo
    BY <1>4
  <2>3. RestsAt(Resting(pc, todo, phase), last)
    BY <1>3, <1>5, RestingFits
  <2> QED BY <2>1, <2>2, <2>3 DEF Resting, RestsAt
<1>7. ASSUME NEW k \in Actions PROVE Passed(k, j)
  BY <1>1, <1>3, ActionsShape, RulesShape DEF Passed
<1> QED BY <1>1, <1>2, <1>6, <1>7

-----------------------------------------------------------------------------
(* The history sync and the passes.                                        *)

LEMMA PageShape ==
  ASSUME NEW top \in Nat \ {0}
  PROVE  LET page == PageFrom(top)
         IN  /\ page \subseteq 1 .. top /\ page # {}
             /\ Min(page) \in 1 .. top /\ Min(page) .. top \subseteq page
             /\ Min(page) > 1 => Min(page) = top - (Count - 1)
<1> DEFINE page == PageFrom(top)
<1>1. Count \in Nat \ {0}
  BY InboundAssumption
<1>2. page \in SUBSET Nat /\ top \in page /\ page \subseteq 1 .. top
  BY <1>1 DEF PageFrom
<1>3. Min(page) \in page /\ \A x \in page : Min(page) <= x
  BY <1>2, LeastOf
<1>4. PICK o : o = Min(page)
  OBVIOUS
<1>5. o \in 1 .. top /\ o > top - Count /\ \A x \in page : o <= x
  BY <1>3, <1>4 DEF PageFrom
<1>6. o .. top \subseteq page
  BY <1>1, <1>5 DEF PageFrom
<1>7. ASSUME o > 1, o # top - (Count - 1) PROVE FALSE
  <2>1. o - 1 \in page
    BY <1>1, <1>5, <1>7 DEF PageFrom
  <2> QED BY <1>5, <1>7, <2>1
<1> HIDE DEF page
<1> QED BY <1>2, <1>4, <1>5, <1>6, <1>7 DEF page

LEMMA NoPage == PageFrom(0) = {}
BY DEF PageFrom

\* Nobody starts or goes on with a dispatch.
Rests == \A v \in Workers : work'[v] = work[v] \/ ~AtWork(work'[v])

LEMMA WorkSet ==
  ASSUME WorkTyped, NEW w \in Workers, NEW t, Fits(t, last), work' = [work EXCEPT ![w] = t], last' = last
  PROVE  /\ WorkTyped'
         /\ \A v \in Workers : work'[v] = IF v = w THEN t ELSE work[v]
         /\ ~AtWork(t) => Rests
<1>1. t \in Job
  BY DEF Fits
<1>2. work' \in [Workers -> Job] /\ \A v \in Workers : work'[v] = IF v = w THEN t ELSE work[v]
  BY <1>1 DEF WorkTyped
<1>3. \A v \in Workers : Fits(work'[v], last')
  BY <1>2 DEF WorkTyped
<1> QED BY <1>2, <1>3 DEF WorkTyped, Rests

LEMMA WorkReleased ==
  ASSUME WorkTyped, last \in Nat, NEW failed \in BOOLEAN, work' = Released(failed), last' = last
  PROVE  WorkTyped' /\ Rests
<1> DEFINE t == IF failed THEN Idle ELSE [Idle EXCEPT !.pc = "list", !.phase = "replay"]
<1>1. Fits(t, last) /\ ~AtWork(t)
  BY IdleFits, PassFits
<1> HIDE DEF t
<1>2. CASE sync.by \in Passes
  <2>1. work' = [work EXCEPT ![sync.by] = t] /\ sync.by \in Workers
    BY <1>2 DEF Released, t, Workers
  <2> QED BY <1>1, <2>1, WorkSet
<1>3. CASE sync.by \notin Passes
  <2>1. work' = work
    BY <1>3 DEF Released
  <2> QED BY <2>1 DEF WorkTyped, Rests
<1> QED BY <1>2, <1>3

LEMMA Finishes ==
  ASSUME last \in Nat, cursor \in 0 .. last, NEW rows \in SUBSET (1 .. last), NEW lost, Finish(rows, lost)
  PROVE  /\ cursor' \in 0 .. last /\ sync' = IdleSync /\ work' = Released(FALSE)
         /\ beyond' = beyond \cup lost
         /\ cursor' = cursor \/ (cursor' \in rows /\ cursor' > cursor)
<1> DEFINE newest == Max(rows \cup {0})
<1>1. newest \in rows \cup {0}
  <2>1. rows \cup {0} \in SUBSET (0 .. last) /\ rows \cup {0} # {}
    OBVIOUS
  <2> QED BY <2>1, GreatestOf
<1>2. /\ cursor' = IF newest > cursor THEN newest ELSE cursor
      /\ beyond' = beyond \cup lost /\ sync' = IdleSync /\ work' = Released(FALSE)
  BY DEF Finish
<1> HIDE DEF newest
<1> QED BY <1>1, <1>2

LEMMA IdleSyncIsTyped == IdleSync \in Run /\ IdleSync.pc = "idle"
BY DEF IdleSync, Run, Workers

LEMMA SyncStarts ==
  ASSUME cursor \in Nat, NEW by \in Workers, StartSync(by)
  PROVE  sync' \in Run /\ sync'.pc = "first" /\ sync'.from = cursor /\ sync'.page = 0
<1>1. sync' = [IdleSync EXCEPT !.pc = "first", !.from = cursor, !.by = by]
  BY DEF StartSync
<1>2. sync' = [pc |-> "first", from |-> cursor, top |-> 0, anchor |-> 0, page |-> 0, by |-> by]
  BY <1>1 DEF IdleSync
<1> QED BY <1>2 DEF Run

LEMMA PassesRest ==
  ASSUME Typed, NEW w \in Workers, PassBegins(w) \/ List(w) \/ Pending(w) \/ PassEnds(w)
  PROVE  WorkTyped' /\ Rests /\ sync' \in Run /\ PageTyped(sync')
<1>1. /\ WorkTyped /\ last \in Nat /\ last \in 0 .. Len(Body) /\ cursor \in Nat /\ sync \in Run
      /\ PageTyped(sync) /\ work \in [Workers -> Job] /\ work[w] \in Job
  BY BodyShape DEF Typed, WorkTyped
<1>2. ASSUME NEW t, work' = [work EXCEPT ![w] = t], Fits(t, last), ~AtWork(t), last' = last,
             sync' \in Run /\ PageTyped(sync')
      PROVE  WorkTyped' /\ Rests /\ sync' \in Run /\ PageTyped(sync')
  BY <1>1, <1>2, WorkSet
<1>3. CASE PassBegins(w)
  <2>1. PICK pc \in {"sync", "list"} : work' = [work EXCEPT ![w] = [Idle EXCEPT !.pc = pc, !.phase = "replay"]]
    BY <1>3 DEF PassBegins
  <2>2. PICK t : t = [Idle EXCEPT !.pc = pc, !.phase = "replay"]
    OBVIOUS
  <2>3. Fits(t, last) /\ ~AtWork(t)
    BY <1>1, <2>2, PassFits
  <2>4. last' = last
    BY <1>3 DEF PassBegins, world
  <2>5. sync' \in Run /\ PageTyped(sync')
    <3>1. sync' = sync \/ StartSync(w)
      BY <1>3 DEF PassBegins
    <3> QED BY <1>1, <3>1, SyncStarts DEF PageTyped
  <2> QED BY <1>2, <2>1, <2>2, <2>3, <2>4, <2>5
<1>4. CASE List(w)
  <2>1. /\ work[w].pc = "list" /\ last' = last /\ sync' = sync
        /\ work' = [work EXCEPT ![w] = [work[w] EXCEPT !.pc = "replay", !.todo = Listed]]
    BY <1>4 DEF List, world
  <2>2. Listed \subseteq 1 .. last
    BY DEF Listed, Typed
  <2>3. PICK todo \in SUBSET Nat : todo = Listed
    BY <2>2
  <2>4. PICK t : t = [work[w] EXCEPT !.pc = "replay", !.todo = todo]
    OBVIOUS
  <2>5. t \in Job /\ t.pc = "replay" /\ t.todo = todo
    BY <1>1, <2>4 DEF Job, PCs
  <2>6. Fits(t, last) /\ ~AtWork(t)
    BY <2>2, <2>3, <2>5 DEF Fits, AtWork
  <2> QED BY <1>1, <1>2, <2>1, <2>3, <2>4, <2>6
<1>5. CASE Pending(w)
  <2>1. /\ last' = last /\ sync' = sync
        /\ work' = [work EXCEPT ![w] = [Idle EXCEPT !.pc = "pending", !.phase = "pending",
                                                    !.todo = {n \in Messages : Died(n)}]]
    BY <1>5 DEF Pending, world
  <2>2. {n \in Messages : Died(n)} \subseteq 1 .. last
    <3>1. ASSUME NEW n \in Messages, Died(n) PROVE n \in 1 .. last
      <4>1. ledger[n].status # "none"
        BY <3>1 DEF Died
      <4>2. n <= last
        BY <4>1 DEF Typed, RowsTyped
      <4> QED BY <1>1, <4>2, BodyShape
    <3> QED BY <3>1
  <2>3. PICK todo \in SUBSET (1 .. last) : todo = {n \in Messages : Died(n)}
    BY <2>2
  <2>4. PICK t : t = [Idle EXCEPT !.pc = "pending", !.phase = "pending", !.todo = todo]
    OBVIOUS
  <2>5. Fits(t, last) /\ ~AtWork(t)
    <3>1. todo \in SUBSET Nat
      OBVIOUS
    <3> QED BY <2>4, <3>1 DEF Fits, Idle, Job, AtWork, PCs, Phases
  <2> QED BY <1>1, <1>2, <2>1, <2>3, <2>4, <2>5
<1>6. CASE PassEnds(w)
  <2>1. work' = [work EXCEPT ![w] = Idle] /\ last' = last /\ sync' = sync
    BY <1>6 DEF PassEnds, world
  <2> QED BY <1>1, <1>2, <2>1, IdleFits
<1> QED BY <1>3, <1>4, <1>5, <1>6

LEMMA InitIsTyped == Init => Typed
<1> SUFFICES ASSUME Init PROVE Typed
  OBVIOUS
<1>1. scene \in Scenes /\ scene.length \in Nat /\ last = 0 /\ mirror = {} /\ cursor = 0
  BY BodyShape DEF Init
<1>2. RowsTyped
  <2>1. NoRow \in Row /\ NoRow.status = "none"
    BY DEF NoRow, Row, Statuses
  <2>2. ledger = [n \in Messages |-> NoRow]
    BY DEF Init
  <2> QED BY <2>1, <2>2 DEF RowsTyped
<1>3. sync \in Run /\ PageTyped(sync)
  BY IdleSyncIsTyped DEF Init, PageTyped
<1>4. WorkTyped
  <2>1. work = [w \in Workers |-> Idle]
    BY DEF Init
  <2> QED BY <1>1, <2>1, IdleFits DEF WorkTyped
<1>5. SendsTyped
  BY DEF Init, SendsTyped
<1> QED BY <1>1, <1>2, <1>3, <1>4, <1>5 DEF Typed

LEMMA RunsAreTyped ==
  ASSUME Typed, SyncTimer \/ FirstPage \/ OlderPage \/ SyncFails
  PROVE  /\ sync' \in Run /\ PageTyped(sync') /\ WorkTyped' /\ Rests
         /\ mirror' \subseteq 1 .. last /\ cursor' \in 0 .. last
         /\ UNCHANGED <<scene, last, ledger, claims, shown>>
<1>1. /\ WorkTyped /\ last \in Nat /\ cursor \in 0 .. last /\ cursor \in Nat /\ sync \in Run
      /\ mirror \subseteq 1 .. last /\ PageTyped(sync)
  BY BodyShape DEF Typed
<1>2. work' = work /\ last' = last => WorkTyped' /\ Rests
  BY <1>1 DEF WorkTyped, Rests
<1>3. CASE SyncTimer
  <2>1. UNCHANGED <<scene, last, ledger, claims, shown, mirror, cursor, work>> /\ StartSync(Hook)
    BY <1>3 DEF SyncTimer, stores, sends, world
  <2>2. Hook \in Workers
    BY DEF Workers
  <2> QED BY <1>1, <1>2, <2>1, <2>2, SyncStarts DEF PageTyped
<1>4. CASE FirstPage
  <2> DEFINE page == PageFrom(last)
             oldest == Min(page)
  <2>1. /\ mirror' = mirror \cup page
        /\ UNCHANGED <<scene, last, ledger, claims, shown>>
        /\ \/ /\ page # {} /\ sync' = [sync EXCEPT !.pc = "page", !.top = last, !.anchor = oldest]
              /\ UNCHANGED <<cursor, work>>
           \/ \E lost : Finish(mirror', lost)
    BY <1>4 DEF FirstPage, sends, world
  <2>2. mirror' \in SUBSET (1 .. last)
    BY <1>1, <2>1, PageShape, NoPage
  <2>3. CASE /\ page # {} /\ sync' = [sync EXCEPT !.pc = "page", !.top = last, !.anchor = oldest]
             /\ UNCHANGED <<cursor, work>>
    <3>1. oldest \in Nat /\ oldest \in 1 .. last /\ last # 0
      BY <1>1, <2>3, PageShape, NoPage
    <3> HIDE DEF oldest
    <3>2. sync' \in Run /\ PageTyped(sync')
      <4>1. sync' \in Run /\ sync'.top = last /\ sync'.anchor = oldest
        BY <1>1, <2>3, <3>1 DEF Run
      <4>2. last \in 1 .. last
        BY <1>1, <3>1
      <4> QED BY <3>1, <4>1, <4>2 DEF PageTyped
    <3> QED BY <1>1, <1>2, <2>1, <2>2, <2>3, <3>2
  <2>4. CASE \E lost : Finish(mirror', lost)
    <3>1. PICK rows \in SUBSET (1 .. last) : rows = mirror'
      BY <2>2
    <3>2. PICK lost : Finish(rows, lost)
      BY <2>4, <3>1
    <3>3. cursor' \in 0 .. last /\ sync' = IdleSync /\ work' = Released(FALSE)
      BY <1>1, <3>2, Finishes
    <3> QED BY <1>1, <2>1, <2>2, <3>3, WorkReleased, IdleSyncIsTyped DEF PageTyped
  <2> QED BY <2>1, <2>3, <2>4
<1>5. CASE OlderPage
  <2> DEFINE page == PageFrom(sync.anchor)
             oldest == Min(page)
  <2>1. /\ mirror' = mirror \cup page
        /\ UNCHANGED <<scene, last, ledger, claims, shown>>
        /\ \/ /\ sync' = [sync EXCEPT !.anchor = oldest, !.page = sync.page + 1]
              /\ UNCHANGED <<cursor, work>>
           \/ \E lost : Finish(mirror', lost)
    BY <1>5 DEF OlderPage, sends, world
  <2>2. sync.pc = "page" /\ sync.top \in 1 .. last /\ sync.anchor \in 1 .. sync.top
    BY <1>1, <1>5 DEF OlderPage, PageTyped
  <2>3. oldest \in 1 .. sync.anchor /\ page \subseteq 1 .. sync.anchor
    BY <1>1, <2>2, PageShape
  <2>4. mirror' \in SUBSET (1 .. last)
    BY <1>1, <2>1, <2>2, <2>3
  <2>5. CASE /\ sync' = [sync EXCEPT !.anchor = oldest, !.page = sync.page + 1]
             /\ UNCHANGED <<cursor, work>>
    <3> HIDE DEF oldest
    <3>1. oldest \in Nat /\ sync.page + 1 \in Nat
      BY <1>1, <2>2, <2>3 DEF Run
    <3>2. sync' \in Run /\ sync'.pc = "page" /\ sync'.top = sync.top /\ sync'.anchor = oldest
      BY <1>1, <2>2, <2>5, <3>1 DEF Run
    <3>3. PageTyped(sync')
      BY <1>1, <2>2, <2>3, <3>2 DEF PageTyped
    <3> QED BY <1>1, <1>2, <2>1, <2>4, <2>5, <3>2, <3>3
  <2>6. CASE \E lost : Finish(mirror', lost)
    <3>1. PICK rows \in SUBSET (1 .. last) : rows = mirror'
      BY <2>4
    <3>2. PICK lost : Finish(rows, lost)
      BY <2>6, <3>1
    <3>3. cursor' \in 0 .. last /\ sync' = IdleSync /\ work' = Released(FALSE)
      BY <1>1, <3>2, Finishes
    <3> QED BY <1>1, <2>1, <2>4, <3>3, WorkReleased, IdleSyncIsTyped DEF PageTyped
  <2> QED BY <2>1, <2>5, <2>6
<1>6. CASE SyncFails
  <2>1. /\ UNCHANGED <<scene, last, ledger, claims, shown, mirror, cursor>>
        /\ sync' = IdleSync /\ work' = Released(TRUE)
    BY <1>6 DEF SyncFails, stores, sends
  <2> QED BY <1>1, <2>1, WorkReleased, IdleSyncIsTyped DEF PageTyped
<1> QED BY <1>3, <1>4, <1>5, <1>6

LEMMA StepIsTyped ==
  ASSUME Typed, [Next]_vars
  PROVE  Typed'
<1>1. /\ scene \in Scenes /\ scene.length \in 1 .. Len(Body) /\ Len(Body) \in Nat /\ last \in 0 .. scene.length
      /\ last \in Nat
      /\ RowsTyped /\ mirror \subseteq 1 .. last /\ cursor \in 0 .. last
      /\ sync \in Run /\ PageTyped(sync) /\ WorkTyped /\ SendsTyped
  BY BodyShape DEF Typed
<1>2. UNCHANGED ledger /\ last' = last => RowsTyped'
  BY <1>1 DEF RowsTyped
<1>3. UNCHANGED sends => SendsTyped'
  BY <1>1 DEF SendsTyped, sends
<1>4. UNCHANGED <<sync, last>> => sync' \in Run /\ PageTyped(sync)'
  BY <1>1 DEF PageTyped
<1>5. UNCHANGED <<work, last>> => WorkTyped'
  BY <1>1 DEF WorkTyped
<1>6. PageTyped(sync') /\ last' = last => PageTyped(sync)'
  BY DEF PageTyped
<1>7. UNCHANGED <<scene, last, mirror, cursor>>
        => scene' \in Scenes /\ last' \in 0 .. scene'.length /\ mirror' \subseteq 1 .. last' /\ cursor' \in 0 .. last'
  BY <1>1
<1>8. CASE UNCHANGED vars
  BY <1>1, <1>2, <1>3, <1>4, <1>5, <1>7, <1>8 DEF vars, sends, Typed
<1>9. CASE Say
  <2>1. /\ last < scene.length /\ last' = last + 1
        /\ UNCHANGED <<scene, ledger, mirror, cursor, sync, work, sends>>
    BY <1>9 DEF Say, stores
  <2>2. 1 .. last \subseteq 1 .. last' /\ last \in 0 .. last' /\ last' \in 0 .. scene'.length
    BY <1>1, <2>1
  <2>3. RowsTyped'
    BY <1>1, <2>1, <2>2, BodyShape DEF RowsTyped
  <2>4. PageTyped(sync)'
    BY <1>1, <2>1, <2>2 DEF PageTyped
  <2>5. WorkTyped'
    <3>1. ASSUME NEW w \in Workers PROVE Fits(work[w], last')
      BY <1>1, <2>2 DEF WorkTyped, Fits
    <3> QED BY <1>1, <2>1, <3>1 DEF WorkTyped
  <2> QED BY <1>1, <1>3, <2>1, <2>2, <2>3, <2>4, <2>5 DEF Typed
<1>10. ASSUME NEW w \in Workers, (w = Hook /\ \E n \in Messages : Post(n)) \/ Replay(w) \/ Redispatch(w)
       PROVE  Typed'
  <2>1. UNCHANGED <<scene, last, cursor, sync, sends>>
    BY <1>10 DEF Post, Replay, Redispatch, world
  <2>2. RowsTyped'
    BY <1>10, <2>1, TakenUp DEF RowsTyped
  <2>3. WorkTyped'
    <3>1. PICK t : work' = [work EXCEPT ![w] = t] /\ Fits(t, last)
      BY <1>10, TakenUp
    <3> QED BY <1>1, <2>1, <3>1, WorkSet
  <2>4. mirror' \subseteq 1 .. last
    BY <1>1, <1>10, TakenUp DEF MirrorGrows
  <2> QED BY <1>1, <1>3, <1>4, <2>1, <2>2, <2>3, <2>4 DEF Typed
<1>11. ASSUME NEW w \in Workers, Rule(w) \/ Quick(w) PROVE Typed'
  <2>1. UNCHANGED <<scene, last, ledger, mirror, cursor, sync, sends>>
    BY <1>11 DEF Rule, Quick, stores, world
  <2>2. PICK t : work' = [work EXCEPT ![w] = t] /\ Fits(t, last)
    BY <1>11, RuleAdvances, QuickAdvances DEF Advances, AdvancesTo
  <2>3. WorkTyped'
    BY <1>1, <2>1, <2>2, WorkSet
  <2> QED BY <1>2, <1>3, <1>4, <1>7, <2>1, <2>3 DEF Typed
<1>12. ASSUME NEW w \in Workers, Begin(w) \/ End(w) PROVE Typed'
  <2>1. UNCHANGED <<scene, last, ledger, mirror, cursor, sync>>
    BY <1>12 DEF Begin, End, stores, world
  <2>2. PICK t : work' = [work EXCEPT ![w] = t] /\ Fits(t, last)
    BY <1>12, BeginAdvances, EndAdvances DEF Advances, AdvancesTo
  <2>3. WorkTyped'
    BY <1>1, <2>1, <2>2, WorkSet
  <2>4. Here(w) \in Actions /\ work[w].n \in Messages
    BY <1>12, BeginAdvances, EndAdvances, HereIsAnAction
  <2>5. SendsTyped'
    <3>1. \/ UNCHANGED claims
          \/ \E value \in Claim : Marks(work[w].n, Here(w), value)
      BY <1>12, BeginAdvances, EndAdvances DEF Claim, Marks
    <3>2. UNCHANGED shown \/ shown' = [shown EXCEPT ![work[w].n][Here(w)] = 1]
      BY <1>12, EndAdvances DEF Begin
    <3>3. claims' \in [Messages -> [Actions -> Claim]]
      BY <1>1, <2>4, <3>1, ClaimMarked DEF SendsTyped, Claim
    <3>4. shown' \in [Messages -> [Actions -> {0, 1}]]
      BY <1>1, <2>4, <3>2, ShownMarked DEF SendsTyped
    <3> QED BY <3>3, <3>4 DEF SendsTyped, Claim
  <2> QED BY <1>2, <1>4, <1>7, <2>1, <2>3, <2>5 DEF Typed
<1>13. ASSUME NEW w \in Workers, Verdict(w) PROVE Typed'
  <2>1. /\ UNCHANGED <<scene, last, mirror, cursor, sync, sends>>
        /\ \E s \in {"ok", "error"} : ledger' = [ledger EXCEPT ![work[w].n].status = s]
    BY <1>13 DEF Verdict, world
  <2>2. PICK t : work' = [work EXCEPT ![w] = t] /\ Fits(t, last)
    BY <1>13, VerdictIsPassed
  <2>3. WorkTyped'
    BY <1>1, <2>1, <2>2, WorkSet
  <2>4. work[w].n \in 1 .. last /\ work[w].n \in Messages
    BY <1>13, VerdictIsPassed, AtWorkIsTyped
  <2>5. RowsTyped'
    BY <1>1, <2>1, <2>4 DEF RowsTyped, Row, Statuses
  <2> QED BY <1>3, <1>4, <1>7, <2>1, <2>3, <2>5 DEF Typed
<1>14. CASE SyncTimer \/ FirstPage \/ OlderPage \/ SyncFails
  BY <1>1, <1>2, <1>3, <1>6, <1>14, RunsAreTyped DEF Typed, sends
<1>15. ASSUME NEW w \in Workers, PassBegins(w) \/ List(w) \/ Pending(w) \/ PassEnds(w) PROVE Typed'
  <2>1. UNCHANGED <<scene, last, ledger, mirror, cursor, sends>>
    BY <1>15 DEF PassBegins, List, Pending, PassEnds, stores, world
  <2>2. WorkTyped' /\ sync' \in Run /\ PageTyped(sync')
    BY <1>15, PassesRest
  <2> QED BY <1>2, <1>3, <1>6, <1>7, <2>1, <2>2 DEF Typed
<1>16. ASSUME NEW n \in Messages, Age(n) PROVE Typed'
  <2>1. /\ UNCHANGED <<scene, last, mirror, cursor, sync, work, sends>>
        /\ ledger' = [ledger EXCEPT ![n].stale = TRUE]
    BY <1>16 DEF Age, world
  <2>2. RowsTyped'
    BY <1>1, <2>1 DEF RowsTyped, Row
  <2> QED BY <1>3, <1>4, <1>5, <1>7, <2>1, <2>2 DEF Typed
<1>17. ASSUME NEW n \in Messages, NEW k \in Actions, Stale(n, k) PROVE Typed'
  <2>1. /\ UNCHANGED <<scene, last, ledger, mirror, cursor, sync, work, shown>>
        /\ \E value \in Claim : Marks(n, k, value)
    BY <1>17 DEF Stale, world, stores, Claim, Marks
  <2>2. SendsTyped'
    BY <1>1, <2>1, ClaimMarked DEF SendsTyped, Claim
  <2> QED BY <1>2, <1>4, <1>5, <1>7, <2>1, <2>2 DEF Typed
<1>18. CASE WindowSlides
  <2>1. UNCHANGED <<scene, last, ledger, mirror, cursor, sync, work, sends>>
    BY <1>18 DEF WindowSlides, stores, world
  <2> QED BY <1>2, <1>3, <1>4, <1>5, <1>7, <2>1 DEF Typed
<1>19. CASE Restart
  <2>1. /\ UNCHANGED <<scene, last, ledger, mirror, cursor, claims>>
        /\ sync' = IdleSync /\ work' = [w \in Workers |-> Idle]
        /\ \/ UNCHANGED shown
           \/ \E w \in Workers : work[w].pc = "send" /\ shown' = [shown EXCEPT ![work[w].n][Here(w)] = 1]
    BY <1>19 DEF Restart, stores, Here
  <2>2. WorkTyped'
    BY <1>1, <2>1, IdleFits DEF WorkTyped
  <2>3. SendsTyped'
    <3>1. CASE UNCHANGED shown
      BY <1>1, <2>1, <3>1 DEF SendsTyped
    <3>2. ASSUME NEW w \in Workers, work[w].pc = "send", shown' = [shown EXCEPT ![work[w].n][Here(w)] = 1]
          PROVE  SendsTyped'
      <4>1. Here(w) \in Actions /\ work[w].n \in Messages
        BY <3>2, HereIsAnAction
      <4> QED BY <1>1, <2>1, <3>2, <4>1, ShownMarked DEF SendsTyped
    <3> QED BY <2>1, <3>1, <3>2
  <2>4. sync' \in Run /\ PageTyped(sync)'
    BY <2>1, IdleSyncIsTyped DEF PageTyped
  <2> QED BY <1>2, <1>7, <2>1, <2>2, <2>3, <2>4 DEF Typed
<1>20. Hook \in Workers
  BY DEF Workers
<1> QED
  BY <1>8, <1>9, <1>10, <1>11, <1>12, <1>13, <1>14, <1>15, <1>16, <1>17, <1>18, <1>19, <1>20
     DEF Next, Dispatch, Pass, Sync

LEMMA TypedAlways == Spec => []Typed
<1>1. Typed /\ [Next]_vars => Typed'
  BY StepIsTyped
<1> QED BY <1>1, InitIsTyped, PTL DEF Spec

-----------------------------------------------------------------------------
(* The cursor.  While a run pages backwards the stretch from its anchor to *)
(* the top of its first page is in the mirror, the anchor is as deep as    *)
(* the pages read so far say, and what came in live since lies above that  *)
(* top; the cursor waits for the end of the run.                           *)

\* How far below its top a run is after so many pages.
Depth(pages) == (pages + 1) * (Count - 1)

LEMMA Deeper ==
  ASSUME NEW pages \in Nat
  PROVE  /\ Depth(pages) \in Nat /\ Depth(0) = Count - 1
         /\ Depth(pages + 1) = Depth(pages) + (Count - 1)
<1>1. PICK step \in Nat : step = Count - 1
  BY InboundAssumption
<1>2. ((pages + 1) + 1) * step = (pages + 1) * step + step /\ (pages + 1) * step \in Nat /\ (0 + 1) * step = step
  OBVIOUS
<1>3. Depth(pages) = (pages + 1) * step /\ Depth(0) = (0 + 1) * step /\ Depth(pages + 1) = ((pages + 1) + 1) * step
  BY ONLY <1>1 DEF Depth
<1> QED BY ONLY <1>1, <1>2, <1>3

LEMMA DepthOfRun == Count \in Nat \ {0} /\ MaxPages \in Nat \ {0} /\ Depth(MaxPages) + 1 = Reach
<1>1. Count \in Nat \ {0} /\ MaxPages \in Nat \ {0}
  BY InboundAssumption
<1>2. PICK step \in Nat, pages \in Nat : step = Count - 1 /\ pages = MaxPages
  BY <1>1
<1>3. PICK all \in Nat : all = pages * step
  OBVIOUS
<1>4. (pages + 1) * step = pages * step + step
  OBVIOUS
<1>5. Depth(MaxPages) = (pages + 1) * step /\ Reach = Count + pages * step
  BY ONLY <1>2 DEF Depth, Reach
<1>6. Depth(MaxPages) = all + step /\ Reach = Count + all
  BY ONLY <1>3, <1>4, <1>5
<1> QED BY ONLY <1>1, <1>2, <1>6

RunReaches ==
  /\ sync.pc # "idle" => sync.from = cursor
  /\ sync.pc = "first" => sync.page = 0
  /\ sync.pc = "page" =>
       /\ sync.from > 0 /\ sync.page < MaxPages
       /\ sync.anchor = sync.top - Depth(sync.page)
       /\ sync.anchor .. sync.top \subseteq mirror
       /\ \A m \in mirror : m > sync.top => (sync.top + 1) .. (m - 1) \subseteq beyond \cup mirror

ReachInv == RunReaches /\ CursorIsHonest

LEMMA ReachInitially == Init => ReachInv
BY IdleSyncIsTyped DEF Init, ReachInv, RunReaches, CursorIsHonest

LEMMA LiveMessageReaches ==
  ASSUME Typed, ReachInv, MirrorGrows, UNCHANGED <<cursor, sync>>
  PROVE  ReachInv'
<1>1. mirror \subseteq mirror' /\ beyond \subseteq beyond'
  BY DEF MirrorGrows
<1>2. CursorIsHonest'
  BY <1>1 DEF ReachInv, CursorIsHonest
<1>3. ASSUME sync.pc = "page" PROVE RunReaches'
  <2>1. /\ sync.from > 0 /\ sync.page < MaxPages /\ sync.anchor = sync.top - Depth(sync.page)
        /\ sync.anchor .. sync.top \subseteq mirror' /\ sync.from = cursor
    BY <1>1, <1>3 DEF ReachInv, RunReaches
  <2>2. ASSUME NEW m \in mirror', m > sync.top
        PROVE  (sync.top + 1) .. (m - 1) \subseteq beyond' \cup mirror'
    <3>1. CASE m \in mirror
      BY <1>1, <1>3, <2>2, <3>1 DEF ReachInv, RunReaches
    <3>2. CASE m \notin mirror
      BY <1>3, <2>2, <3>2 DEF MirrorGrows
    <3> QED BY <3>1, <3>2
  <2> QED BY <1>3, <2>1, <2>2 DEF RunReaches
<1>4. ASSUME sync.pc # "page" PROVE RunReaches'
  BY <1>4 DEF ReachInv, RunReaches
<1> QED BY <1>2, <1>3, <1>4 DEF ReachInv

LEMMA FirstPageReaches ==
  ASSUME Typed, ReachInv, FirstPage
  PROVE  ReachInv'
<1> DEFINE page == PageFrom(last)
           oldest == Min(page)
           tooOld == IF sync.from = 0 THEN 1 .. (last - Count) ELSE {}
<1>1. /\ last \in Nat /\ mirror \subseteq 1 .. last /\ cursor \in 0 .. last /\ cursor \in Nat
      /\ sync \in Run /\ sync.from = cursor /\ 1 .. cursor \subseteq mirror \cup beyond
  BY BodyShape DEF Typed, FirstPage, ReachInv, RunReaches, CursorIsHonest
<1>2. /\ mirror' = mirror \cup page
      /\ \/ /\ sync.from > 0 /\ page # {} /\ oldest > sync.from
            /\ sync' = [sync EXCEPT !.pc = "page", !.top = last, !.anchor = oldest]
            /\ UNCHANGED <<cursor, beyond>>
         \/ /\ ~(sync.from > 0 /\ page # {} /\ oldest > sync.from)
            /\ Finish(mirror', tooOld)
  BY DEF FirstPage
<1>3. /\ page \subseteq 1 .. last
      /\ last # 0 => /\ page # {} /\ oldest \in 1 .. last /\ oldest .. last \subseteq page
                     /\ oldest > 1 => oldest = last - (Count - 1)
      /\ last = 0 => page = {}
  BY <1>1, PageShape, NoPage
<1> HIDE DEF page, oldest
<1>4. mirror' \subseteq 1 .. last /\ mirror \subseteq mirror'
  BY <1>1, <1>2, <1>3
<1>5. CASE /\ sync.from > 0 /\ page # {} /\ oldest > sync.from
           /\ sync' = [sync EXCEPT !.pc = "page", !.top = last, !.anchor = oldest]
           /\ UNCHANGED <<cursor, beyond>>
  <2>1. /\ sync'.pc = "page" /\ sync'.top = last /\ sync'.anchor = oldest /\ sync'.from = sync.from
        /\ sync'.page = sync.page
    BY <1>1, <1>5 DEF Run
  <2>2. oldest .. last \subseteq mirror'
    BY <1>2, <1>3, <1>5
  <2>3. \A m \in mirror' : ~(m > last)
    BY <1>1, <1>4
  <2>4. sync'.page < MaxPages /\ sync'.anchor = sync'.top - Depth(sync'.page)
    <3>1. sync.page = 0
      BY DEF FirstPage, ReachInv, RunReaches
    <3>2. oldest = last - (Count - 1)
      BY <1>1, <1>3, <1>5
    <3> QED BY <2>1, <3>1, <3>2, Deeper, DepthOfRun
  <2>5. RunReaches'
    BY <1>1, <1>5, <2>1, <2>2, <2>3, <2>4 DEF RunReaches
  <2>6. CursorIsHonest'
    BY <1>1, <1>4, <1>5 DEF CursorIsHonest
  <2> QED BY <2>5, <2>6 DEF ReachInv
<1>6. CASE /\ ~(sync.from > 0 /\ page # {} /\ oldest > sync.from)
           /\ Finish(mirror', tooOld)
  <2>1. PICK rows \in SUBSET (1 .. last) : rows = mirror'
    BY <1>4
  <2>2. PICK lost : lost = tooOld
    OBVIOUS
  <2>3. /\ cursor' \in 0 .. last /\ sync' = IdleSync /\ beyond' = beyond \cup lost
        /\ cursor' = cursor \/ (cursor' \in rows /\ cursor' > cursor)
    BY <1>1, <1>6, <2>1, <2>2, Finishes
  <2>4. ASSUME NEW n \in 1 .. cursor' PROVE n \in mirror' \cup beyond'
    <3>1. CASE n <= cursor
      BY <1>1, <1>4, <2>3, <3>1
    <3>2. CASE n > cursor
      <4>1. n \in 1 .. last /\ last # 0
        BY <1>1, <2>3, <3>2
      <4>2. CASE n >= oldest
        BY <1>2, <1>3, <4>1, <4>2
      <4>3. CASE n < oldest
        <5>1. sync.from = 0 /\ oldest = last - (Count - 1)
          BY <1>1, <1>3, <1>6, <3>2, <4>1, <4>3
        <5>2. n \in lost
          BY <2>2, <4>1, <4>3, <5>1, <1>1, DepthOfRun
        <5> QED BY <2>3, <5>2
      <4> QED BY <1>3, <4>1, <4>2, <4>3
    <3> QED BY <1>1, <2>3, <3>1, <3>2
  <2> QED BY <2>3, <2>4, IdleSyncIsTyped DEF ReachInv, RunReaches, CursorIsHonest
<1> QED BY <1>2, <1>5, <1>6

LEMMA OlderPageReaches ==
  ASSUME Typed, ReachInv, OlderPage
  PROVE  ReachInv'
<1> DEFINE page == PageFrom(sync.anchor)
           oldest == Min(page)
           tooDeep == (sync.from + 1) .. (sync.top - Reach)
<1>1. /\ last \in Nat /\ mirror \subseteq 1 .. last /\ cursor \in 0 .. last /\ cursor \in Nat
      /\ sync \in Run /\ sync.from = cursor /\ sync.from > 0 /\ 1 .. cursor \subseteq mirror \cup beyond
      /\ sync.pc = "page" /\ sync.top \in 1 .. last /\ sync.anchor \in 1 .. sync.top
      /\ sync.page \in Nat /\ sync.page < MaxPages /\ sync.anchor = sync.top - Depth(sync.page)
      /\ sync.anchor .. sync.top \subseteq mirror
      /\ \A m \in mirror : m > sync.top => (sync.top + 1) .. (m - 1) \subseteq beyond \cup mirror
  BY BodyShape DEF Typed, PageTyped, OlderPage, ReachInv, RunReaches, CursorIsHonest, Run
<1>2. /\ mirror' = mirror \cup page
      /\ \/ /\ oldest > sync.from /\ oldest # sync.anchor /\ sync.page + 1 < MaxPages
            /\ sync' = [sync EXCEPT !.anchor = oldest, !.page = sync.page + 1]
            /\ UNCHANGED <<cursor, beyond>>
         \/ /\ ~(oldest > sync.from /\ oldest # sync.anchor /\ sync.page + 1 < MaxPages)
            /\ Finish(mirror', tooDeep)
  BY DEF OlderPage
<1>3. /\ page \subseteq 1 .. sync.anchor /\ oldest \in 1 .. sync.anchor /\ oldest .. sync.anchor \subseteq page
      /\ oldest > 1 => oldest = sync.anchor - (Count - 1)
  BY <1>1, PageShape
<1> HIDE DEF page, oldest
<1>4. PICK depth \in Nat : depth = Depth(sync.page) /\ Depth(sync.page + 1) = depth + (Count - 1)
  BY <1>1, Deeper
<1>5. mirror' \subseteq 1 .. last /\ mirror \subseteq mirror'
  BY <1>1, <1>2, <1>3
<1>6. oldest .. sync.top \subseteq mirror'
  <2>1. ASSUME NEW n \in oldest .. sync.top PROVE n \in mirror'
    <3>1. n \in oldest .. sync.anchor \/ n \in sync.anchor .. sync.top
      BY <1>1, <1>3
    <3> QED BY <1>1, <1>2, <1>3, <3>1
  <2> QED BY <2>1
<1>7. \A m \in mirror' : m > sync.top => m \in mirror
  BY <1>1, <1>2, <1>3
<1>8. CASE /\ oldest > sync.from /\ oldest # sync.anchor /\ sync.page + 1 < MaxPages
           /\ sync' = [sync EXCEPT !.anchor = oldest, !.page = sync.page + 1]
           /\ UNCHANGED <<cursor, beyond>>
  <2>1. /\ sync'.pc = "page" /\ sync'.top = sync.top /\ sync'.anchor = oldest /\ sync'.from = sync.from
        /\ sync'.page = sync.page + 1
    BY <1>1, <1>8 DEF Run
  <2>2. \A m \in mirror' : m > sync.top => (sync.top + 1) .. (m - 1) \subseteq beyond' \cup mirror'
    BY <1>1, <1>5, <1>7, <1>8
  <2>3. sync'.page < MaxPages /\ sync'.anchor = sync'.top - Depth(sync'.page)
    <3>1. oldest = sync.anchor - (Count - 1)
      BY <1>1, <1>3, <1>8
    <3> QED BY <1>1, <1>4, <1>8, <2>1, <3>1, DepthOfRun
  <2>4. RunReaches'
    BY <1>1, <1>6, <1>8, <2>1, <2>2, <2>3 DEF RunReaches
  <2>5. CursorIsHonest'
    BY <1>1, <1>5, <1>8 DEF CursorIsHonest
  <2> QED BY <2>4, <2>5 DEF ReachInv
<1>9. CASE /\ ~(oldest > sync.from /\ oldest # sync.anchor /\ sync.page + 1 < MaxPages)
           /\ Finish(mirror', tooDeep)
  <2>1. PICK rows \in SUBSET (1 .. last) : rows = mirror'
    BY <1>5
  <2>2. PICK lost : lost = tooDeep
    OBVIOUS
  <2>3. /\ cursor' \in 0 .. last /\ sync' = IdleSync /\ beyond' = beyond \cup lost
        /\ cursor' = cursor \/ (cursor' \in rows /\ cursor' > cursor)
    BY <1>1, <1>9, <2>1, <2>2, Finishes
  <2>4. ASSUME NEW n \in 1 .. cursor' PROVE n \in mirror' \cup beyond'
    <3>1. CASE n <= cursor
      BY <1>1, <1>5, <2>3, <3>1
    <3>2. CASE n > cursor /\ n <= sync.top /\ n >= oldest
      <4>1. n \in oldest .. sync.top
        BY <1>1, <1>3, <3>2
      <4> QED BY <1>6, <4>1
    <3>3. CASE n > cursor /\ n <= sync.top /\ n < oldest
      <4>1. oldest > cursor /\ oldest > 1 /\ n \in Nat
        BY <1>1, <1>3, <3>3
      <4>2. oldest = sync.top - depth - (Count - 1)
        BY <1>1, <1>3, <1>4, <4>1
      <4>3. oldest <= sync.top - Reach + 1
        <5>1. CASE oldest = sync.anchor
          <6>1. Count = 1
            BY <1>1, <1>3, <4>1, <5>1, DepthOfRun
          <6>2. MaxPages * 0 = 0
            BY DepthOfRun
          <6>3. Reach = 1
            BY ONLY <6>1, <6>2 DEF Reach
          <6> QED BY <1>1, <1>3, <6>3
        <5>2. CASE oldest # sync.anchor
          <6>1. sync.page + 1 = MaxPages
            BY <1>1, <1>9, <4>1, <5>2, DepthOfRun
          <6>2. Reach = depth + (Count - 1) + 1
            BY <1>4, <6>1, DepthOfRun
          <6> QED BY <1>1, <4>2, <6>2, DepthOfRun
        <5> QED BY <5>1, <5>2
      <4>4. n \in lost
        <5>1. Reach \in Int
          BY DepthOfRun, Deeper
        <5> QED BY <1>1, <1>3, <2>2, <3>3, <4>1, <4>3, <5>1
      <4> QED BY <2>3, <4>4
    <3>4. CASE n > cursor /\ n > sync.top
      <4>1. cursor' \in mirror' /\ n <= cursor' /\ cursor' > sync.top
        BY <1>1, <2>1, <2>3, <3>4
      <4>2. n = cursor' \/ n \in (sync.top + 1) .. (cursor' - 1)
        <5>1. PICK c \in Nat : c = cursor'
          BY <1>1, <2>3
        <5>2. PICK t \in Nat : t = sync.top
          BY <1>1
        <5>3. n \in Nat /\ n <= c /\ n > t
          BY <3>4, <4>1, <5>1, <5>2
        <5>4. n = c \/ n \in (t + 1) .. (c - 1)
          BY <5>3
        <5> QED BY <5>1, <5>2, <5>4
      <4> QED BY <1>1, <1>5, <1>7, <2>3, <4>1, <4>2
    <3> QED BY <1>1, <1>3, <2>3, <3>1, <3>2, <3>3, <3>4
  <2> QED BY <2>3, <2>4, IdleSyncIsTyped DEF ReachInv, RunReaches, CursorIsHonest
<1> QED BY <1>2, <1>8, <1>9

LEMMA ReachStep ==
  ASSUME Typed, ReachInv, [Next]_vars
  PROVE  ReachInv'
<1>1. ASSUME UNCHANGED <<mirror, cursor, sync, beyond>> PROVE ReachInv'
  BY <1>1 DEF ReachInv, RunReaches, CursorIsHonest
<1>2. ASSUME UNCHANGED <<mirror, cursor, beyond>>,
             sync'.pc = "idle" \/ (sync'.pc = "first" /\ sync'.from = cursor /\ sync'.page = 0)
      PROVE  ReachInv'
  BY <1>2 DEF ReachInv, RunReaches, CursorIsHonest
<1>3. cursor \in Nat
  BY BodyShape DEF Typed
<1>4. CASE UNCHANGED vars
  BY <1>1, <1>4 DEF vars
<1>5. CASE Say
  BY <1>1, <1>5 DEF Say, stores
<1>6. ASSUME NEW w \in Workers, (w = Hook /\ \E n \in Messages : Post(n)) \/ Replay(w) \/ Redispatch(w)
      PROVE  ReachInv'
  <2>1. UNCHANGED <<cursor, sync>>
    BY <1>6 DEF Post, Replay, Redispatch
  <2> QED BY <1>6, <2>1, TakenUp, LiveMessageReaches
<1>7. ASSUME NEW w \in Workers, Dispatch(w) \/ List(w) \/ Pending(w) \/ PassEnds(w) PROVE ReachInv'
  BY <1>1, <1>7 DEF Dispatch, Rule, Quick, Begin, End, Verdict, List, Pending, PassEnds, stores
<1>8. ASSUME NEW w \in Workers, PassBegins(w) PROVE ReachInv'
  <2>1. UNCHANGED <<mirror, cursor, beyond>> /\ (UNCHANGED sync \/ StartSync(w))
    BY <1>8 DEF PassBegins, stores
  <2> QED BY <1>1, <1>2, <1>3, <2>1, SyncStarts
<1>9. CASE SyncTimer
  <2>1. UNCHANGED <<mirror, cursor, beyond>> /\ StartSync(Hook) /\ Hook \in Workers
    BY <1>9 DEF SyncTimer, stores, Workers
  <2> QED BY <1>2, <1>3, <2>1, SyncStarts
<1>10. CASE FirstPage
  BY <1>10, FirstPageReaches
<1>11. CASE OlderPage
  BY <1>11, OlderPageReaches
<1>12. CASE SyncFails \/ Restart
  <2>1. UNCHANGED <<mirror, cursor, beyond>> /\ sync' = IdleSync
    BY <1>12 DEF SyncFails, Restart, stores
  <2> QED BY <1>2, <2>1, IdleSyncIsTyped
<1>13. CASE WindowSlides \/ (\E n \in Messages : Age(n)) \/ (\E n \in Messages, k \in Actions : Stale(n, k))
  BY <1>1, <1>13 DEF WindowSlides, Age, Stale, stores
<1>14. Hook \in Workers
  BY DEF Workers
<1> QED
  BY <1>4, <1>5, <1>6, <1>7, <1>8, <1>9, <1>10, <1>11, <1>12, <1>13, <1>14 DEF Next, Pass, Sync

\* For any page size and page budget, what the cursor of the history sync (qq-history-sync.ts sync)
\* has passed is in the mirror, unless it lay below the Count + MaxPages * (Count - 1) newest
\* messages of the run that passed it (below the Count newest of the first run), or was overtaken
\* by a live message while a run paged: runs that fail and restarts lose nothing more.  A page
\* starts with its anchor, so with a `count' of 1 that budget is one message whatever `max_pages'.
THEOREM CursorStaysHonest == Spec => []CursorIsHonest
<1>1. ReachInv => CursorIsHonest
  BY DEF ReachInv
<1>2. Typed /\ ReachInv /\ [Next]_vars => ReachInv'
  BY ReachStep
<1> QED BY <1>1, <1>2, ReachInitially, TypedAlways, PTL DEF Spec

-----------------------------------------------------------------------------
(* The verdict.  A sent row stays sent and was shown; a row that is being  *)
(* sent has one sender; a job that has not failed has sent what it passed. *)

Trusted == \A n \in Messages, k \in Actions : claims[n][k] = "sent" => shown[n][k] > 0

Sender(j, n, k) == j.pc = "send" /\ j.n = n /\ <<j.rule, j.action>> = k

SendersHold ==
  \A w \in Workers, n \in Messages, k \in Actions :
    Sender(work[w], n, k) =>
      /\ claims[n][k] = "sending"
      /\ \A v \in Workers \ {w} : ~Sender(work[v], n, k)

Earned(j, rows, marks) ==
  AtWork(j) =>
    /\ rows[j.n].status # "none" /\ j.recovered = (rows[j.n].raw = "string")
    /\ ~j.failed =>
         \A k \in Actions : Passed(k, j) => ~Needs(j.n, k, j.recovered) \/ marks[j.n][k] = "sent"

OkIsEarned(rows, marks) ==
  \A n \in Messages : rows[n].status = "ok" =>
    \A k \in Actions : Needs(n, k, rows[n].raw = "string") => marks[n][k] = "sent"

AnswerInv ==
  /\ Trusted /\ SendersHold
  /\ \A w \in Workers : Earned(work[w], ledger, claims)
  /\ OkIsEarned(ledger, claims)

SentKept == \A n \in Messages, k \in Actions : claims[n][k] = "sent" => claims'[n][k] = "sent"

LEMMA AnswersInitially == Init => AnswerInv
<1> SUFFICES ASSUME Init PROVE AnswerInv
  OBVIOUS
<1>1. /\ claims = [n \in Messages |-> [k \in Actions |-> "none"]]
      /\ ledger = [n \in Messages |-> NoRow] /\ work = [w \in Workers |-> Idle]
  BY DEF Init
<1>2. \A n \in Messages, k \in Actions : claims[n][k] = "none"
  BY <1>1
<1>3. \A w \in Workers : ~AtWork(work[w]) /\ work[w].pc = "idle"
  BY <1>1 DEF Idle, AtWork
<1>4. \A n \in Messages : ledger[n].status = "none"
  BY <1>1 DEF NoRow
<1> QED BY <1>2, <1>3, <1>4 DEF AnswerInv, Trusted, SendersHold, Sender, Earned, OkIsEarned

LEMMA EarnedKept ==
  ASSUME Typed, NEW w \in Workers, Earned(work[w], ledger, claims), RowsKept(ledger, ledger'), SentKept
  PROVE  Earned(work[w], ledger', claims')
<1> SUFFICES ASSUME AtWork(work[w]) PROVE Earned(work[w], ledger', claims')
  BY DEF Earned
<1>1. work[w].n \in Messages
  BY AtWorkIsTyped
<1> QED BY <1>1 DEF Earned, RowsKept, SentKept

LEMMA OkKept ==
  ASSUME OkIsEarned(ledger, claims), RowsKept(ledger, ledger'), SentKept
  PROVE  OkIsEarned(ledger', claims')
<1>1. ASSUME NEW n \in Messages, ledger'[n].status = "ok", NEW k \in Actions, Needs(n, k, ledger'[n].raw = "string")
      PROVE  claims'[n][k] = "sent"
  <2>1. ledger[n].status = "ok" /\ ledger'[n].raw = ledger[n].raw
    BY <1>1 DEF RowsKept
  <2> QED BY <1>1, <2>1 DEF OkIsEarned, SentKept
<1> QED BY <1>1 DEF OkIsEarned

LEMMA SendersKept ==
  ASSUME SendersHold, UNCHANGED claims, \A v \in Workers : work'[v] = work[v] \/ work'[v].pc # "send"
  PROVE  SendersHold'
BY DEF SendersHold, Sender

\* A step that sends nothing.
LEMMA SilentStep ==
  ASSUME Typed, AnswerInv, UNCHANGED <<claims, shown>>, RowsKept(ledger, ledger'),
         \A v \in Workers : work'[v] = work[v] \/ ~AtWork(work'[v]) \/ Starts(work'[v])
  PROVE  AnswerInv'
<1>1. SentKept
  BY DEF SentKept
<1>2. Trusted'
  BY DEF AnswerInv, Trusted
<1>3. SendersHold'
  <2>1. \A v \in Workers : work'[v] = work[v] \/ work'[v].pc # "send"
    BY DEF AtWork, Starts
  <2> QED BY <2>1, SendersKept DEF AnswerInv
<1>4. ASSUME NEW v \in Workers PROVE Earned(work'[v], ledger', claims')
  <2>1. CASE work'[v] = work[v]
    BY <1>1, <2>1, EarnedKept DEF AnswerInv
  <2>2. CASE ~AtWork(work'[v])
    BY <2>2 DEF Earned
  <2>3. CASE AtWork(work'[v]) /\ Starts(work'[v])
    <3>1. ASSUME NEW k \in Actions PROVE ~Passed(k, work'[v])
      <4>1. k[1] \in Nat /\ k[1] >= 1 /\ k[2] \in Nat /\ k[2] >= 1
        BY ActionsShape, RulesShape
      <4>2. work'[v].rule = 1 /\ work'[v].action = 0
        BY <2>3 DEF Starts
      <4> QED BY <4>1, <4>2 DEF Passed
    <3> QED BY <2>3, <3>1 DEF Earned, Starts
  <2> QED BY <2>1, <2>2, <2>3
<1>5. OkIsEarned(ledger', claims')
  BY <1>1, OkKept DEF AnswerInv
<1> QED BY <1>2, <1>3, <1>4, <1>5 DEF AnswerInv

\* A step of a dispatch that is not its last.
LEMMA AdvanceEarns ==
  ASSUME Typed, AnswerInv, NEW w \in Workers, AtWork(work[w]), NEW t, Advances(w, t), SentKept,
         UNCHANGED ledger
  PROVE  (\A v \in Workers : Earned(work'[v], ledger', claims')) /\ OkIsEarned(ledger', claims')
<1>1. RowsKept(ledger, ledger')
  BY DEF RowsKept
<1>2. OkIsEarned(ledger', claims')
  BY <1>1, OkKept DEF AnswerInv
<1>3. /\ work \in [Workers -> Job] /\ work[w].n \in Messages
      /\ work' = [work EXCEPT ![w] = t] /\ AdvancesTo(w, t)
  BY AtWorkIsTyped DEF Advances
<1>4. work'[w] = t /\ \A v \in Workers \ {w} : work'[v] = work[v]
  BY <1>3
<1>5. ASSUME NEW v \in Workers \ {w} PROVE Earned(work'[v], ledger', claims')
  BY <1>1, <1>4, <1>5, EarnedKept DEF AnswerInv
<1>6. PICK j : j = work[w]
  OBVIOUS
<1>7. /\ t.n = j.n /\ t.recovered = j.recovered /\ (j.failed => t.failed)
      /\ \A k \in Actions :
           Passed(k, t) /\ ~t.failed =>
             Passed(k, j) \/ ~Needs(j.n, k, j.recovered) \/ claims'[j.n][k] = "sent"
  BY <1>3, <1>6 DEF AdvancesTo, SameDispatch
<1>8. /\ ledger[j.n].status # "none" /\ j.recovered = (ledger[j.n].raw = "string")
      /\ ~j.failed => \A k \in Actions : Passed(k, j) => ~Needs(j.n, k, j.recovered) \/ claims[j.n][k] = "sent"
  BY <1>6 DEF AnswerInv, Earned
<1>9. Earned(t, ledger', claims')
  BY <1>3, <1>6, <1>7, <1>8 DEF Earned, SentKept
<1> QED BY <1>2, <1>4, <1>5, <1>9

LEMMA OnlyKeeps ==
  ASSUME NEW n \in Messages, NEW k \in Actions, NEW value, Only(n, k, claims, claims', value),
         value = "sent" \/ claims[n][k] # "sent"
  PROVE  SentKept
BY DEF Only, SentKept

LEMMA BeginAnswers ==
  ASSUME Typed, AnswerInv, NEW w \in Workers, Begin(w)
  PROVE  AnswerInv'
<1> DEFINE n == work[w].n
           here == Here(w)
<1>1. work[w].pc = "act" /\ UNCHANGED <<ledger, shown>>
  BY BeginAdvances DEF Begin, stores
<1>2. here \in Actions /\ n \in Messages /\ AtWork(work[w]) /\ work \in [Workers -> Job]
  BY <1>1, HereIsAnAction, AtWorkIsTyped DEF AtWork
<1>3. PICK t :
        /\ Advances(w, t)
        /\ \/ UNCHANGED claims /\ t.pc \in {"act", "rule"}
           \/ /\ claims[n][here] \in {"none", "failed"}
              /\ claims' = [claims EXCEPT ![n][here] = "sending"]
              /\ t.pc = "send" /\ t.rule = work[w].rule /\ t.action = work[w].action
  BY BeginAdvances
<1>4. /\ work'[w] = t /\ \A v \in Workers \ {w} : work'[v] = work[v]
      /\ t.n = n
  BY <1>2, <1>3 DEF Advances, AdvancesTo, SameDispatch
<1>5. CASE UNCHANGED claims /\ t.pc \in {"act", "rule"}
  <2>1. SentKept /\ Trusted'
    BY <1>1, <1>5 DEF SentKept, AnswerInv, Trusted
  <2>2. SendersHold'
    <3>1. \A v \in Workers : work'[v] = work[v] \/ work'[v].pc # "send"
      BY <1>4, <1>5
    <3> QED BY <1>5, <3>1, SendersKept DEF AnswerInv
  <2> QED BY <1>1, <1>2, <1>3, <2>1, <2>2, AdvanceEarns DEF AnswerInv
<1>6. CASE /\ claims[n][here] \in {"none", "failed"}
           /\ claims' = [claims EXCEPT ![n][here] = "sending"]
           /\ t.pc = "send" /\ t.rule = work[w].rule /\ t.action = work[w].action
  <2>1. Only(n, here, claims, claims', "sending")
    <3>1. SendsTyped /\ "sending" \in Claim
      BY DEF Typed, Claim
    <3>2. Marks(n, here, "sending")
      BY <1>6 DEF Marks
    <3> QED BY <1>2, <3>1, <3>2, ClaimMarked
  <2>2. SentKept
    BY <1>2, <1>6, <2>1, OnlyKeeps
  <2>3. Trusted'
    BY <1>1, <1>2, <2>1 DEF Trusted, Only, AnswerInv
  <2>4. ASSUME NEW v \in Workers, NEW m \in Messages, NEW k \in Actions, Sender(work'[v], m, k)
        PROVE  claims'[m][k] = "sending" /\ \A u \in Workers \ {v} : ~Sender(work'[u], m, k)
    <3>1. \A u \in Workers : ~Sender(work[u], n, here)
      BY <1>2, <1>6 DEF AnswerInv, SendersHold
    <3>2. Sender(t, m, k) => m = n /\ k = here
      BY <1>4, <1>6 DEF Sender, Here
    <3>3. CASE v = w
      <4>1. m = n /\ k = here
        BY <1>4, <2>4, <3>2, <3>3
      <4> QED BY <1>2, <1>4, <2>1, <3>1, <3>3, <4>1 DEF Only
    <3>4. CASE v # w
      <4>1. Sender(work[v], m, k)
        BY <1>4, <2>4, <3>4
      <4>2. ~(m = n /\ k = here)
        BY <3>1, <4>1
      <4>3. claims[m][k] = "sending" /\ \A u \in Workers \ {v} : ~Sender(work[u], m, k)
        BY <4>1 DEF AnswerInv, SendersHold
      <4> QED BY <1>2, <1>4, <2>1, <3>2, <4>2, <4>3 DEF Only
    <3> QED BY <3>3, <3>4
  <2>5. SendersHold'
    BY <2>4 DEF SendersHold
  <2> QED BY <1>1, <1>2, <1>3, <2>2, <2>3, <2>5, AdvanceEarns DEF AnswerInv
<1> QED BY <1>3, <1>5, <1>6

LEMMA EndAnswers ==
  ASSUME Typed, AnswerInv, NEW w \in Workers, End(w)
  PROVE  AnswerInv'
<1> DEFINE n == work[w].n
           here == Here(w)
<1>1. work[w].pc = "send" /\ UNCHANGED ledger
  BY EndAdvances DEF End, stores
<1>2. here \in Actions /\ n \in Messages /\ AtWork(work[w]) /\ work \in [Workers -> Job]
  BY <1>1, HereIsAnAction, AtWorkIsTyped DEF AtWork
<1>3. Sender(work[w], n, here)
  BY <1>1 DEF Sender, Here
<1>4. claims[n][here] = "sending" /\ \A v \in Workers \ {w} : ~Sender(work[v], n, here)
  BY <1>2, <1>3 DEF AnswerInv, SendersHold
<1>5. PICK t : Advances(w, t) /\ t.pc \in {"act", "rule"}
  BY EndAdvances
<1>6. work'[w] = t /\ \A v \in Workers \ {w} : work'[v] = work[v]
  BY <1>2, <1>5 DEF Advances
<1>7. PICK value \in {"sent", "failed"} :
        /\ claims' = [claims EXCEPT ![n][here] = value]
        /\ IF value = "sent" THEN shown' = [shown EXCEPT ![n][here] = 1] ELSE UNCHANGED shown
  BY EndAdvances
<1>8. SendsTyped
  BY DEF Typed
<1>9. Only(n, here, claims, claims', value)
  <2>1. value \in Claim
    BY <1>7 DEF Claim
  <2>2. Marks(n, here, value)
    BY <1>7 DEF Marks
  <2> HIDE DEF here, n
  <2> QED BY <1>2, <1>8, <2>1, <2>2, ClaimMarked
<1>10. SentKept
  BY <1>2, <1>4, <1>9, OnlyKeeps
<1>11. Trusted'
  <2>1. CASE value = "sent"
    <3>1. Only(n, here, shown, shown', 1)
      BY <1>2, <1>7, <1>8, <2>1, ShownMarked
    <3> QED BY <1>2, <1>9, <3>1 DEF AnswerInv, Trusted, Only
  <2>2. CASE value # "sent"
    BY <1>2, <1>7, <1>9, <2>2 DEF AnswerInv, Trusted, Only
  <2> QED BY <2>1, <2>2
<1>12. ASSUME NEW v \in Workers, NEW m \in Messages, NEW k \in Actions, Sender(work'[v], m, k)
       PROVE  claims'[m][k] = "sending" /\ \A u \in Workers \ {v} : ~Sender(work'[u], m, k)
  <2>1. v # w /\ work'[v] = work[v] /\ ~Sender(work'[w], m, k)
    BY <1>5, <1>6, <1>12 DEF Sender
  <2>2. Sender(work[v], m, k)
    BY <1>12, <2>1
  <2>3. claims[m][k] = "sending" /\ \A u \in Workers \ {v} : ~Sender(work[u], m, k)
    BY <2>2 DEF AnswerInv, SendersHold
  <2>4. ~(m = n /\ k = here)
    BY <1>4, <2>1, <2>2
  <2> QED BY <1>6, <1>9, <2>1, <2>3, <2>4 DEF Only
<1>13. SendersHold'
  BY <1>12 DEF SendersHold
<1> QED BY <1>1, <1>2, <1>5, <1>10, <1>11, <1>13, AdvanceEarns DEF AnswerInv

LEMMA VerdictAnswers ==
  ASSUME Typed, AnswerInv, NEW w \in Workers, Verdict(w)
  PROVE  AnswerInv'
<1> DEFINE n == work[w].n
<1>1. AtWork(work[w]) /\ \A k \in Actions : Passed(k, work[w])
  BY VerdictIsPassed
<1>2. n \in Messages /\ work \in [Workers -> Job] /\ ledger \in [Messages -> Row]
  BY <1>1, AtWorkIsTyped DEF Typed, RowsTyped
<1>3. /\ UNCHANGED <<claims, shown>>
      /\ ledger' = [ledger EXCEPT ![n].status = IF work[w].failed THEN "error" ELSE "ok"]
  BY DEF Verdict, sends
<1>4. PICK t : work' = [work EXCEPT ![w] = t] /\ ~AtWork(t)
  BY VerdictIsPassed
<1>5. work'[w] = t /\ \A v \in Workers \ {w} : work'[v] = work[v]
  BY <1>2, <1>4
<1>6. /\ ledger'[n].status = (IF work[w].failed THEN "error" ELSE "ok") /\ ledger'[n].raw = ledger[n].raw
      /\ \A m \in Messages \ {n} : ledger'[m] = ledger[m]
  BY <1>2, <1>3 DEF Row
<1>7. Trusted'
  BY <1>3 DEF AnswerInv, Trusted
<1>8. SendersHold'
  <2>1. \A v \in Workers : work'[v] = work[v] \/ work'[v].pc # "send"
    BY <1>4, <1>5 DEF AtWork
  <2> QED BY <1>3, <2>1, SendersKept DEF AnswerInv
<1>9. ASSUME NEW v \in Workers PROVE Earned(work'[v], ledger', claims')
  <2>1. CASE v = w
    BY <1>4, <1>5, <2>1 DEF Earned
  <2>2. CASE v # w
    <3>1. work'[v] = work[v] /\ Earned(work[v], ledger, claims)
      BY <1>5, <2>2 DEF AnswerInv
    <3>2. AtWork(work[v]) => work[v].n \in Messages
      BY AtWorkIsTyped
    <3>3. \A m \in Messages : ledger[m].status # "none" =>
            ledger'[m].status # "none" /\ ledger'[m].raw = ledger[m].raw
      BY <1>6
    <3> QED BY <1>3, <3>1, <3>2, <3>3 DEF Earned
  <2> QED BY <2>1, <2>2
<1>10. ASSUME NEW m \in Messages, ledger'[m].status = "ok", NEW k \in Actions,
              Needs(m, k, ledger'[m].raw = "string")
       PROVE  claims'[m][k] = "sent"
  <2>1. CASE m = n
    <3>1. ~work[w].failed
      BY <1>6, <1>10, <2>1
    <3>2. work[w].recovered = (ledger[n].raw = "string") /\ Passed(k, work[w])
      BY <1>1, <1>10 DEF AnswerInv, Earned
    <3>3. ~Needs(n, k, work[w].recovered) \/ claims[n][k] = "sent"
      BY <1>1, <3>1, <3>2 DEF AnswerInv, Earned
    <3> QED BY <1>3, <1>6, <1>10, <2>1, <3>2, <3>3
  <2>2. CASE m # n
    BY <1>3, <1>6, <1>10, <2>2 DEF AnswerInv, OkIsEarned
  <2> QED BY <2>1, <2>2
<1>11. OkIsEarned(ledger', claims')
  BY <1>10 DEF OkIsEarned
<1> QED BY <1>7, <1>8, <1>9, <1>11 DEF AnswerInv

LEMMA StaleAnswers ==
  ASSUME Typed, AnswerInv, NEW n \in Messages, NEW k \in Actions, Stale(n, k)
  PROVE  AnswerInv'
<1>1. /\ claims[n][k] = "sending" /\ UNCHANGED <<ledger, work, shown>>
      /\ claims' = [claims EXCEPT ![n][k] = IF shown[n][k] > 0 THEN "sent" ELSE "failed"]
      /\ \A w \in Workers : ~Sender(work[w], n, k)
  BY DEF Stale, stores, Sender
<1>2. PICK value \in {"sent", "failed"} :
        /\ claims' = [claims EXCEPT ![n][k] = value]
        /\ value = "sent" => shown[n][k] > 0
  BY <1>1
<1>3. Only(n, k, claims, claims', value)
  BY <1>2, ClaimMarked DEF Claim, Marks, Typed
<1>4. SentKept
  BY <1>1, <1>3, OnlyKeeps
<1>5. RowsKept(ledger, ledger')
  BY <1>1 DEF RowsKept
<1>6. Trusted'
  BY <1>1, <1>2, <1>3 DEF AnswerInv, Trusted, Only
<1>7. ASSUME NEW v \in Workers, NEW m \in Messages, NEW l \in Actions, Sender(work[v], m, l)
      PROVE  claims'[m][l] = "sending" /\ \A u \in Workers \ {v} : ~Sender(work[u], m, l)
  <2>1. claims[m][l] = "sending" /\ \A u \in Workers \ {v} : ~Sender(work[u], m, l)
    BY <1>7 DEF AnswerInv, SendersHold
  <2>2. ~(m = n /\ l = k)
    BY <1>1, <1>7
  <2> QED BY <1>3, <2>1, <2>2 DEF Only
<1>8. SendersHold'
  BY <1>1, <1>7 DEF SendersHold, Sender
<1>9. \A v \in Workers : Earned(work'[v], ledger', claims')
  BY <1>1, <1>4, <1>5, EarnedKept DEF AnswerInv
<1>10. OkIsEarned(ledger', claims')
  BY <1>4, <1>5, OkKept DEF AnswerInv
<1> QED BY <1>6, <1>8, <1>9, <1>10 DEF AnswerInv

LEMMA RestartAnswers ==
  ASSUME Typed, AnswerInv, Restart
  PROVE  AnswerInv'
<1>1. /\ UNCHANGED <<ledger, claims>> /\ work' = [w \in Workers |-> Idle]
      /\ \/ UNCHANGED shown
         \/ \E w \in Workers : work[w].pc = "send" /\ shown' = [shown EXCEPT ![work[w].n][Here(w)] = 1]
  BY DEF Restart, stores, Here
<1>2. RowsKept(ledger, ledger') /\ SentKept
  BY <1>1 DEF RowsKept, SentKept
<1>3. Trusted'
  <2>1. CASE UNCHANGED shown
    BY <1>1, <2>1 DEF AnswerInv, Trusted
  <2>2. ASSUME NEW w \in Workers, work[w].pc = "send", shown' = [shown EXCEPT ![work[w].n][Here(w)] = 1]
        PROVE  Trusted'
    <3>1. Here(w) \in Actions /\ work[w].n \in Messages
      BY <2>2, HereIsAnAction
    <3>2. PICK n \in Messages, k \in Actions : n = work[w].n /\ k = Here(w)
      BY <3>1
    <3>3. Only(n, k, shown, shown', 1)
      BY <2>2, <3>2, ShownMarked DEF Typed
    <3> QED BY <1>1, <3>3 DEF AnswerInv, Trusted, Only
  <2> QED BY <1>1, <2>1, <2>2
<1>4. \A w \in Workers : ~AtWork(work'[w]) /\ work'[w].pc = "idle"
  BY <1>1 DEF AtWork, Idle
<1>5. SendersHold'
  BY <1>4 DEF SendersHold, Sender
<1>6. \A w \in Workers : Earned(work'[w], ledger', claims')
  BY <1>4 DEF Earned
<1>7. OkIsEarned(ledger', claims')
  BY <1>2, OkKept DEF AnswerInv
<1> QED BY <1>3, <1>5, <1>6, <1>7 DEF AnswerInv

LEMMA AnswersStep ==
  ASSUME Typed, AnswerInv, [Next]_vars
  PROVE  AnswerInv'
<1>1. WorkTyped /\ work \in [Workers -> Job]
  BY DEF Typed, WorkTyped
<1>2. RowsKept(ledger, ledger)
  BY DEF RowsKept
<1>3. ASSUME UNCHANGED <<ledger, claims, shown>>, UNCHANGED work \/ Rests PROVE AnswerInv'
  BY <1>2, <1>3, SilentStep DEF Rests
<1>4. ASSUME NEW w \in Workers, Rule(w) \/ Quick(w) PROVE AnswerInv'
  <2>1. UNCHANGED <<ledger, claims, shown>> /\ work[w].pc \in {"rule", "act"}
    BY <1>4 DEF Rule, Quick, stores, sends
  <2>2. AtWork(work[w])
    BY <2>1 DEF AtWork
  <2>3. PICK t : Advances(w, t) /\ t.pc \in {"act", "rule"}
    BY <1>4, RuleAdvances, QuickAdvances
  <2>5. work'[w] = t /\ \A v \in Workers \ {w} : work'[v] = work[v]
    BY <1>1, <2>3 DEF Advances
  <2>6. SentKept /\ Trusted'
    BY <2>1 DEF SentKept, AnswerInv, Trusted
  <2>7. SendersHold'
    BY <2>1, <2>3, <2>5, SendersKept DEF AnswerInv
  <2> QED BY <2>1, <2>2, <2>3, <2>6, <2>7, AdvanceEarns DEF AnswerInv
<1>5. ASSUME NEW w \in Workers, Dispatch(w) PROVE AnswerInv'
  BY <1>4, <1>5, BeginAnswers, EndAnswers, VerdictAnswers DEF Dispatch
<1>6. ASSUME NEW w \in Workers, (w = Hook /\ \E n \in Messages : Post(n)) \/ Replay(w) \/ Redispatch(w)
      PROVE  AnswerInv'
  <2>1. UNCHANGED <<claims, shown>>
    BY <1>6 DEF Post, Replay, Redispatch, sends
  <2>2. PICK t : work' = [work EXCEPT ![w] = t] /\ Starts(t)
    BY <1>6, TakenUp
  <2>3. \A v \in Workers : work'[v] = work[v] \/ Starts(work'[v])
    BY <1>1, <2>2
  <2>4. RowsKept(ledger, ledger')
    BY <1>6, TakenUp
  <2> QED BY <2>1, <2>3, <2>4, SilentStep
<1>7. ASSUME NEW w \in Workers, PassBegins(w) \/ List(w) \/ Pending(w) \/ PassEnds(w) PROVE AnswerInv'
  <2>1. UNCHANGED <<ledger, claims, shown>>
    BY <1>7 DEF PassBegins, List, Pending, PassEnds, stores, sends
  <2> QED BY <1>3, <1>7, <2>1, PassesRest
<1>8. CASE SyncTimer \/ FirstPage \/ OlderPage \/ SyncFails
  BY <1>3, <1>8, RunsAreTyped
<1>9. ASSUME NEW n \in Messages, Age(n) PROVE AnswerInv'
  <2>1. UNCHANGED <<claims, shown, work>> /\ ledger' = [ledger EXCEPT ![n].stale = TRUE]
    BY <1>9 DEF Age, sends
  <2>2. RowsKept(ledger, ledger')
    BY <2>1 DEF Typed, RowsTyped, Row, RowsKept
  <2> QED BY <2>1, <2>2, SilentStep
<1>10. CASE Say \/ WindowSlides \/ UNCHANGED vars
  <2>1. UNCHANGED <<ledger, claims, shown, work>>
    BY <1>10 DEF Say, WindowSlides, vars, stores, sends
  <2> QED BY <1>3, <2>1
<1>11. Hook \in Workers
  BY DEF Workers
<1> QED
  BY <1>5, <1>6, <1>7, <1>8, <1>9, <1>10, <1>11, StaleAnswers, RestartAnswers DEF Next, Pass, Sync

\* Whatever deliveries, overlapping passes, failures, aged claims and crashes a message went
\* through, its row becomes `ok' (qq-ingress.ts process) only when every message that its rules
\* without a quota had to send was sent (dispatchActions and the outbound ledger).
THEOREM OkIsAnswered == Spec => []OkMeansAnswered
<1>1. AnswerInv => OkMeansAnswered
  BY DEF AnswerInv, OkIsEarned, Trusted, OkMeansAnswered, Needs
<1>2. Typed /\ AnswerInv /\ [Next]_vars => AnswerInv'
  BY AnswersStep
<1> QED BY <1>1, <1>2, AnswersInitially, TypedAlways, PTL DEF Spec
=============================================================================
