--------------------------- MODULE OutboundProofs ---------------------------
(***************************************************************************)
(* What the outbound ledger guarantees for any number of messages, callers *)
(* and attempts.                                                           *)
(***************************************************************************)
EXTENDS Outbound, TLAPS

\* A row cannot go stale under its holder.
HeldIsFresh == \A c \in Caller : holds[c] # NoKey => ~row[holds[c]].stale

NewIsUntried == \A k \in RowKey : row[k].status = "none" => row[k].attempts = 0

\* The exclusion of callers is inductive only with HeldIsFresh: a second claim
\* is refused because a held row is `sending' and fresh.
LedgerInv ==
  LedgerTypeOK /\ OneHolder /\ HeldIsFresh /\ NewIsUntried /\ BudgetIsKept

LEMMA LedgerInitially == LedgerInit => LedgerInv
BY LedgerAssumption DEF LedgerInit, LedgerInv, LedgerTypeOK, OneHolder, HeldIsFresh,
                        NewIsUntried, BudgetIsKept

LEMMA ClaimKeepsLedger ==
  ASSUME LedgerInv, NEW c \in Caller, NEW k \in RowKey, Claim(c, k)
  PROVE  LedgerInv'
<1> USE LedgerAssumption DEF Claim, LedgerInv, LedgerTypeOK
<1>1. LedgerTypeOK'
  OBVIOUS
<1>2. ASSUME NEW d \in Caller PROVE holds[d] # k
  BY DEF Free, Live, OneHolder, HeldIsFresh
<1>3. OneHolder'
  BY <1>2 DEF OneHolder
<1>4. HeldIsFresh'
  BY <1>2 DEF HeldIsFresh
<1>5. NewIsUntried'
  BY DEF NewIsUntried
<1>6. row[k].attempts + 1 <= MaxAttempts
  BY DEF Free, Live, NewIsUntried
<1>7. BudgetIsKept'
  BY <1>6 DEF BudgetIsKept
<1>8. QED
  BY <1>1, <1>3, <1>4, <1>5, <1>7

LEMMA MarkKeepsLedger ==
  ASSUME LedgerInv, NEW c \in Caller, NEW outcome \in Outcome, Mark(c, outcome)
  PROVE  LedgerInv'
<1> USE LedgerAssumption DEF Mark, LedgerInv, LedgerTypeOK
<1>1. LedgerTypeOK'
  BY DEF Outcome, TerminalStatus
<1>2. OneHolder'
  BY DEF OneHolder
<1>3. HeldIsFresh'
  BY DEF OneHolder, HeldIsFresh
<1>4. NewIsUntried'
  BY DEF NewIsUntried, Outcome, TerminalStatus
<1>5. BudgetIsKept'
  BY DEF BudgetIsKept
<1>6. QED
  BY <1>1, <1>2, <1>3, <1>4, <1>5

LEMMA AgeKeepsLedger ==
  ASSUME LedgerInv, NEW k \in RowKey, Age(k)
  PROVE  LedgerInv'
<1> USE LedgerAssumption DEF Age, LedgerInv, LedgerTypeOK
<1>1. LedgerTypeOK'
  OBVIOUS
<1>2. OneHolder' /\ HeldIsFresh'
  BY DEF OneHolder, HeldIsFresh
<1>3. NewIsUntried' /\ BudgetIsKept'
  BY DEF NewIsUntried, BudgetIsKept
<1>4. QED
  BY <1>1, <1>2, <1>3

LEMMA AbandonKeepsLedger ==
  ASSUME LedgerInv, Abandon
  PROVE  LedgerInv'
BY LedgerAssumption DEF Abandon, LedgerInv, LedgerTypeOK, OneHolder, HeldIsFresh, NewIsUntried,
                        BudgetIsKept

LEMMA LedgerStep == LedgerInv /\ [LedgerNext]_ledger => LedgerInv'
<1> SUFFICES ASSUME LedgerInv, [LedgerNext]_ledger PROVE LedgerInv'
  OBVIOUS
<1>1. CASE LedgerNext
  BY <1>1, ClaimKeepsLedger, MarkKeepsLedger, AgeKeepsLedger, AbandonKeepsLedger
     DEF LedgerNext
<1>2. CASE UNCHANGED ledger
  BY <1>2 DEF ledger, LedgerInv, LedgerTypeOK, OneHolder, HeldIsFresh, NewIsUntried,
              BudgetIsKept
<1>3. QED
  BY <1>1, <1>2

LEMMA LedgerInvariant == LedgerSpec => []LedgerInv
BY LedgerInitially, LedgerStep, PTL DEF LedgerSpec

\* Two callers never hold the same message (claim in outbound.ts).
THEOREM ClaimsExclude == LedgerSpec => []OneHolder
<1>1. LedgerInv => OneHolder
  BY DEF LedgerInv
<1>2. QED
  BY <1>1, LedgerInvariant, PTL

\* No message is handed out more often than maxAttempts.
THEOREM BudgetHolds == LedgerSpec => []BudgetIsKept
<1>1. LedgerInv => BudgetIsKept
  BY DEF LedgerInv
<1>2. QED
  BY <1>1, LedgerInvariant, PTL

\* A settled row is never driven again: claim refuses it, and nobody who could
\* still mark it holds it.
THEOREM SettledForGood == LedgerSpec => TerminalIsFinal
<1> DEFINE Kept == \A k \in RowKey : Done(k) => row'[k].status = row[k].status
<1>1. LedgerInv /\ [LedgerNext]_ledger => [Kept]_ledger
  <2> SUFFICES ASSUME LedgerInv, LedgerNext PROVE Kept
    OBVIOUS
  <2> USE LedgerAssumption DEF LedgerInv, LedgerTypeOK, Done, TerminalStatus
  <2>1. ASSUME NEW c \in Caller, NEW k \in RowKey, Claim(c, k) PROVE Kept
    BY <2>1 DEF Claim, Free, Live
  <2>2. ASSUME NEW c \in Caller, NEW outcome \in Outcome, Mark(c, outcome) PROVE Kept
    BY <2>2 DEF Mark, OneHolder
  <2>3. ASSUME NEW k \in RowKey, Age(k) PROVE Kept
    BY <2>3 DEF Age
  <2>4. CASE Abandon
    BY <2>4 DEF Abandon
  <2>5. QED
    BY <2>1, <2>2, <2>3, <2>4 DEF LedgerNext
<1>2. QED
  BY <1>1, LedgerInvariant, PTL DEF LedgerSpec, TerminalIsFinal

\* What nobody will drive again: the row is final, or its attempts are used up.
Settled(k) == Done(k) \/ Exhausted(k)

LEMMA SettledStays ==
  ASSUME LedgerInv, [LedgerNext]_ledger, NEW k \in RowKey, Settled(k)
  PROVE  Settled(k)'
<1> USE LedgerAssumption DEF LedgerInv, LedgerTypeOK, Settled, Done, Exhausted, Live,
                             TerminalStatus
<1>1. ASSUME NEW c \in Caller, NEW l \in RowKey, Claim(c, l) PROVE Settled(k)'
  BY <1>1 DEF Claim, Free
<1>2. ASSUME NEW c \in Caller, NEW outcome \in Outcome, Mark(c, outcome) PROVE Settled(k)'
  <2>1. CASE holds[c] = k
    BY <1>2, <2>1 DEF Mark, OneHolder, Outcome
  <2>2. CASE holds[c] # k
    BY <1>2, <2>2 DEF Mark
  <2>3. QED
    BY <2>1, <2>2
<1>3. ASSUME NEW l \in RowKey, Age(l) PROVE Settled(k)'
  BY <1>3 DEF Age
<1>4. CASE Abandon \/ UNCHANGED ledger
  BY <1>4 DEF Abandon, ledger
<1>5. QED
  BY <1>1, <1>2, <1>3, <1>4 DEF LedgerNext

=============================================================================
