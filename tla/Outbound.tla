------------------------------ MODULE Outbound ------------------------------
(***************************************************************************)
(* The outbound ledger of src/pipeline/outbound.ts: one row per            *)
(* idempotency key, claimed before a message is sent and marked with what  *)
(* came of it.  Every statement runs alone on the single SQLite handle, so *)
(* a claim and a mark are atomic; the send between them is not, and other  *)
(* callers, a restart of the process or thirty minutes may fall into it.   *)
(*                                                                         *)
(* The clock is reduced to one bit per row: whether updated_at is older    *)
(* than the stale window.                                                  *)
(***************************************************************************)
EXTENDS Naturals

CONSTANTS
  RowKey,      \* idempotency keys
  Caller,      \* who may claim: one send in flight each
  NoKey,       \* what a caller holds that holds no row
  MaxAttempts  \* opts.maxAttempts

ASSUME LedgerAssumption ==
  /\ NoKey \notin RowKey
  /\ MaxAttempts \in Nat \ {0}

VARIABLES
  row,   \* [RowKey -> [status, attempts, stale]]: outbound_messages
  holds  \* [Caller -> RowKey]: claims answered with duplicate = null, not yet marked

ledger == <<row, holds>>

\* TERMINAL_STATUSES, as far as the program writes them.
TerminalStatus == {"sent", "partial", "skipped"}
Outcome == TerminalStatus \cup {"failed"}

LedgerTypeOK ==
  /\ row \in [RowKey -> [status : Outcome \cup {"none", "sending"},
                         attempts : Nat, stale : BOOLEAN]]
  /\ holds \in [Caller -> RowKey \cup {NoKey}]

-----------------------------------------------------------------------------
(* The verdicts of claim().                                                *)

Done(k) == row[k].status \in TerminalStatus

Live(k) == row[k].status \in {"sending", "failed"}

Exhausted(k) == Live(k) /\ row[k].attempts >= MaxAttempts

\* Bug: a row in `sending' is taken over at once.
FreeAtOnce(k) ==
  \/ row[k].status = "none"
  \/ Live(k) /\ row[k].attempts < MaxAttempts

Free(k) ==
  \/ row[k].status = "none"
  \/ Live(k) /\ row[k].attempts < MaxAttempts
             /\ (row[k].status = "failed" \/ row[k].stale)

InProgress(k) == row[k].status = "sending" /\ ~Exhausted(k) /\ ~row[k].stale

-----------------------------------------------------------------------------
Claim(c, k) ==
  /\ holds[c] = NoKey
  /\ Free(k)
  /\ row' = [row EXCEPT ![k] = [status |-> "sending", attempts |-> @.attempts + 1,
                                stale |-> FALSE]]
  /\ holds' = [holds EXCEPT ![c] = k]

\* mark() writes whatever the status is by now.
Mark(c, outcome) ==
  /\ holds[c] # NoKey
  /\ row' = [row EXCEPT ![holds[c]] = [@ EXCEPT !.status = outcome, !.stale = FALSE]]
  /\ holds' = [holds EXCEPT ![c] = NoKey]

\* staleMs pass since the row was written.  A send is over long before: every
\* request of the OneBot and Bilibili clients times out within seconds.
Age(k) ==
  /\ row[k].status = "sending" /\ ~row[k].stale
  /\ \A c \in Caller : holds[c] # k
  /\ row' = [row EXCEPT ![k].stale = TRUE]
  /\ UNCHANGED holds

\* The process goes down under its callers; the rows stay as they are.
Abandon ==
  /\ holds' = [c \in Caller |-> NoKey]
  /\ UNCHANGED row

LedgerInit ==
  /\ row = [k \in RowKey |-> [status |-> "none", attempts |-> 0, stale |-> FALSE]]
  /\ holds = [c \in Caller |-> NoKey]

LedgerNext ==
  \/ \E c \in Caller, k \in RowKey : Claim(c, k)
  \/ \E c \in Caller, outcome \in Outcome : Mark(c, outcome)
  \/ \E k \in RowKey : Age(k)
  \/ Abandon

LedgerSpec == LedgerInit /\ [][LedgerNext]_ledger

-----------------------------------------------------------------------------
\* Two callers never send the same message at a time: a row has at most one
\* holder, and while it is held the row says so (claim's reclaim rules).
OneHolder ==
  \A c \in Caller : holds[c] # NoKey =>
    /\ row[holds[c]].status = "sending"
    /\ \A d \in Caller \ {c} : holds[d] # holds[c]

\* A message is handed to the provider at most MaxAttempts times over the
\* whole life of its row, restarts included.
BudgetIsKept == \A k \in RowKey : row[k].attempts <= MaxAttempts

\* A row that reached a terminal status is never driven again (the comment on
\* TERMINAL_STATUSES: the content is gone or visible).
TerminalIsFinal ==
  [][\A k \in RowKey : Done(k) => row'[k].status = row[k].status]_ledger

=============================================================================
