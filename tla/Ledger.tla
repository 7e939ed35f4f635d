------------------------------- MODULE Ledger -------------------------------
(***************************************************************************)
(* The rows of the transactions table and the arithmetic on them:          *)
(* app/services/ledger_service.py, app/models/transaction.py and the       *)
(* reversal of app/services/payment_service.py.                            *)
(***************************************************************************)
EXTENDS Integers, Sequences, Functions

TransactionType == {"debit", "credit"}

(* post_entries creates rows already "posted"; a refund flags the rows it  *)
(* offsets "reversed".  No code path leaves a committed row "pending".     *)
TransactionStatus == {"posted", "reversed"}

TransactionRow(accounts) ==
  [account: accounts, type: TransactionType, cents: Nat, status: TransactionStatus]

(* A LedgerEntry, as the row that post_entries makes of it. *)
Entry(account, type, cents) ==
  [account |-> account, type |-> type, cents |-> cents, status |-> "posted"]

(* Mutant: credits are recorded and not applied. *)
DeltaOfDebitOnly(row) == IF row.type = "credit" THEN 0 ELSE -row.cents

(* The delta that a row applies to the balance of its account. *)
Delta(row) == IF row.type = "credit" THEN row.cents ELSE -row.cents

CentsOf(rows, type) ==
  SumFunction([i \in DOMAIN rows |-> IF rows[i].type = type THEN rows[i].cents ELSE 0])

(* The assertion at the head of post_entries. *)
Balanced(rows) == CentsOf(rows, "debit") = CentsOf(rows, "credit")

(* Mutant: the reversal repeats the original. *)
SameType(type) == type

(* _opposite *)
Opposite(type) == IF type = "credit" THEN "debit" ELSE "credit"

(* What refund_settlement posts to offset a row. *)
Reversal(row) == Entry(row.account, Opposite(row.type), row.cents)

(* Mutant: the originals are edited instead of flagged. *)
FlipInPlace(rows, n) ==
  [i \in DOMAIN rows |-> IF i <= n THEN [rows[i] EXCEPT !.type = Opposite(@)] ELSE rows[i]]

(* mark_reversed on the first n rows of a settlement: rows are only ever   *)
(* appended, so the n rows that were listed are its first n.               *)
MarkReversed(rows, n) ==
  [i \in DOMAIN rows |-> IF i <= n THEN [rows[i] EXCEPT !.status = "reversed"] ELSE rows[i]]

-----------------------------------------------------------------------------

(* What the rows of one settlement did to the balance of an account. *)
NetOf(rows, account) ==
  SumFunction([i \in DOMAIN rows |->
                 IF rows[i].account # account THEN 0
                 ELSE IF rows[i].type = "credit" THEN rows[i].cents ELSE -rows[i].cents])

(* Two rows record the same posting, whatever their status flag says. *)
SamePosting(r1, r2) == [r1 EXCEPT !.status = "posted"] = [r2 EXCEPT !.status = "posted"]
=============================================================================
