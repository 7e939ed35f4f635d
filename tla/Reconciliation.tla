--------------------------- MODULE Reconciliation ---------------------------
(***************************************************************************)
(* The reconciliation check of app/services/reconciliation_service.py run  *)
(* beside the payment core, as scripts/reconcile.py and GET                *)
(* /reconciliation do: one SELECT loads every account with its balance,    *)
(* then one SELECT for each account loads its transactions.  Requests      *)
(* commit in between.  The ledger may also be edited by hand, which the    *)
(* check is there to notice.                                               *)
(***************************************************************************)
EXTENDS PaymentsProperties

CONSTANTS
  Edits,     \* amounts by which a manual edit may change a balance
  MaxEdits   \* how many manual edits a run may see

ReconciliationAssumption == Edits \subseteq Int /\ MaxEdits \in Nat

ASSUME ReconciliationAssumption

VARIABLES
  phase,    \* "idle", "reading" or "done"
  stored,   \* [Accounts -> balance_cents as the first SELECT loaded it]
  unread,   \* accounts whose transactions are still to be read
  drift,    \* [Accounts -> drift_cents; 0 when there is no discrepancy]
  edited,   \* [Accounts -> what manual edits added so far]
  edits     \* how many there were

check == <<phase, stored, unread, drift>>
allVars == <<vars, check, edited, edits>>

InitCheck ==
  /\ Init
  /\ phase = "idle"
  /\ stored = [c \in Accounts |-> 0]
  /\ unread = {}
  /\ drift = [c \in Accounts |-> 0]
  /\ edited = [c \in Accounts |-> 0]
  /\ edits = 0

-----------------------------------------------------------------------------

(* select(LedgerAccount) *)
LoadAccounts ==
  /\ phase = "idle"
  /\ phase' = "reading"
  /\ stored' = balance
  /\ unread' = Accounts
  /\ UNCHANGED <<vars, drift, edited, edits>>

(* Mutant: only posted transactions are counted. *)
CountsPostedOnly(row) == row.status = "posted"

(* Transaction.status != pending: a reversed row still counts.             *)
Counts(row) == row.status # "pending"

(* _computed_balance *)
Computed(c) ==
  SumFunction([a \in AuthIds |-> NetOf(RestrictValues(rows[a], Counts), c)])

(* The accounts come in no particular order.                               *)
ReadTransactions(c) ==
  /\ phase = "reading"
  /\ c \in unread
  /\ drift' = [drift EXCEPT ![c] = stored[c] - Computed(c)]
  /\ unread' = unread \ {c}
  /\ phase' = IF unread' = {} THEN "done" ELSE "reading"
  /\ UNCHANGED <<vars, stored, edited, edits>>

(* Somebody updates a balance past the service; the UPDATE waits for the   *)
(* row like any other.                                                     *)
EditByHand(c, cents) ==
  /\ edits < MaxEdits
  /\ holder[LockOf(<<"account", c>>)] = None
  /\ balance' = [balance EXCEPT ![c] = @ + cents]
  /\ edited' = [edited EXCEPT ![c] = @ + cents]
  /\ edits' = edits + 1
  /\ UNCHANGED <<auth, settlement, rows, answer, processed, draft, handler, pc, reply,
                 result, holder, loop, crashes, check>>

Reconcile == LoadAccounts \/ \E c \in Accounts : ReadTransactions(c)

NextCheck ==
  \/ Next /\ UNCHANGED <<check, edited, edits>>
  \/ Reconcile
  \/ \E c \in Accounts, cents \in Edits : EditByHand(c, cents)

SpecCheck == InitCheck /\ [][NextCheck]_allVars

-----------------------------------------------------------------------------

(* Whatever requests do, the balance of an account differs from its        *)
(* transactions by the manual edits and nothing else: "a bug in a future   *)
(* code path, a manual DB edit, or a bypassed service layer" is what drift *)
(* means (reconcile_all).                                                  *)
OnlyEditsDrift ==
  \A c \in Accounts :
    balance[c] - edited[c] = SumFunction([a \in AuthIds |-> NetOf(rows[a], c)])

(* What the report calls drift is what was edited by hand, less what was   *)
(* committed to the account after the first SELECT loaded it: a check that *)
(* nothing overlaps is exact, and one that requests overlap may report a   *)
(* sound account, or miss an edit that they happen to cancel.              *)
DriftIsExplained ==
  [][\A c \in unread \ unread' : drift'[c] = edited[c] - (balance[c] - stored[c])]_allVars
=============================================================================
