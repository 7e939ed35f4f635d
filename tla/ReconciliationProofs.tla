------------------------ MODULE ReconciliationProofs ------------------------
(***************************************************************************)
(* What a reconciliation check finds: whatever requests do beside it, the  *)
(* balances differ from the rows by the manual edits and nothing else, and *)
(* the drift it reports is what was edited, less what was committed after  *)
(* the accounts were loaded.                                               *)
(***************************************************************************)
EXTENDS Reconciliation, BooksProofs

-----------------------------------------------------------------------------
(* The invariant.  The books no longer balance, but what a session has     *)
(* added to a balance is still the sum of the rows it has inserted.        *)

GainsOK == \A s \in Sessions, c \in Accounts : Gain(s, c) = Total(newRows[s], c)

CheckTyped ==
  /\ stored \in [Accounts -> Int]
  /\ unread \subseteq Accounts
  /\ drift \in [Accounts -> Int]
  /\ edited \in [Accounts -> Int]

CInv == IInv /\ GainsOK /\ CheckTyped /\ OnlyEditsDrift

LEMMA EditsAreTotals ==
  /\ OnlyEditsDrift <=> \A c \in Accounts : balance[c] - edited[c] = Total(rows, c)
  /\ OnlyEditsDrift' <=> \A c \in Accounts : balance'[c] - edited'[c] = Total(rows', c)
  BY DEF OnlyEditsDrift, Total, Nets

LEMMA CheckInit ==
  ASSUME InitCheck
  PROVE  CInv
<1>1. IInv /\ SumsOK
  BY InitInvariant, SumsInit DEF InitCheck
<1>2. GainsOK /\ \A c \in Accounts : balance[c] = Total(rows, c) /\ balance[c] \in Int
  BY <1>1, SumsAreTotals DEF GainsOK, IInv, TypeOK
<1>3. CheckTyped
  BY DEF InitCheck, CheckTyped
<1>4. \A c \in Accounts : edited[c] = 0
  BY DEF InitCheck
<1>5. OnlyEditsDrift
  BY <1>2, <1>4, EditsAreTotals
<1> QED
  BY <1>1, <1>2, <1>3, <1>5 DEF CInv

(* A request goes on while the check does nothing. *)
LEMMA RequestsDrift ==
  ASSUME CInv, [Next]_vars, UNCHANGED <<check, edited>>
  PROVE  CInv'
<1> USE DEF CInv
<1>1. IInv'
  BY InvariantStep
<1>2. CheckTyped'
  BY DEF check, CheckTyped
<1>3. TypeOK /\ TypeOK'
  BY <1>1 DEF IInv
<1>4. ASSUME NEW s \in Sessions, Step(s) \/ Lose(s) \/ \E r \in Requests : Arrive(s, r)
      PROVE  GainsOK' /\ OnlyEditsDrift'
  <2>1. OthersDraftKept(s) /\ (UNCHANGED tables \/ Commit(s))
    BY <1>3, <1>4, KeepsOtherDrafts, TablesKept
  <2>2. ASSUME NEW t \in Sessions, NEW c \in Accounts
        PROVE  Gain(t, c)' = Total(newRows'[t], c)
    <3>1. Gain(t, c) = Total(newRows[t], c)
      BY DEF GainsOK
    <3>2. CASE t = s
      BY <1>3, <1>4, <3>1, <3>2, OwnSums
    <3>3. CASE t # s
      BY <2>1, <3>1, <3>3, OthersGain DEF OthersDraftKept
    <3> QED
      BY <3>2, <3>3
  <2>3. ASSUME NEW c \in Accounts PROVE balance'[c] - edited'[c] = Total(rows', c)
    <3>1. balance[c] - edited[c] = Total(rows, c) /\ balance[c] \in Int
            /\ edited[c] \in Int /\ edited'[c] = edited[c]
      BY <1>3, EditsAreTotals DEF TypeOK, CheckTyped
    <3>2. CASE UNCHANGED tables
      <4>1. balance' = balance /\ rows' = rows
        BY <3>2 DEF tables
      <4> QED
        BY <3>1, <4>1
    <3>3. CASE Commit(s)
      <4>1. balance'[c] = balance[c] + Gain(s, c)
        BY <1>3, <3>3, CommittedBalance
      <4>2. Gain(s, c) = Total(newRows[s], c) /\ Gain(s, c) \in Int
        BY <1>3, SeenTyped DEF GainsOK
      <4>3. Total(rows', c) = Total(rows, c) + Total(newRows[s], c)
        BY <1>3, <3>3, CommittedTotals
      <4> QED
        BY <3>1, <4>1, <4>2, <4>3
    <3> QED
      BY <2>1, <3>2, <3>3
  <2> QED
    BY <2>2, <2>3, EditsAreTotals DEF GainsOK
<1>5. ASSUME UNCHANGED vars PROVE GainsOK' /\ OnlyEditsDrift'
  <2>1. balance' = balance /\ rows' = rows /\ newBalance' = newBalance /\ newRows' = newRows
    BY <1>5 DEF vars, tables, draft
  <2>2. GainsOK'
    BY <2>1 DEF GainsOK, Gain, SeenBalance
  <2>3. OnlyEditsDrift'
    BY <2>1, EditsAreTotals
  <2> QED
    BY <2>2, <2>3
<1>6. GainsOK' /\ OnlyEditsDrift'
  BY <1>4, <1>5 DEF Next, AllServed
<1> QED
  BY <1>1, <1>2, <1>6

(* The rows that count are all there are: none is committed pending.       *)
LEMMA ComputedIsTotal ==
  ASSUME TypeOK, NEW c
  PROVE  Computed(c) = Total(rows, c)
<1>1. ASSUME NEW a \in AuthIds PROVE RestrictValues(rows[a], Counts) = rows[a]
  <2>1. rows[a] \in Seq(Row)
    BY DEF TypeOK
  <2>2. \A i \in DOMAIN rows[a] : Counts(rows[a][i])
    <3>1. \A row \in Row : Counts(row)
      BY DEF Row, TransactionRow, TransactionStatus, Counts
    <3> QED
      BY <2>1, <3>1
  <2>3. {i \in DOMAIN rows[a] : Counts(rows[a][i])} = DOMAIN rows[a]
    BY <2>2
  <2>4. RestrictValues(rows[a], Counts) = [i \in DOMAIN rows[a] |-> rows[a][i]]
    BY <2>3 DEF RestrictValues, Restrict
  <2> QED
    BY <2>1, <2>4
<1>2. [a \in AuthIds |-> NetOf(RestrictValues(rows[a], Counts), c)] = Nets(rows, c)
  BY <1>1 DEF Nets
<1> QED
  BY <1>2 DEF Computed, Total

LEMMA LoadAccountsKeeps ==
  ASSUME CInv, LoadAccounts
  PROVE  CInv'
<1> USE DEF CInv
<1>1. UNCHANGED vars /\ edited' = edited /\ drift' = drift /\ stored' = balance
        /\ unread' = Accounts
  BY DEF LoadAccounts
<1>2. IInv'
  BY <1>1, InvariantStep
<1>3. CheckTyped'
  BY <1>1 DEF CheckTyped, IInv, TypeOK
<1>4. balance' = balance /\ rows' = rows /\ newBalance' = newBalance /\ newRows' = newRows
  BY <1>1 DEF vars, tables, draft
<1>5. GainsOK' /\ OnlyEditsDrift'
  BY <1>1, <1>4, EditsAreTotals DEF GainsOK, Gain, SeenBalance
<1> QED
  BY <1>2, <1>3, <1>5

LEMMA ReadTransactionsKeeps ==
  ASSUME CInv, NEW c \in Accounts, ReadTransactions(c)
  PROVE  CInv'
<1> USE DEF CInv
<1>1. UNCHANGED vars /\ edited' = edited /\ stored' = stored /\ unread' = unread \ {c}
        /\ drift' = [drift EXCEPT ![c] = stored[c] - Computed(c)]
  BY DEF ReadTransactions
<1>2. IInv'
  BY <1>1, InvariantStep
<1>3. Computed(c) \in Int
  <2>1. TypeOK /\ rows \in [AuthIds -> Seq(Row)]
    BY DEF IInv, TypeOK
  <2> QED
    BY <2>1, ComputedIsTotal, NetsAreInts
<1>4. CheckTyped'
  BY <1>1, <1>3 DEF CheckTyped
<1>5. balance' = balance /\ rows' = rows /\ newBalance' = newBalance /\ newRows' = newRows
  BY <1>1 DEF vars, tables, draft
<1>6. GainsOK' /\ OnlyEditsDrift'
  BY <1>1, <1>5, EditsAreTotals DEF GainsOK, Gain, SeenBalance
<1> QED
  BY <1>2, <1>4, <1>6

(* An edit changes a balance that no session has written and not           *)
(* committed: the UPDATE waited for it.                                    *)
LEMMA EditKeeps ==
  ASSUME CInv, NEW c \in Accounts, NEW cents \in Edits, EditByHand(c, cents)
  PROVE  CInv'
<1> USE DEF CInv
<1>1. /\ balance' = [balance EXCEPT ![c] = @ + cents]
      /\ edited' = [edited EXCEPT ![c] = @ + cents]
      /\ cents \in Int
      /\ UNCHANGED <<auth, settlement, rows, answer, processed, draft, handler, pc, reply,
                     result, holder, loop, crashes, check>>
  BY ReconciliationAssumption DEF EditByHand, ReconciliationAssumption
<1>2. TypeOK'
  BY <1>1 DEF IInv, TypeOK, draft, handler
<1>3. HandlerOK'
  BY <1>1 DEF IInv, HandlerOK, HandlerAt, KindAt, QueueAt, Kind, draft, handler
<1>4. WritesAreLocked'
  BY <1>1 DEF IInv, WritesAreLocked, draft
<1>5. CheckedOK'
  BY <1>1 DEF IInv, CheckedOK, CheckedAt, Kind, Current, SeenAuth, draft, handler
<1>6. TermsOK'
  BY <1>1 DEF IInv, TermsOK, draft
<1>7. KeysOK'
  BY <1>1 DEF IInv, KeysOK, OwnAuth, IsPurchase, draft, handler
<1>8. GainsOK'
  <2>1. ASSUME NEW s \in Sessions, NEW x \in Accounts PROVE Gain(s, x)' = Gain(s, x)
    <3>1. newBalance' = newBalance /\ balance \in [Accounts -> Int]
      BY <1>1 DEF IInv, TypeOK, draft
    <3>2. CASE x = c
      <4>1. newBalance[s][x] = None
        BY <3>2, NoneIsNothing DEF EditByHand, IInv, WritesAreLocked
      <4> QED
        BY <1>1, <3>1, <3>2, <4>1 DEF Gain, SeenBalance
    <3>3. CASE x # c
      BY <1>1, <3>1, <3>3 DEF Gain, SeenBalance
    <3> QED
      BY <3>2, <3>3
  <2>2. newRows' = newRows
    BY <1>1 DEF draft
  <2> QED
    BY <2>1, <2>2 DEF GainsOK
<1>9. CheckTyped'
  BY <1>1 DEF CheckTyped, check
<1>10. OnlyEditsDrift'
  <2>1. balance \in [Accounts -> Int] /\ edited \in [Accounts -> Int] /\ rows' = rows
    BY <1>1 DEF IInv, TypeOK, CheckTyped
  <2>2. \A x \in Accounts : balance'[x] - edited'[x] = balance[x] - edited[x]
    BY <1>1, <2>1
  <2> QED
    BY <2>1, <2>2, EditsAreTotals
<1> QED
  BY <1>2, <1>3, <1>4, <1>5, <1>6, <1>7, <1>8, <1>9, <1>10 DEF IInv

LEMMA CheckStep ==
  ASSUME CInv, [NextCheck]_allVars
  PROVE  CInv'
<1>1. CASE Next /\ UNCHANGED <<check, edited, edits>>
  BY <1>1, RequestsDrift
<1>2. CASE UNCHANGED allVars
  BY <1>2, RequestsDrift DEF allVars
<1> QED
  BY <1>1, <1>2, LoadAccountsKeeps, ReadTransactionsKeeps, EditKeeps DEF NextCheck, Reconcile

-----------------------------------------------------------------------------
(* The theorems.                                                           *)

(* The payment core keeps its invariant, and every session its UPDATEs in  *)
(* step with its rows, whatever is edited by hand and whoever reads.       *)
THEOREM CheckInvariant == SpecCheck => []CInv
<1>1. InitCheck => CInv
  BY CheckInit
<1>2. CInv /\ [NextCheck]_allVars => CInv'
  BY CheckStep
<1> QED
  BY <1>1, <1>2, PTL DEF SpecCheck

(* No request ever makes a balance differ from its transactions, whatever  *)
(* it overlaps with: the difference is the sum of the manual edits (what   *)
(* reconcile_all calls drift).                                             *)
THEOREM OnlyEdits == SpecCheck => []OnlyEditsDrift
<1>1. CInv => OnlyEditsDrift
  BY DEF CInv
<1> QED
  BY <1>1, CheckInvariant, PTL

(* The drift a check reports for an account is what was edited by hand,    *)
(* less what was committed to the account since its balance was loaded, at *)
(* whatever moment of the overlap its transactions are read.               *)
THEOREM DriftExplained == SpecCheck => DriftIsExplained
<1>1. ASSUME CInv, [NextCheck]_allVars, NEW c \in unread \ unread'
      PROVE  drift'[c] = edited[c] - (balance[c] - stored[c])
  <2>1. ~ UNCHANGED unread
    BY <1>1
  <2>2. c \in Accounts
    BY <1>1 DEF CInv, CheckTyped
  <2>3. ReadTransactions(c)
    <3>1. PICK x \in Accounts : ReadTransactions(x)
      BY <1>1, <2>1, <2>2
      DEF NextCheck, Reconcile, LoadAccounts, EditByHand, check, allVars
    <3>2. unread' = unread \ {x}
      BY <3>1 DEF ReadTransactions
    <3>3. x = c
      BY <1>1, <3>2
    <3> QED
      BY <3>1, <3>3
  <2>4. drift'[c] = stored[c] - Computed(c)
    BY <1>1, <2>2, <2>3 DEF ReadTransactions, CInv, CheckTyped
  <2>5. Computed(c) = balance[c] - edited[c]
    BY <1>1, <2>2, ComputedIsTotal, EditsAreTotals DEF CInv, IInv
  <2>6. balance[c] \in Int /\ edited[c] \in Int /\ stored[c] \in Int
    BY <1>1, <2>2 DEF CInv, CheckTyped, IInv, TypeOK
  <2> QED
    BY <2>4, <2>5, <2>6
<1>2. CInv /\ [NextCheck]_allVars
        => [\A c \in unread \ unread' : drift'[c] = edited[c] - (balance[c] - stored[c])]_allVars
  BY <1>1
<1> QED
  BY <1>2, CheckInvariant, PTL DEF SpecCheck, DriftIsExplained
=============================================================================
