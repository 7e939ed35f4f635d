------------------------- MODULE PaymentsProperties -------------------------
(***************************************************************************)
(* What the payment core promises: the properties that the runs of         *)
(* MCPayments check and PaymentsProofs proves.                             *)
(***************************************************************************)
EXTENDS Payments

Steps ==
  {"idle", "lookup", "claim", "insertAuth", "readNew", "readStatus", "writeStatus",
   "readAuth", "readSettlement", "insertSettlement", "post", "readRefund", "listRows",
   "markReversed", "respond", "commit", "rollback", "done"}

Replies == {"none", "ok", "ignored", "conflict", "rejected", "error"}

Row == TransactionRow(Accounts)

(* Every variable holds values of the table column, Python value or lock   *)
(* it stands for.                                                          *)
TypeOK ==
  /\ auth \in [AuthIds -> Authorization \cup {None}]
  /\ settlement \in [AuthIds -> {"none", "settled", "reversed"}]
  /\ rows \in [AuthIds -> Seq(Row)]
  /\ balance \in [Accounts -> Int]
  /\ answer \in [Keys -> AuthIds \cup {None}]
  /\ processed \in SUBSET Events
  /\ claim \in [Sessions -> Keys \cup Events \cup {None}]
  /\ newAuth \in [Sessions -> [AuthIds -> Authorization \cup {None}]]
  /\ newSettlement \in [Sessions -> [AuthIds -> {"none", "settled", "reversed"}]]
  /\ newRows \in [Sessions -> [AuthIds -> Seq(Row)]]
  /\ newBalance \in [Sessions -> [Accounts -> Int \cup {None}]]
  /\ listed \in [Sessions -> Nat]
  /\ pc \in [Sessions -> Steps]
  /\ req \in [Sessions -> Requests \cup {None}]
  /\ queue \in [Sessions -> Seq(AuthIds)]
  /\ entries \in [Sessions -> Seq(Row)]
  /\ reply \in [Sessions -> Replies]
  /\ result \in [Sessions -> AuthIds \cup {None}]
  /\ holder \in [Locks -> Sessions \cup {None}]
  /\ loop \in Sessions \cup {None}
  /\ crashes \in 0 .. MaxCrashes

-----------------------------------------------------------------------------
(* Safety.                                                                 *)

IsPurchase(s) == req[s] # None /\ req[s].kind = "purchase"

(* An Idempotency-Key buys at most once: of all the requests that carry a  *)
(* key, whatever their order, overlap, failures and retries, at most one   *)
(* leaves an authorization behind (app/api/payments.py:24-27).             *)
KeyBuysOnce ==
  \A s, t \in Sessions :
    (IsPurchase(s) /\ IsPurchase(t) /\ req[s].key = req[t].key
       /\ auth[s] # None /\ auth[t] # None) => s = t

(* A purchase is committed whole or not at all: its authorization, its     *)
(* settlement, its ledger rows and the response stored under its key       *)
(* appear together (get_db: one request, one transaction).                 *)
PurchaseIsWhole ==
  \A s \in Sessions : IsPurchase(s) =>
    /\ auth[s] # None <=> settlement[s] # "none"
    /\ auth[s] # None <=> rows[s] # <<>>
    /\ auth[s] # None <=> answer[req[s].key] = s

EventsOf(kind, a) ==
  {r.event : r \in {q \in Requests : q.kind = kind /\ kind \in OnRef /\ q.ref = a}}

SettlementEventsOf(a) ==
  {r.event : r \in {q \in Requests : q.kind = "settled" /\ a \in Range(q.refs)}}

(* An event_id is recorded as processed exactly when what it announced has *)
(* been applied: no event is burned without its effect, and no             *)
(* authorization advances without an event that is recorded                *)
(* (processed_webhook_event_repository.try_claim, "not permanently burned").*)
EventsMatchEffects ==
  \A a \in Refs :
    /\ Past[a] = "absent" => (auth[a] # None <=> EventsOf("created", a) \cap processed # {})
    /\ Past[a] \in {"absent", "pending"} =>
         /\ (auth[a] # None /\ auth[a].status # "pending")
              <=> (EventsOf("approved", a) \cup EventsOf("declined", a)) \cap processed # {}
    /\ Past[a] # "settled" =>
         (settlement[a] # "none" <=> SettlementEventsOf(a) \cap processed # {})

(* The entries of a settlement are posted once: a settled authorization    *)
(* has exactly the rows that its terms call for, however many batches,     *)
(* redeliveries and retries named it.                                      *)
PostedOnce ==
  \A a \in AuthIds :
    settlement[a] = "settled" => rows[a] = SettlementEntries(auth[a])

(* The stored balance of every account is what its committed transactions  *)
(* add up to: what reconcile_all checks.                                   *)
BalanceMatchesRows ==
  \A c \in Accounts :
    balance[c] = SumFunction([a \in AuthIds |-> NetOf(rows[a], c)])

(* A refund nets every balance back to where it was before the purchase    *)
(* (refund_settlement's docstring): the rows of a reversed settlement      *)
(* cancel out, account by account.                                         *)
RefundRestores ==
  \A a \in AuthIds :
    settlement[a] = "reversed" => \A c \in Accounts : NetOf(rows[a], c) = 0

(* Money moved only on an authorization that is still authorized: none     *)
(* that was settled is shown as declined or pending.                       *)
SettledIsAuthorized ==
  \A a \in AuthIds :
    settlement[a] # "none" => auth[a] # None /\ auth[a].status = "authorized"

(* The books always balance before they are posted: what is left of the    *)
(* shares of an authorization - without the zero ones, the share of a      *)
(* missing transcriptionist moved to the platform - adds up to its debit,  *)
(* and so do the rows a refund finds, whatever was posted and reversed on  *)
(* them before.  The ValueError of post_entries is never raised.           *)
NeverUnbalanced ==
  \A s \in Sessions :
    /\ pc[s] = "readSettlement" =>
         LET h == SeenAuth(s, Current(s))
         IN Splittable(h.amount) /\ HasAccounts(h) => Balanced(SettlementEntries(h))
    /\ pc[s] = "listRows" => Balanced(rows[Current(s)])

(* Settlements, refunds and requests that fail half-way move money between *)
(* accounts and never make or lose any: what a researcher pays is what the *)
(* others are credited (post_entries: debits == credits, one transaction). *)
MoneyIsConserved == SumFunction(balance) = SumFunction(Opening)

Heard(s) == pc[s] \in {"commit", "done"} /\ reply[s] = "ok"

(* docs/api-spec.md: "Retrying with the same key returns the original      *)
(* response instead of creating a second purchase".                        *)
SameKeySameAnswer ==
  \A s, t \in Sessions :
    (IsPurchase(s) /\ IsPurchase(t) /\ req[s].key = req[t].key /\ Heard(s) /\ Heard(t))
      => result[s] = result[t]

-----------------------------------------------------------------------------
(* What a step may never do.                                               *)

(* The audit trail is additive: committed transactions are never removed   *)
(* or changed but for the flag posted -> reversed, which never goes back   *)
(* (transaction_repository.mark_reversed).                                 *)
TrailIsAdditive ==
  [][\A a \in AuthIds :
       /\ Len(rows[a]) <= Len(rows'[a])
       /\ \A i \in DOMAIN rows[a] :
            /\ SamePosting(rows[a][i], rows'[a][i])
            /\ rows[a][i].status = "reversed" => rows'[a][i].status = "reversed"]_vars

(* README.md's state diagram: declined is a final state, and an            *)
(* authorization that is authorized is never declined afterwards.          *)
DecisionIsFinal ==
  [][\A a \in AuthIds :
       (auth[a] # None /\ auth[a].status # "pending") => auth'[a] = auth[a]]_vars

-----------------------------------------------------------------------------
(* Liveness.                                                               *)

(* Every request that is accepted ends - the client is answered and the    *)
(* session is closed, with all locks released: while some are open, there  *)
(* will be a moment when none is.  A session opens only once, so this is   *)
(* that each of them ends.                                                 *)
EveryRequestEnds == (\E s \in Sessions : Open(s)) ~> (\A s \in Sessions : ~ Open(s))

(* card_authorization's docstring: it "authorizes and settles a purchase   *)
(* in one call", and docs/payment-flow.md: "Every failure in this path is  *)
(* [...] returned as 400" - in either case the request is answered.        *)
CardAuthEnds ==
  \A s \in Sessions :
    (Open(s) /\ req[s].kind = "cardauth") ~> pc[s] = "done"
=============================================================================
