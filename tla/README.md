# GenPay API: verification project

TLA+ models of GenPay (`src/app`): purchases, the processor's authorization and
settlement events, refunds and the double-entry ledger they post to, the delivery
of those events, the reconciliation check, and the start-up and catalogue the
payment core rests on. TLC checks the models on small instances; TLAPS proves what
matters most for every value of the constants.

    tlc -config refunds.cfg MCPayments.tla        # one run; PROJECT.json lists them all
    tlapm PaymentsProofs.tla                      # the proofs of one of the ...Proofs modules

## 1. The system

A FastAPI service over SQLAlchemy and one database (PostgreSQL in production,
SQLite in development). Every request runs in one database session, `get_db()`,
which commits once at the end or rolls back on any exception.

| component (src/app) | state it keeps | operations | what makes it correct | module |
|---|---|---|---|---|
| revenue split (`services/revenue_split.py`) | none; configured shares | `split_amount`, `RevenueSplitConfig` | cents are neither lost nor invented; Hamilton's apportionment | `RevenueSplit` |
| ledger (`services/ledger_service.py`, `repositories/transaction_repository.py`, `ledger_account_repository.py`) | `transactions`, `ledger_accounts.balance_cents` | `post_entries`, `adjust_balance`, `list_for_settlement`, `mark_reversed` | stored balances equal the trail; the trail is additive | `Ledger`, `Payments` |
| payments (`services/payment_service.py`, `api/payments.py`) | `authorizations`, `settlements` | `purchase_record`, `settle_authorization`, `refund_settlement` | a purchase is whole; settled once; a refund nets to zero; the lifecycle is kept | `Payments`, `Lifecycle` |
| processor events (`services/processor_event_service.py`, `api/webhooks.py`) | status of an authorization | created, approved, declined, settlement.completed | decisions are final; an event is applied exactly when it is recorded | `Payments`, `Delivery` |
| idempotency (`idempotency_key_repository.py`, `processed_webhook_event_repository.py`) | `idempotency_keys`, `processed_webhook_events` | look up, claim by INSERT, store the response | a key buys once; a failed attempt does not burn it | `Payments` |
| request transaction (`database/db.py`) | the open sessions | commit, rollback | all or nothing; every request ends | `Payments` |
| webhook signature (`security/webhook_signature.py`) | none | sign, verify | a delayed event can still be sent again | `Delivery` |
| reconciliation (`services/reconciliation_service.py`, `scripts/reconcile.py`) | none | compare balances with the trail | reports what was changed past the service | `Reconciliation` |
| catalogue and provisioning (`user_service`, `archive_service`, `record_service`) | users, archives, records, accounts | create, list | one account per owner; pages miss nobody | `Catalog` |
| API keys (`api/deps.py`) | `api_clients` | gate a request | | `Catalog` |
| start-up (`main.py`, `database/seed_data.py`) | initial rows | check secrets, create tables, seed | seeded once | `Catalog` |
| card authorization (`services/settlement_service.py`) | none of its own | resolve record and buyer, purchase | as a purchase; the default buyer is the seeded one | `Payments`, `Catalog` |

How they interact: the routes call the services, the services call the
repositories, all on the session of the request; two requests meet only in the
database (committed rows, row and unique-key locks) and on the event loop. The
processor and its network are outside; so is whoever edits the database by hand.

What is hard here:

- **Interleaving.** Handlers are synchronous functions in worker threads. Nothing
  locks a row before it is written, so every check (`status == settled`,
  `status == pending`, "no settlement yet", "no stored response", "no platform
  account") is made on what was committed at that moment and may be stale when
  acted on. What still holds rests on unique constraints, on the in-database
  increment of `adjust_balance`, which reads the balance only when it has the row,
  and on row locks kept until the commit.
- **Order of commit and response.** The pinned FastAPI (0.141) runs the code after
  a dependency's `yield` once the response has been sent, so a client hears of a
  purchase, and the processor of an event, before it is committed.
- **Delivery.** Events come again, late and out of order, signed by a clock that is
  not ours; an event that comes too early fails and has to succeed later.
- **Lock order.** Account rows are locked in the order of the ledger entries,
  settlements in the order of a batch.
- **The event loop.** `card_authorization` is an `async def` with blocking
  database calls; while it waits for a lock no other request can be accepted,
  answered or committed.
- **Failures.** A statement may fail in the middle of a posting (unique constraint,
  INTEGER overflow, deadlock, busy timeout) and a worker may die anywhere.
- **Reads in several statements.** The reconciliation check and the pages of a list
  see the database at different moments.

PROJECT.json lists each hazard at its line and the property that covers it.

## 2. Modules

| module | what it is |
|---|---|
| `RevenueSplit` | `split_amount` as operators |
| `Ledger` | ledger rows, the delta a row applies, reversal and flagging, the balance check |
| `Payments` | the requests and their sessions: the state machine, one action per statement that reads or writes shared state |
| `PaymentsProperties` | type invariant, invariants, action and liveness properties of `Payments` |
| `Lifecycle` | what the payment core promises, without statements: an authorization moves from stage to stage, a request takes effect in one step or not at all |
| `PaymentsRefinement` | `Payments` implements `Lifecycle`, and balances show the stages |
| `Reconciliation` | `Payments` composed with the reconciliation check and manual edits |
| `Delivery` | the processor, the network, the signature check and the webhook route, on top of `Lifecycle` |
| `Catalog` | instances that start and seed, requests that create and list users, archives and records |
| `MC...` | the instances that the `.cfg` files check |
| `...Proofs` | theorems and their proofs (section 4) |

`Payments` and `Delivery` meet in `Lifecycle`: the first shows that the statements
of the handlers amount to its steps, the second uses those steps as the effect of a
commit. `Catalog` provides what `Payments` takes as constants.

A definition preceded by `Mutant:` is not part of the model. It is a plausible
mistake in the definition that follows it, kept to confirm that the properties
notice it.

### How `Payments` corresponds to the code

*State.* `auth`, `settlement`, `rows`, `balance`, `answer` and `processed` are the
committed tables. `claim`, `newAuth`, `newSettlement`, `newRows`,
`newBalance` and `listed` are what a session has flushed and not committed. `pc`, `req`, `queue`,
`entries`, `reply` and `result` are the progress of the handler. `holder` maps
each lock to the session that holds it, `loop` names the handler that occupies the
event loop.

*Identities.* A session is identified with its request, and the authorization a
purchase creates under a fresh UUID with the session that creates it. The
authorizations of the processor are named by its references (`Refs`). A
settlement is identified with its authorization (`authorization_id` is unique).

*Steps.* `pc` names the statement to be executed next. Statements that touch only
rows which no request changes (records, users, accounts' owners) are part of the
step that follows or precedes them; the checks on them are guards.

| code | actions |
|---|---|
| `POST /purchase` | `Arrive`, `LookUpKey`, `Claim` or `ClaimTaken`, `Purchase` or `RejectPurchase`, then settlement |
| `POST /webhooks/card-auth` | `Arrive` (takes the loop), `Purchase` or `RejectPurchase`, then settlement |
| `authorization.created` | `Claim` or `ClaimTaken`, `ReadNew`, `CreatePending` or `CreateDuplicate` |
| `authorization.approved`, `.declined` | `Claim` or `ClaimTaken`, `ReadStatus`, `WriteStatus` |
| `settlement.completed` | `Claim` or `ClaimTaken`, then settlement for each authorization of the batch |
| `settle_authorization` | `ReadAuth`, `ReadSettlement`, `InsertSettlement` or `SettleDuplicate`, one of the `Post...` actions for each entry |
| `refund_settlement` | `ReadForRefund`, `ListRows`, `Post...`, `FlagReversed` |
| `get_db` | `Respond`, `Commit`, `Rollback` |
| database and machine | `DeadlockAbort`, `BusyTimeout`, `Abort` in the failing statements, `Lose` |

*Database.* A read sees what is committed at that moment and the session's own
writes (READ COMMITTED; in SQLite a reader outside a write transaction sees the
same). A write waits while another session holds the row or the unique value and
keeps it until its session ends. An INSERT that waited succeeds if the other one
rolled back and collides if it committed. A failed statement frees the locks of its
transaction at once, while the exception still has to pass through `get_db`.
`adjust_balance` is the one UPDATE that computes with the row it finds: it builds the
new version on the balance that is committed when it gets the row
(`AdjustedBalance`), and `Commit` installs that version. A balance read before the
wait, as in a read-modify-write in Python, would undo what another session committed
meanwhile; the mutant `ReadsBeforeWaiting` is that mistake. In
SQLite all locks are one, and a waiter may give up at any time. Foreign-key checks
lock keys that no request changes, so they never wait and are left out.

*Order of rows.* `list_for_settlement` has no `ORDER BY`; a refund handles the rows
in any order. Rows are only appended, so the ones a refund listed are the first
`listed` of the settlement.

*What is fixed.* The catalogue (`Records`, `Users`, prices, accounts and their
owners) is given by constants, some of them deliberately incomplete: a user
without an account, a record without a transcriptionist, a free record, unknown
ids. `Past` gives the authorizations that earlier requests left behind;
`PastAssumption` demands that they could have come about and that `Opening`, the
balances, agree with them.

### `Lifecycle` and `PaymentsRefinement`

`stage` puts the two tables together: the status of the settlement where there is
one, else the status of the authorization, else "absent" (`StageOf`). The other
variables are the committed tables of the same name. A commit of `Payments` maps to
one step of `Lifecycle`, every other action to a stutter. What this says beyond the
invariants is that a request takes effect from the stage its code checked, however
long ago it checked it: an approval that commits finds the authorization pending
still, a batch all its authorizations authorized.

### How `Reconciliation` corresponds to the code

`LoadAccounts` is the first SELECT of `reconcile_all`, which loads the balances and
keeps them (`stored`); `ReadTransactions(c)` is the SELECT of `_computed_balance`
for one account, and what the loop appends to `discrepancies` becomes `drift[c]`.
The accounts come in any order. Between any two of these, the requests of `Payments`
go on. `EditByHand` is the "manual DB edit" of the docstring; like any UPDATE it
waits for the row. The script and the route differ only in how they print the
report, which is left out.

### How `Delivery` corresponds to the code

| code | actions |
|---|---|
| `sign_payload`, called by the processor | `Send` |
| `verify_webhook_signature`, then the parsing of the envelope | `Verdict` |
| `processor_events`: 401 and 400 before the claim; duplicate; `ValueError` | `Refuse`, `Ignore`, `Reject` |
| the claim and the checks of `handle_event`, then what it writes, or the unique constraint that refuses it | `Check`, then `Write` or `FailToWrite` |
| the response; the commit of `get_db` | `Respond`, `Commit` |
| network, time, machine | `Lose`, `Tick`, `MayRepeat`, `MayHear`, `Crash` |

One copy of an event is in flight at a time. It may be delivered any number of
times, so repetition is not bounded; sending again replaces it. The age of a copy is
what matters of its timestamp and is negative when the processor's clock is ahead.
Sessions overlap. The checks of a handler read what is committed and lock nothing, so
any number of sessions may find an authorization as they expect it. To write, a
session waits for the one that has written the same row (`CanWrite`, `WritesSameRow`:
decisions and creations write `authorizations`, batches write `settlements`). An
INSERT that waited in vain collides with a unique constraint and is answered with 500
(`Collides`, `FailToWrite`); the UPDATE of a decision names its row by the id alone
and never fails, so that of two decisions that overlap the later commit wins
(`Moved`).

A batch is checked as a whole and written as a whole, and a session's rows are the
stage they amount to; `ImplementsLifecycle` shows of the statements of `Payments` that
this is what they come to. Account rows, and the deadlocks over them, are in
`Payments` only: here they would be one more way of failing with everything rolled
back.

### How `Catalog` corresponds to the code

An actor is an instance that starts or a request, with one database session on
PostgreSQL. `rows` are the committed rows of `users`, `historical_archives`,
`research_records`, `ledger_accounts` and `api_clients`; a row is its unique name,
who inserted it and the rows its foreign keys refer to. `todo` is the list of rows
that a service inserts one `flush()` at a time (`Insert`), `draft` what it has
flushed. An INSERT waits while another session has inserted the same unique value
(`Waits`), and fails if the value is committed or a foreign key dangles (`Fails`).

| code | actions |
|---|---|
| `lifespan`, `_check_secrets_are_not_defaults` | `Boot` (not for `Misconfigured` instances) |
| `seed` | `CheckPlatform`, `Insert`, `CommitSeed`, `AlreadySeeded` |
| `require_api_key` | `Deny`, `Admit`, `AdmitReader` |
| `POST /users`, `/archives`, `/records` | `Arrive`, `Admit`, `Insert`, `CommitRequest` or `Violate` |
| `GET /users`, page after page | `AdmitReader`, `ReadPage` |
| `handle_card_authorization` without a `user_id` | `Arrive`, `PickResearcher` |
| machine | `Crash` |

`created_at` is `now()`, on PostgreSQL the start of the transaction, so the rows of
one transaction share it (`began`, kept for the transactions that insert users, whose
order the readers here depend on). The clock need not have moved between two
transactions (`Begin`), so users of different transactions may tie as well: nothing
in the source rules it out, though with microseconds it is rare. `Pages` is what `ORDER BY created_at LIMIT OFFSET` may return: rows
that tie come in any order.

## 3. Runs

Bounds that the configurations name: `Sessions` (how many requests are served; each
picks any request of the mix, so a repeated request is a retry or a redelivery),
`Requests` (the mix), `MaxCrashes` (how many sessions may be lost), `MaxCents` (the
largest value of the INTEGER column, small where overflow is to happen), `Serial`
(kinds of request that are not sent for one authorization while another is open
for it), `Past`, `Edits` and `MaxEdits` (manual edits), `Tolerance`, `Leads` and
`Seals` (the signature), `Limit` and `DefaultPage` (rows of a page), `Inactive` and
`Misconfigured`. Two requests suffice for every race on one row, three for a third
party that commits in between or repeats the request afterwards. The processor run
has four, as an authorization takes three events to be settled; with its `MaxCents`
of 15 the archive's balance holds what the batch of both authorizations credits it, or
what a purchase does, but not both, so that the later one overflows after some of its
entries are posted. Another batch names an authorization twice.

| run | states | question |
|---|---|---|
| `split` | 14 k | is every amount split to the cent, as closely as possible, and monotonically under the default shares? |
| `refunds` | 670 k | with purchases under one key, a failing purchase, refunds and a lost session: does a key buy once, is a purchase whole, does a refund restore every balance, do balances show the stages, is every commit a step of the lifecycle? |
| `processor` | 379 k | are events recorded exactly when applied, entries posted once, money neither made nor lost, decisions final and commits steps of the lifecycle, with duplicate and overlapping deliveries in any order, a batch that names one authorization twice, a purchase after which the larger batch overflows a balance, and one by an unknown user? |
| `contention` | 37 k | do clients of one key hear of one purchase, and does every request end although locks are taken in opposite orders? |
| `sqlite` | 120 k | do requests end and decisions hold under SQLite's locking? |
| `reconciliation` | 524 k | with unordered refunds, decisions, batches and purchases, columns near their limit and one manual edit: is the edit all that ever drifts, and what does the report say when requests commit during the check? |
| `delivery` | 160 k | is what the processor heard kept, does every event take effect in the end, and is every commit a step of the lifecycle, over a network that loses, repeats, delays and reorders, with sessions that overlap between check and commit? |
| `catalog` | 1.18 M | is the database seeded once, is every owner provisioned, is the default researcher the seeded one, does a walk miss nobody, and does every wait end? |

What the bounds of the last three are for. `delivery`: three events in the order that
one authorization needs, the last with a second authorization, so that order
matters, and a fourth that creates the first once more, so that two sessions find it
absent and a unique constraint has to decide; a tolerance of no tick and a lead of
one, so that a copy can be too old, too new, or become good by waiting. Every copy it
sends is signed well: a bad one is refused without a trace, exactly as one that is
too old or too new, and would only multiply states. `catalog`: two instances, so that one seeds
while the other waits, finds the seed or finds it rolled back; pages of two rows
with two seeded users and two that register, so that a walk crosses a boundary and
a default page can be full; a client that was deactivated, whose requests are
denied (its request to create a record therefore never gets through: records come
from the seed). `reconciliation`: one check of four accounts, two requests and one
edit of a cent.

`Serial` is what keeps the passing runs apart from the findings: `refunds` sends
the refunds of one settlement one after another and `processor` the decisions of
one authorization, because the properties fail without it (`doc_refund_once`,
`doc_decision_final`). `reconciliation` drops it and checks what holds regardless.

Symmetry: sessions are interchangeable (`SessionSymmetry`, `ActorSymmetry` with the
instances) in the runs that check safety and action properties; the liveness runs
use none. Deadlock is checked except in `split`, which is a finite sweep; in
`contention` and `sqlite`, whose `EveryRequestEnds` says more; in `reconciliation`,
where a card authorization can hang the event loop and the system really stops
(`doc_card_auth_ends`); and in `catalog`, where all requests and instances end and
`WaitsEnd` says more.

Fairness of `Payments`: `FairSpec` assumes weak fairness of each session's `Step`. A
worker thread that can run is scheduled, PostgreSQL wakes waiters and detects
deadlocks, and SQLite's busy timeout expires. Nothing is assumed of arrivals or
crashes. Weak fairness suffices although locks are contended: sessions are finitely
many and a session that ended does not come back.

Fairness of `Delivery`: a session that has checked gets to write, to answer and to
commit (weak fairness of `Proceed`; writers of one row wait for at most one other,
which goes on). The rest is an assumption on what is outside the service: the
processor sends an event again until it hears a 2xx, with its clock right infinitely
often, and of infinitely many good copies the network brings some in time (weak
fairness of `Send`, strong fairness of `Receive` of an accepted copy). Nothing less can
make an event arrive. Nothing is assumed of the order of deliveries, and none of what
is lost, late or refused.

What two properties do not say. Where users of different transactions share a
`created_at`, `list_all` has no tie-breaker and any order of them is right; a page
boundary between two of them may repeat one and skip the other. `DefaultIsSeeded` and
`WalkMissesNobody` therefore speak of users who do not tie with one of another
transaction (`Tied`). Within one transaction only the seed inserts two users.
`DefaultIsSeeded` has both on a default page of two, and `WalkMissesNobody` is stated
with pages of two: on a page of one the seeded researcher, or either of them in a
walk, could be missing.

### Findings

| run | disagreement |
|---|---|
| `doc_refund_once` | two overlapping refunds both post reversals (`payment_service.py:144`), against `api/payments.py:73-74` |
| `doc_decision_final` | an approval and a decline that overlap both succeed (`processor_event_service.py:79`), against `docs/api-spec.md:201-202` |
| `doc_same_answer` | the response precedes the commit (`db.py:28`): after a crash a retry makes a second purchase, against `docs/api-spec.md:105-107` |
| `doc_card_auth_ends` | a card authorization can hang the event loop (`webhooks.py:24`), against `webhooks.py:26` and `docs/payment-flow.md:55-56` |

Smaller disagreements met on the way and visible in the definitions:

- PostgreSQL ends one of two purchases that lock the same accounts in opposite
  orders (`DeadlockAbort`), which is answered with 500 and not with the 400 that
  `docs/payment-flow.md:55-56` promises for every failure.
- The cents left over by rounding go to the largest remainders (`Split`,
  `revenue_split.py:99`), not to the platform as `docs/payment-flow.md:25-27` says.
- `scripts/reconcile.py:6` says it exits 0 "if every ledger account's stored balance
  matches the sum of its posted transactions", and with no output. It prints a line,
  and since it reads balances and transactions in different statements it may exit 1
  for accounts that match at every moment: `DriftIsExplained` gives the exact
  difference, the term `balance[c] - stored[c]`.
- `seed_data.py:27` expects the violation on `User.email`; the first row that a
  second seed inserts is the API client, whose name and key hash are unique, so it
  is there that the second instance waits and fails (`SeedRows`). Without those
  constraints the e-mail would still stop it.

## 4. Proofs

Every safety invariant and every action property that a passing run checks on its
small instance is stated by a theorem for all values of the constants that satisfy
the named assumptions: `PaymentsAssumption`, `RowsAssumption`, `CatalogAssumption`,
`SeedAssumption`, `DeliveryAssumption`, `ReconciliationAssumption` and the two
`PastAssumption`. These say what the schema, the request models, the seed script and
the start of a run guarantee; TLC evaluates them on every run.

Some theorems have a hypothesis besides, stated in the theorem. None is a
convenience of the proof: for each there is a behaviour of the code that violates
the property without it.

| hypothesis | theorems | without it |
|---|---|---|
| `RefundsInTurn`: refunds of one settlement are sent one at a time | `Offsets`, `RefundsRestore`, `BalancesShow`, `Implements` | two refunds both find it settled and both post (`doc_refund_once`) |
| `DecisionsInTurn`: so are decisions of one authorization, or the engine is SQLite with its one writer | `Decided`, `SettledAuthorized`, `DecisionsAreFinal`, `Implements` | both find it pending and the later commit wins (`doc_decision_final`) |
| `crashes = 0` in the state spoken of | `Answers`, `SameAnswer` | a session lost after its response leaves a client with an answer that is nowhere stored (`doc_same_answer`) |
| `OneVerdict`: no authorization is announced both approved and declined | `HeardKept` | overlapping sessions accept both and the later commit undoes the other, of which the processor has heard a 2xx as well (`doc_decision_final`) |
| `OneDecision`: nor decided by two events | `EffectsFollow` of `DeliveryProofs` | two approvals that overlap are both committed, the second onto an authorization that is authorized already |
| `UniqueEvents`: an `event_id` names one event | `EffectsFollow` of `LifecycleProofs`, `EventsMatch` | the second event of that name is taken for a redelivery and dropped, as the code intends |
| `Limit >= 2` | `WalkComplete` | the two seeded users share their `created_at` and at a page of one either may be skipped; TLC finds it with `Limit = 1` |

### Revenue split (`RevenueSplitProofs`, first half of `LedgerProofs`)

| theorem | property | reading |
|---|---|---|
| `SplitAddsUp`, `SharesAlwaysAddUp` | `SharesAddUp` | three natural numbers that add up to the amount |
| `SplitWithinACent` | | each is the exact proportion rounded down or up, and nothing where the share is zero |
| `SplitClosest`, `SplitAlwaysClosest` | `SplitIsClosest` | no other rounding is closer, and ties favour the party listed first |
| `DearerPaysMore` | `DearerNeverPaysLess` | under the shipped shares nobody gets less of a dearer record |

`SplitAddsUp`, `SplitWithinACent` and `SplitClosest` are about every amount and
every configuration; the others say of the sweep, whatever its bounds, what the run
checks. `SplitAddsUp` rests on the leftover being at most two cents and on the
parties having distinct ranks (`LeftoverBounded`, `RanksAreDistinct`). For
`SplitClosest` the distance of a rounding from the exact shares is a constant plus
`Cost` of each party that is rounded up, which falls with its remainder
(`ErrorOf`), so that giving the leftover to the largest remainders costs least.
`DearerPaysMore` uses that 70/20/10 split repeats itself every ten cents
(`DefaultSplit`), which leaves ten cases. For other shares it is false.

### Payment core (`PaymentsProofs`, `BooksProofs`, `LifecycleProofs`)

These hold for any number of keys and events and any finite number of sessions,
requests, authorizations and accounts, on either engine and with any number of lost
sessions.

| theorem | property | reading |
|---|---|---|
| `TypeCorrect` | `TypeOK` | every variable keeps the type of its column or Python value |
| `KeyOnce` | `KeyBuysOnce` | an `Idempotency-Key` buys at most once |
| `TrailAdditive` | `TrailIsAdditive` | committed transactions are only ever flagged, never removed or changed |
| `PurchaseWhole` | `PurchaseIsWhole` | authorization, settlement, rows and answer of a purchase, or nothing |
| `EntriesPostedOnce` | `PostedOnce` | a settlement has the entries of one posting |
| `BalancesMatch` | `BalanceMatchesRows` | every balance is the sum of its transactions |
| `BooksNeverUnbalanced` | `NeverUnbalanced` | `post_entries` never finds debits and credits apart |
| `MoneyConserved` | `MoneyIsConserved` | the sum of all balances never changes |
| `RefundsRestore` | `RefundRestores` | a refunded settlement nets to zero |
| `BalancesShow` | `BalancesShowStages` | balances are those of the settlements that stand |
| `SettledAuthorized` | `SettledIsAuthorized` | what is settled is authorized |
| `DecisionsAreFinal` | `DecisionIsFinal` | a decision is not revised |
| `EventsMatch` | `EventsMatchEffects` | an event is recorded exactly when it has taken effect |
| `SameAnswer` | `SameKeySameAnswer` | clients of one key are told of one purchase |
| `Implements` | `ImplementsLifecycle` | every commit is one step of `Lifecycle`, every other step none |

Hardly any of these is inductive. They rest on a chain of invariants, each proved
from those before it:

- `IInv` (`Invariant`): what the handlers rely on. Its parts need each other.
  - `HandlerOK` says which kind of request reaches which statement, what its queue
    holds there (the authorization of a purchase is the session's own, an event's is
    the reference it names), and that a session that is about to claim or to read a
    status has written no authorization yet. Without it neither the type of
    `Current(s)` nor the lock a write asks for is known.
  - `CheckedOK` is what a handler checked and uses some statements later: the
    authorization whose status is written or whose settlement is posted exists, and
    it is settleable. `TypeOK` needs it, because ledger entries are typed only if the
    accounts they name exist. It is stable although other sessions commit in
    between: rows of `authorizations` are never deleted, and
  - `TermsOK` says that an update keeps record, user and amount, which is all that
    `Settleable` reads (`SettlementIgnoresStatus`). It needs
  - `WritesAreLocked`, which ties a session's uncommitted writes to the locks it holds:
    only the holder of a row commits a new version of it. By itself it says nothing
    about the code; the other parts rest on it.
  - `KeysOK` ties the purchases together: an authorization under a fresh id is
    written by its own session, under the key that session claimed, and both are
    committed together. Two purchases that were committed under one key would both
    be its stored response.
- `DraftOK` (`Drafts`): what a session has written by the time it reaches each of
  its statements: nothing, its claim and authorization, part of its batch, and at
  the commit the whole of its request or nothing. This is what makes a commit a step
  of the request and not of a fragment of it.
- `WholeOK` (`Whole`): what is committed is whole. It needs to say of an open
  session that the rows it has inserted and the entries it has still to post are
  together the entries of its settlement, and that nobody else can commit that
  settlement meanwhile (`OneSettler`: the unique `authorization_id` is locked).
- `SumsOK` (`BooksBalance`): balances are the sums of committed rows, and what a session
  has added to a balance (`Gain`: what it sees, less what is committed) is the sum of the
  rows it has inserted. `PostedSums` is the step of `post_entries`, `CommittedSums` that
  of the commit. `OthersGain` is why overlapping sessions do not disturb each other:
  the row is locked from the UPDATE to the commit (`WritesAreLocked`), and
  `adjust_balance` reads it only then, so that a commit never changes a balance under a
  session that has built on it.
- `MoneyOK` (`MoneyMoves`): the rows of an authorization, committed ones by themselves and
  drafted ones together with the entries still to be posted, add nothing to the sum of
  all balances (`Surplus`). `SettlementBalances` shows it of what
  `settle_authorization` posts, for every amount and split and wherever the share of a
  missing transcriptionist goes, from `SplitAddsUp`; `SurplusOfReversals` of a refund,
  whatever it found. With `SumsOK` and an exchange of the order of summation, rows of
  an account first or accounts of a row first (`SumsExchange`), it gives
  `MoneyConserved`; with `BalancedIsNoSurplus`, by which the check of `post_entries`
  passes exactly the lists without surplus, `BooksNeverUnbalanced`.
- `InTurnOK` (`RequestsInTurn`): requests of the kinds in `Serial` stay apart from
  arrival to end, not only when they arrive.
- `OffsetOK` (`Offsets`): the reversals a refund has posted and has still to post
  offset the rows of its settlement, which still stands.
- `NewOK`, `DecisionOK` (`CreatedOnce`, `Decided`): what is created is new at the
  commit; what a handler read of a status still holds there. `NoOtherDecision` is
  the only place where `DecisionsInTurn` is used: nobody else commits a decision
  between the read of a status and its update.
- `EffectsOK` (`EffectsFollow`) and `AnswerOK` (`Answers`): the recorded events and
  what they have done grow by the same in every commit; what a client is told is
  stored or about to be.

`Implements` takes a commit apart by kind of request (`PurchaseMoves`, `EventMoves`,
`BatchMoves`, `RefundMoves`): `DraftOK` says what it changes, `DecisionOK`, `WholeOK`
and `OffsetOK` that the stage it starts from is still the one the code checked.

The proof that a step preserves an invariant has one lemma for what the acting
session does and one for the others. They share the control flow of a handler
(`StepFollows`), the fact that a step of one session leaves the handlers and drafts
of the others alone (`KeepsOthers`, `KeepsOtherDrafts`) and that only a commit
changes the tables (`TablesKept`).

*Sums.* `SumFunction`, with which the model adds up entries and balances, is a fold
over a set in an order of its choosing. Induction over data is out of reach here, as
the induction theorems of the library take an operator as parameter. The second half
of `LedgerProofs` goes around it: where the recursive equation failed to have a
solution, or two sums to agree, there would be a smallest set for which it does
(`SmallestSubset`: strict inclusion is well founded on finite sets), and that set is ruled
out in one step. From `SumWith` (adding an element), `SumPlus` and `SumMoved`
(another order) follow the facts about ledger entries: `NetAppend`, `NetConcat`,
`NetOfFlagged` (flagging leaves a balance alone), `NetOfReversals` (the reversals
of rows, in any order, offset them) and, over all accounts, those about `Surplus`.

### Reconciliation (`ReconciliationProofs`)

| theorem | property | reading |
|---|---|---|
| `CheckInvariant` | | the payment core keeps `IInv`, and sessions their changes of balances in step with their rows, beside a check and manual edits |
| `OnlyEdits` | `OnlyEditsDrift` | balances differ from the trail by the manual edits and nothing else |
| `DriftExplained` | `DriftIsExplained` | the report for an account: edited by hand, less committed since its balance was loaded |

`CInv` needs no order of refunds or decisions. `SumsOK` does not hold here, its half
about open sessions does (`GainsOK`).

### Delivery (`DeliveryProofs`)

For every set of events, authorizations and clocks and any number of crashes:

| theorem | property | reading |
|---|---|---|
| `HeardKept` | `HeardIsKept` | under `OneVerdict`, what the processor heard a 2xx for has taken effect or is about to, unless the worker that answered died |
| `EffectsFollow` | `EffectsFollowLifecycle` | under `OneDecision`, every commit is one step of `Lifecycle` |

Neither is inductive: that an answered event takes effect when it commits needs to
know where the authorizations may be that its handler checked, although others may
have moved them since. `IInv` says so, before the session has written (`ChecksHold`:
an authorization that was found pending by an approval may be authorized or settled by
now) and after (`WritesHold`: an INSERT that got its row finds the stage it checked),
that sessions which have written write different rows (`Apart`), and that what is
recorded has taken effect (`RecordedTookEffect`), on which an answer to a duplicate
rests. The heart of the proof are three facts about the table of stages: a commit
reaches what its event announces and stays within what others have reached (`Moves`),
leaves in place what others have checked unless one approves what the other declines
(`MovesKeepChecks`), and what others have written to the other table
(`MovesKeepWrites`). For the refinement an open decision must still find its
authorization pending (`DecisionsHold`), which only another decision could change.

### Start-up and catalogue (`CatalogProofs`)

For any number of instances, requests and crashes and any length of the lists they
insert:

| theorem | property | reading |
|---|---|---|
| `ProvisionedAlways` | `Provisioned` | an owner has exactly one account, and no committed row refers to one that is not |
| `SeededOnceAlways` | `SeededOnce` | there is one platform account at most, and whoever serves finds the whole seed |
| `WaitsEndAlways` | `WaitsEnd` | nobody waits for a session that has ended, and no set of sessions waits within itself |
| `DefaultSeeded` | `DefaultIsSeeded` | the default researcher is the seeded one, whoever has registered |
| `WalkComplete` | `WalkMissesNobody` | a walk through the pages misses nobody who was there when it began |

- `IInv` is needed because the first two speak of committed rows only. `Bundles`
  follows a list from its beginning to its commit: what a session has inserted and
  what it has still to insert are together complete, and its own. `Seeding` says
  that a seed in progress is the whole seed and refers only to rows inserted before,
  hence never fails on a foreign key. `Unique` extends the unique constraints over
  committed and uncommitted rows. `SeededFirst` says that nothing is served,
  committed or asked for before a seed is there; without it an instance that gives
  up its seed might serve an empty database. Two platform accounts would come with
  two API clients of one name, which `Unique` excludes. Every action is one of four
  kinds, each with a lemma: it inserts nothing and may roll back (`StandStill`), it
  starts a list (`StartInserting`), inserts the next row (`InsertInv`) or commits
  (`CommitInv`).
- `Follows` is why no waits form a circle: seeds begin with the same API client, so
  a second one waits before it has inserted anything; a request that has inserted its
  first row inserts only that row's account, which nobody else does.
- `Ages` relates rows to the start of their transactions: no transaction with users
  began before the seed, and a request creates one user. So the seed's two users head
  every list, but for users of other transactions that tie with them (`Tied`).
- `Walks` says of a reader that what it knew and has not seen comes after the pages
  it has read. Users are never removed, so it stays there.

### Only model-checked

`EveryRequestEnds`, `EveryEventTakesEffect` and, as a finding, `CardAuthEnds`:
liveness under fairness needs `ENABLED` of every action, which the provers cannot
unfold here. The four finding runs are counterexamples and have nothing to prove.

## 5. Not modelled

- Connection pool and worker threads. A request that waits for a pooled connection
  keeps a thread, one that holds a connection needs a thread to go on. Both are taken
  to be large enough. Their sizes, queues and timeouts are SQLAlchemy's, anyio's and
  FastAPI's; the source only shows that it changes no default (`db.py:9-10`), so a
  model of them would be a model of libraries.
- The body of a stored response. It is modelled by the authorization it names, so
  that a retry after a refund still reports "settled" (`payments.py:30`) is not
  visible.
- The conversion of the legacy webhook's decimal amount into cents
  (`settlement_service.py:28`), an arithmetic function of one number; the amounts it
  returns are those the requests of `Payments` carry.
- Single look-ups (`GET /users/{id}` and the like) and the lists of archives,
  records, accounts and transactions: one SELECT each, paged as `GET /users` is.
- The bytes of signatures, keys and payloads: a digest is right or wrong.
- `create_all` and the migrations as such: DDL that runs before anything is served.
  The constraints they create are in `Payments` and `Catalog`.
- Response schemas, logging, the screenshot script: formatting and no state.
