------------------------------ MODULE Payments ------------------------------
(***************************************************************************)
(* The payment core of the service: every HTTP request that moves money or *)
(* changes an authorization, run as the code runs it - one database        *)
(* session per request, statement by statement, each statement reading     *)
(* what is committed at that moment (READ COMMITTED), writes private to    *)
(* the session until get_db commits, row and unique-key locks held until   *)
(* then.  Requests interleave at every statement.                          *)
(*                                                                         *)
(* A session that the database has open is identified with its request,    *)
(* and the authorization that POST /purchase creates under a fresh UUID    *)
(* with the session that creates it.                                       *)
(***************************************************************************)
EXTENDS RevenueSplit, Ledger, FiniteSets, TLC

CONSTANTS
  Sessions,       \* requests the run may serve, each in a session of its own
  Requests,       \* what a client or the processor may send
  Keys, Events,   \* Idempotency-Key values; processor event_ids
  Refs,           \* processor authorization ids (external_reference)
  Terms,          \* [Refs -> what the processor holds: record, user, amount]
  Past,           \* [Refs -> how far each was processed before this run]
  Opening,        \* [Accounts -> balance that this past left behind]
  Records, Users, \* rows of research_records and users
  Price,          \* [Records -> price_cents]
  Accounts,       \* rows of ledger_accounts
  UserAccount,    \* [Users -> account or None]
  ArchiveAccount, \* [Records -> account of the record's archive or None]
  ScribeAccount,  \* [Records -> account of the assigned transcriptionist or None]
  PlatformAccount,
  Bps,            \* the configured split
  Engine,         \* "postgres" or "sqlite"
  MaxCents,       \* largest value of the INTEGER column balance_cents
  Serial,         \* kinds of request sent one at a time for an authorization
  MaxCrashes,     \* how many sessions may be lost
  None

AuthIds == Refs \cup Sessions

Kinds == {"purchase", "cardauth", "created", "approved", "declined", "settled", "refund"}

OnRef == {"created", "approved", "declined"}
FromProcessor == OnRef \cup {"settled"}

RequestType ==
       [kind: {"purchase"}, key: Keys, record: Records \cup {None}, user: Users \cup {None}]
  \cup [kind: {"cardauth"}, record: Records \cup {None}, user: Users \cup {None}, amount: Int]
  \cup [kind: OnRef, event: Events, ref: Refs]
  \cup [kind: {"settled"}, event: Events, refs: Seq(Refs)]
  \cup [kind: {"refund"}, auth: AuthIds]

PaymentsAssumption ==
  /\ Requests \subseteq RequestType
  /\ Terms \in [Refs -> [record: Records \cup {None}, user: Users \cup {None}, amount: Int]]
  /\ Past \in [Refs -> {"absent", "pending", "authorized", "settled"}]
  /\ Opening \in [Accounts -> Int]
  /\ Price \in [Records -> Int]
  /\ UserAccount \in [Users -> Accounts \cup {None}]
  /\ ArchiveAccount \in [Records -> Accounts \cup {None}]
  /\ ScribeAccount \in [Records -> Accounts \cup {None}]
  /\ PlatformAccount \in Accounts \cup {None}
  /\ Bps \in SplitConfig
  /\ Engine \in {"postgres", "sqlite"}
  /\ MaxCents \in Nat
  /\ Serial \subseteq Kinds
  /\ MaxCrashes \in Nat
  /\ None \notin AuthIds \cup Accounts \cup Sessions \cup Keys \cup Events
  /\ None \notin Records \cup Users
  /\ Refs \cap Sessions = {}
  /\ Keys \cap Events = {}

ASSUME PaymentsAssumption

-----------------------------------------------------------------------------
(* The database and the sessions.                                          *)

VARIABLES
  \* committed tables
  auth,        \* [AuthIds -> authorization or None]
  settlement,  \* [AuthIds -> "none", "settled" or "reversed"]
  rows,        \* [AuthIds -> the transactions of its settlement, in order]
  balance,     \* [Accounts -> balance_cents]
  answer,      \* [Keys -> authorization of the stored response, or None]
  processed,   \* event_ids in processed_webhook_events
  \* what an open session has written and not committed
  claim,       \* [Sessions -> idempotency key or event_id it inserted, or None]
  newAuth,     \* [Sessions -> [AuthIds -> written authorization or None]]
  newSettlement,
  newRows,
  newBalance,  \* [Sessions -> [Accounts -> balance it wrote, or None]]
  listed,      \* [Sessions -> how many rows a refund listed, and will flag]
  \* the handler's progress
  pc, req,
  queue,       \* authorizations still to be handled, the current one first
  entries,     \* ledger entries still to be posted
  reply,       \* the response the handler built
  result,      \* the authorization_id in that response
  \* shared by all sessions
  holder,      \* [Locks -> session that holds the row or key lock, or None]
  loop,        \* session whose handler runs on the event loop, or None
  crashes

tables   == <<auth, settlement, rows, balance, answer, processed>>
draft    == <<claim, newAuth, newSettlement, newRows, newBalance, listed>>
handler  == <<req, queue, entries>>
vars     == <<tables, draft, handler, pc, reply, result, holder, loop, crashes>>

AuthorizationStatus == {"pending", "authorized", "declined"}

Authorization ==
  [status: AuthorizationStatus, record: Records, user: Users, amount: Int]

(* NULL is not a row or a number, and a run serves finitely many requests  *)
(* on finitely many authorizations and accounts: what the sums over a      *)
(* table need.                                                             *)
RowsAssumption ==
  /\ None \notin Authorization \cup Int
  /\ IsFiniteSet(Refs) /\ IsFiniteSet(Sessions) /\ IsFiniteSet(Accounts)

ASSUME RowsAssumption

Resources ==
  ({"key"} \X Keys) \cup ({"event"} \X Events) \cup
  ({"auth", "settlement"} \X AuthIds) \cup ({"account"} \X Accounts)

DatabaseLock == <<"database", None>>

(* PostgreSQL locks single rows and key values; SQLite has one write lock. *)
LockOf(resource) == IF Engine = "sqlite" THEN DatabaseLock ELSE resource

Locks == {LockOf(r) : r \in Resources}

Open(s) == pc[s] \notin {"idle", "done"}

Current(s) == Head(queue[s])

(* The key value or row that the next write of session s locks. *)
Wanted(s) ==
  CASE pc[s] = "claim" /\ req[s].kind = "purchase"   -> <<"key", req[s].key>>
    [] pc[s] = "claim" /\ req[s].kind # "purchase"   -> <<"event", req[s].event>>
    [] pc[s] \in {"insertAuth", "writeStatus"}       -> <<"auth", Current(s)>>
    [] pc[s] \in {"insertSettlement", "markReversed"} -> <<"settlement", Current(s)>>
    [] pc[s] = "post"                                -> <<"account", Head(entries[s]).account>>

Writing(s) ==
  pc[s] \in {"claim", "insertAuth", "writeStatus", "insertSettlement", "markReversed", "post"}

HolderFor(s) == holder[LockOf(Wanted(s))]

Blocked(s) == Writing(s) /\ HolderFor(s) \notin {None, s}

(* What a SELECT of session s sees: the committed rows and its own. *)
SeenAuth(s, a)       == IF newAuth[s][a] # None THEN newAuth[s][a] ELSE auth[a]
SeenSettlement(s, a) == IF newSettlement[s][a] # "none" THEN newSettlement[s][a]
                                                          ELSE settlement[a]
SeenBalance(s, c)    == IF newBalance[s][c] # None THEN newBalance[s][c] ELSE balance[c]

-----------------------------------------------------------------------------
(* What settle_authorization requires and posts.                           *)

Authorized(record, user, amount) ==
  [status |-> "authorized", record |-> record, user |-> user, amount |-> amount]

Known(record, user) == record \in Records /\ user \in Users

CreditIfAny(account, cents) ==
  IF cents = 0 THEN <<>> ELSE <<Entry(account, "credit", cents)>>

(* Mutant: the share of a transcriptionist who is missing is not posted. *)
SettlementEntriesShort(h) ==
  LET share  == Split(h.amount, Bps)
      scribe == ScribeAccount[h.record]
  IN <<Entry(UserAccount[h.user], "debit", h.amount)>>
       \o CreditIfAny(ArchiveAccount[h.record], share["archive"])
       \o (IF scribe = None THEN <<>> ELSE CreditIfAny(scribe, share["transcriptionist"]))
       \o CreditIfAny(PlatformAccount, share["platform"])

(* The transcriptionist's share goes to the platform when the record has   *)
(* none assigned or the assigned one has no account; zero shares are not   *)
(* posted.                                                                 *)
SettlementEntries(h) ==
  LET share      == Split(h.amount, Bps)
      scribe     == ScribeAccount[h.record]
      toScribe   == IF scribe = None THEN 0 ELSE share["transcriptionist"]
      toPlatform == share["platform"] + (share["transcriptionist"] - toScribe)
  IN <<Entry(UserAccount[h.user], "debit", h.amount)>>
       \o CreditIfAny(ArchiveAccount[h.record], share["archive"])
       \o CreditIfAny(scribe, toScribe)
       \o CreditIfAny(PlatformAccount, toPlatform)

(* Mutant: the accounts are not looked for. *)
SettleableUnchecked(h) == Splittable(h.amount)

HasAccounts(h) ==
  None \notin {UserAccount[h.user], ArchiveAccount[h.record], PlatformAccount}

Settleable(h) ==
  /\ Splittable(h.amount)
  /\ HasAccounts(h)
  /\ Balanced(SettlementEntries(h))

(* An UPDATE of an INTEGER column fails in PostgreSQL, not in SQLite.      *)
Overflows(cents) ==
  Engine = "postgres" /\ (cents > MaxCents \/ cents < -MaxCents - 1)

-----------------------------------------------------------------------------
(* The service starts from a database that served requests before; the     *)
(* processor has finished with the events of that past.                    *)

NoWrites == [a \in AuthIds |-> None]

PastAuth(a) ==
  IF a \notin Refs \/ Past[a] = "absent" THEN None
  ELSE [status |-> IF Past[a] = "pending" THEN "pending" ELSE "authorized",
        record |-> Terms[a].record, user |-> Terms[a].user, amount |-> Terms[a].amount]

WasSettled(a) == a \in Refs /\ Past[a] = "settled"

PastRows(a) == IF WasSettled(a) THEN SettlementEntries(PastAuth(a)) ELSE <<>>

(* What was settled before could be settled, and the balances show it.     *)
PastAssumption ==
  /\ \A a \in AuthIds : WasSettled(a) => Settleable(PastAuth(a))
  /\ \A a \in Refs : Past[a] # "absent" => Known(Terms[a].record, Terms[a].user)
  /\ \A c \in Accounts :
       Opening[c] = SumFunction([a \in AuthIds |-> NetOf(PastRows(a), c)])

ASSUME PastAssumption

Init ==
  /\ auth = [a \in AuthIds |-> PastAuth(a)]
  /\ settlement = [a \in AuthIds |-> IF WasSettled(a) THEN "settled" ELSE "none"]
  /\ rows = [a \in AuthIds |-> PastRows(a)]
  /\ balance = Opening
  /\ answer = [k \in Keys |-> None]
  /\ processed = {}
  /\ claim = [s \in Sessions |-> None]
  /\ newAuth = [s \in Sessions |-> NoWrites]
  /\ newSettlement = [s \in Sessions |-> [a \in AuthIds |-> "none"]]
  /\ newRows = [s \in Sessions |-> [a \in AuthIds |-> <<>>]]
  /\ newBalance = [s \in Sessions |-> [c \in Accounts |-> None]]
  /\ listed = [s \in Sessions |-> 0]
  /\ pc = [s \in Sessions |-> "idle"]
  /\ req = [s \in Sessions |-> None]
  /\ queue = [s \in Sessions |-> <<>>]
  /\ entries = [s \in Sessions |-> <<>>]
  /\ reply = [s \in Sessions |-> "none"]
  /\ result = [s \in Sessions |-> None]
  /\ holder = [l \in Locks |-> None]
  /\ loop = None
  /\ crashes = 0

-----------------------------------------------------------------------------
(* Steps every handler is made of.                                         *)

Go(s, step) == pc' = [pc EXCEPT ![s] = step]

(* Mutant: adjust_balance reads the balance into Python, and so before it  *)
(* waits for the row, as its docstring warns.                              *)
ReadsBeforeWaiting(s) == pc[s] = "post" \/ HolderFor(s) \in {None, s}

(* A write proceeds when no other session holds what it locks; it then     *)
(* holds it until its session commits or rolls back.                       *)
CanWrite(s) == HolderFor(s) \in {None, s}

Lock(s) == holder' = [holder EXCEPT ![LockOf(Wanted(s))] = s]

(* Mutant: the session is left open and keeps its locks. *)
ReleaseNothing(s) == UNCHANGED holder

Release(s) == holder' = [l \in Locks |-> IF holder[l] = s THEN None ELSE holder[l]]

LeaveLoop(s) == loop' = IF loop = s THEN None ELSE loop

Discard(s) ==
  /\ claim' = [claim EXCEPT ![s] = None]
  /\ newAuth' = [newAuth EXCEPT ![s] = NoWrites]
  /\ newSettlement' = [newSettlement EXCEPT ![s] = [a \in AuthIds |-> "none"]]
  /\ newRows' = [newRows EXCEPT ![s] = [a \in AuthIds |-> <<>>]]
  /\ newBalance' = [newBalance EXCEPT ![s] = [c \in Accounts |-> None]]
  /\ listed' = [listed EXCEPT ![s] = 0]

(* The handler returns: its response is sent and then committed.           *)
Return(s, response) ==
  /\ Go(s, "respond")
  /\ reply' = [reply EXCEPT ![s] = response]
  /\ LeaveLoop(s)

(* Mutant: get_db commits whatever happened. *)
RaiseAndCommit(s, response) ==
  /\ Go(s, "commit")
  /\ reply' = [reply EXCEPT ![s] = response]
  /\ LeaveLoop(s)

(* The handler raises an HTTPException: get_db rolls back first.           *)
Raise(s, response) ==
  /\ Go(s, "rollback")
  /\ reply' = [reply EXCEPT ![s] = response]
  /\ LeaveLoop(s)

(* A check of the handler: go on, or a ValueError answered with 400.       *)
Require(s, condition, step) ==
  IF condition THEN Go(s, step) /\ UNCHANGED <<reply, loop>>
               ELSE Raise(s, "rejected")

(* Mutant: each statement has a savepoint of its own, as the claim has, and *)
(* what a failed one left undone is not rolled back with it.               *)
AbortAndCommit(s) ==
  /\ RaiseAndCommit(s, "error")
  /\ UNCHANGED <<tables, draft, handler, result, holder, crashes>>

(* A statement fails: the database ends the transaction and frees its      *)
(* locks at once, and the exception reaches the client as 500.             *)
Abort(s) ==
  /\ Raise(s, "error")
  /\ Discard(s)
  /\ Release(s)
  /\ UNCHANGED <<tables, handler, result, crashes>>

-----------------------------------------------------------------------------
(* Requests arrive.                                                        *)

Targets(s, r) ==
  CASE r.kind \in {"purchase", "cardauth"} -> <<s>>
    [] r.kind \in OnRef     -> <<r.ref>>
    [] r.kind = "settled"   -> r.refs
    [] r.kind = "refund"    -> <<r.auth>>

FirstStep(kind) ==
  CASE kind = "purchase"         -> "lookup"
    [] kind = "cardauth"         -> "insertAuth"
    [] kind \in FromProcessor    -> "claim"
    [] kind = "refund"           -> "readRefund"

(* Requests of the kinds in Serial are not sent for an authorization while *)
(* another of them is still open for it.                                   *)
InTurn(s, r) ==
  \A t \in Sessions :
    (Open(t) /\ {r.kind, req[t].kind} \subseteq Serial)
      => Range(Targets(s, r)) \cap Range(queue[t]) = {}

(* The event loop accepts a request.  card_authorization is an `async def`:*)
(* from its first statement to its last it runs on the loop itself, all    *)
(* other handlers run in worker threads.                                   *)
Arrive(s, r) ==
  /\ pc[s] = "idle"
  /\ loop = None
  /\ InTurn(s, r)
  /\ req' = [req EXCEPT ![s] = r]
  /\ queue' = [queue EXCEPT ![s] = Targets(s, r)]
  /\ Go(s, FirstStep(r.kind))
  /\ loop' = IF r.kind = "cardauth" THEN s ELSE None
  /\ UNCHANGED <<tables, draft, entries, reply, result, holder, crashes>>

-----------------------------------------------------------------------------
(* Idempotency: POST /purchase looks its key up and then claims it; an     *)
(* event is claimed at once.                                               *)

LookUpKey(s) ==
  /\ pc[s] = "lookup"
  /\ LET stored == answer[req[s].key] IN
       IF stored # None
       THEN Return(s, "ok") /\ result' = [result EXCEPT ![s] = stored]
       ELSE Go(s, "claim") /\ UNCHANGED <<reply, loop, result>>
  /\ UNCHANGED <<tables, draft, handler, holder, crashes>>

ClaimValue(s) == IF req[s].kind = "purchase" THEN req[s].key ELSE req[s].event

(* Mutant: the insert does not collide (no unique constraint). *)
ClaimedNever(s) == FALSE

Claimed(s) == IF req[s].kind = "purchase" THEN answer[req[s].key] # None
                                          ELSE req[s].event \in processed

AfterClaim(s) ==
  CASE req[s].kind = "purchase"                   -> "insertAuth"
    [] req[s].kind = "created"                    -> "readNew"
    [] req[s].kind \in {"approved", "declined"}   -> "readStatus"
    [] req[s].kind = "settled" /\ queue[s] # <<>> -> "readAuth"
    [] req[s].kind = "settled" /\ queue[s] = <<>> -> "respond"

(* The INSERT waits for a session that holds the value and succeeds if     *)
(* that one rolled back.                                                   *)
Claim(s) ==
  /\ pc[s] = "claim"
  /\ CanWrite(s)
  /\ ~ Claimed(s)
  /\ Lock(s)
  /\ claim' = [claim EXCEPT ![s] = ClaimValue(s)]
  /\ Go(s, AfterClaim(s))
  /\ reply' = IF AfterClaim(s) = "respond" THEN [reply EXCEPT ![s] = "ok"] ELSE reply
  /\ UNCHANGED <<tables, newAuth, newSettlement, newRows, newBalance, listed,
                 handler, result, loop, crashes>>

(* The INSERT violates the unique constraint: 409 for a key, 200 "ignored" *)
(* for an event.                                                           *)
ClaimTaken(s) ==
  /\ pc[s] = "claim"
  /\ CanWrite(s)
  /\ Claimed(s)
  /\ IF req[s].kind = "purchase" THEN Raise(s, "conflict") ELSE Return(s, "ignored")
  /\ UNCHANGED <<tables, draft, handler, result, holder, crashes>>

-----------------------------------------------------------------------------
(* Authorizations.                                                         *)

WriteAuth(s, a, h) == newAuth' = [newAuth EXCEPT ![s][a] = h]

AmountOf(r) == IF r.kind = "purchase" THEN Price[r.record] ELSE r.amount

RejectPurchase(s) ==
  /\ pc[s] = "insertAuth"
  /\ req[s].kind \in {"purchase", "cardauth"}
  /\ ~ Known(req[s].record, req[s].user)
  /\ Raise(s, "rejected")
  /\ UNCHANGED <<tables, draft, handler, result, holder, crashes>>

(* purchase_record: authorize under a fresh id, then settle. *)
Purchase(s) ==
  /\ pc[s] = "insertAuth"
  /\ req[s].kind \in {"purchase", "cardauth"}
  /\ Known(req[s].record, req[s].user)
  /\ CanWrite(s)
  /\ Lock(s)
  /\ WriteAuth(s, s, Authorized(req[s].record, req[s].user, AmountOf(req[s])))
  /\ Go(s, "readAuth")
  /\ UNCHANGED <<tables, claim, newSettlement, newRows, newBalance, listed,
                 handler, reply, result, loop, crashes>>

(* _handle_authorization_created: the checks, then the insert. *)
ReadNew(s) ==
  /\ pc[s] = "readNew"
  /\ Require(s, /\ SeenAuth(s, Current(s)) = None
                /\ Known(Terms[Current(s)].record, Terms[Current(s)].user), "insertAuth")
  /\ UNCHANGED <<tables, draft, handler, result, holder, crashes>>

CreatePending(s) ==
  /\ pc[s] = "insertAuth"
  /\ req[s].kind = "created"
  /\ CanWrite(s)
  /\ auth[Current(s)] = None
  /\ Lock(s)
  /\ LET t == Terms[Current(s)]
     IN WriteAuth(s, Current(s), [Authorized(t.record, t.user, t.amount)
                                    EXCEPT !.status = "pending"])
  /\ Return(s, "ok")
  /\ UNCHANGED <<tables, claim, newSettlement, newRows, newBalance, listed,
                 handler, result, crashes>>

(* Another created event inserted the reference after ReadNew. *)
CreateDuplicate(s) ==
  /\ pc[s] = "insertAuth"
  /\ req[s].kind = "created"
  /\ CanWrite(s)
  /\ auth[Current(s)] # None
  /\ Abort(s)

(* Mutant: the status is not checked. *)
AnyStatus(h) == TRUE

IsPending(h) == h.status = "pending"

(* _handle_authorization_approved and _declined: the status is checked on  *)
(* what was read, the UPDATE names the row only by its id.                 *)
ReadStatus(s) ==
  /\ pc[s] = "readStatus"
  /\ LET h == SeenAuth(s, Current(s))
     IN Require(s, h # None /\ IsPending(h), "writeStatus")
  /\ UNCHANGED <<tables, draft, handler, result, holder, crashes>>

WriteStatus(s) ==
  /\ pc[s] = "writeStatus"
  /\ CanWrite(s)
  /\ Lock(s)
  /\ WriteAuth(s, Current(s),
               [auth[Current(s)] EXCEPT
                  !.status = IF req[s].kind = "approved" THEN "authorized" ELSE "declined"])
  /\ Return(s, "ok")
  /\ UNCHANGED <<tables, claim, newSettlement, newRows, newBalance, listed,
                 handler, result, crashes>>

-----------------------------------------------------------------------------
(* settle_authorization, once for a purchase and once for each             *)
(* authorization of a settlement.completed batch.                          *)

(* Mutant: only declined authorizations are refused. *)
NotDeclined(h) == h.status # "declined"

IsAuthorized(h) == h.status = "authorized"

ReadAuth(s) ==
  /\ pc[s] = "readAuth"
  /\ LET h == SeenAuth(s, Current(s))
     IN Require(s, h # None /\ IsAuthorized(h), "readSettlement")
  /\ UNCHANGED <<tables, draft, handler, result, holder, crashes>>

ReadSettlement(s) ==
  /\ pc[s] = "readSettlement"
  /\ Require(s, /\ SeenSettlement(s, Current(s)) = "none"
                /\ Settleable(SeenAuth(s, Current(s))), "insertSettlement")
  /\ UNCHANGED <<tables, draft, handler, result, holder, crashes>>

(* Mutant: no unique constraint on settlements.authorization_id. *)
NeverTaken(a) == TRUE

(* The unique constraint on settlements.authorization_id admits a row.     *)
Unsettled(a) == settlement[a] = "none"

WriteSettlement(s, a, status) ==
  newSettlement' = [newSettlement EXCEPT ![s][a] = status]

InsertSettlement(s) ==
  /\ pc[s] = "insertSettlement"
  /\ CanWrite(s)
  /\ Unsettled(Current(s))
  /\ Lock(s)
  /\ WriteSettlement(s, Current(s), "settled")
  /\ entries' = [entries EXCEPT ![s] = SettlementEntries(SeenAuth(s, Current(s)))]
  /\ Go(s, "post")
  /\ UNCHANGED <<tables, claim, newAuth, newRows, newBalance, listed,
                 req, queue, reply, result, loop, crashes>>

(* Another batch settled the authorization after ReadSettlement.           *)
SettleDuplicate(s) ==
  /\ pc[s] = "insertSettlement"
  /\ CanWrite(s)
  /\ ~ Unsettled(Current(s))
  /\ Abort(s)

(* balance_cents = balance_cents + delta: the UPDATE reads the row when it *)
(* has it, so the version it writes is built on the latest committed one.  *)
AdjustedBalance(s, e) == SeenBalance(s, e.account) + Delta(e)

(* One round of post_entries: insert the transaction, write the balance    *)
(* that it leaves in the account.                                          *)
PostHead(s) ==
  LET e == Head(entries[s]) IN
  /\ pc[s] = "post"
  /\ CanWrite(s)
  /\ ~ Overflows(AdjustedBalance(s, e))
  /\ Lock(s)
  /\ newRows' = [newRows EXCEPT ![s][Current(s)] = Append(@, e)]
  /\ newBalance' = [newBalance EXCEPT ![s][e.account] = AdjustedBalance(s, e)]
  /\ entries' = [entries EXCEPT ![s] = Tail(@)]
  /\ UNCHANGED <<tables, claim, newAuth, newSettlement, listed, req, crashes>>

PostEntry(s) ==
  /\ Len(entries[s]) > 1
  /\ PostHead(s)
  /\ UNCHANGED <<pc, queue, reply, result, loop>>

(* The last entry of a batch's authorization, and on to the next one.      *)
PostLastOfMany(s) ==
  /\ Len(entries[s]) = 1
  /\ Len(queue[s]) > 1
  /\ PostHead(s)
  /\ queue' = [queue EXCEPT ![s] = Tail(@)]
  /\ Go(s, "readAuth")
  /\ UNCHANGED <<reply, result, loop>>

(* The last entry of all; POST /purchase stores its response, which names  *)
(* the new authorization, under the key it claimed.                        *)
PostLast(s) ==
  /\ Len(entries[s]) = 1
  /\ Len(queue[s]) = 1
  /\ req[s].kind # "refund"
  /\ PostHead(s)
  /\ Return(s, "ok")
  /\ result' = [result EXCEPT ![s] = IF req[s].kind = "settled" THEN None ELSE s]
  /\ UNCHANGED queue

PostLastReversal(s) ==
  /\ Len(entries[s]) = 1
  /\ req[s].kind = "refund"
  /\ PostHead(s)
  /\ Go(s, "markReversed")
  /\ UNCHANGED <<queue, reply, result, loop>>

PostOverflow(s) ==
  LET e == Head(entries[s]) IN
  /\ pc[s] = "post"
  /\ CanWrite(s)
  /\ Overflows(AdjustedBalance(s, e))
  /\ Abort(s)

-----------------------------------------------------------------------------
(* refund_settlement: the status is read, the rows are listed, reversals   *)
(* are posted, and only then is the settlement marked.                     *)

Refundable(status) == status = "settled"

ReadForRefund(s) ==
  /\ pc[s] = "readRefund"
  /\ Require(s, Refundable(SeenSettlement(s, Current(s))), "listRows")
  /\ UNCHANGED <<tables, draft, handler, result, holder, crashes>>

(* list_for_settlement has no ORDER BY: the rows come in any order.        *)
ListRows(s) ==
  /\ pc[s] = "listRows"
  /\ LET found == rows[Current(s)] IN
       /\ \E order \in Bijection(DOMAIN found, DOMAIN found) :
            entries' = [entries EXCEPT ![s] =
                          [i \in DOMAIN found |-> Reversal(found[order[i]])]]
       /\ listed' = [listed EXCEPT ![s] = Len(found)]
       /\ Require(s, Balanced(found), "post")
  /\ UNCHANGED <<tables, claim, newAuth, newSettlement, newRows, newBalance,
                 req, queue, result, holder, crashes>>

FlagReversed(s) ==
  /\ pc[s] = "markReversed"
  /\ CanWrite(s)
  /\ Lock(s)
  /\ WriteSettlement(s, Current(s), "reversed")
  /\ Return(s, "ok")
  /\ UNCHANGED <<tables, claim, newAuth, newRows, newBalance, listed,
                 handler, result, crashes>>

-----------------------------------------------------------------------------
(* The end of a request.  FastAPI runs the exit code of get_db, which      *)
(* commits, after the response has been sent; an exception passes through  *)
(* get_db before it becomes a response.  Both need the event loop.         *)

Respond(s) ==
  /\ pc[s] = "respond"
  /\ loop = None
  /\ Go(s, "commit")
  /\ UNCHANGED <<tables, draft, handler, reply, result, holder, loop, crashes>>

Overlay(old, new, nothing) ==
  [a \in AuthIds |-> IF new[a] = nothing THEN old[a] ELSE new[a]]

CommittedRows(s, a) ==
  (IF newSettlement[s][a] = "reversed" THEN MarkReversed(rows[a], listed[s]) ELSE rows[a])
    \o newRows[s][a]

(* db.commit() and db.close() *)
Commit(s) ==
  /\ pc[s] = "commit"
  /\ loop = None
  /\ auth' = Overlay(auth, newAuth[s], None)
  /\ settlement' = Overlay(settlement, newSettlement[s], "none")
  /\ rows' = [a \in AuthIds |-> CommittedRows(s, a)]
  /\ balance' = [c \in Accounts |-> SeenBalance(s, c)]
  /\ answer' = [k \in Keys |-> IF k = claim[s] THEN s ELSE answer[k]]
  /\ processed' = processed \cup ({claim[s]} \cap Events)
  /\ Discard(s)
  /\ Release(s)
  /\ Go(s, "done")
  /\ UNCHANGED <<handler, reply, result, loop, crashes>>

Rollback(s) ==
  /\ pc[s] = "rollback"
  /\ loop = None
  /\ Discard(s)
  /\ Release(s)
  /\ Go(s, "done")
  /\ UNCHANGED <<tables, handler, reply, result, loop, crashes>>

-----------------------------------------------------------------------------
(* What the database and the machine do to a session.                      *)

(* Some sessions wait for each other in a circle; PostgreSQL ends one of   *)
(* them.  Each waits for one holder, so a set of waiting sessions whose    *)
(* holders are that set again is a circle (or several).                    *)
Deadlocked(s) ==
  \E circle \in SUBSET Sessions :
    /\ s \in circle
    /\ \A t \in circle : Blocked(t)
    /\ {HolderFor(t) : t \in circle} = circle

DeadlockAbort(s) ==
  /\ Engine = "postgres"
  /\ Blocked(s)
  /\ Deadlocked(s)
  /\ Abort(s)

(* Mutant: a connection that waits for a lock for ever. *)
NoBusyTimeout(s) == FALSE

(* SQLite gives up on a lock after the busy timeout ("database is locked"). *)
BusyTimeout(s) ==
  /\ Engine = "sqlite"
  /\ Blocked(s)
  /\ Abort(s)

(* The worker or its connection dies: the database rolls back.  The client *)
(* has the response if that had already been sent.                         *)
Lose(s) ==
  /\ Open(s)
  /\ crashes < MaxCrashes
  /\ crashes' = crashes + 1
  /\ Discard(s)
  /\ Release(s)
  /\ Go(s, "done")
  /\ reply' = [reply EXCEPT ![s] = IF pc[s] = "commit" THEN @ ELSE "none"]
  /\ LeaveLoop(s)
  /\ UNCHANGED <<tables, handler, result>>

-----------------------------------------------------------------------------

Authorizing(s) ==
  RejectPurchase(s) \/ Purchase(s) \/ ReadNew(s) \/ CreatePending(s) \/ CreateDuplicate(s)
    \/ ReadStatus(s) \/ WriteStatus(s)

Settling(s) ==
  ReadAuth(s) \/ ReadSettlement(s) \/ InsertSettlement(s) \/ SettleDuplicate(s)

Posting(s) ==
  PostEntry(s) \/ PostLastOfMany(s) \/ PostLast(s) \/ PostLastReversal(s) \/ PostOverflow(s)

Refunding(s) == ReadForRefund(s) \/ ListRows(s) \/ FlagReversed(s)

Ending(s) == Respond(s) \/ Commit(s) \/ Rollback(s)

Step(s) ==
  \/ LookUpKey(s) \/ Claim(s) \/ ClaimTaken(s)
  \/ Authorizing(s)
  \/ Settling(s)
  \/ Posting(s)
  \/ Refunding(s)
  \/ Ending(s)
  \/ DeadlockAbort(s)
  \/ BusyTimeout(s)

(* Every session has served its request and no other is to be expected.    *)
AllServed == (\A s \in Sessions : pc[s] = "done") /\ UNCHANGED vars

Next ==
  \/ \E s \in Sessions : Step(s)
  \/ \E s \in Sessions, r \in Requests : Arrive(s, r)
  \/ \E s \in Sessions : Lose(s)
  \/ AllServed

Spec == Init /\ [][Next]_vars

(* Each open session keeps running: worker threads are scheduled, and the  *)
(* database wakes a waiter, detects deadlocks or times it out.  Nothing    *)
(* makes a request arrive or a worker die.                                 *)
FairSpec == Spec /\ \A s \in Sessions : WF_vars(Step(s))
=============================================================================
