--------------------------- MODULE PaymentsProofs ---------------------------
(***************************************************************************)
(* Type correctness, at-most-once purchase and the additive audit trail of *)
(* the payment core, for any number of sessions, requests, keys, events    *)
(* and accounts, either database engine and any number of lost sessions.   *)
(***************************************************************************)
EXTENDS PaymentsProperties, LedgerProofs

-----------------------------------------------------------------------------
(* The inductive invariant.                                                *)

Kind(s) == req[s].kind

(* Which requests reach which statement, and what their queue holds there. *)
KindAt(s) ==
  /\ pc[s] = "lookup" => Kind(s) = "purchase"
  /\ pc[s] = "claim" => Kind(s) \in {"purchase"} \cup FromProcessor
  /\ pc[s] = "insertAuth" => Kind(s) \in {"purchase", "cardauth", "created"}
  /\ pc[s] = "readNew" => Kind(s) = "created"
  /\ pc[s] \in {"readStatus", "writeStatus"} => Kind(s) \in {"approved", "declined"}
  /\ pc[s] \in {"readAuth", "readSettlement", "insertSettlement"} =>
       Kind(s) \in {"purchase", "cardauth", "settled"}
  /\ pc[s] = "post" => Kind(s) \in {"purchase", "cardauth", "settled", "refund"}
  /\ pc[s] \in {"readRefund", "listRows", "markReversed"} => Kind(s) = "refund"

QueueAt(s) ==
  /\ Kind(s) \in {"purchase", "cardauth"} => queue[s] = <<s>>
  /\ Kind(s) \in OnRef => queue[s] = <<req[s].ref>>
  /\ Kind(s) = "settled" => queue[s] \in Seq(Refs)
  /\ Kind(s) = "refund" => queue[s] = <<req[s].auth>>
  /\ pc[s] \in {"readAuth", "readSettlement", "insertSettlement", "post"} => queue[s] # <<>>

(* A session that is about to claim its key or event, or to read the       *)
(* status it will change, has written no authorization yet.                *)
EarlySteps == {"idle", "lookup", "claim", "readStatus"}

HandlerAt(s) ==
  /\ pc[s] \in EarlySteps => newAuth[s] = NoWrites
  /\ pc[s] # "idle" => req[s] \in Requests /\ KindAt(s) /\ QueueAt(s)

HandlerOK == \A s \in Sessions : HandlerAt(s)

(* What a handler established about its authorization and still relies on. *)
CheckedAt(s) ==
  /\ (pc[s] = "insertAuth" /\ Kind(s) = "created")
       => Known(Terms[Current(s)].record, Terms[Current(s)].user)
  /\ pc[s] = "writeStatus" => auth[Current(s)] # None
  /\ pc[s] \in {"readSettlement", "insertSettlement"} => SeenAuth(s, Current(s)) # None
  /\ pc[s] = "insertSettlement" => Settleable(SeenAuth(s, Current(s)))

CheckedOK == \A s \in Sessions : pc[s] # "idle" => CheckedAt(s)

SameTerms(h, k) == h.record = k.record /\ h.user = k.user /\ h.amount = k.amount

(* Once inserted, an authorization keeps its record, user and amount.      *)
TermsOK ==
  \A s \in Sessions, a \in AuthIds :
    (newAuth[s][a] # None /\ auth[a] # None) => SameTerms(newAuth[s][a], auth[a])

(* The authorization of a purchase is its own, is written under the key it *)
(* claimed, and is committed with the response stored under that key.      *)
OwnAuth(s) ==
  \A a \in Sessions : newAuth[s][a] # None =>
    /\ a = s
    /\ pc[s] # "idle"
    /\ IsPurchase(s) => claim[s] = req[s].key

KeysOK ==
  \A s \in Sessions :
    /\ auth[s] # None => pc[s] = "done"
    /\ OwnAuth(s)
    /\ (pc[s] = "insertAuth" /\ IsPurchase(s)) => claim[s] = req[s].key
    /\ claim[s] \in Keys => answer[claim[s]] = None
    /\ (IsPurchase(s) /\ auth[s] # None) => answer[req[s].key] = s

(* What two open sessions have written and not committed never overlaps:   *)
(* each write is covered by a lock its session holds.                      *)
WritesAreLocked ==
  \A s \in Sessions :
    /\ \A a \in AuthIds :
         /\ newAuth[s][a] # None => holder[LockOf(<<"auth", a>>)] = s
         /\ newSettlement[s][a] # "none" => holder[LockOf(<<"settlement", a>>)] = s
    /\ \A c \in Accounts : newBalance[s][c] # None => holder[LockOf(<<"account", c>>)] = s
    /\ claim[s] \in Keys => holder[LockOf(<<"key", claim[s]>>)] = s
    /\ claim[s] \in Events => holder[LockOf(<<"event", claim[s]>>)] = s

IInv == TypeOK /\ HandlerOK /\ WritesAreLocked /\ CheckedOK /\ TermsOK /\ KeysOK

-----------------------------------------------------------------------------
(* What the operators of the model return.                                 *)

LEMMA NoneIsNothing ==
  None \notin AuthIds /\ None \notin Accounts /\ None \notin Sessions
    /\ None \notin Keys /\ None \notin Events /\ None \notin Records /\ None \notin Users
    /\ None \notin Int
  BY PaymentsAssumption, RowsAssumption DEF PaymentsAssumption, RowsAssumption

(* The fields of a request, by its kind. *)
LEMMA RequestFields ==
  ASSUME NEW r \in Requests
  PROVE  /\ r.kind \in Kinds
         /\ r.kind = "purchase" => r.key \in Keys
         /\ r.kind = "cardauth" => r.amount \in Int
         /\ r.kind \in OnRef => r.event \in Events /\ r.ref \in Refs
         /\ r.kind = "settled" => r.event \in Events /\ r.refs \in Seq(Refs)
         /\ r.kind = "refund" => r.auth \in AuthIds
  BY PaymentsAssumption DEF PaymentsAssumption, RequestType, Kinds, OnRef

LEMMA TargetsTyped ==
  ASSUME NEW s \in Sessions, NEW r \in Requests
  PROVE  Targets(s, r) \in Seq(AuthIds)
<1>1. CASE r.kind \in {"purchase", "cardauth"}
  <2>1. s \in AuthIds
    BY DEF AuthIds
  <2>2. Targets(s, r) = <<s>>
    BY <1>1 DEF Targets, OnRef
  <2>3. <<s>> \in Seq(AuthIds)
    BY <2>1
  <2> QED
    BY <2>2, <2>3
<1>2. CASE r.kind \in OnRef
  <2>1. r.ref \in AuthIds
    BY <1>2, RequestFields DEF AuthIds
  <2>2. Targets(s, r) = <<r.ref>>
    BY <1>2 DEF Targets, OnRef
  <2>3. <<r.ref>> \in Seq(AuthIds)
    BY <2>1
  <2> QED
    BY <2>2, <2>3
<1>3. CASE r.kind = "settled"
  BY <1>3, RequestFields DEF Targets, OnRef, AuthIds
<1>4. CASE r.kind = "refund"
  BY <1>4, RequestFields DEF Targets, OnRef
<1> QED
  BY <1>1, <1>2, <1>3, <1>4, RequestFields DEF Kinds, OnRef

(* Authorized(..) is an authorization of the table.                        *)
LEMMA AuthorizedTyped ==
  ASSUME NEW record, NEW user, Known(record, user), NEW amount \in Int
  PROVE  /\ Authorized(record, user, amount) \in Authorization
         /\ [Authorized(record, user, amount) EXCEPT !.status = "pending"] \in Authorization
  BY DEF Known, Authorized, Authorization, AuthorizationStatus

LEMMA EntryTyped ==
  ASSUME NEW account \in Accounts, NEW type \in TransactionType, NEW cents \in Nat
  PROVE  Entry(account, type, cents) \in Row
  BY DEF Entry, Row, TransactionRow, TransactionStatus

LEMMA CreditTyped ==
  ASSUME NEW account, NEW cents \in Nat, cents # 0 => account \in Accounts
  PROVE  CreditIfAny(account, cents) \in Seq(Row)
<1>1. CASE cents = 0
  BY <1>1 DEF CreditIfAny
<1>2. CASE cents # 0
  <2>1. Entry(account, "credit", cents) \in Row
    BY <1>2, EntryTyped DEF TransactionType
  <2> QED
    BY <1>2, <2>1 DEF CreditIfAny
<1> QED
  BY <1>1, <1>2

LEMMA ConcatTyped ==
  ASSUME NEW S, NEW q \in Seq(S), NEW r \in Seq(S)
  PROVE  q \o r \in Seq(S)
  OBVIOUS

(* A settlement posts rows of the ledger: its shares are natural numbers   *)
(* and every account it names exists.                                      *)
LEMMA SettlementRows ==
  ASSUME NEW h \in Authorization, Splittable(h.amount), HasAccounts(h)
  PROVE  SettlementEntries(h) \in Seq(Row)
<1> DEFINE share == Split(h.amount, Bps)
           scribe == ScribeAccount[h.record]
           toScribe == IF scribe = None THEN 0 ELSE share["transcriptionist"]
           toPlatform == share["platform"] + (share["transcriptionist"] - toScribe)
<1>1. h.amount \in Nat /\ h.record \in Records /\ h.user \in Users
  BY DEF Splittable, Authorization
<1>2. Bps \in SplitConfig
  BY PaymentsAssumption DEF PaymentsAssumption
<1>3. \A p \in Party : share[p] \in Nat
  BY <1>1, <1>2, SplitAddsUp
<1>4. UserAccount[h.user] \in Accounts /\ ArchiveAccount[h.record] \in Accounts
        /\ PlatformAccount \in Accounts /\ scribe \in Accounts \cup {None}
  BY <1>1, PaymentsAssumption DEF HasAccounts, PaymentsAssumption
<1>5. share["archive"] \in Nat /\ share["transcriptionist"] \in Nat /\ share["platform"] \in Nat
  BY <1>3 DEF Party
<1> HIDE DEF share
<1>6. toScribe \in Nat /\ toPlatform \in Nat /\ (toScribe # 0 => scribe \in Accounts)
  BY <1>4, <1>5
<1> HIDE DEF scribe, toScribe, toPlatform
<1>7. Entry(UserAccount[h.user], "debit", h.amount) \in Row
  BY <1>1, <1>4, EntryTyped DEF TransactionType
<1>8. /\ CreditIfAny(ArchiveAccount[h.record], share["archive"]) \in Seq(Row)
      /\ CreditIfAny(scribe, toScribe) \in Seq(Row)
      /\ CreditIfAny(PlatformAccount, toPlatform) \in Seq(Row)
  BY <1>4, <1>5, <1>6, CreditTyped
<1>9. <<Entry(UserAccount[h.user], "debit", h.amount)>> \in Seq(Row)
  BY <1>7
<1>10. SettlementEntries(h) =
         ((<<Entry(UserAccount[h.user], "debit", h.amount)>>
            \o CreditIfAny(ArchiveAccount[h.record], share["archive"]))
            \o CreditIfAny(scribe, toScribe)) \o CreditIfAny(PlatformAccount, toPlatform)
  BY DEF SettlementEntries, share, scribe, toScribe, toPlatform
<1> QED
  BY <1>8, <1>9, <1>10, ConcatTyped

LEMMA EntriesTyped ==
  ASSUME NEW h \in Authorization, Settleable(h)
  PROVE  SettlementEntries(h) \in Seq(Row)
  BY SettlementRows DEF Settleable

LEMMA ReversalTyped ==
  ASSUME NEW row \in Row
  PROVE  Reversal(row) \in Row
<1>1. row.account \in Accounts /\ row.cents \in Nat /\ row.type \in TransactionType
  BY DEF Row, TransactionRow
<1>2. Opposite(row.type) \in TransactionType
  BY <1>1 DEF Opposite, TransactionType
<1> QED
  BY <1>1, <1>2, EntryTyped DEF Reversal

(* Flagging rows changes neither their number nor anything but the flag.   *)
LEMMA MarkReversedTyped ==
  ASSUME NEW q \in Seq(Row), NEW n \in Nat
  PROVE  /\ MarkReversed(q, n) \in Seq(Row)
         /\ Len(MarkReversed(q, n)) = Len(q)
         /\ \A i \in DOMAIN q : SamePosting(q[i], MarkReversed(q, n)[i])
<1>1. DOMAIN q = 1 .. Len(q) /\ Len(q) \in Nat /\ \A i \in DOMAIN q : q[i] \in Row
  OBVIOUS
<1>2. \A row \in Row : /\ [row EXCEPT !.status = "reversed"] \in Row
                       /\ SamePosting(row, [row EXCEPT !.status = "reversed"])
                       /\ SamePosting(row, row)
  BY DEF Row, TransactionRow, TransactionStatus, SamePosting
<1>3. \A i \in 1 .. Len(q) : MarkReversed(q, n)[i] \in Row
  BY <1>1, <1>2 DEF MarkReversed
<1>4. MarkReversed(q, n) \in [1 .. Len(q) -> Row]
  BY <1>1, <1>3 DEF MarkReversed
<1>5. MarkReversed(q, n) \in Seq(Row) /\ Len(MarkReversed(q, n)) = Len(q)
  BY <1>1, <1>4
<1>6. \A i \in DOMAIN q : SamePosting(q[i], MarkReversed(q, n)[i])
  BY <1>1, <1>2 DEF MarkReversed
<1> QED
  BY <1>5, <1>6

LEMMA DeltaTyped ==
  ASSUME NEW row \in Row
  PROVE  row.account \in Accounts /\ Delta(row) \in Int
  BY DEF Row, TransactionRow, Delta

(* Settling looks at the terms of an authorization, never at its status.   *)
LEMMA SettlementIgnoresStatus ==
  ASSUME NEW h, NEW k, SameTerms(h, k)
  PROVE  Settleable(h) = Settleable(k)
  BY DEF SameTerms, Settleable, HasAccounts, SettlementEntries

-----------------------------------------------------------------------------
(* Type correctness.                                                       *)

LEMMA ControlTyped ==
  ASSUME TypeOK, NEW s \in Sessions, NEW step \in Steps, NEW response \in Replies
  PROVE  /\ Go(s, step) => pc' \in [Sessions -> Steps]
         /\ Return(s, response) \/ Raise(s, response) =>
              /\ pc' \in [Sessions -> Steps]
              /\ reply' \in [Sessions -> Replies]
              /\ loop' \in Sessions \cup {None}
         /\ LeaveLoop(s) => loop' \in Sessions \cup {None}
<1>1. Go(s, step) => pc' \in [Sessions -> Steps]
  BY DEF TypeOK, Go
<1>2. LeaveLoop(s) => loop' \in Sessions \cup {None}
  BY DEF TypeOK, LeaveLoop
<1>3. ASSUME Return(s, response) \/ Raise(s, response)
      PROVE  /\ pc' \in [Sessions -> Steps]
             /\ reply' \in [Sessions -> Replies]
             /\ LeaveLoop(s)
  <2>1. /\ pc' = [pc EXCEPT ![s] = "respond"] \/ pc' = [pc EXCEPT ![s] = "rollback"]
        /\ reply' = [reply EXCEPT ![s] = response]
        /\ LeaveLoop(s)
    BY <1>3, Zenon DEF Return, Raise, Go
  <2>2. {"respond", "rollback"} \subseteq Steps
    BY DEF Steps
  <2>3. pc \in [Sessions -> Steps] /\ reply \in [Sessions -> Replies]
    BY DEF TypeOK
  <2>4. pc' \in [Sessions -> Steps]
    BY <2>1, <2>2, <2>3
  <2>5. reply' \in [Sessions -> Replies]
    BY <2>1, <2>3
  <2>6. LeaveLoop(s)
    BY <2>1
  <2> QED
    BY <2>4, <2>5, <2>6
<1> QED
  BY <1>1, <1>2, <1>3

LEMMA DiscardTyped ==
  ASSUME TypeOK, NEW s \in Sessions, Discard(s)
  PROVE  /\ claim' \in [Sessions -> Keys \cup Events \cup {None}]
         /\ newAuth' \in [Sessions -> [AuthIds -> Authorization \cup {None}]]
         /\ newSettlement' \in [Sessions -> [AuthIds -> {"none", "settled", "reversed"}]]
         /\ newRows' \in [Sessions -> [AuthIds -> Seq(Row)]]
         /\ newBalance' \in [Sessions -> [Accounts -> Int \cup {None}]]
         /\ listed' \in [Sessions -> Nat]
<1>1. NoWrites \in [AuthIds -> Authorization \cup {None}]
  BY DEF NoWrites
<1>2. [a \in AuthIds |-> <<>>] \in [AuthIds -> Seq(Row)]
  OBVIOUS
<1> QED
  BY <1>1, <1>2 DEF TypeOK, Discard

LEMMA LocksTyped ==
  ASSUME TypeOK, NEW s \in Sessions
  PROVE  /\ Lock(s) => holder' \in [Locks -> Sessions \cup {None}]
         /\ Release(s) => holder' \in [Locks -> Sessions \cup {None}]
  BY DEF TypeOK, Lock, Release

(* A failed statement, a rollback and the loss of a session. *)
LEMMA AbortTyped ==
  ASSUME TypeOK, NEW s \in Sessions, Abort(s)
  PROVE  TypeOK'
<1>1. /\ pc' \in [Sessions -> Steps] /\ reply' \in [Sessions -> Replies]
      /\ loop' \in Sessions \cup {None}
  BY ControlTyped DEF Abort, Replies, Steps
<1>2. Discard(s) /\ Release(s)
  BY DEF Abort
<1> QED
  BY <1>1, <1>2, DiscardTyped, LocksTyped DEF TypeOK, Abort, tables, handler

LEMMA TypeInit ==
  Init => TypeOK
<1> SUFFICES ASSUME Init PROVE TypeOK
  OBVIOUS
<1> USE PaymentsAssumption DEF PaymentsAssumption
<1>1. \A a \in Refs : Past[a] # "absent" => PastAuth(a) \in Authorization
  BY PastAssumption DEF PastAssumption, PastAuth, Authorization, AuthorizationStatus, Known
<1>2. auth \in [AuthIds -> Authorization \cup {None}]
  BY <1>1 DEF Init, PastAuth
<1>3. ASSUME NEW a \in AuthIds PROVE PastRows(a) \in Seq(Row)
  <2>1. CASE WasSettled(a)
    <3>1. Settleable(PastAuth(a)) /\ PastAuth(a) \in Authorization
      BY <1>1, <2>1, PastAssumption DEF PastAssumption, WasSettled
    <3> QED
      BY <2>1, <3>1, EntriesTyped DEF PastRows
  <2>2. CASE ~ WasSettled(a)
    BY <2>2 DEF PastRows
  <2> QED
    BY <2>1, <2>2
<1>4. rows \in [AuthIds -> Seq(Row)]
  BY <1>3 DEF Init
<1>5. /\ newRows \in [Sessions -> [AuthIds -> Seq(Row)]]
      /\ newAuth \in [Sessions -> [AuthIds -> Authorization \cup {None}]]
      /\ newSettlement \in [Sessions -> [AuthIds -> {"none", "settled", "reversed"}]]
      /\ newBalance \in [Sessions -> [Accounts -> Int \cup {None}]]
  BY DEF Init, NoWrites
<1>6. /\ settlement \in [AuthIds -> {"none", "settled", "reversed"}]
      /\ balance \in [Accounts -> Int]
      /\ answer \in [Keys -> AuthIds \cup {None}]
      /\ processed \in SUBSET Events
      /\ claim \in [Sessions -> Keys \cup Events \cup {None}]
      /\ listed \in [Sessions -> Nat]
      /\ pc \in [Sessions -> Steps]
      /\ req \in [Sessions -> Requests \cup {None}]
      /\ reply \in [Sessions -> Replies]
      /\ result \in [Sessions -> AuthIds \cup {None}]
      /\ holder \in [Locks -> Sessions \cup {None}]
      /\ loop \in Sessions \cup {None}
      /\ crashes \in 0 .. MaxCrashes
  BY DEF Init, Steps, Replies
<1>7. queue \in [Sessions -> Seq(AuthIds)] /\ entries \in [Sessions -> Seq(Row)]
  BY DEF Init
<1> QED
  BY <1>2, <1>4, <1>5, <1>6, <1>7 DEF TypeOK

(* What the handler of an open session works on. *)
LEMMA HandlerFacts ==
  ASSUME TypeOK, HandlerOK, NEW s \in Sessions, pc[s] # "idle"
  PROVE  /\ req[s] \in Requests /\ Kind(s) \in Kinds
         /\ KindAt(s) /\ QueueAt(s)
         /\ Kind(s) \in {"purchase", "cardauth"} => Current(s) = s
         /\ Kind(s) \in OnRef => Current(s) = req[s].ref /\ Current(s) \in Refs
         /\ Kind(s) = "refund" => Current(s) = req[s].auth
         /\ (Kind(s) = "settled" /\ queue[s] # <<>>) =>
              Current(s) \in Refs /\ Tail(queue[s]) \in Seq(Refs)
         /\ pc[s] \in {"insertAuth", "readNew", "readStatus", "writeStatus", "readAuth",
                       "readSettlement", "insertSettlement", "post", "readRefund", "listRows",
                       "markReversed"} => Current(s) \in AuthIds
<1>1. req[s] \in Requests /\ KindAt(s) /\ QueueAt(s)
  BY DEF HandlerOK, HandlerAt
<1>2. Kind(s) \in Kinds
  BY <1>1, RequestFields DEF Kind
<1>3. Kind(s) \in {"purchase", "cardauth"} => Current(s) = s /\ Current(s) \in AuthIds
  BY <1>1 DEF QueueAt, Current, AuthIds
<1>4. Kind(s) \in OnRef => Current(s) = req[s].ref /\ Current(s) \in Refs
  BY <1>1, RequestFields DEF QueueAt, Current, Kind
<1>5. Kind(s) = "refund" => Current(s) = req[s].auth /\ Current(s) \in AuthIds
  BY <1>1, RequestFields DEF QueueAt, Current, Kind
<1>6. (Kind(s) = "settled" /\ queue[s] # <<>>) =>
        Current(s) \in Refs /\ Tail(queue[s]) \in Seq(Refs)
  BY <1>1 DEF QueueAt, Current
<1>7. pc[s] \in {"insertAuth", "readNew", "readStatus", "writeStatus", "readAuth",
                 "readSettlement", "insertSettlement", "post", "readRefund", "listRows",
                 "markReversed"} => Current(s) \in AuthIds
  <2>1. \A a \in Refs : a \in AuthIds
    BY DEF AuthIds
  <2>2. (Kind(s) = "settled" /\ pc[s] \in {"readAuth", "readSettlement", "insertSettlement", "post"})
          => queue[s] # <<>>
    BY <1>1 DEF QueueAt
  <2> QED
    BY <1>1, <1>3, <1>4, <1>5, <1>6, <2>1, <2>2 DEF KindAt, OnRef
<1> QED
  BY <1>1, <1>2, <1>3, <1>4, <1>5, <1>6, <1>7

(* Every write wants the lock of a row or key that exists. *)
LEMMA WantedTyped ==
  ASSUME TypeOK, HandlerOK, NEW s \in Sessions, Writing(s),
         pc[s] = "post" => entries[s] # <<>>
  PROVE  /\ Wanted(s) \in Resources /\ LockOf(Wanted(s)) \in Locks
         /\ pc[s] = "claim" =>
              Wanted(s) = IF Kind(s) = "purchase" THEN <<"key", req[s].key>>
                                                  ELSE <<"event", req[s].event>>
         /\ pc[s] \in {"insertAuth", "writeStatus"} => Wanted(s) = <<"auth", Current(s)>>
         /\ pc[s] \in {"insertSettlement", "markReversed"} =>
              Wanted(s) = <<"settlement", Current(s)>>
         /\ pc[s] = "post" => Wanted(s) = <<"account", Head(entries[s]).account>>
<1>1. pc[s] # "idle"
  BY DEF Writing
<1>2. /\ pc[s] = "claim" =>
           Wanted(s) = IF Kind(s) = "purchase" THEN <<"key", req[s].key>>
                                               ELSE <<"event", req[s].event>>
      /\ pc[s] \in {"insertAuth", "writeStatus"} => Wanted(s) = <<"auth", Current(s)>>
      /\ pc[s] \in {"insertSettlement", "markReversed"} => Wanted(s) = <<"settlement", Current(s)>>
      /\ pc[s] = "post" => Wanted(s) = <<"account", Head(entries[s]).account>>
  BY DEF Wanted, Kind
<1>3. ASSUME pc[s] = "claim"
      PROVE  Wanted(s) \in Resources
  <2>1. /\ Kind(s) = "purchase" => req[s].key \in Keys
        /\ Kind(s) # "purchase" => req[s].event \in Events
    BY <1>1, <1>3, HandlerFacts, RequestFields DEF KindAt, Kind, FromProcessor
  <2>2. /\ Kind(s) = "purchase" => Wanted(s) \in {"key"} \X Keys
        /\ Kind(s) # "purchase" => Wanted(s) \in {"event"} \X Events
    BY <1>2, <1>3, <2>1
  <2> QED
    BY <2>2 DEF Resources
<1>4. ASSUME pc[s] \in {"insertAuth", "writeStatus", "insertSettlement", "markReversed"}
      PROVE  Wanted(s) \in Resources
  <2>1. Current(s) \in AuthIds
    BY <1>1, <1>4, HandlerFacts
  <2>2. Wanted(s) \in {"auth", "settlement"} \X AuthIds
    BY <1>2, <1>4, <2>1
  <2> QED
    BY <2>2 DEF Resources
<1>5. ASSUME pc[s] = "post"
      PROVE  Wanted(s) \in Resources
  <2>1. Head(entries[s]) \in Row
    BY <1>5 DEF TypeOK
  <2>2. Wanted(s) \in {"account"} \X Accounts
    BY <1>2, <1>5, <2>1, DeltaTyped
  <2> QED
    BY <2>2 DEF Resources
<1>6. Wanted(s) \in Resources
  BY <1>3, <1>4, <1>5 DEF Writing
<1> QED
  BY <1>2, <1>6 DEF Locks

(* A step that only moves the handler on.                                  *)
LEMMA QuietTyped ==
  ASSUME TypeOK, UNCHANGED <<tables, draft, handler, holder, crashes>>,
         pc' \in [Sessions -> Steps], reply' \in [Sessions -> Replies],
         result' \in [Sessions -> AuthIds \cup {None}], loop' \in Sessions \cup {None}
  PROVE  TypeOK'
  BY DEF TypeOK, tables, draft, handler

LEMMA RequireTyped ==
  ASSUME TypeOK, NEW s \in Sessions, NEW step \in Steps,
         \/ Go(s, step) /\ UNCHANGED <<reply, loop>>
         \/ Raise(s, "rejected")
  PROVE  /\ pc' \in [Sessions -> Steps]
         /\ reply' \in [Sessions -> Replies]
         /\ loop' \in Sessions \cup {None}
<1>1. CASE Go(s, step) /\ UNCHANGED <<reply, loop>>
  BY <1>1, ControlTyped DEF TypeOK, Replies
<1>2. CASE Raise(s, "rejected")
  BY <1>2, ControlTyped DEF Replies
<1> QED
  BY <1>1, <1>2

LEMMA ReadingTyped ==
  ASSUME TypeOK, HandlerOK, NEW s \in Sessions,
         \/ LookUpKey(s) \/ ClaimTaken(s) \/ RejectPurchase(s) \/ ReadNew(s) \/ ReadStatus(s)
         \/ ReadAuth(s) \/ ReadSettlement(s) \/ ReadForRefund(s) \/ Respond(s)
  PROVE  TypeOK'
<1>1. CASE LookUpKey(s)
  <2>1. req[s].key \in Keys
    BY <1>1, HandlerFacts, RequestFields DEF LookUpKey, KindAt, Kind
  <2>2. CASE answer[req[s].key] # None
    <3>1. Return(s, "ok") /\ result' = [result EXCEPT ![s] = answer[req[s].key]]
            /\ UNCHANGED <<tables, draft, handler, holder, crashes>>
      BY <1>1, <2>2 DEF LookUpKey
    <3>2. result' \in [Sessions -> AuthIds \cup {None}]
      BY <2>1, <3>1 DEF TypeOK
    <3> QED
      BY <3>1, <3>2, ControlTyped, QuietTyped DEF Replies, Steps
  <2>3. CASE answer[req[s].key] = None
    <3>1. Go(s, "claim") /\ UNCHANGED <<reply, loop, result>>
            /\ UNCHANGED <<tables, draft, handler, holder, crashes>>
      BY <1>1, <2>3 DEF LookUpKey
    <3> QED
      BY <3>1, ControlTyped, QuietTyped DEF Replies, Steps, TypeOK
  <2> QED
    BY <2>2, <2>3
<1>2. CASE ClaimTaken(s)
  <2>1. /\ Raise(s, "conflict") \/ Return(s, "ignored")
        /\ UNCHANGED <<tables, draft, handler, result, holder, crashes>>
    BY <1>2 DEF ClaimTaken
  <2> QED
    BY <2>1, ControlTyped, QuietTyped DEF Replies, Steps, TypeOK
<1>3. CASE RejectPurchase(s)
  <2>1. /\ Raise(s, "rejected")
        /\ UNCHANGED <<tables, draft, handler, result, holder, crashes>>
    BY <1>3 DEF RejectPurchase
  <2> QED
    BY <2>1, ControlTyped, QuietTyped DEF Replies, Steps, TypeOK
<1>4. CASE ReadNew(s) \/ ReadStatus(s) \/ ReadAuth(s) \/ ReadSettlement(s) \/ ReadForRefund(s)
  <2>1. PICK step \in Steps : \/ Go(s, step) /\ UNCHANGED <<reply, loop>>
                              \/ Raise(s, "rejected")
    BY <1>4 DEF ReadNew, ReadStatus, ReadAuth, ReadSettlement, ReadForRefund, Require, Steps
  <2>2. UNCHANGED <<tables, draft, handler, result, holder, crashes>>
    BY <1>4 DEF ReadNew, ReadStatus, ReadAuth, ReadSettlement, ReadForRefund
  <2> QED
    BY <2>1, <2>2, RequireTyped, QuietTyped DEF TypeOK
<1>5. CASE Respond(s)
  BY <1>5, ControlTyped, QuietTyped DEF Respond, Steps, TypeOK
<1> QED
  BY <1>1, <1>2, <1>3, <1>4, <1>5

LEMMA ArriveTyped ==
  ASSUME TypeOK, NEW s \in Sessions, NEW r \in Requests, Arrive(s, r)
  PROVE  TypeOK'
<1>1. FirstStep(r.kind) \in Steps
  BY RequestFields DEF FirstStep, Steps, Kinds, FromProcessor, OnRef
<1>2. pc' \in [Sessions -> Steps]
  BY <1>1, ControlTyped DEF Arrive, Replies
<1>3. req' \in [Sessions -> Requests \cup {None}] /\ queue' \in [Sessions -> Seq(AuthIds)]
  BY TargetsTyped DEF Arrive, TypeOK
<1>4. loop' \in Sessions \cup {None}
  BY DEF Arrive
<1> QED
  BY <1>2, <1>3, <1>4 DEF Arrive, TypeOK, tables, draft

LEMMA ClaimTyped ==
  ASSUME TypeOK, HandlerOK, NEW s \in Sessions, Claim(s)
  PROVE  TypeOK'
<1>1. ClaimValue(s) \in Keys \cup Events
  BY HandlerFacts, RequestFields DEF Claim, KindAt, Kind, ClaimValue, FromProcessor
<1>2. Kind(s) \in {"purchase"} \cup FromProcessor
  BY HandlerFacts DEF Claim, KindAt
<1>3. AfterClaim(s) \in Steps
  BY <1>2 DEF AfterClaim, Steps, Kind, FromProcessor, OnRef
<1>4. pc' \in [Sessions -> Steps] /\ holder' \in [Locks -> Sessions \cup {None}]
  BY <1>3, ControlTyped, LocksTyped DEF Claim, Replies
<1>5. reply' \in [Sessions -> Replies] /\ claim' \in [Sessions -> Keys \cup Events \cup {None}]
  BY <1>1 DEF Claim, TypeOK, Replies
<1> QED
  BY <1>4, <1>5 DEF Claim, TypeOK, tables, handler

LEMMA WriteAuthTyped ==
  ASSUME TypeOK, NEW s \in Sessions, NEW a \in AuthIds, NEW h \in Authorization,
         WriteAuth(s, a, h)
  PROVE  newAuth' \in [Sessions -> [AuthIds -> Authorization \cup {None}]]
  BY DEF TypeOK, WriteAuth

LEMMA AuthorizingTyped ==
  ASSUME TypeOK, HandlerOK, CheckedOK, NEW s \in Sessions,
         Purchase(s) \/ CreatePending(s) \/ WriteStatus(s)
  PROVE  TypeOK'
<1>1. CASE Purchase(s)
  <2>1. AmountOf(req[s]) \in Int
    <3>1. req[s] \in Requests
      BY <1>1, HandlerFacts DEF Purchase
    <3> QED
      BY <1>1, <3>1, RequestFields, PaymentsAssumption
      DEF Purchase, AmountOf, Known, PaymentsAssumption
  <2>2. newAuth' \in [Sessions -> [AuthIds -> Authorization \cup {None}]]
    BY <1>1, <2>1, AuthorizedTyped, WriteAuthTyped DEF Purchase, AuthIds
  <2>3. pc' \in [Sessions -> Steps] /\ holder' \in [Locks -> Sessions \cup {None}]
    BY <1>1, ControlTyped, LocksTyped DEF Purchase, Replies, Steps
  <2> QED
    BY <1>1, <2>2, <2>3 DEF Purchase, TypeOK, tables, handler
<1>2. CASE CreatePending(s)
  <2>1. Current(s) \in Refs /\ Current(s) \in AuthIds
    BY <1>2, HandlerFacts DEF CreatePending, Kind, OnRef
  <2>2. Known(Terms[Current(s)].record, Terms[Current(s)].user)
    BY <1>2 DEF CreatePending, CheckedOK, CheckedAt, Kind
  <2>3. Terms[Current(s)].amount \in Int
    BY <2>1, PaymentsAssumption DEF PaymentsAssumption
  <2>4. newAuth' \in [Sessions -> [AuthIds -> Authorization \cup {None}]]
    BY <1>2, <2>1, <2>2, <2>3, AuthorizedTyped, WriteAuthTyped DEF CreatePending
  <2>5. /\ pc' \in [Sessions -> Steps] /\ holder' \in [Locks -> Sessions \cup {None}]
        /\ reply' \in [Sessions -> Replies] /\ loop' \in Sessions \cup {None}
    BY <1>2, ControlTyped, LocksTyped DEF CreatePending, Replies, Steps
  <2> QED
    BY <1>2, <2>4, <2>5 DEF CreatePending, TypeOK, tables, handler
<1>3. CASE WriteStatus(s)
  <2>1. Current(s) \in AuthIds /\ auth[Current(s)] # None
    BY <1>3, HandlerFacts DEF WriteStatus, CheckedOK, CheckedAt
  <2>2. auth[Current(s)] \in Authorization
    BY <2>1 DEF TypeOK
  <2>3. \A status \in AuthorizationStatus :
          [auth[Current(s)] EXCEPT !.status = status] \in Authorization
    BY <2>2 DEF Authorization
  <2>4. newAuth' \in [Sessions -> [AuthIds -> Authorization \cup {None}]]
    BY <1>3, <2>1, <2>3, WriteAuthTyped DEF WriteStatus, AuthorizationStatus
  <2>5. /\ pc' \in [Sessions -> Steps] /\ holder' \in [Locks -> Sessions \cup {None}]
        /\ reply' \in [Sessions -> Replies] /\ loop' \in Sessions \cup {None}
    BY <1>3, ControlTyped, LocksTyped DEF WriteStatus, Replies, Steps
  <2> QED
    BY <1>3, <2>4, <2>5 DEF WriteStatus, TypeOK, tables, handler
<1> QED
  BY <1>1, <1>2, <1>3

LEMMA InsertSettlementTyped ==
  ASSUME TypeOK, HandlerOK, CheckedOK, NEW s \in Sessions, InsertSettlement(s)
  PROVE  TypeOK'
<1>1. Current(s) \in AuthIds
  BY HandlerFacts DEF InsertSettlement
<1>2. /\ SeenAuth(s, Current(s)) # None /\ Settleable(SeenAuth(s, Current(s)))
  BY DEF InsertSettlement, CheckedOK, CheckedAt
<1>3. SeenAuth(s, Current(s)) \in Authorization
  BY <1>1, <1>2 DEF SeenAuth, TypeOK
<1>4. SettlementEntries(SeenAuth(s, Current(s))) \in Seq(Row)
  BY <1>2, <1>3, EntriesTyped
<1>5. entries' \in [Sessions -> Seq(Row)]
  BY <1>4 DEF InsertSettlement, TypeOK
<1>6. newSettlement' \in [Sessions -> [AuthIds -> {"none", "settled", "reversed"}]]
  BY <1>1 DEF InsertSettlement, WriteSettlement, TypeOK
<1>7. pc' \in [Sessions -> Steps] /\ holder' \in [Locks -> Sessions \cup {None}]
  BY ControlTyped, LocksTyped DEF InsertSettlement, Replies, Steps
<1> QED
  BY <1>5, <1>6, <1>7 DEF InsertSettlement, TypeOK, tables

(* What one round of post_entries leaves well-typed. *)
LEMMA PostHeadTyped ==
  ASSUME TypeOK, HandlerOK, NEW s \in Sessions, PostHead(s), Len(entries[s]) >= 1
  PROVE  /\ newRows' \in [Sessions -> [AuthIds -> Seq(Row)]]
         /\ newBalance' \in [Sessions -> [Accounts -> Int \cup {None}]]
         /\ entries' \in [Sessions -> Seq(Row)]
         /\ holder' \in [Locks -> Sessions \cup {None}]
<1>1. entries[s] \in Seq(Row) /\ entries[s] # <<>>
  BY DEF TypeOK
<1> DEFINE e == Head(entries[s])
<1>2. e \in Row /\ Tail(entries[s]) \in Seq(Row)
  BY <1>1
<1>3. e.account \in Accounts /\ Delta(e) \in Int
  BY <1>2, DeltaTyped
<1>4. Current(s) \in AuthIds
  BY HandlerFacts DEF PostHead
<1>5. /\ newRows' = [newRows EXCEPT ![s][Current(s)] = Append(@, e)]
      /\ newBalance' = [newBalance EXCEPT ![s][e.account] = AdjustedBalance(s, e)]
      /\ entries' = [entries EXCEPT ![s] = Tail(@)]
      /\ Lock(s)
  BY DEF PostHead
<1> HIDE DEF e
<1>6. Append(newRows[s][Current(s)], e) \in Seq(Row)
  BY <1>2, <1>4 DEF TypeOK
<1>7. newRows' \in [Sessions -> [AuthIds -> Seq(Row)]]
  BY <1>4, <1>5, <1>6 DEF TypeOK
<1>8. AdjustedBalance(s, e) \in Int
  BY <1>3 DEF TypeOK, AdjustedBalance, SeenBalance
<1>9. newBalance' \in [Sessions -> [Accounts -> Int \cup {None}]]
  BY <1>3, <1>5, <1>8 DEF TypeOK
<1>10. entries' \in [Sessions -> Seq(Row)]
  BY <1>2, <1>5 DEF TypeOK
<1> QED
  BY <1>5, <1>7, <1>9, <1>10, LocksTyped

LEMMA PostingTyped ==
  ASSUME TypeOK, HandlerOK, NEW s \in Sessions,
         PostEntry(s) \/ PostLastOfMany(s) \/ PostLast(s) \/ PostLastReversal(s)
  PROVE  TypeOK'
<1>1. PostHead(s) /\ Len(entries[s]) >= 1
  <2>1. Len(entries[s]) > 1 \/ Len(entries[s]) = 1
    BY DEF PostEntry, PostLastOfMany, PostLast, PostLastReversal
  <2>2. PostHead(s)
    BY DEF PostEntry, PostLastOfMany, PostLast, PostLastReversal
  <2>3. Len(entries[s]) \in Nat
    BY DEF TypeOK
  <2> QED
    BY <2>1, <2>2, <2>3
<1>2. /\ newRows' \in [Sessions -> [AuthIds -> Seq(Row)]]
      /\ newBalance' \in [Sessions -> [Accounts -> Int \cup {None}]]
      /\ entries' \in [Sessions -> Seq(Row)]
      /\ holder' \in [Locks -> Sessions \cup {None}]
  BY <1>1, PostHeadTyped
<1>3. UNCHANGED <<tables, claim, newAuth, newSettlement, listed, req, crashes>>
  BY <1>1 DEF PostHead
<1>4. pc' \in [Sessions -> Steps] /\ reply' \in [Sessions -> Replies]
        /\ loop' \in Sessions \cup {None}
  <2>1. CASE PostEntry(s)
    BY <2>1 DEF PostEntry, TypeOK
  <2>2. CASE PostLastOfMany(s)
    BY <2>2, ControlTyped DEF PostLastOfMany, TypeOK, Replies, Steps
  <2>3. CASE PostLast(s)
    BY <2>3, ControlTyped DEF PostLast, Replies, Steps
  <2>4. CASE PostLastReversal(s)
    BY <2>4, ControlTyped DEF PostLastReversal, TypeOK, Replies, Steps
  <2> QED
    BY <2>1, <2>2, <2>3, <2>4
<1>5. result' \in [Sessions -> AuthIds \cup {None}]
  <2>1. result \in [Sessions -> AuthIds \cup {None}]
    BY DEF TypeOK
  <2>2. CASE PostLast(s)
    <3>1. \E x \in AuthIds \cup {None} : result' = [result EXCEPT ![s] = x]
      BY <2>2 DEF PostLast, AuthIds
    <3> QED
      BY <2>1, <3>1
  <2>3. CASE PostEntry(s) \/ PostLastOfMany(s) \/ PostLastReversal(s)
    <3>1. result' = result
      BY <2>3 DEF PostEntry, PostLastOfMany, PostLastReversal
    <3> QED
      BY <2>1, <3>1
  <2> QED
    BY <2>2, <2>3
<1>6. queue' \in [Sessions -> Seq(AuthIds)]
  <2>1. Len(queue[s]) > 1 => Tail(queue[s]) \in Seq(AuthIds)
    BY DEF TypeOK
  <2> QED
    BY <2>1 DEF PostEntry, PostLastOfMany, PostLast, PostLastReversal, TypeOK
<1> QED
  BY <1>2, <1>3, <1>4, <1>5, <1>6 DEF TypeOK, tables

LEMMA ListRowsTyped ==
  ASSUME TypeOK, HandlerOK, NEW s \in Sessions, ListRows(s)
  PROVE  TypeOK'
<1> DEFINE found == rows[Current(s)]
<1>1. Current(s) \in AuthIds
  BY HandlerFacts DEF ListRows
<1>2. found \in Seq(Row) /\ DOMAIN found = 1 .. Len(found) /\ Len(found) \in Nat
        /\ \A i \in DOMAIN found : found[i] \in Row
  BY <1>1 DEF TypeOK
<1>3. PICK order \in [DOMAIN found -> DOMAIN found] :
        entries' = [entries EXCEPT ![s] = [i \in DOMAIN found |-> Reversal(found[order[i]])]]
  BY DEF ListRows, Bijection, Injection
<1>4. listed' = [listed EXCEPT ![s] = Len(found)]
  BY DEF ListRows
<1>5. \/ Go(s, "post") /\ UNCHANGED <<reply, loop>>
      \/ Raise(s, "rejected")
  BY DEF ListRows, Require
<1>6. UNCHANGED <<tables, claim, newAuth, newSettlement, newRows, newBalance,
                  req, queue, result, holder, crashes>>
  BY DEF ListRows
<1> HIDE DEF found
<1>7. \A i \in 1 .. Len(found) : Reversal(found[order[i]]) \in Row
  BY <1>2, <1>3, ReversalTyped
<1>8. [i \in DOMAIN found |-> Reversal(found[order[i]])] \in Seq(Row)
  BY <1>2, <1>7
<1>9. entries' \in [Sessions -> Seq(Row)] /\ listed' \in [Sessions -> Nat]
  BY <1>2, <1>3, <1>4, <1>8 DEF TypeOK
<1>10. pc' \in [Sessions -> Steps] /\ reply' \in [Sessions -> Replies]
         /\ loop' \in Sessions \cup {None}
  BY <1>5, RequireTyped DEF Steps
<1> QED
  BY <1>6, <1>9, <1>10 DEF TypeOK, tables

LEMMA FlagReversedTyped ==
  ASSUME TypeOK, HandlerOK, NEW s \in Sessions, FlagReversed(s)
  PROVE  TypeOK'
<1>1. Current(s) \in AuthIds
  BY HandlerFacts DEF FlagReversed
<1>2. newSettlement' \in [Sessions -> [AuthIds -> {"none", "settled", "reversed"}]]
  BY <1>1 DEF FlagReversed, WriteSettlement, TypeOK
<1>3. /\ pc' \in [Sessions -> Steps] /\ holder' \in [Locks -> Sessions \cup {None}]
      /\ reply' \in [Sessions -> Replies] /\ loop' \in Sessions \cup {None}
  BY ControlTyped, LocksTyped DEF FlagReversed, Replies, Steps
<1> QED
  BY <1>2, <1>3 DEF FlagReversed, TypeOK, tables, handler

LEMMA CommitTyped ==
  ASSUME TypeOK, NEW s \in Sessions, Commit(s)
  PROVE  TypeOK'
<1>1. auth' \in [AuthIds -> Authorization \cup {None}]
        /\ settlement' \in [AuthIds -> {"none", "settled", "reversed"}]
  BY DEF Commit, Overlay, TypeOK
<1>2. ASSUME NEW a \in AuthIds PROVE CommittedRows(s, a) \in Seq(Row)
  <2>1. rows[a] \in Seq(Row) /\ newRows[s][a] \in Seq(Row) /\ listed[s] \in Nat
    BY DEF TypeOK
  <2>2. MarkReversed(rows[a], listed[s]) \in Seq(Row)
    BY <2>1, MarkReversedTyped
  <2> QED
    BY <2>1, <2>2, ConcatTyped DEF CommittedRows
<1>3. rows' \in [AuthIds -> Seq(Row)]
  BY <1>2 DEF Commit
<1>4. balance' \in [Accounts -> Int]
  BY DEF Commit, SeenBalance, TypeOK
<1>5. answer' \in [Keys -> AuthIds \cup {None}] /\ processed' \in SUBSET Events
  BY DEF Commit, TypeOK, AuthIds
<1>6. pc' \in [Sessions -> Steps] /\ holder' \in [Locks -> Sessions \cup {None}]
  BY ControlTyped, LocksTyped DEF Commit, Replies, Steps
<1>7. Discard(s)
  BY DEF Commit
<1> QED
  BY <1>1, <1>3, <1>4, <1>5, <1>6, <1>7, DiscardTyped DEF Commit, TypeOK, handler

LEMMA EndTyped ==
  ASSUME TypeOK, NEW s \in Sessions, Rollback(s) \/ Lose(s)
  PROVE  TypeOK'
<1>1. Discard(s) /\ Release(s) /\ Go(s, "done") /\ UNCHANGED <<tables, handler, result>>
  BY DEF Rollback, Lose
<1>2. pc' \in [Sessions -> Steps] /\ holder' \in [Locks -> Sessions \cup {None}]
  BY <1>1, ControlTyped, LocksTyped DEF Replies, Steps
<1>3. reply' \in [Sessions -> Replies]
  BY DEF Rollback, Lose, TypeOK, Replies
<1>4. loop' \in Sessions \cup {None}
  BY DEF Rollback, Lose, LeaveLoop, TypeOK
<1>5. crashes' \in 0 .. MaxCrashes
  BY PaymentsAssumption DEF Rollback, Lose, TypeOK, PaymentsAssumption
<1> QED
  BY <1>1, <1>2, <1>3, <1>4, <1>5, DiscardTyped DEF TypeOK, tables, handler

(* The session's transaction ends in one of these. *)
Aborting(s) ==
  CreateDuplicate(s) \/ SettleDuplicate(s) \/ PostOverflow(s) \/ DeadlockAbort(s) \/ BusyTimeout(s)

LEMMA AbortingAborts ==
  ASSUME NEW s, Aborting(s)
  PROVE  Abort(s)
  BY DEF Aborting, CreateDuplicate, SettleDuplicate, PostOverflow, DeadlockAbort, BusyTimeout

(* Every step of the system, by what it does to the database.              *)
Reading(s) ==
  \/ LookUpKey(s) \/ ClaimTaken(s) \/ RejectPurchase(s) \/ ReadNew(s) \/ ReadStatus(s)
  \/ ReadAuth(s) \/ ReadSettlement(s) \/ ReadForRefund(s) \/ Respond(s)

Posted(s) == PostEntry(s) \/ PostLastOfMany(s) \/ PostLast(s) \/ PostLastReversal(s)

LEMMA StepCases ==
  ASSUME NEW s, Step(s)
  PROVE  \/ Reading(s) \/ Claim(s) \/ Purchase(s) \/ CreatePending(s) \/ WriteStatus(s)
         \/ InsertSettlement(s) \/ Posted(s) \/ ListRows(s) \/ FlagReversed(s)
         \/ Commit(s) \/ Rollback(s) \/ Aborting(s)
  BY DEF Step, Authorizing, Settling, Posting, Refunding, Ending, Reading, Posted, Aborting

LEMMA TypeStep ==
  ASSUME IInv, [Next]_vars
  PROVE  TypeOK'
<1> USE DEF IInv
<1>1. ASSUME NEW s \in Sessions, Step(s) PROVE TypeOK'
  BY <1>1, StepCases, ReadingTyped, ClaimTyped, AuthorizingTyped, InsertSettlementTyped,
     PostingTyped, ListRowsTyped, FlagReversedTyped, CommitTyped, EndTyped, AbortingAborts,
     AbortTyped
  DEF Reading, Posted
<1>2. ASSUME NEW s \in Sessions, Lose(s) PROVE TypeOK'
  BY <1>2, EndTyped
<1>3. CASE UNCHANGED vars
  BY <1>3 DEF TypeOK, vars, tables, draft, handler
<1> QED
  BY <1>1, <1>2, <1>3, ArriveTyped DEF Next, AllServed

-----------------------------------------------------------------------------
(* Uncommitted writes are covered by locks.                                *)

(* WritesAreLocked, for one session. *)
Covered(s) ==
  /\ \A a \in AuthIds :
       /\ newAuth[s][a] # None => holder[LockOf(<<"auth", a>>)] = s
       /\ newSettlement[s][a] # "none" => holder[LockOf(<<"settlement", a>>)] = s
  /\ \A c \in Accounts : newBalance[s][c] # None => holder[LockOf(<<"account", c>>)] = s
  /\ claim[s] \in Keys => holder[LockOf(<<"key", claim[s]>>)] = s
  /\ claim[s] \in Events => holder[LockOf(<<"event", claim[s]>>)] = s

LEMMA CoveredIsLocked ==
  /\ WritesAreLocked <=> \A s \in Sessions : Covered(s)
  /\ WritesAreLocked' <=> \A s \in Sessions : Covered(s)'
  BY DEF WritesAreLocked, Covered

LEMMA LocksExist ==
  /\ \A a \in AuthIds : LockOf(<<"auth", a>>) \in Locks /\ LockOf(<<"settlement", a>>) \in Locks
  /\ \A c \in Accounts : LockOf(<<"account", c>>) \in Locks
  /\ \A k \in Keys : LockOf(<<"key", k>>) \in Locks
  /\ \A e \in Events : LockOf(<<"event", e>>) \in Locks
<1>1. /\ \A a \in AuthIds : <<"auth", a>> \in Resources /\ <<"settlement", a>> \in Resources
      /\ \A c \in Accounts : <<"account", c>> \in Resources
      /\ \A k \in Keys : <<"key", k>> \in Resources
      /\ \A e \in Events : <<"event", e>> \in Resources
  BY DEF Resources
<1> QED
  BY <1>1 DEF Locks

(* Taking a lock takes none away. *)
LEMMA LockTaken ==
  ASSUME TypeOK, NEW s \in Sessions, CanWrite(s), Lock(s), LockOf(Wanted(s)) \in Locks
  PROVE  /\ holder'[LockOf(Wanted(s))] = s
         /\ \A l \in Locks, t \in Sessions : holder[l] = t => holder'[l] = t
  BY NoneIsNothing DEF TypeOK, CanWrite, HolderFor, Lock

LEMMA QuietLocked ==
  ASSUME WritesAreLocked, UNCHANGED <<draft, holder>>
  PROVE  WritesAreLocked'
  BY DEF WritesAreLocked, draft

(* A session that ends gives up its own writes and its own locks.          *)
LEMMA EndLocked ==
  ASSUME TypeOK, WritesAreLocked, NEW s \in Sessions, Discard(s), Release(s)
  PROVE  WritesAreLocked'
<1>1. Covered(s)'
  <2>1. claim'[s] = None /\ newAuth'[s] = NoWrites
          /\ newSettlement'[s] = [a \in AuthIds |-> "none"]
          /\ newBalance'[s] = [c \in Accounts |-> None]
    BY DEF TypeOK, Discard
  <2> QED
    BY <2>1, NoneIsNothing DEF Covered, NoWrites
<1>2. ASSUME NEW t \in Sessions, t # s PROVE Covered(t)'
  <2>1. /\ claim'[t] = claim[t] /\ newAuth'[t] = newAuth[t]
        /\ newSettlement'[t] = newSettlement[t] /\ newBalance'[t] = newBalance[t]
    BY <1>2 DEF TypeOK, Discard
  <2>2. \A l \in Locks : holder[l] = t => holder'[l] = t
    BY <1>2 DEF Release
  <2>3. Covered(t)
    BY CoveredIsLocked
  <2> QED
    BY <2>1, <2>2, <2>3, LocksExist DEF Covered
<1> QED
  BY <1>1, <1>2, CoveredIsLocked

(* A write changes what one session has written, once it holds the lock.   *)
LEMMA WriteLocked ==
  ASSUME TypeOK, HandlerOK, WritesAreLocked, NEW s \in Sessions, Writing(s),
         pc[s] = "post" => entries[s] # <<>>, CanWrite(s), Lock(s),
         \A t \in Sessions : t # s =>
           /\ claim'[t] = claim[t] /\ newAuth'[t] = newAuth[t]
           /\ newSettlement'[t] = newSettlement[t] /\ newBalance'[t] = newBalance[t],
         \A a \in AuthIds :
           /\ newAuth'[s][a] # None => newAuth[s][a] # None \/ Wanted(s) = <<"auth", a>>
           /\ newSettlement'[s][a] # "none" =>
                newSettlement[s][a] # "none" \/ Wanted(s) = <<"settlement", a>>,
         \A c \in Accounts :
           newBalance'[s][c] # None => newBalance[s][c] # None \/ Wanted(s) = <<"account", c>>,
         \/ claim'[s] = claim[s]
         \/ claim'[s] \in Keys \ Events /\ Wanted(s) = <<"key", claim'[s]>>
         \/ claim'[s] \in Events \ Keys /\ Wanted(s) = <<"event", claim'[s]>>
  PROVE  WritesAreLocked'
<1>1. LockOf(Wanted(s)) \in Locks
  BY WantedTyped
<1>2. /\ holder'[LockOf(Wanted(s))] = s
      /\ \A l \in Locks, t \in Sessions : holder[l] = t => holder'[l] = t
  BY <1>1, LockTaken
<1>3. \A t \in Sessions : Covered(t)
  BY CoveredIsLocked
<1>4. ASSUME NEW t \in Sessions, t # s PROVE Covered(t)'
  BY <1>2, <1>3, <1>4, LocksExist DEF Covered
<1>5. Covered(s)'
  <2> USE <1>2, LocksExist
  <2>1. Covered(s)
    BY <1>3
  <2>2. ASSUME NEW a \in AuthIds
        PROVE  /\ newAuth'[s][a] # None => holder'[LockOf(<<"auth", a>>)] = s
               /\ newSettlement'[s][a] # "none" => holder'[LockOf(<<"settlement", a>>)] = s
    BY <2>1 DEF Covered
  <2>3. ASSUME NEW c \in Accounts
        PROVE  newBalance'[s][c] # None => holder'[LockOf(<<"account", c>>)] = s
    BY <2>1 DEF Covered
  <2>4. CASE claim'[s] = claim[s]
    <3>1. /\ claim'[s] \in Keys => holder'[LockOf(<<"key", claim'[s]>>)] = s
          /\ claim'[s] \in Events => holder'[LockOf(<<"event", claim'[s]>>)] = s
      BY <2>1, <2>4 DEF Covered
    <3> QED
      BY <2>2, <2>3, <3>1 DEF Covered
  <2>5. CASE claim'[s] # claim[s]
    <3>1. /\ claim'[s] \in Keys => holder'[LockOf(<<"key", claim'[s]>>)] = s
          /\ claim'[s] \in Events => holder'[LockOf(<<"event", claim'[s]>>)] = s
      BY <2>5
    <3> QED
      BY <2>2, <2>3, <3>1 DEF Covered
  <2> QED
    BY <2>4, <2>5
<1> QED
  BY <1>4, <1>5, CoveredIsLocked

LEMMA ClaimLocked ==
  ASSUME TypeOK, HandlerOK, WritesAreLocked, NEW s \in Sessions, Claim(s)
  PROVE  WritesAreLocked'
<1>1. /\ Writing(s) /\ pc[s] = "claim" /\ CanWrite(s) /\ Lock(s)
      /\ claim' = [claim EXCEPT ![s] = ClaimValue(s)]
      /\ UNCHANGED <<newAuth, newSettlement, newBalance>>
  BY DEF Claim, Writing
<1>2. Kind(s) \in {"purchase"} \cup FromProcessor /\ req[s] \in Requests
  BY <1>1, HandlerFacts DEF KindAt
<1>3. /\ Kind(s) = "purchase" => ClaimValue(s) \in Keys /\ Wanted(s) = <<"key", ClaimValue(s)>>
      /\ Kind(s) # "purchase" => ClaimValue(s) \in Events /\ Wanted(s) = <<"event", ClaimValue(s)>>
  BY <1>1, <1>2, WantedTyped, RequestFields DEF ClaimValue, Kind, FromProcessor
<1>4. Keys \cap Events = {}
  BY PaymentsAssumption DEF PaymentsAssumption
<1>5. claim'[s] = ClaimValue(s) /\ \A t \in Sessions : t # s => claim'[t] = claim[t]
  BY <1>1 DEF TypeOK
<1>6. \/ claim'[s] \in Keys \ Events /\ Wanted(s) = <<"key", claim'[s]>>
      \/ claim'[s] \in Events \ Keys /\ Wanted(s) = <<"event", claim'[s]>>
  BY <1>3, <1>4, <1>5
<1> QED
  BY <1>1, <1>5, <1>6, WriteLocked

(* The three actions that write an authorization. *)
LEMMA WriteAuthLocked ==
  ASSUME TypeOK, HandlerOK, WritesAreLocked, NEW s \in Sessions, NEW h,
         pc[s] \in {"insertAuth", "writeStatus"}, CanWrite(s), Lock(s),
         WriteAuth(s, Current(s), h), UNCHANGED <<claim, newSettlement, newBalance>>
  PROVE  WritesAreLocked'
<1>1. Writing(s) /\ Wanted(s) = <<"auth", Current(s)>>
  BY WantedTyped DEF Writing
<1>2. \A t \in Sessions : t # s => newAuth'[t] = newAuth[t]
  BY DEF TypeOK, WriteAuth
<1>3. \A a \in AuthIds : a # Current(s) => newAuth'[s][a] = newAuth[s][a]
  BY DEF TypeOK, WriteAuth
<1> QED
  BY <1>1, <1>2, <1>3, WriteLocked

LEMMA AuthorizingLocked ==
  ASSUME TypeOK, HandlerOK, WritesAreLocked, NEW s \in Sessions,
         Purchase(s) \/ CreatePending(s) \/ WriteStatus(s)
  PROVE  WritesAreLocked'
<1>1. PICK h : /\ WriteAuth(s, Current(s), h)
               /\ pc[s] \in {"insertAuth", "writeStatus"} /\ CanWrite(s) /\ Lock(s)
               /\ UNCHANGED <<claim, newSettlement, newBalance>>
  <2>1. CASE Purchase(s)
    <3>1. Current(s) = s
      BY <2>1, HandlerFacts DEF Purchase, Kind
    <3> QED
      BY <2>1, <3>1 DEF Purchase
  <2>2. CASE CreatePending(s)
    BY <2>2 DEF CreatePending
  <2>3. CASE WriteStatus(s)
    BY <2>3 DEF WriteStatus
  <2> QED
    BY <2>1, <2>2, <2>3
<1> QED
  BY <1>1, WriteAuthLocked

LEMMA WriteSettlementLocked ==
  ASSUME TypeOK, HandlerOK, WritesAreLocked, NEW s \in Sessions,
         InsertSettlement(s) \/ FlagReversed(s)
  PROVE  WritesAreLocked'
<1>1. PICK status : /\ WriteSettlement(s, Current(s), status)
                    /\ pc[s] \in {"insertSettlement", "markReversed"} /\ CanWrite(s) /\ Lock(s)
                    /\ UNCHANGED <<claim, newAuth, newBalance>>
  BY DEF InsertSettlement, FlagReversed
<1>2. Writing(s) /\ Wanted(s) = <<"settlement", Current(s)>>
  BY <1>1, WantedTyped DEF Writing
<1>3. \A t \in Sessions : t # s => newSettlement'[t] = newSettlement[t]
  BY <1>1 DEF TypeOK, WriteSettlement
<1>4. \A a \in AuthIds : a # Current(s) => newSettlement'[s][a] = newSettlement[s][a]
  BY <1>1 DEF TypeOK, WriteSettlement
<1> QED
  BY <1>1, <1>2, <1>3, <1>4, WriteLocked

LEMMA PostedFacts ==
  ASSUME TypeOK, NEW s \in Sessions, Posted(s)
  PROVE  PostHead(s) /\ entries[s] # <<>>
<1>1. Len(entries[s]) > 1 \/ Len(entries[s]) = 1
  BY DEF Posted, PostEntry, PostLastOfMany, PostLast, PostLastReversal
<1>2. PostHead(s)
  BY DEF Posted, PostEntry, PostLastOfMany, PostLast, PostLastReversal
<1>3. entries[s] \in Seq(Row)
  BY DEF TypeOK
<1>4. ASSUME entries[s] = <<>> PROVE FALSE
  <2>1. Len(entries[s]) = 0
    BY <1>4
  <2> QED
    BY <1>1, <2>1
<1> QED
  BY <1>2, <1>4

LEMMA PostedLocked ==
  ASSUME TypeOK, HandlerOK, WritesAreLocked, NEW s \in Sessions, Posted(s)
  PROVE  WritesAreLocked'
<1>1. PostHead(s) /\ entries[s] # <<>>
  BY PostedFacts
<1> DEFINE e == Head(entries[s])
<1>2. /\ pc[s] = "post" /\ CanWrite(s) /\ Lock(s)
      /\ newBalance' = [newBalance EXCEPT ![s][e.account] = AdjustedBalance(s, e)]
      /\ UNCHANGED <<claim, newAuth, newSettlement>>
  BY <1>1 DEF PostHead
<1>3. Writing(s) /\ Wanted(s) = <<"account", e.account>>
  BY <1>1, <1>2, WantedTyped DEF Writing
<1> HIDE DEF e
<1>4. \A t \in Sessions : t # s => newBalance'[t] = newBalance[t]
  BY <1>2 DEF TypeOK
<1>5. \A c \in Accounts : c # e.account => newBalance'[s][c] = newBalance[s][c]
  BY <1>2 DEF TypeOK
<1> QED
  BY <1>1, <1>2, <1>3, <1>4, <1>5, WriteLocked

LEMMA LockedStep ==
  ASSUME IInv, [Next]_vars
  PROVE  WritesAreLocked'
<1> USE DEF IInv
<1>1. ASSUME NEW s \in Sessions, Step(s) PROVE WritesAreLocked'
  <2>1. CASE Reading(s)
    BY <2>1, QuietLocked
    DEF Reading, LookUpKey, ClaimTaken, RejectPurchase, ReadNew, ReadStatus, ReadAuth,
        ReadSettlement, ReadForRefund, Respond
  <2>2. CASE ListRows(s)
    BY <2>2 DEF ListRows, WritesAreLocked
  <2>3. CASE Commit(s) \/ Rollback(s) \/ Aborting(s)
    BY <2>3, EndLocked, AbortingAborts DEF Commit, Rollback, Abort
  <2> QED
    BY <1>1, <2>1, <2>2, <2>3, StepCases, ClaimLocked, AuthorizingLocked,
       WriteSettlementLocked, PostedLocked
<1>2. ASSUME NEW s \in Sessions, Lose(s) PROVE WritesAreLocked'
  BY <1>2, EndLocked DEF Lose
<1>3. ASSUME NEW s \in Sessions, NEW r \in Requests, Arrive(s, r) PROVE WritesAreLocked'
  BY <1>3, QuietLocked DEF Arrive
<1>4. CASE UNCHANGED vars
  BY <1>4, QuietLocked DEF vars
<1> QED
  BY <1>1, <1>2, <1>3, <1>4 DEF Next, AllServed

-----------------------------------------------------------------------------
(* The control flow of a handler.                                          *)

LEMMA Moved ==
  ASSUME TypeOK, NEW s \in Sessions, NEW step, NEW response
  PROVE  /\ Go(s, step) => pc'[s] = step
         /\ Return(s, response) => pc'[s] = "respond"
         /\ Raise(s, response) => pc'[s] = "rollback"
         /\ Go(s, step) \/ Return(s, response) \/ Raise(s, response) =>
              \A t \in Sessions : t # s => pc'[t] = pc[t]
  BY DEF TypeOK, Go, Return, Raise

(* No other session's handler moves or writes. *)
OthersKept(s) ==
  \A t \in Sessions : t # s =>
    /\ pc'[t] = pc[t] /\ req'[t] = req[t] /\ queue'[t] = queue[t]
    /\ claim'[t] = claim[t] /\ newAuth'[t] = newAuth[t]

LEMMA KeepsOthers ==
  ASSUME TypeOK, NEW s \in Sessions,
         Step(s) \/ Lose(s) \/ \E r \in Requests : Arrive(s, r)
  PROVE  OthersKept(s)
<1>1. \A t \in Sessions : t # s => pc'[t] = pc[t]
  <2>1. CASE Reading(s)
    BY <2>1, Moved
    DEF Reading, LookUpKey, ClaimTaken, RejectPurchase, ReadNew, ReadStatus, ReadAuth,
        ReadSettlement, ReadForRefund, Respond, Require
  <2>2. CASE Claim(s) \/ Purchase(s) \/ CreatePending(s) \/ WriteStatus(s)
    BY <2>2, Moved DEF Claim, Purchase, CreatePending, WriteStatus
  <2>3. CASE InsertSettlement(s) \/ ListRows(s) \/ FlagReversed(s)
    BY <2>3, Moved DEF InsertSettlement, ListRows, FlagReversed, Require
  <2>4. CASE Posted(s)
    BY <2>4, Moved DEF Posted, PostEntry, PostLastOfMany, PostLast, PostLastReversal
  <2>5. CASE Commit(s) \/ Rollback(s) \/ Aborting(s) \/ Lose(s)
    BY <2>5, Moved, AbortingAborts DEF Commit, Rollback, Abort, Lose
  <2>6. CASE \E r \in Requests : Arrive(s, r)
    BY <2>6, Moved DEF Arrive
  <2> QED
    BY <2>1, <2>2, <2>3, <2>4, <2>5, <2>6, StepCases
<1>2. \A t \in Sessions : t # s => req'[t] = req[t] /\ queue'[t] = queue[t]
  <2>1. CASE Reading(s)
    BY <2>1
    DEF Reading, LookUpKey, ClaimTaken, RejectPurchase, ReadNew, ReadStatus, ReadAuth,
        ReadSettlement, ReadForRefund, Respond, handler
  <2>2. CASE Claim(s) \/ Purchase(s) \/ CreatePending(s) \/ WriteStatus(s)
    BY <2>2 DEF Claim, Purchase, CreatePending, WriteStatus, handler
  <2>3. CASE InsertSettlement(s) \/ ListRows(s) \/ FlagReversed(s)
    BY <2>3 DEF InsertSettlement, ListRows, FlagReversed, handler
  <2>4. CASE Posted(s)
    BY <2>4 DEF Posted, PostEntry, PostLastOfMany, PostLast, PostLastReversal, PostHead, TypeOK
  <2>5. CASE Commit(s) \/ Rollback(s) \/ Aborting(s) \/ Lose(s)
    BY <2>5, AbortingAborts DEF Commit, Rollback, Abort, Lose, handler
  <2>6. CASE \E r \in Requests : Arrive(s, r)
    BY <2>6 DEF Arrive, TypeOK
  <2> QED
    BY <2>1, <2>2, <2>3, <2>4, <2>5, <2>6, StepCases
<1>3. \A t \in Sessions : t # s => claim'[t] = claim[t] /\ newAuth'[t] = newAuth[t]
  <2>1. CASE Reading(s)
    BY <2>1
    DEF Reading, LookUpKey, ClaimTaken, RejectPurchase, ReadNew, ReadStatus, ReadAuth,
        ReadSettlement, ReadForRefund, Respond, draft
  <2>2. CASE Claim(s) \/ Purchase(s) \/ CreatePending(s) \/ WriteStatus(s)
    BY <2>2 DEF Claim, Purchase, CreatePending, WriteStatus, WriteAuth, TypeOK
  <2>3. CASE InsertSettlement(s) \/ ListRows(s) \/ FlagReversed(s)
    BY <2>3 DEF InsertSettlement, ListRows, FlagReversed
  <2>4. CASE Posted(s)
    BY <2>4 DEF Posted, PostEntry, PostLastOfMany, PostLast, PostLastReversal, PostHead
  <2>5. CASE Commit(s) \/ Rollback(s) \/ Aborting(s) \/ Lose(s)
    BY <2>5, AbortingAborts DEF Commit, Rollback, Abort, Lose, Discard, TypeOK
  <2>6. CASE \E r \in Requests : Arrive(s, r)
    BY <2>6 DEF Arrive, draft
  <2> QED
    BY <2>1, <2>2, <2>3, <2>4, <2>5, <2>6, StepCases
<1> QED
  BY <1>1, <1>2, <1>3 DEF OthersKept

(* Where a step of session s takes it: the control flow of its handler.    *)
Ended(s) == pc'[s] \in {"respond", "commit", "rollback", "done"}

Goes(s, from, to) == pc[s] = from /\ pc'[s] = to /\ queue'[s] = queue[s]

Follows(s) ==
  \/ Ended(s) /\ queue'[s] = queue[s]
  \/ Goes(s, "lookup", "claim") /\ newAuth'[s] = newAuth[s]
  \/ Goes(s, "claim", AfterClaim(s)) /\ newAuth'[s] = newAuth[s]
  \/ Goes(s, "insertAuth", "readAuth") /\ Kind(s) \in {"purchase", "cardauth"}
  \/ Goes(s, "readNew", "insertAuth")
  \/ Goes(s, "readStatus", "writeStatus")
  \/ Goes(s, "readAuth", "readSettlement")
  \/ Goes(s, "readSettlement", "insertSettlement")
  \/ Goes(s, "insertSettlement", "post")
  \/ Goes(s, "post", "post")
  \/ Goes(s, "post", "markReversed") /\ Kind(s) = "refund"
  \/ Goes(s, "readRefund", "listRows")
  \/ Goes(s, "listRows", "post")
  \/ pc[s] = "post" /\ pc'[s] = "readAuth" /\ Len(queue[s]) > 1 /\ queue'[s] = Tail(queue[s])

LEMMA StepFollows ==
  ASSUME TypeOK, NEW s \in Sessions, Step(s)
  PROVE  pc[s] \notin {"idle", "done"} /\ req'[s] = req[s] /\ Follows(s)
<1> USE Moved DEF Goes, Ended, Follows
<1>1. CASE Reading(s)
  <2>1. pc[s] \notin {"idle", "done"} /\ UNCHANGED <<req, queue, newAuth>>
    BY <1>1
    DEF Reading, LookUpKey, ClaimTaken, RejectPurchase, ReadNew, ReadStatus, ReadAuth,
        ReadSettlement, ReadForRefund, Respond, handler, draft
  <2>2. \/ Ended(s)
        \/ pc[s] = "lookup" /\ pc'[s] = "claim"
        \/ pc[s] = "readNew" /\ pc'[s] = "insertAuth"
        \/ pc[s] = "readStatus" /\ pc'[s] = "writeStatus"
        \/ pc[s] = "readAuth" /\ pc'[s] = "readSettlement"
        \/ pc[s] = "readSettlement" /\ pc'[s] = "insertSettlement"
        \/ pc[s] = "readRefund" /\ pc'[s] = "listRows"
    BY <1>1
    DEF Reading, LookUpKey, ClaimTaken, RejectPurchase, ReadNew, ReadStatus, ReadAuth,
        ReadSettlement, ReadForRefund, Respond, Require
  <2> QED
    BY <2>1, <2>2
<1>2. CASE Claim(s)
  BY <1>2 DEF Claim, handler
<1>3. CASE Purchase(s) \/ CreatePending(s) \/ WriteStatus(s)
  BY <1>3 DEF Purchase, CreatePending, WriteStatus, Kind, handler
<1>4. CASE InsertSettlement(s) \/ ListRows(s) \/ FlagReversed(s)
  BY <1>4 DEF InsertSettlement, ListRows, FlagReversed, Require, handler
<1>5. CASE Posted(s)
  <2>1. pc[s] = "post" /\ req' = req
    BY <1>5 DEF Posted, PostEntry, PostLastOfMany, PostLast, PostLastReversal, PostHead
  <2>2. \/ pc'[s] = "post" /\ queue'[s] = queue[s]
        \/ pc'[s] = "respond" /\ queue'[s] = queue[s]
        \/ pc'[s] = "markReversed" /\ queue'[s] = queue[s] /\ Kind(s) = "refund"
        \/ pc'[s] = "readAuth" /\ Len(queue[s]) > 1 /\ queue'[s] = Tail(queue[s])
    BY <1>5, <2>1
    DEF Posted, PostEntry, PostLastOfMany, PostLast, PostLastReversal, Kind, TypeOK
  <2> QED
    BY <2>1, <2>2
<1>6. CASE Commit(s) \/ Rollback(s) \/ Aborting(s)
  <2>1. pc[s] \notin {"idle", "done"}
    BY <1>6 DEF Commit, Rollback, Aborting, CreateDuplicate, SettleDuplicate, PostOverflow,
       DeadlockAbort, BusyTimeout, Blocked, Writing
  <2>2. UNCHANGED <<req, queue>> /\ Ended(s)
    BY <1>6, AbortingAborts DEF Commit, Rollback, Abort, handler
  <2> QED
    BY <2>1, <2>2
<1> QED
  BY <1>1, <1>2, <1>3, <1>4, <1>5, <1>6, StepCases

LEMMA LengthOne ==
  ASSUME NEW q, NEW x, q = <<x>>
  PROVE  ~ (Len(q) > 1)
  OBVIOUS

LEMMA LongTail ==
  ASSUME NEW S, NEW q \in Seq(S), Len(q) > 1
  PROVE  Tail(q) \in Seq(S) /\ Tail(q) # <<>>
<1>1. Tail(q) \in Seq(S) /\ Len(Tail(q)) = Len(q) - 1 /\ Len(q) \in Nat
  OBVIOUS
<1> DEFINE r == Tail(q)
<1>2. r \in Seq(S) /\ Len(r) >= 1
  BY <1>1
<1> HIDE DEF r
<1>3. r # <<>>
  BY <1>2
<1> QED
  BY <1>2, <1>3 DEF r

LEMMA HandlerFollows ==
  ASSUME TypeOK, HandlerOK, NEW s \in Sessions, pc[s] # "idle", req'[s] = req[s], Follows(s)
  PROVE  HandlerAt(s)'
<1>1. req[s] \in Requests /\ KindAt(s) /\ QueueAt(s) /\ Kind(s) \in Kinds /\ Kind(s)' = Kind(s)
  BY HandlerFacts DEF Kind
<1>2. ASSUME queue'[s] = queue[s],
             pc'[s] \in {"readAuth", "readSettlement", "insertSettlement", "post"} =>
               queue[s] # <<>>
      PROVE  QueueAt(s)'
  BY <1>1, <1>2 DEF QueueAt, Kind
<1>3. CASE Ended(s) /\ queue'[s] = queue[s]
  BY <1>1, <1>2, <1>3 DEF Ended, HandlerAt, KindAt, EarlySteps
<1>4. CASE Goes(s, "lookup", "claim") /\ newAuth'[s] = newAuth[s]
  <2>1. newAuth'[s] = NoWrites
    BY <1>4 DEF Goes, HandlerOK, HandlerAt, EarlySteps
  <2> QED
    BY <1>1, <1>2, <1>4, <2>1 DEF Goes, HandlerAt, KindAt, NoWrites
<1>5. CASE Goes(s, "claim", AfterClaim(s)) /\ newAuth'[s] = newAuth[s]
  <2>1. newAuth'[s] = NoWrites
    BY <1>5 DEF Goes, HandlerOK, HandlerAt, EarlySteps
  <2>2. /\ Kind(s) = "purchase" => pc'[s] = "insertAuth"
        /\ Kind(s) = "created" => pc'[s] = "readNew"
        /\ Kind(s) \in {"approved", "declined"} => pc'[s] = "readStatus"
        /\ Kind(s) = "settled" => \/ pc'[s] = "readAuth" /\ queue[s] # <<>>
                                  \/ pc'[s] = "respond"
        /\ Kind(s) \in {"purchase", "created", "approved", "declined", "settled"}
    BY <1>1, <1>5 DEF Goes, AfterClaim, Kind, KindAt, FromProcessor, OnRef
  <2> QED
    BY <1>1, <1>2, <1>5, <2>1, <2>2 DEF Goes, HandlerAt, KindAt, NoWrites
<1>6. CASE Goes(s, "insertAuth", "readAuth") /\ Kind(s) \in {"purchase", "cardauth"}
  <2>1. queue[s] # <<>>
    BY <1>1, <1>6 DEF QueueAt
  <2> QED
    BY <1>1, <1>2, <1>6, <2>1 DEF Goes, HandlerAt, KindAt, EarlySteps
<1>7. CASE \/ Goes(s, "readNew", "insertAuth") \/ Goes(s, "readStatus", "writeStatus")
           \/ Goes(s, "readAuth", "readSettlement")
           \/ Goes(s, "readSettlement", "insertSettlement")
           \/ Goes(s, "insertSettlement", "post") \/ Goes(s, "post", "post")
           \/ Goes(s, "post", "markReversed") /\ Kind(s) = "refund"
           \/ Goes(s, "readRefund", "listRows")
  <2>1. pc'[s] \in {"readAuth", "readSettlement", "insertSettlement", "post"} => queue[s] # <<>>
    BY <1>1, <1>7 DEF Goes, QueueAt
  <2> QED
    BY <1>1, <1>2, <1>7, <2>1 DEF Goes, HandlerAt, KindAt, EarlySteps
<1>8. CASE Goes(s, "listRows", "post")
  <2>1. Kind(s) = "refund"
    BY <1>1, <1>8 DEF Goes, KindAt
  <2>2. queue[s] = <<req[s].auth>>
    BY <1>1, <2>1 DEF QueueAt
  <2>3. queue[s] # <<>>
    BY <2>2
  <2> QED
    BY <1>1, <1>2, <1>8, <2>1, <2>3 DEF Goes, HandlerAt, KindAt, EarlySteps
<1>9. CASE pc[s] = "post" /\ pc'[s] = "readAuth" /\ Len(queue[s]) > 1 /\ queue'[s] = Tail(queue[s])
  <2>1. Kind(s) = "settled"
    <3>1. ASSUME Kind(s) # "settled" PROVE FALSE
      <4>1. PICK x : queue[s] = <<x>>
        BY <1>1, <3>1 DEF QueueAt, Kinds, OnRef
      <4> QED
        BY <1>9, <4>1, LengthOne
    <3> QED
      BY <3>1
  <2>2. queue[s] \in Seq(Refs)
    BY <1>1, <2>1 DEF QueueAt
  <2>3. Tail(queue[s]) \in Seq(Refs) /\ Tail(queue[s]) # <<>>
    BY <1>9, <2>2, LongTail
  <2>4. QueueAt(s)'
    BY <1>1, <1>9, <2>1, <2>3 DEF QueueAt, Kind, OnRef
  <2> QED
    BY <1>1, <1>9, <2>1, <2>4 DEF HandlerAt, KindAt, EarlySteps
<1> QED
  BY <1>3, <1>4, <1>5, <1>6, <1>7, <1>8, <1>9 DEF Follows

LEMMA HandlerArrives ==
  ASSUME TypeOK, HandlerOK, NEW s \in Sessions, NEW r \in Requests, Arrive(s, r)
  PROVE  HandlerAt(s)'
<1>1. /\ req'[s] = r /\ queue'[s] = Targets(s, r) /\ pc'[s] = FirstStep(r.kind)
      /\ newAuth'[s] = newAuth[s] /\ pc[s] = "idle"
  BY Moved DEF Arrive, TypeOK, draft
<1>2. newAuth'[s] = NoWrites
  BY <1>1 DEF HandlerOK, HandlerAt, EarlySteps
<1>3. /\ r.kind = "purchase" => pc'[s] = "lookup" /\ queue'[s] = <<s>>
      /\ r.kind = "cardauth" => pc'[s] = "insertAuth" /\ queue'[s] = <<s>>
      /\ r.kind \in OnRef => pc'[s] = "claim" /\ queue'[s] = <<r.ref>>
      /\ r.kind = "settled" => pc'[s] = "claim" /\ queue'[s] = r.refs
      /\ r.kind = "refund" => pc'[s] = "readRefund" /\ queue'[s] = <<r.auth>>
  BY <1>1 DEF FirstStep, Targets, FromProcessor, OnRef
<1>4. r.kind \in Kinds /\ (r.kind = "settled" => r.refs \in Seq(Refs))
  BY RequestFields
<1>5. KindAt(s)' /\ QueueAt(s)'
  BY <1>1, <1>3, <1>4 DEF KindAt, QueueAt, Kind, Kinds, FromProcessor, OnRef
<1> QED
  BY <1>1, <1>2, <1>5 DEF HandlerAt, NoWrites

LEMMA HandlerStep ==
  ASSUME IInv, [Next]_vars
  PROVE  HandlerOK'
<1> USE DEF IInv
<1>1. ASSUME NEW s \in Sessions, OthersKept(s), HandlerAt(s)'
      PROVE  HandlerOK'
  <2>1. ASSUME NEW t \in Sessions, t # s PROVE HandlerAt(t)'
    <3>1. HandlerAt(t)
      BY DEF HandlerOK
    <3>2. /\ pc'[t] = pc[t] /\ req'[t] = req[t] /\ queue'[t] = queue[t]
          /\ newAuth'[t] = newAuth[t]
      BY <1>1, <2>1 DEF OthersKept
    <3> QED
      BY <3>1, <3>2 DEF HandlerAt, KindAt, QueueAt, Kind, NoWrites
  <2> QED
    BY <1>1, <2>1 DEF HandlerOK
<1>2. ASSUME NEW s \in Sessions, Step(s) PROVE HandlerOK'
  BY <1>1, <1>2, KeepsOthers, StepFollows, HandlerFollows
<1>3. ASSUME NEW s \in Sessions, Lose(s) PROVE HandlerOK'
  <2>1. pc[s] # "idle" /\ req'[s] = req[s] /\ Follows(s)
    BY <1>3, Moved DEF Lose, Open, Follows, Ended, handler
  <2> QED
    BY <1>1, <1>3, <2>1, KeepsOthers, HandlerFollows
<1>4. ASSUME NEW s \in Sessions, NEW r \in Requests, Arrive(s, r) PROVE HandlerOK'
  BY <1>1, <1>4, KeepsOthers, HandlerArrives
<1>5. CASE UNCHANGED vars
  BY <1>5 DEF HandlerOK, HandlerAt, KindAt, QueueAt, Kind, NoWrites, vars, draft, handler
<1> QED
  BY <1>2, <1>3, <1>4, <1>5 DEF Next, AllServed

-----------------------------------------------------------------------------
(* Authorizations once they are committed.                                 *)

(* Only a commit changes the tables. *)
LEMMA TablesKept ==
  ASSUME NEW s \in Sessions, Step(s) \/ Lose(s) \/ \E r \in Requests : Arrive(s, r)
  PROVE  UNCHANGED tables \/ Commit(s)
<1>1. CASE Reading(s)
  BY <1>1
  DEF Reading, LookUpKey, ClaimTaken, RejectPurchase, ReadNew, ReadStatus, ReadAuth,
      ReadSettlement, ReadForRefund, Respond
<1>2. CASE Claim(s) \/ Purchase(s) \/ CreatePending(s) \/ WriteStatus(s)
  BY <1>2 DEF Claim, Purchase, CreatePending, WriteStatus
<1>3. CASE InsertSettlement(s) \/ ListRows(s) \/ FlagReversed(s)
  BY <1>3 DEF InsertSettlement, ListRows, FlagReversed
<1>4. CASE Posted(s)
  BY <1>4 DEF Posted, PostEntry, PostLastOfMany, PostLast, PostLastReversal, PostHead
<1>5. CASE Rollback(s) \/ Aborting(s) \/ Lose(s)
  BY <1>5, AbortingAborts DEF Rollback, Abort, Lose
<1>6. CASE \E r \in Requests : Arrive(s, r)
  BY <1>6 DEF Arrive
<1> QED
  BY <1>1, <1>2, <1>3, <1>4, <1>5, <1>6, StepCases

LEMMA AuthAfter ==
  ASSUME NEW s \in Sessions, UNCHANGED tables \/ Commit(s), NEW a \in AuthIds
  PROVE  auth'[a] = auth[a] \/ (Commit(s) /\ newAuth[s][a] # None /\ auth'[a] = newAuth[s][a])
  BY DEF tables, Commit, Overlay

(* One authorization is not written by two open sessions. *)
LEMMA OneWriter ==
  ASSUME WritesAreLocked, NEW s \in Sessions, NEW t \in Sessions, NEW a \in AuthIds,
         newAuth[s][a] # None, newAuth[t][a] # None
  PROVE  s = t
  BY DEF WritesAreLocked

LEMMA SameTermsItself ==
  ASSUME NEW h
  PROVE  SameTerms(h, h)
  BY DEF SameTerms

(* What another session sees of an authorization stays there, on the same terms. *)
LEMMA SeenStays ==
  ASSUME TermsOK, NEW s \in Sessions, UNCHANGED tables \/ Commit(s),
         NEW t \in Sessions, newAuth'[t] = newAuth[t], NEW a \in AuthIds
  PROVE  /\ auth[a] # None => auth'[a] # None
         /\ SeenAuth(t, a) # None => /\ SeenAuth(t, a)' # None
                                     /\ SameTerms(SeenAuth(t, a)', SeenAuth(t, a))
<1>1. auth[a] # None => auth'[a] # None /\ SameTerms(auth'[a], auth[a])
  BY AuthAfter, SameTermsItself DEF TermsOK
<1>2. CASE newAuth[t][a] # None
  BY <1>1, <1>2, SameTermsItself DEF SeenAuth
<1>3. CASE newAuth[t][a] = None
  BY <1>1, <1>3 DEF SeenAuth
<1> QED
  BY <1>1, <1>2, <1>3

LEMMA OthersStayChecked ==
  ASSUME TypeOK, HandlerOK, CheckedOK, TermsOK, NEW s \in Sessions, OthersKept(s),
         UNCHANGED tables \/ Commit(s), NEW t \in Sessions, t # s, pc[t] # "idle"
  PROVE  CheckedAt(t)'
<1>1. /\ pc'[t] = pc[t] /\ req'[t] = req[t] /\ queue'[t] = queue[t] /\ newAuth'[t] = newAuth[t]
      /\ Current(t)' = Current(t)
  BY DEF OthersKept, Current
<1>2. CheckedAt(t)
  BY DEF CheckedOK
<1>3. pc[t] \in {"writeStatus", "readSettlement", "insertSettlement"} => Current(t) \in AuthIds
  BY HandlerFacts
<1>4. ASSUME pc[t] = "writeStatus" PROVE auth'[Current(t)] # None
  BY <1>1, <1>2, <1>3, <1>4, SeenStays DEF CheckedAt
<1>5. ASSUME pc[t] \in {"readSettlement", "insertSettlement"}
      PROVE  /\ SeenAuth(t, Current(t))' # None
             /\ SameTerms(SeenAuth(t, Current(t))', SeenAuth(t, Current(t)))
  <2>1. SeenAuth(t, Current(t)) # None /\ Current(t) \in AuthIds
    BY <1>2, <1>3, <1>5 DEF CheckedAt
  <2> QED
    BY <1>1, <2>1, SeenStays
<1>6. ASSUME pc[t] = "insertSettlement" PROVE Settleable(SeenAuth(t, Current(t))')
  <2>1. Settleable(SeenAuth(t, Current(t)))
    BY <1>2, <1>6 DEF CheckedAt
  <2> QED
    BY <1>5, <1>6, <2>1, SettlementIgnoresStatus
<1> QED
  BY <1>1, <1>2, <1>4, <1>5, <1>6 DEF CheckedAt, Kind

LEMMA ReadingChecks ==
  ASSUME TypeOK, HandlerOK, CheckedOK, NEW s \in Sessions, Reading(s)
  PROVE  CheckedAt(s)'
<1> USE Moved
<1>1. /\ pc[s] # "idle" /\ UNCHANGED <<auth, newAuth, req, queue>>
      /\ Current(s)' = Current(s) /\ Kind(s)' = Kind(s)
      /\ SeenAuth(s, Current(s))' = SeenAuth(s, Current(s))
  <2>1. pc[s] # "idle" /\ UNCHANGED <<tables, draft, handler>>
    BY DEF Reading, LookUpKey, ClaimTaken, RejectPurchase, ReadNew, ReadStatus, ReadAuth,
        ReadSettlement, ReadForRefund, Respond
  <2> QED
    BY <2>1 DEF tables, draft, handler, Current, Kind, SeenAuth
<1>2. CASE ReadNew(s)
  <2>1. \/ /\ pc'[s] = "insertAuth"
           /\ Known(Terms[Current(s)].record, Terms[Current(s)].user)
        \/ pc'[s] = "rollback"
    BY <1>2 DEF ReadNew, Require
  <2> QED
    BY <1>1, <2>1 DEF CheckedAt
<1>3. CASE ReadStatus(s)
  <2>1. \/ pc'[s] = "writeStatus" /\ SeenAuth(s, Current(s)) # None
        \/ pc'[s] = "rollback"
    BY <1>3 DEF ReadStatus, Require
  <2>2. newAuth[s] = NoWrites /\ Current(s) \in AuthIds
    BY <1>3, HandlerFacts DEF ReadStatus, HandlerOK, HandlerAt, EarlySteps
  <2>3. SeenAuth(s, Current(s)) = auth[Current(s)]
    BY <2>2 DEF SeenAuth, NoWrites
  <2> QED
    BY <1>1, <2>1, <2>3 DEF CheckedAt
<1>4. CASE ReadAuth(s)
  <2>1. \/ pc'[s] = "readSettlement" /\ SeenAuth(s, Current(s)) # None
        \/ pc'[s] = "rollback"
    BY <1>4 DEF ReadAuth, Require
  <2> QED
    BY <1>1, <2>1 DEF CheckedAt
<1>5. CASE ReadSettlement(s)
  <2>1. \/ pc'[s] = "insertSettlement" /\ Settleable(SeenAuth(s, Current(s)))
        \/ pc'[s] = "rollback"
    BY <1>5 DEF ReadSettlement, Require
  <2>2. SeenAuth(s, Current(s)) # None
    BY <1>5 DEF ReadSettlement, CheckedOK, CheckedAt
  <2> QED
    BY <1>1, <2>1, <2>2 DEF CheckedAt
<1>6. CASE LookUpKey(s) \/ ClaimTaken(s) \/ RejectPurchase(s) \/ ReadForRefund(s) \/ Respond(s)
  <2>1. pc'[s] \in {"claim", "respond", "rollback", "listRows", "commit"}
    BY <1>6 DEF LookUpKey, ClaimTaken, RejectPurchase, ReadForRefund, Respond, Require
  <2> QED
    BY <2>1 DEF CheckedAt
<1> QED
  BY <1>2, <1>3, <1>4, <1>5, <1>6 DEF Reading

LEMMA OwnStepChecks ==
  ASSUME TypeOK, HandlerOK, CheckedOK, NEW s \in Sessions,
         Step(s) \/ Lose(s) \/ \E r \in Requests : Arrive(s, r)
  PROVE  CheckedAt(s)'
<1> USE Moved
<1>1. ASSUME \/ pc'[s] \notin {"insertAuth", "writeStatus", "readSettlement", "insertSettlement"}
             \/ pc'[s] = "insertAuth" /\ Kind(s)' # "created"
      PROVE  CheckedAt(s)'
  BY <1>1 DEF CheckedAt
<1>2. CASE Claim(s)
  <2>1. Kind(s)' = Kind(s)
    BY <1>2 DEF Claim, handler, Kind
  <2>2. pc'[s] = AfterClaim(s) /\ Kind(s) \in {"purchase"} \cup FromProcessor
    BY <1>2, HandlerFacts DEF Claim, KindAt
  <2>3. \/ pc'[s] \in {"readNew", "readStatus", "readAuth", "respond"}
        \/ pc'[s] = "insertAuth" /\ Kind(s) = "purchase"
    BY <2>2 DEF AfterClaim, Kind, FromProcessor, OnRef
  <2> QED
    BY <1>1, <2>1, <2>3
<1>3. CASE \E r \in Requests : Arrive(s, r)
  <2>1. PICK r \in Requests : Arrive(s, r)
    BY <1>3
  <2>2. pc'[s] = FirstStep(r.kind) /\ Kind(s)' = r.kind
    BY <2>1 DEF Arrive, TypeOK, Kind
  <2>3. r.kind \in Kinds
    BY RequestFields
  <2>4. \/ pc'[s] \in {"lookup", "claim", "readRefund"}
        \/ pc'[s] = "insertAuth" /\ Kind(s)' = "cardauth"
    BY <2>2, <2>3 DEF FirstStep, Kinds, FromProcessor, OnRef
  <2> QED
    BY <1>1, <2>4
<1>4. CASE Purchase(s) \/ CreatePending(s) \/ WriteStatus(s)
  BY <1>1, <1>4 DEF Purchase, CreatePending, WriteStatus
<1>5. CASE InsertSettlement(s) \/ ListRows(s) \/ FlagReversed(s)
  BY <1>1, <1>5 DEF InsertSettlement, ListRows, FlagReversed, Require
<1>6. CASE Posted(s)
  <2>1. pc[s] = "post"
    BY <1>6 DEF Posted, PostEntry, PostLastOfMany, PostLast, PostLastReversal, PostHead
  <2>2. pc'[s] \in {"post", "readAuth", "respond", "markReversed"}
    BY <1>6, <2>1 DEF Posted, PostEntry, PostLastOfMany, PostLast, PostLastReversal
  <2> QED
    BY <1>1, <2>2
<1>7. CASE Commit(s) \/ Rollback(s) \/ Aborting(s) \/ Lose(s)
  BY <1>1, <1>7, AbortingAborts DEF Commit, Rollback, Abort, Lose
<1> QED
  BY <1>2, <1>3, <1>4, <1>5, <1>6, <1>7, StepCases, ReadingChecks

LEMMA CheckedStep ==
  ASSUME IInv, [Next]_vars
  PROVE  CheckedOK'
<1> USE DEF IInv
<1>1. ASSUME NEW s \in Sessions, Step(s) \/ Lose(s) \/ \E r \in Requests : Arrive(s, r)
      PROVE  CheckedOK'
  <2>1. OthersKept(s) /\ (UNCHANGED tables \/ Commit(s))
    BY <1>1, KeepsOthers, TablesKept
  <2>2. ASSUME NEW t \in Sessions, pc'[t] # "idle" PROVE CheckedAt(t)'
    <3>1. CASE t = s
      BY <1>1, <3>1, OwnStepChecks
    <3>2. CASE t # s
      BY <2>1, <2>2, <3>2, OthersStayChecked DEF OthersKept
    <3> QED
      BY <3>1, <3>2
  <2> QED
    BY <2>2 DEF CheckedOK
<1>2. CASE UNCHANGED vars
  BY <1>2 DEF CheckedOK, CheckedAt, SeenAuth, Current, Kind, vars, tables, draft, handler
<1> QED
  BY <1>1, <1>2 DEF Next, AllServed

(* What a step of session s may do to its own writes of authorizations.    *)
LEMMA OwnWrites ==
  ASSUME TypeOK, HandlerOK, CheckedOK, NEW s \in Sessions,
         Step(s) \/ Lose(s) \/ \E r \in Requests : Arrive(s, r)
  PROVE  \/ newAuth'[s] = NoWrites
         \/ newAuth'[s] = newAuth[s] /\ UNCHANGED tables
         \/ /\ UNCHANGED tables /\ claim' = claim /\ pc[s] \in {"insertAuth", "writeStatus"}
            /\ Current(s) \in AuthIds
            /\ \A a \in AuthIds : a # Current(s) => newAuth'[s][a] = newAuth[s][a]
            /\ \/ Current(s) = s /\ pc[s] = "insertAuth" /\ Kind(s) \in {"purchase", "cardauth"}
               \/ Current(s) \in Refs /\ auth[Current(s)] = None
               \/ /\ Current(s) \in Refs /\ auth[Current(s)] # None
                  /\ SameTerms(newAuth'[s][Current(s)], auth[Current(s)])
<1>1. CASE Commit(s) \/ Rollback(s) \/ Aborting(s) \/ Lose(s)
  <2>1. Discard(s)
    BY <1>1, AbortingAborts DEF Commit, Rollback, Abort, Lose
  <2> QED
    BY <2>1 DEF Discard, TypeOK
<1>2. CASE Reading(s) \/ Claim(s) \/ InsertSettlement(s) \/ Posted(s) \/ ListRows(s)
             \/ FlagReversed(s) \/ \E r \in Requests : Arrive(s, r)
  <2>1. CASE Reading(s)
    BY <2>1
    DEF Reading, LookUpKey, ClaimTaken, RejectPurchase, ReadNew, ReadStatus, ReadAuth,
        ReadSettlement, ReadForRefund, Respond, draft
  <2>2. CASE Posted(s)
    BY <2>2 DEF Posted, PostEntry, PostLastOfMany, PostLast, PostLastReversal, PostHead
  <2>3. CASE Claim(s) \/ InsertSettlement(s) \/ ListRows(s) \/ FlagReversed(s)
    BY <2>3 DEF Claim, InsertSettlement, ListRows, FlagReversed
  <2>4. CASE \E r \in Requests : Arrive(s, r)
    BY <2>4 DEF Arrive, draft
  <2> QED
    BY <1>2, <2>1, <2>2, <2>3, <2>4
<1>3. ASSUME NEW h, WriteAuth(s, Current(s), h), Current(s) \in AuthIds
      PROVE  /\ newAuth'[s][Current(s)] = h
             /\ \A a \in AuthIds : a # Current(s) => newAuth'[s][a] = newAuth[s][a]
  BY <1>3 DEF WriteAuth, TypeOK
<1>4. CASE Purchase(s)
  <2>1. /\ UNCHANGED tables /\ claim' = claim /\ pc[s] = "insertAuth"
        /\ Kind(s) \in {"purchase", "cardauth"}
        /\ WriteAuth(s, s, Authorized(req[s].record, req[s].user, AmountOf(req[s])))
    BY <1>4 DEF Purchase, Kind
  <2>2. Current(s) = s /\ Current(s) \in AuthIds
    BY <2>1, HandlerFacts
  <2> QED
    BY <1>3, <2>1, <2>2
<1>5. CASE CreatePending(s)
  <2>1. /\ UNCHANGED tables /\ claim' = claim /\ pc[s] = "insertAuth" /\ Kind(s) = "created"
        /\ auth[Current(s)] = None
    BY <1>5 DEF CreatePending, Kind
  <2>2. \E h : WriteAuth(s, Current(s), h)
    BY <1>5 DEF CreatePending
  <2>3. Current(s) \in Refs /\ Current(s) \in AuthIds
    BY <2>1, HandlerFacts DEF OnRef
  <2> QED
    BY <1>3, <2>1, <2>2, <2>3
<1>6. CASE WriteStatus(s)
  <2>1. UNCHANGED tables /\ claim' = claim /\ pc[s] = "writeStatus"
    BY <1>6 DEF WriteStatus
  <2>2. Current(s) \in Refs /\ Current(s) \in AuthIds
    BY <2>1, HandlerFacts DEF KindAt, OnRef
  <2>3. auth[Current(s)] # None
    BY <2>1 DEF CheckedOK, CheckedAt
  <2>4. PICK status : WriteAuth(s, Current(s), [auth[Current(s)] EXCEPT !.status = status])
    BY <1>6 DEF WriteStatus
  <2>5. auth[Current(s)] \in Authorization
    BY <2>2, <2>3 DEF TypeOK
  <2>6. SameTerms([auth[Current(s)] EXCEPT !.status = status], auth[Current(s)])
    BY <2>5 DEF SameTerms, Authorization
  <2> QED
    BY <1>3, <2>1, <2>2, <2>3, <2>4, <2>6
<1> QED
  BY <1>1, <1>2, <1>4, <1>5, <1>6, StepCases

LEMMA TermsStep ==
  ASSUME IInv, [Next]_vars
  PROVE  TermsOK'
<1> USE DEF IInv
<1>1. ASSUME NEW s \in Sessions, Step(s) \/ Lose(s) \/ \E r \in Requests : Arrive(s, r),
             NEW t \in Sessions, NEW a \in AuthIds, newAuth'[t][a] # None, auth'[a] # None
      PROVE  SameTerms(newAuth'[t][a], auth'[a])
  <2>1. OthersKept(s) /\ (UNCHANGED tables \/ Commit(s))
    BY <1>1, KeepsOthers, TablesKept
  <2>2. newAuth[t][a] # None /\ auth[a] # None => SameTerms(newAuth[t][a], auth[a])
    BY DEF TermsOK
  <2>3. CASE t # s
    <3>1. newAuth'[t] = newAuth[t]
      BY <2>1, <2>3 DEF OthersKept
    <3>2. auth'[a] = auth[a]
      BY <1>1, <2>1, <2>3, <3>1, AuthAfter, OneWriter
    <3> QED
      BY <1>1, <2>2, <3>1, <3>2
  <2>4. CASE t = s
    <3>1. newAuth'[s] # NoWrites
      BY <1>1, <2>4 DEF NoWrites
    <3>2. UNCHANGED tables => auth'[a] = auth[a]
      BY DEF tables
    <3>3. CASE newAuth'[s] = newAuth[s] /\ UNCHANGED tables
      BY <1>1, <2>2, <2>4, <3>2, <3>3
    <3>4. CASE newAuth'[s] # newAuth[s] \/ ~ UNCHANGED tables
      <4>1. /\ UNCHANGED tables /\ Current(s) \in AuthIds
            /\ \A b \in AuthIds : b # Current(s) => newAuth'[s][b] = newAuth[s][b]
            /\ \/ Current(s) = s /\ pc[s] = "insertAuth"
               \/ auth[Current(s)] = None
               \/ SameTerms(newAuth'[s][Current(s)], auth[Current(s)])
        BY <1>1, <3>1, <3>4, OwnWrites
      <4>2. pc[s] = "insertAuth" => auth[s] = None
        BY DEF KeysOK
      <4> QED
        BY <1>1, <2>2, <2>4, <3>2, <4>1, <4>2
    <3> QED
      BY <3>3, <3>4
  <2> QED
    BY <2>3, <2>4
<1>2. CASE UNCHANGED vars
  BY <1>2 DEF TermsOK, vars, tables, draft
<1> QED
  BY <1>1, <1>2 DEF Next, AllServed, TermsOK

-----------------------------------------------------------------------------
(* A key buys at most once.                                                *)

(* KeysOK, for one session. *)
KeysAt(s) ==
  /\ auth[s] # None => pc[s] = "done"
  /\ OwnAuth(s)
  /\ (pc[s] = "insertAuth" /\ IsPurchase(s)) => claim[s] = req[s].key
  /\ claim[s] \in Keys => answer[claim[s]] = None
  /\ (IsPurchase(s) /\ auth[s] # None) => answer[req[s].key] = s

LEMMA KeysAtAll ==
  /\ KeysOK <=> \A s \in Sessions : KeysAt(s)
  /\ KeysOK' <=> \A s \in Sessions : KeysAt(s)'
  BY DEF KeysOK, KeysAt

LEMMA SessionsAreAuthIds ==
  /\ \A s \in Sessions : s \in AuthIds /\ s \notin Refs
  /\ \A r \in Refs : r \in AuthIds /\ r \notin Sessions
  BY PaymentsAssumption DEF AuthIds, PaymentsAssumption

LEMMA AnswerAfter ==
  ASSUME NEW s \in Sessions, UNCHANGED tables \/ Commit(s), NEW k \in Keys
  PROVE  answer'[k] = answer[k] \/ (Commit(s) /\ k = claim[s] /\ answer'[k] = s)
  BY DEF tables, Commit

(* A purchase's request carries a key. *)
LEMMA PurchaseKey ==
  ASSUME TypeOK, NEW s \in Sessions, IsPurchase(s)
  PROVE  req[s].key \in Keys /\ Kind(s) = "purchase"
  BY RequestFields DEF TypeOK, IsPurchase, Kind

LEMMA OthersKeepKeys ==
  ASSUME IInv, NEW s \in Sessions, OthersKept(s), UNCHANGED tables \/ Commit(s),
         NEW t \in Sessions, t # s
  PROVE  KeysAt(t)'
<1> USE DEF IInv
<1>1. KeysAt(s) /\ KeysAt(t)
  BY KeysAtAll
<1>2. /\ pc'[t] = pc[t] /\ req'[t] = req[t] /\ claim'[t] = claim[t] /\ newAuth'[t] = newAuth[t]
      /\ IsPurchase(t)' = IsPurchase(t)
  BY DEF OthersKept, IsPurchase
<1>3. auth'[t] = auth[t]
  BY <1>1, AuthAfter, SessionsAreAuthIds DEF KeysAt, OwnAuth
<1>4. OwnAuth(t)'
  BY <1>1, <1>2 DEF KeysAt, OwnAuth
<1>5. ASSUME claim[t] \in Keys PROVE answer'[claim[t]] = None
  <2>1. claim[t] # claim[s]
    BY <1>5 DEF WritesAreLocked
  <2> QED
    BY <1>1, <1>5, <2>1, AnswerAfter DEF KeysAt
<1>6. ASSUME IsPurchase(t), auth[t] # None PROVE answer'[req[t].key] = t
  <2>1. answer[req[t].key] = t /\ req[t].key \in Keys /\ t # None
    BY <1>1, <1>6, PurchaseKey, NoneIsNothing DEF KeysAt
  <2>2. claim[s] # req[t].key
    BY <1>1, <2>1 DEF KeysAt
  <2> QED
    BY <2>1, <2>2, AnswerAfter
<1> QED
  BY <1>1, <1>2, <1>3, <1>4, <1>5, <1>6 DEF KeysAt

(* The own step that is neither a claim nor a commit nor an arrival. *)
LEMMA QuietKeepsKeys ==
  ASSUME IInv, NEW s \in Sessions, pc[s] \notin {"idle", "done"}, pc'[s] # "idle",
         req'[s] = req[s], UNCHANGED tables,
         \/ claim'[s] = claim[s] /\ newAuth'[s] = newAuth[s] /\ pc'[s] # "insertAuth"
         \/ claim'[s] = None /\ newAuth'[s] = NoWrites /\ pc'[s] # "insertAuth"
         \/ claim'[s] = claim[s] /\ newAuth'[s] = newAuth[s] /\ ~ IsPurchase(s)
         \/ /\ claim'[s] = claim[s] /\ pc'[s] # "insertAuth"
            /\ \A a \in Sessions : newAuth'[s][a] # None =>
                 \/ newAuth[s][a] # None
                 \/ a = s /\ (IsPurchase(s) => claim[s] = req[s].key)
  PROVE  KeysAt(s)'
<1> USE DEF IInv
<1>1. KeysAt(s) /\ auth[s] = None
  BY KeysAtAll DEF KeysAt
<1>2. auth'[s] = None /\ answer' = answer /\ IsPurchase(s)' = IsPurchase(s)
  BY <1>1 DEF tables, IsPurchase
<1>3. \A a \in Sessions : NoWrites[a] = None
  BY SessionsAreAuthIds DEF NoWrites
<1>4. OwnAuth(s)'
  BY <1>1, <1>2, <1>3 DEF KeysAt, OwnAuth
<1>5. claim'[s] \in Keys => answer'[claim'[s]] = None
  BY <1>1, <1>2, NoneIsNothing DEF KeysAt
<1> QED
  BY <1>1, <1>2, <1>4, <1>5 DEF KeysAt

LEMMA ClaimKeepsKeys ==
  ASSUME IInv, NEW s \in Sessions, Claim(s)
  PROVE  KeysAt(s)'
<1> USE DEF IInv
<1>1. /\ pc[s] = "claim" /\ ~ Claimed(s) /\ claim' = [claim EXCEPT ![s] = ClaimValue(s)]
      /\ newAuth' = newAuth /\ req' = req /\ UNCHANGED tables
  BY DEF Claim, handler
<1>2. newAuth[s] = NoWrites /\ auth[s] = None
  BY <1>1, KeysAtAll DEF KeysAt, HandlerOK, HandlerAt, EarlySteps
<1>3. claim'[s] = ClaimValue(s) /\ auth'[s] = None /\ answer' = answer
        /\ IsPurchase(s)' = IsPurchase(s)
  BY <1>1, <1>2 DEF TypeOK, tables, IsPurchase
<1>4. OwnAuth(s)'
  BY <1>1, <1>2, SessionsAreAuthIds DEF OwnAuth, NoWrites
<1>5. IsPurchase(s) => claim'[s] = req[s].key
  BY <1>3 DEF ClaimValue, IsPurchase
<1>6. req[s] \in Requests /\ Kind(s) \in {"purchase"} \cup FromProcessor
  BY <1>1, HandlerFacts DEF KindAt
<1>7. claim'[s] \in Keys => answer'[claim'[s]] = None
  <2>1. CASE req[s].kind = "purchase"
    BY <1>1, <1>3, <2>1 DEF ClaimValue, Claimed
  <2>2. CASE req[s].kind # "purchase"
    <3>1. req[s].event \in Events
      BY <1>6, <2>2, RequestFields DEF Kind, FromProcessor
    <3> QED
      BY <1>3, <2>2, <3>1, PaymentsAssumption DEF ClaimValue, PaymentsAssumption
  <2> QED
    BY <2>1, <2>2
<1> QED
  BY <1>1, <1>3, <1>4, <1>5, <1>7 DEF KeysAt

LEMMA CommitKeepsKeys ==
  ASSUME IInv, NEW s \in Sessions, Commit(s)
  PROVE  KeysAt(s)'
<1> USE DEF IInv
<1>1. pc[s] = "commit" /\ pc'[s] = "done" /\ req' = req
  BY Moved DEF Commit, handler
<1>2. newAuth'[s] = NoWrites /\ claim'[s] = None
  BY DEF Commit, Discard, TypeOK
<1>3. KeysAt(s) /\ auth[s] = None /\ IsPurchase(s)' = IsPurchase(s)
  BY <1>1, KeysAtAll DEF KeysAt, IsPurchase
<1>4. OwnAuth(s)'
  BY <1>2, SessionsAreAuthIds DEF OwnAuth, NoWrites
<1>5. ASSUME IsPurchase(s), auth'[s] # None PROVE answer'[req[s].key] = s
  <2>1. newAuth[s][s] # None
    BY <1>3, <1>5, AuthAfter, SessionsAreAuthIds
  <2>2. claim[s] = req[s].key
    BY <1>3, <1>5, <2>1 DEF KeysAt, OwnAuth
  <2>3. req[s].key \in Keys
    BY <1>5, PurchaseKey
  <2> QED
    BY <2>2, <2>3 DEF Commit
<1> QED
  BY <1>1, <1>2, <1>3, <1>4, <1>5, NoneIsNothing DEF KeysAt

LEMMA OwnStepKeepsKeys ==
  ASSUME IInv, NEW s \in Sessions, Step(s) \/ Lose(s)
  PROVE  KeysAt(s)'
<1> USE DEF IInv
<1>1. pc[s] \notin {"idle", "done"} /\ req'[s] = req[s] /\ pc'[s] # "idle"
  <2>1. CASE Step(s)
    <3>1. pc[s] \notin {"idle", "done"} /\ req'[s] = req[s] /\ Follows(s)
      BY <2>1, StepFollows
    <3>2. pc'[s] # "idle"
      BY <3>1 DEF Follows, Ended, Goes, AfterClaim, Kind, HandlerOK, HandlerAt, KindAt,
         FromProcessor, OnRef
    <3> QED
      BY <3>1, <3>2
  <2>2. CASE Lose(s)
    BY <2>2, Moved DEF Lose, Open, handler
  <2> QED
    BY <2>1, <2>2
<1>2. CASE Rollback(s) \/ Aborting(s) \/ Lose(s)
  <2>1. Discard(s) /\ UNCHANGED tables /\ pc'[s] \in {"done", "rollback"}
    BY <1>2, Moved, AbortingAborts DEF Rollback, Abort, Lose
  <2>2. claim'[s] = None /\ newAuth'[s] = NoWrites
    BY <2>1 DEF Discard, TypeOK
  <2> QED
    BY <1>1, <2>1, <2>2, QuietKeepsKeys
<1>3. CASE Reading(s)
  <2>1. UNCHANGED tables /\ claim'[s] = claim[s] /\ newAuth'[s] = newAuth[s]
    BY <1>3
    DEF Reading, LookUpKey, ClaimTaken, RejectPurchase, ReadNew, ReadStatus, ReadAuth,
        ReadSettlement, ReadForRefund, Respond, draft
  <2>2. pc'[s] # "insertAuth" \/ pc[s] = "readNew"
    BY <1>3, Moved
    DEF Reading, LookUpKey, ClaimTaken, RejectPurchase, ReadNew, ReadStatus, ReadAuth,
        ReadSettlement, ReadForRefund, Respond, Require
  <2>3. pc[s] = "readNew" => ~ IsPurchase(s)
    BY HandlerFacts DEF KindAt, Kind, IsPurchase
  <2> QED
    BY <1>1, <2>1, <2>2, <2>3, QuietKeepsKeys
<1>4. CASE InsertSettlement(s) \/ ListRows(s) \/ FlagReversed(s) \/ Posted(s)
  <2>1. UNCHANGED tables /\ claim'[s] = claim[s] /\ newAuth'[s] = newAuth[s]
    BY <1>4 DEF InsertSettlement, ListRows, FlagReversed, Posted, PostEntry, PostLastOfMany,
       PostLast, PostLastReversal, PostHead
  <2>2. pc'[s] # "insertAuth"
    <3>1. CASE InsertSettlement(s) \/ ListRows(s) \/ FlagReversed(s)
      BY <3>1, Moved DEF InsertSettlement, ListRows, FlagReversed, Require
    <3>2. CASE Posted(s)
      <4>1. pc[s] = "post"
        BY <3>2 DEF Posted, PostEntry, PostLastOfMany, PostLast, PostLastReversal, PostHead
      <4> QED
        BY <3>2, <4>1, Moved DEF Posted, PostEntry, PostLastOfMany, PostLast, PostLastReversal
    <3> QED
      BY <1>4, <3>1, <3>2
  <2> QED
    BY <1>1, <2>1, <2>2, QuietKeepsKeys
<1>5. CASE Purchase(s)
  <2>1. /\ UNCHANGED tables /\ claim' = claim /\ pc[s] = "insertAuth" /\ pc'[s] = "readAuth"
        /\ WriteAuth(s, s, Authorized(req[s].record, req[s].user, AmountOf(req[s])))
    BY <1>5, Moved DEF Purchase
  <2>2. \A a \in Sessions : a # s => newAuth'[s][a] = newAuth[s][a]
    BY <2>1, SessionsAreAuthIds DEF WriteAuth, TypeOK
  <2>3. IsPurchase(s) => claim[s] = req[s].key
    BY <2>1 DEF KeysOK
  <2> QED
    BY <1>1, <2>1, <2>2, <2>3, QuietKeepsKeys
<1>6. CASE CreatePending(s) \/ WriteStatus(s)
  <2>1. PICK h : /\ UNCHANGED tables /\ claim' = claim /\ pc'[s] = "respond"
                 /\ WriteAuth(s, Current(s), h)
    BY <1>6, Moved DEF CreatePending, WriteStatus
  <2>2. Current(s) \in Refs
    BY <1>6, HandlerFacts DEF CreatePending, WriteStatus, KindAt, Kind, OnRef
  <2>3. \A a \in Sessions : newAuth'[s][a] = newAuth[s][a]
    BY <2>1, <2>2, SessionsAreAuthIds DEF WriteAuth, TypeOK
  <2>4. /\ UNCHANGED tables /\ claim'[s] = claim[s] /\ pc'[s] # "insertAuth"
        /\ \A a \in Sessions : newAuth'[s][a] # None =>
             \/ newAuth[s][a] # None
             \/ a = s /\ (IsPurchase(s) => claim[s] = req[s].key)
    BY <2>1, <2>3
  <2> QED
    BY <1>1, <2>4, QuietKeepsKeys
<1>7. CASE Claim(s) \/ Commit(s)
  BY <1>7, ClaimKeepsKeys, CommitKeepsKeys
<1> QED
  BY <1>2, <1>3, <1>4, <1>5, <1>6, <1>7, StepCases

LEMMA ArriveKeepsKeys ==
  ASSUME IInv, NEW s \in Sessions, NEW r \in Requests, Arrive(s, r)
  PROVE  KeysAt(s)'
<1> USE DEF IInv
<1>1. /\ pc[s] = "idle" /\ pc'[s] = FirstStep(r.kind) /\ req'[s] = r
      /\ UNCHANGED <<auth, answer, claim, newAuth>>
  BY Moved DEF Arrive, TypeOK, tables, draft
<1>2. newAuth[s] = NoWrites /\ auth[s] = None /\ KeysAt(s)
  BY <1>1, KeysAtAll DEF KeysAt, HandlerOK, HandlerAt, EarlySteps
<1>3. OwnAuth(s)'
  BY <1>1, <1>2, SessionsAreAuthIds DEF OwnAuth, NoWrites
<1>4. r.kind = "purchase" => pc'[s] = "lookup"
  BY <1>1 DEF FirstStep, FromProcessor, OnRef
<1>5. IsPurchase(s)' => r.kind = "purchase"
  BY <1>1 DEF IsPurchase
<1> QED
  BY <1>1, <1>2, <1>3, <1>4, <1>5 DEF KeysAt

LEMMA KeysStep ==
  ASSUME IInv, [Next]_vars
  PROVE  KeysOK'
<1>1. ASSUME NEW s \in Sessions, Step(s) \/ Lose(s) \/ \E r \in Requests : Arrive(s, r)
      PROVE  KeysOK'
  <2>1. OthersKept(s) /\ (UNCHANGED tables \/ Commit(s))
    BY <1>1, KeepsOthers, TablesKept DEF IInv
  <2>2. KeysAt(s)'
    BY <1>1, OwnStepKeepsKeys, ArriveKeepsKeys
  <2> QED
    BY <2>1, <2>2, OthersKeepKeys, KeysAtAll
<1>2. CASE UNCHANGED vars
  BY <1>2 DEF IInv, KeysOK, OwnAuth, IsPurchase, vars, tables, draft, handler
<1> QED
  BY <1>1, <1>2 DEF Next, AllServed

-----------------------------------------------------------------------------
(* The theorems.                                                           *)

LEMMA InitInvariant ==
  ASSUME Init
  PROVE  IInv
<1>1. TypeOK
  BY TypeInit
<1>2. \A s \in Sessions : pc[s] = "idle" /\ newAuth[s] = NoWrites /\ claim[s] = None
  BY DEF Init
<1>3. \A s \in Sessions : auth[s] = None
  BY SessionsAreAuthIds DEF Init, PastAuth
<1>4. HandlerOK /\ CheckedOK
  BY <1>2 DEF HandlerOK, HandlerAt, CheckedOK
<1>5. WritesAreLocked
  BY <1>2, NoneIsNothing DEF Init, WritesAreLocked, NoWrites
<1>6. TermsOK
  BY <1>2 DEF TermsOK, NoWrites
<1>7. KeysOK
  BY <1>2, <1>3, NoneIsNothing, SessionsAreAuthIds DEF KeysOK, OwnAuth, NoWrites
<1> QED
  BY <1>1, <1>4, <1>5, <1>6, <1>7 DEF IInv

LEMMA InvariantStep ==
  ASSUME IInv, [Next]_vars
  PROVE  IInv'
<1>1. TypeOK' /\ HandlerOK' /\ WritesAreLocked' /\ CheckedOK' /\ TermsOK' /\ KeysOK'
  BY TypeStep, HandlerStep, LockedStep, CheckedStep, TermsStep, KeysStep
<1> QED
  BY <1>1 DEF IInv

(* The six parts of the invariant hold in every state of every run.        *)
THEOREM Invariant == Spec => []IInv
<1>1. Init => IInv
  BY InitInvariant
<1>2. IInv /\ [Next]_vars => IInv'
  BY InvariantStep
<1> QED
  BY <1>1, <1>2, PTL DEF Spec

(* Every table, every uncommitted write and every handler variable keeps   *)
(* the type of the column or Python value it stands for.                   *)
THEOREM TypeCorrect == Spec => []TypeOK
<1>1. IInv => TypeOK
  BY DEF IInv
<1> QED
  BY <1>1, Invariant, PTL

(* Of all the POST /purchase requests that carry one Idempotency-Key at    *)
(* most one leaves an authorization, whatever their number, overlap,       *)
(* failures and the sessions that are lost.                                *)
THEOREM KeyOnce == Spec => []KeyBuysOnce
<1>1. IInv => KeyBuysOnce
  BY DEF IInv, KeysOK, KeyBuysOnce
<1> QED
  BY <1>1, Invariant, PTL

-----------------------------------------------------------------------------
(* The audit trail.                                                        *)

(* A row and what became of it. *)
Kept(row, later) ==
  SamePosting(row, later) /\ (row.status = "reversed" => later.status = "reversed")

LEMMA RowKept ==
  ASSUME NEW row \in Row
  PROVE  Kept(row, row) /\ Kept(row, [row EXCEPT !.status = "reversed"])
  BY DEF Kept, Row, TransactionRow, TransactionStatus, SamePosting

LEMMA CommittedRowsKept ==
  ASSUME TypeOK, NEW s \in Sessions, NEW a \in AuthIds
  PROVE  /\ Len(rows[a]) <= Len(CommittedRows(s, a))
         /\ \A i \in DOMAIN rows[a] : Kept(rows[a][i], CommittedRows(s, a)[i])
<1> DEFINE old == rows[a]
           base == IF newSettlement[s][a] = "reversed" THEN MarkReversed(old, listed[s]) ELSE old
           new == newRows[s][a]
<1>1. old \in Seq(Row) /\ new \in Seq(Row) /\ listed[s] \in Nat
  BY DEF TypeOK
<1>2. CommittedRows(s, a) = base \o new
  BY DEF CommittedRows
<1>3. base \in Seq(Row) /\ Len(base) = Len(old)
  BY <1>1, MarkReversedTyped
<1>4. ASSUME NEW i \in DOMAIN old PROVE Kept(old[i], base[i])
  <2>1. old[i] \in Row
    BY <1>1
  <2>2. base[i] = old[i] \/ base[i] = [old[i] EXCEPT !.status = "reversed"]
    BY DEF MarkReversed
  <2> QED
    BY <2>1, <2>2, RowKept
<1> HIDE DEF base, new, old
<1>5. /\ Len(base \o new) >= Len(base)
      /\ \A i \in 1 .. Len(base) : (base \o new)[i] = base[i]
  BY <1>1, <1>3
<1>6. DOMAIN old = 1 .. Len(base)
  BY <1>1, <1>3
<1> QED
  BY <1>2, <1>3, <1>4, <1>5, <1>6 DEF old

LEMMA TrailStep ==
  ASSUME TypeOK, [Next]_vars, NEW a \in AuthIds
  PROVE  /\ Len(rows[a]) <= Len(rows'[a])
         /\ \A i \in DOMAIN rows[a] : Kept(rows[a][i], rows'[a][i])
<1>1. CASE rows' = rows
  <2>1. rows[a] \in Seq(Row) /\ Len(rows[a]) \in Nat /\ \A i \in DOMAIN rows[a] : rows[a][i] \in Row
    BY DEF TypeOK
  <2>2. ASSUME NEW i \in DOMAIN rows[a] PROVE Kept(rows[a][i], rows[a][i])
    <3>1. rows[a][i] \in Row
      BY <2>1
    <3> QED
      BY <3>1, RowKept
  <2>3. Len(rows[a]) <= Len(rows[a])
    BY <2>1
  <2>4. rows'[a] = rows[a]
    BY <1>1
  <2> QED
    BY <2>2, <2>3, <2>4, Zenon
<1>2. CASE rows' # rows
  <2>1. PICK s \in Sessions : Commit(s)
    BY <1>2, TablesKept DEF Next, AllServed, vars, tables
  <2>2. rows'[a] = CommittedRows(s, a)
    BY <2>1 DEF Commit
  <2>3. /\ Len(rows[a]) <= Len(CommittedRows(s, a))
        /\ \A i \in DOMAIN rows[a] : Kept(rows[a][i], CommittedRows(s, a)[i])
    BY CommittedRowsKept
  <2> QED
    BY <2>2, <2>3, Zenon
<1> QED
  BY <1>1, <1>2

(* Committed transactions are never removed or changed, whatever batches,  *)
(* refunds and failures follow; only the flag posted -> reversed is set,   *)
(* and it stays set.                                                       *)
THEOREM TrailAdditive == Spec => TrailIsAdditive
<1>1. TypeOK /\ [Next]_vars =>
        [\A a \in AuthIds :
           /\ Len(rows[a]) <= Len(rows'[a])
           /\ \A i \in DOMAIN rows[a] :
                /\ SamePosting(rows[a][i], rows'[a][i])
                /\ rows[a][i].status = "reversed" => rows'[a][i].status = "reversed"]_vars
  BY TrailStep DEF Kept
<1> QED
  BY <1>1, TypeCorrect, PTL DEF Spec, TrailIsAdditive
=============================================================================
