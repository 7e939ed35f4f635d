----------------------------- MODULE BooksProofs -----------------------------
(***************************************************************************)
(* What is committed is whole and the books are right: a purchase or a     *)
(* batch appears with its authorization, settlement, rows and answer or    *)
(* not at all, the entries of a settlement are posted once, balances are   *)
(* the sum of the rows, and a refund restores them.  All of it rests on    *)
(* what an open session has drafted by the time it reaches each of its     *)
(* statements.                                                             *)
(***************************************************************************)
EXTENDS PaymentsRefinement, PaymentsProofs

-----------------------------------------------------------------------------
(* What a session has drafted.                                             *)

Buying == {"purchase", "cardauth"}

(* What the request of a session will have written when it is done: the    *)
(* key or event it claims, the authorizations, settlements and refund.     *)
Claims(s) ==
  IF Kind(s) = "purchase" THEN req[s].key
  ELSE IF Kind(s) \in FromProcessor THEN req[s].event ELSE None

Writes(s) ==
  IF Kind(s) \in Buying THEN {s} ELSE IF Kind(s) \in OnRef THEN {req[s].ref} ELSE {}

Batch(s) ==
  IF Kind(s) \in Buying THEN {s} ELSE IF Kind(s) = "settled" THEN Range(req[s].refs) ELSE {}

Refunded(s) == IF Kind(s) = "refund" THEN {req[s].auth} ELSE {}

StatusWritten(s) ==
  IF Kind(s) = "created" THEN "pending"
  ELSE IF Kind(s) = "declined" THEN "declined" ELSE "authorized"

NoSettlements(s) == \A a \in AuthIds : newSettlement[s][a] = "none" /\ newRows[s][a] = <<>>

Nothing(s) == claim[s] = None /\ newAuth[s] = NoWrites /\ NoSettlements(s)

Fresh    == {"idle", "lookup", "claim", "readRefund", "listRows", "done"}
Before   == {"insertAuth", "readNew", "readStatus", "writeStatus"}
Midway   == {"readAuth", "readSettlement", "insertSettlement", "post", "markReversed"}
Finished == {"respond", "commit"}

(* Settlements are drafted one by one, each with its rows. *)
Partial(s) ==
  /\ claim[s] = Claims(s)
  /\ \A a \in AuthIds : newAuth[s][a] # None <=> (Kind(s) \in Buying /\ a = s)
  /\ \A a \in AuthIds : newSettlement[s][a] # "reversed"
  /\ \A a \in AuthIds : newSettlement[s][a] = "settled" => a \in Batch(s)
  /\ \A a \in Batch(s) : newSettlement[s][a] = "settled" \/ a \in Range(queue[s])
  /\ \A a \in AuthIds :
       newRows[s][a] # <<>> => newSettlement[s][a] = "settled" \/ a \in Refunded(s)
  /\ pc[s] = "insertSettlement" => newSettlement[s][Current(s)] = "none"
  /\ (pc[s] = "post" /\ Kind(s) # "refund") => newSettlement[s][Current(s)] = "settled"

Complete(s) ==
  /\ claim[s] = Claims(s)
  /\ \A a \in AuthIds : newAuth[s][a] # None <=> a \in Writes(s)
  /\ \A a \in AuthIds : newSettlement[s][a] = "settled" <=> a \in Batch(s)
  /\ \A a \in AuthIds : newSettlement[s][a] = "reversed" <=> a \in Refunded(s)
  /\ \A a \in AuthIds : newRows[s][a] # <<>> => a \in Batch(s) \cup Refunded(s)

DraftAt(s) ==
  /\ pc[s] \in Fresh => Nothing(s)
  /\ pc[s] \in Before => claim[s] = Claims(s) /\ newAuth[s] = NoWrites /\ NoSettlements(s)
  /\ pc[s] \in Midway => Partial(s)
  /\ pc[s] \in Finished => Nothing(s) \/ Complete(s)
  /\ \A a \in AuthIds : newAuth[s][a] # None => newAuth[s][a].status = StatusWritten(s)
  /\ (pc[s] # "idle" /\ Kind(s) = "settled") => Range(queue[s]) \subseteq Batch(s)
  /\ (pc[s] = "claim" /\ Kind(s) = "settled") => queue[s] = req[s].refs

DraftOK == \A s \in Sessions : DraftAt(s)

-----------------------------------------------------------------------------
(* What the drafts and the tables have to do with each other.              *)

Live(s) == pc[s] \notin {"idle", "rollback", "done"}

(* A drafted settlement is new, and its rows are those its authorization   *)
(* calls for - together with the entries still to be posted.               *)
SettlingAt(s) ==
  \A a \in AuthIds : (Live(s) /\ newSettlement[s][a] = "settled") =>
    /\ settlement[a] = "none"
    /\ SeenAuth(s, a) # None
    /\ (IF pc[s] = "post" /\ a = Current(s) THEN newRows[s][a] \o entries[s]
                                            ELSE newRows[s][a])
         = SettlementEntries(SeenAuth(s, a))

RefundingAt(s) ==
  (Live(s) /\ Kind(s) = "refund" /\ pc[s] # "readRefund") => settlement[req[s].auth] # "none"

WholeAt(a) ==
  /\ settlement[a] = "none" => rows[a] = <<>>
  /\ settlement[a] # "none" => auth[a] # None /\ rows[a] # <<>>
  /\ settlement[a] = "settled" => rows[a] = SettlementEntries(auth[a])
  /\ (a \in Sessions /\ auth[a] # None) => settlement[a] # "none"

WholeOK ==
  /\ \A s \in Sessions : SettlingAt(s) /\ RefundingAt(s)
  /\ \A a \in AuthIds : WholeAt(a)
  /\ \A k \in Keys : answer[k] # None => auth[answer[k]] # None

(* What a session has added to a balance and not committed.                *)
Gain(s, c) == SeenBalance(s, c) - balance[c]

(* Balances, and what a session has added to them, are sums of rows.       *)
SumsOK ==
  /\ \A c \in Accounts : balance[c] = SumFunction([a \in AuthIds |-> NetOf(rows[a], c)])
  /\ \A s \in Sessions, c \in Accounts :
       Gain(s, c) = SumFunction([a \in AuthIds |-> NetOf(newRows[s][a], c)])

(* Requests of the kinds in Serial are served one after the other.         *)
InTurnOK ==
  \A s, t \in Sessions :
    (s # t /\ Open(s) /\ Open(t) /\ {Kind(s), Kind(t)} \subseteq Serial)
      => Range(queue[s]) \cap Range(queue[t]) = {}

(* With refunds in turn, a refund offsets rows that are still the ones it  *)
(* listed, of a settlement that is still settled.                          *)
OffsetAt(s) ==
  (Live(s) /\ Kind(s) = "refund" /\ pc[s] # "readRefund") =>
    LET a == req[s].auth IN
    /\ settlement[a] = "settled"
    /\ \A c \in Accounts :
         NetOf(newRows[s][a], c) + (IF pc[s] = "post" THEN NetOf(entries[s], c) ELSE 0)
           = IF pc[s] = "listRows" THEN 0 ELSE -NetOf(rows[a], c)

OffsetOK ==
  /\ \A s \in Sessions : OffsetAt(s)
  /\ \A a \in AuthIds : settlement[a] = "reversed" => \A c \in Accounts : NetOf(rows[a], c) = 0

-----------------------------------------------------------------------------
(* Steps, by what they do to drafts.                                       *)

LEMMA RangeFacts ==
  ASSUME NEW S, NEW q \in Seq(S)
  PROVE  /\ q # <<>> => /\ Head(q) \in Range(q)
                        /\ Range(q) = {Head(q)} \cup Range(Tail(q))
         /\ (q # <<>> /\ ~ (Len(q) > 1)) => Range(q) = {Head(q)}
         /\ q = <<>> => Range(q) = {}
<1>1. q = <<>> => Range(q) = {}
  BY DEF Range
<1>2. ASSUME q # <<>>
      PROVE  Head(q) \in Range(q) /\ Range(q) = {Head(q)} \cup Range(Tail(q))
  <2>1. /\ DOMAIN q = 1 .. Len(q) /\ Len(q) \in Nat /\ Len(q) >= 1 /\ Head(q) = q[1]
        /\ DOMAIN Tail(q) = 1 .. Len(q) - 1
        /\ \A i \in 1 .. Len(q) - 1 : Tail(q)[i] = q[i + 1]
    BY <1>2
  <2> DEFINE t == Tail(q)
  <2> HIDE DEF t
  <2>2. \A i \in DOMAIN q : q[i] = Head(q) \/ \E j \in DOMAIN t : q[i] = t[j]
    <3>1. ASSUME NEW i \in 1 .. Len(q), i # 1
          PROVE  i - 1 \in 1 .. Len(q) - 1 /\ q[i] = t[i - 1]
      <4>1. i - 1 \in 1 .. Len(q) - 1 /\ (i - 1) + 1 = i
        BY <2>1, <3>1
      <4> QED
        BY <2>1, <4>1 DEF t
    <3> QED
      BY <2>1, <3>1 DEF t
  <2>3. \A j \in DOMAIN t : \E i \in DOMAIN q : q[i] = t[j]
    <3>1. \A j \in 1 .. Len(q) - 1 : j + 1 \in 1 .. Len(q)
      BY <2>1
    <3> QED
      BY <2>1, <3>1 DEF t
  <2>4. 1 \in DOMAIN q
    BY <2>1
  <2>5. Range(q) = {Head(q)} \cup Range(t)
    BY <2>1, <2>2, <2>3, <2>4 DEF Range
  <2> QED
    BY <2>5 DEF t
<1>3. ASSUME q # <<>>, ~ (Len(q) > 1) PROVE Range(q) = {Head(q)}
  <2>1. DOMAIN q = 1 .. Len(q) /\ Len(q) \in Nat /\ Len(q) # 0
    BY <1>3
  <2>2. Len(q) = 1
    BY <1>3, <2>1
  <2>3. DOMAIN q = {1} /\ Head(q) = q[1]
    BY <2>1, <2>2
  <2> QED
    BY <2>3 DEF Range
<1> QED
  BY <1>1, <1>2, <1>3

LEMMA RangeOfOne ==
  ASSUME NEW x
  PROVE  Range(<<x>>) = {x}
  BY DEF Range

(* No other session's draft or response changes. *)
OthersDraftKept(s) ==
  \A t \in Sessions : t # s =>
    /\ newSettlement'[t] = newSettlement[t] /\ newRows'[t] = newRows[t]
    /\ newBalance'[t] = newBalance[t] /\ listed'[t] = listed[t] /\ entries'[t] = entries[t]
    /\ reply'[t] = reply[t] /\ result'[t] = result[t]

(* A step of one session leaves the drafts of the others alone.            *)
LEMMA KeepsOtherDrafts ==
  ASSUME TypeOK, NEW s \in Sessions,
         Step(s) \/ Lose(s) \/ \E r \in Requests : Arrive(s, r)
  PROVE  OthersDraftKept(s)
<1> USE DEF OthersDraftKept
<1>1. CASE Reading(s)
  <2>1. UNCHANGED <<draft, handler>>
    BY <1>1
    DEF Reading, LookUpKey, ClaimTaken, RejectPurchase, ReadNew, ReadStatus, ReadAuth,
        ReadSettlement, ReadForRefund, Respond
  <2>2. \A t \in Sessions : t # s => reply'[t] = reply[t] /\ result'[t] = result[t]
    BY <1>1
    DEF Reading, LookUpKey, ClaimTaken, RejectPurchase, ReadNew, ReadStatus, ReadAuth,
        ReadSettlement, ReadForRefund, Respond, Require, Raise, Return, TypeOK
  <2> QED
    BY <2>1, <2>2 DEF draft, handler
<1>2. CASE Claim(s) \/ Purchase(s) \/ CreatePending(s) \/ WriteStatus(s)
  BY <1>2 DEF Claim, Purchase, CreatePending, WriteStatus, Return, handler, TypeOK
<1>3. CASE InsertSettlement(s) \/ FlagReversed(s)
  BY <1>3 DEF InsertSettlement, FlagReversed, WriteSettlement, Return, handler, TypeOK
<1>4. CASE ListRows(s)
  <2>1. \E q : entries' = [entries EXCEPT ![s] = q]
    BY <1>4 DEF ListRows
  <2>2. \E n : listed' = [listed EXCEPT ![s] = n]
    BY <1>4 DEF ListRows
  <2>3. UNCHANGED <<newSettlement, newRows, newBalance, result>>
    BY <1>4 DEF ListRows
  <2>4. \A t \in Sessions : t # s => reply'[t] = reply[t]
    BY <1>4 DEF ListRows, Require, Raise, TypeOK
  <2> QED
    BY <2>1, <2>2, <2>3, <2>4 DEF TypeOK
<1>5. CASE Posted(s)
  <2>1. /\ UNCHANGED <<newSettlement, listed>>
        /\ \A t \in Sessions : t # s =>
             newRows'[t] = newRows[t] /\ newBalance'[t] = newBalance[t] /\ entries'[t] = entries[t]
    BY <1>5, PostedFacts DEF PostHead, TypeOK
  <2>2. \A t \in Sessions : t # s => reply'[t] = reply[t] /\ result'[t] = result[t]
    BY <1>5 DEF Posted, PostEntry, PostLastOfMany, PostLast, PostLastReversal, Return, TypeOK
  <2> QED
    BY <2>1, <2>2
<1>6. CASE Commit(s) \/ Rollback(s) \/ Aborting(s) \/ Lose(s)
  <2>1. Discard(s) /\ UNCHANGED <<handler, result>>
    BY <1>6, AbortingAborts DEF Commit, Rollback, Abort, Lose
  <2>2. \A t \in Sessions : t # s => reply'[t] = reply[t]
    BY <1>6, AbortingAborts DEF Commit, Rollback, Abort, Lose, Raise, TypeOK
  <2> QED
    BY <2>1, <2>2 DEF Discard, handler, TypeOK
<1>7. CASE \E r \in Requests : Arrive(s, r)
  BY <1>7 DEF Arrive, draft
<1> QED
  BY <1>1, <1>2, <1>3, <1>4, <1>5, <1>6, <1>7, StepCases

(* A session goes on without writing anything. *)
SameDraft(s) ==
  /\ claim'[s] = claim[s] /\ newAuth'[s] = newAuth[s]
  /\ newSettlement'[s] = newSettlement[s] /\ newRows'[s] = newRows[s]
  /\ req'[s] = req[s] /\ queue'[s] = queue[s]

(* What only depends on a session's draft and request stays with them.     *)
LEMMA SameDraftSame ==
  ASSUME NEW s, SameDraft(s)
  PROVE  /\ Nothing(s)' <=> Nothing(s)
         /\ NoSettlements(s)' <=> NoSettlements(s)
         /\ Complete(s)' <=> Complete(s)
         /\ Kind(s)' = Kind(s) /\ Claims(s)' = Claims(s) /\ Batch(s)' = Batch(s)
         /\ Refunded(s)' = Refunded(s) /\ StatusWritten(s)' = StatusWritten(s)
         /\ Current(s)' = Current(s) /\ Writes(s)' = Writes(s)
<1> USE DEF SameDraft
<1>1. Kind(s)' = Kind(s) /\ Current(s)' = Current(s)
  BY DEF Kind, Current
<1>2. /\ Claims(s)' = Claims(s) /\ Batch(s)' = Batch(s) /\ Refunded(s)' = Refunded(s)
      /\ StatusWritten(s)' = StatusWritten(s) /\ Writes(s)' = Writes(s)
  BY <1>1 DEF Claims, Batch, Refunded, StatusWritten, Writes
<1>3. NoSettlements(s)' <=> NoSettlements(s)
  BY DEF NoSettlements
<1>4. Nothing(s)' <=> Nothing(s)
  BY <1>3 DEF Nothing, NoWrites
<1>5. Complete(s)' <=> Complete(s)
  BY <1>2 DEF Complete
<1> QED
  BY <1>1, <1>2, <1>3, <1>4, <1>5

(* A session whose draft stays the same, by where it goes. *)
LEMMA SameDraftKeeps ==
  ASSUME NEW s \in Sessions, DraftAt(s), SameDraft(s), pc[s] # "idle", pc'[s] # "idle",
         \/ pc'[s] = "rollback"
         \/ pc[s] \in Fresh /\ pc'[s] \in Fresh \cup Finished /\ pc'[s] # "claim"
         \/ pc[s] = "lookup" /\ Kind(s) = "purchase" /\ pc'[s] = "claim"
         \/ pc[s] \in Before /\ pc'[s] \in Before
         \/ pc[s] \in Midway /\ pc'[s] \in {"readAuth", "readSettlement"}
         \/ /\ pc[s] \in Midway /\ pc'[s] = "insertSettlement"
            /\ newSettlement[s][Current(s)] = "none"
         \/ pc[s] \in Finished /\ pc'[s] \in Finished
  PROVE  DraftAt(s)'
<1> USE DEF DraftAt
<1>1. \A a \in AuthIds : newAuth'[s][a] # None => newAuth'[s][a].status = StatusWritten(s)'
  BY SameDraftSame DEF SameDraft
<1>2. (pc'[s] # "idle" /\ Kind(s)' = "settled") => Range(queue[s])' \subseteq Batch(s)'
  BY SameDraftSame DEF SameDraft
<1>3. (pc'[s] = "claim" /\ Kind(s)' = "settled") => queue'[s] = req'[s].refs
  BY SameDraftSame DEF Fresh, Before, Midway, Finished
<1>4. CASE pc'[s] \in Midway
  <2>1. Partial(s) /\ pc'[s] # "post"
    BY <1>4 DEF Fresh, Before, Midway, Finished
  <2>2. pc'[s] = "insertSettlement" => newSettlement[s][Current(s)] = "none"
    BY <1>4 DEF Fresh, Before, Midway, Finished
  <2>3. Partial(s)'
    BY <2>1, <2>2, SameDraftSame DEF Partial, SameDraft
  <2> QED
    BY <1>1, <1>2, <1>3, <1>4, <2>3 DEF Fresh, Before, Midway, Finished
<1>5. CASE pc'[s] \notin Midway
  BY <1>1, <1>2, <1>3, <1>5, SameDraftSame DEF Fresh, Before, Midway, Finished, SameDraft, NoWrites
<1> QED
  BY <1>4, <1>5

(* The statements of a handler, one group after the other: each leaves     *)
(* drafted what DraftAt says of the next one.                              *)
LEMMA ReadingDrafts ==
  ASSUME TypeOK, HandlerOK, NEW s \in Sessions, DraftAt(s), Reading(s)
  PROVE  DraftAt(s)'
<1> USE Moved
<1>1. pc[s] # "idle" /\ SameDraft(s)
  BY DEF Reading, LookUpKey, ClaimTaken, RejectPurchase, ReadNew, ReadStatus, ReadAuth,
        ReadSettlement, ReadForRefund, Respond, draft, handler, SameDraft
<1>2. CASE LookUpKey(s)
  <2>1. Kind(s) = "purchase" /\ pc[s] = "lookup" /\ pc'[s] \in {"respond", "claim"}
    BY <1>2, HandlerFacts DEF LookUpKey, KindAt
  <2> QED
    BY <1>1, <2>1, SameDraftKeeps DEF Fresh, Finished
<1>3. CASE ClaimTaken(s)
  <2>1. pc[s] = "claim" /\ pc'[s] \in {"respond", "rollback"}
    BY <1>3 DEF ClaimTaken
  <2> QED
    BY <1>1, <2>1, SameDraftKeeps DEF Fresh, Finished
<1>4. CASE RejectPurchase(s)
  BY <1>1, <1>4, SameDraftKeeps DEF RejectPurchase
<1>5. CASE ReadNew(s) \/ ReadStatus(s)
  <2>1. pc[s] \in Before /\ pc'[s] \in Before \cup {"rollback"}
    BY <1>5 DEF ReadNew, ReadStatus, Require, Before
  <2> QED
    BY <1>1, <2>1, SameDraftKeeps DEF Before
<1>6. CASE ReadAuth(s)
  <2>1. pc[s] \in Midway /\ pc'[s] \in {"readSettlement", "rollback"}
    BY <1>6 DEF ReadAuth, Require, Midway
  <2> QED
    BY <1>1, <2>1, SameDraftKeeps
<1>7. CASE ReadSettlement(s)
  <2>1. /\ pc[s] \in Midway
        /\ \/ pc'[s] = "rollback"
           \/ pc'[s] = "insertSettlement" /\ SeenSettlement(s, Current(s)) = "none"
    BY <1>7 DEF ReadSettlement, Require, Midway
  <2>2. SeenSettlement(s, Current(s)) = "none" => newSettlement[s][Current(s)] = "none"
    BY DEF SeenSettlement
  <2> QED
    BY <1>1, <2>1, <2>2, SameDraftKeeps
<1>8. CASE ReadForRefund(s)
  <2>1. pc[s] = "readRefund" /\ pc'[s] \in {"listRows", "rollback"}
    BY <1>8 DEF ReadForRefund, Require
  <2> QED
    BY <1>1, <2>1, SameDraftKeeps DEF Fresh
<1>9. CASE Respond(s)
  <2>1. pc[s] = "respond" /\ pc'[s] = "commit"
    BY <1>9 DEF Respond
  <2> QED
    BY <1>1, <2>1, SameDraftKeeps DEF Finished
<1> QED
  BY <1>2, <1>3, <1>4, <1>5, <1>6, <1>7, <1>8, <1>9 DEF Reading

LEMMA ClaimDrafts ==
  ASSUME TypeOK, HandlerOK, NEW s \in Sessions, DraftAt(s), Claim(s)
  PROVE  DraftAt(s)'
<1>1. /\ pc[s] = "claim" /\ pc'[s] = AfterClaim(s) /\ claim'[s] = ClaimValue(s)
      /\ UNCHANGED <<newAuth, newSettlement, newRows, req, queue>>
  BY Moved DEF Claim, TypeOK, handler
<1>2. /\ Kind(s) \in {"purchase"} \cup FromProcessor
      /\ queue[s] \in Seq(AuthIds)
  BY <1>1, HandlerFacts DEF KindAt, TypeOK
<1>3. Nothing(s) /\ (Kind(s) = "settled" => queue[s] = req[s].refs)
  BY <1>1 DEF DraftAt, Fresh
<1>4. /\ Kind(s)' = Kind(s) /\ Current(s)' = Current(s) /\ Claims(s)' = Claims(s)
      /\ Batch(s)' = Batch(s) /\ Refunded(s)' = Refunded(s) /\ Writes(s)' = Writes(s)
      /\ StatusWritten(s)' = StatusWritten(s)
  BY <1>1 DEF Kind, Current, Claims, Batch, Refunded, Writes, StatusWritten
<1>5. ClaimValue(s) = Claims(s)
  BY <1>2 DEF ClaimValue, Claims, Kind
<1>6. /\ Kind(s) = "purchase" => pc'[s] = "insertAuth"
      /\ Kind(s) = "created" => pc'[s] = "readNew"
      /\ Kind(s) \in {"approved", "declined"} => pc'[s] = "readStatus"
      /\ Kind(s) = "settled" => IF queue[s] # <<>> THEN pc'[s] = "readAuth" ELSE pc'[s] = "respond"
  BY <1>1 DEF AfterClaim, Kind
<1>7. /\ \A a \in AuthIds : newAuth'[s][a] = None /\ newSettlement'[s][a] = "none"
                              /\ newRows'[s][a] = <<>>
      /\ newAuth'[s] = NoWrites'
      /\ claim'[s] = Claims(s)'
  BY <1>1, <1>3, <1>4, <1>5 DEF Nothing, NoSettlements, NoWrites
<1>8. Kind(s) = "settled" => Range(queue[s]) = Batch(s)
  BY <1>3 DEF Batch, Buying
<1>9. CASE Kind(s) # "settled"
  <2>1. pc'[s] \in Before
    BY <1>2, <1>6, <1>9 DEF FromProcessor, OnRef, Before
  <2> QED
    BY <1>4, <1>7, <1>9, <2>1
    DEF DraftAt, Fresh, Before, Midway, Finished, NoSettlements
<1>10. CASE Kind(s) = "settled" /\ queue[s] # <<>>
  <2>1. pc'[s] = "readAuth"
    BY <1>6, <1>10
  <2>2. Partial(s)'
    BY <1>1, <1>4, <1>7, <1>8, <1>10, <2>1 DEF Partial, Buying
  <2> QED
    BY <1>1, <1>4, <1>7, <1>8, <2>1, <2>2 DEF DraftAt, Fresh, Before, Midway, Finished
<1>11. CASE Kind(s) = "settled" /\ queue[s] = <<>>
  <2>1. pc'[s] = "respond"
    BY <1>6, <1>11
  <2>2. Batch(s) = {} /\ Writes(s) = {} /\ Refunded(s) = {}
    BY <1>2, <1>8, <1>11, RangeFacts DEF Writes, Refunded, Buying, OnRef
  <2>3. Complete(s)'
    BY <1>4, <1>7, <2>2 DEF Complete
  <2> QED
    BY <1>1, <1>4, <1>7, <1>8, <2>1, <2>3 DEF DraftAt, Fresh, Before, Midway, Finished
<1> QED
  BY <1>9, <1>10, <1>11

(* The three actions that write an authorization.                          *)
LEMMA AuthorizingDrafts ==
  ASSUME TypeOK, HandlerOK, CheckedOK, NEW s \in Sessions, DraftAt(s),
         Purchase(s) \/ CreatePending(s) \/ WriteStatus(s)
  PROVE  DraftAt(s)'
<1>1. PICK h \in Authorization :
        /\ newAuth' = [newAuth EXCEPT ![s][Current(s)] = h]
        /\ h.status = StatusWritten(s) /\ Writes(s) = {Current(s)} /\ Current(s) \in AuthIds
        /\ UNCHANGED <<claim, newSettlement, newRows, req, queue>>
        /\ pc[s] \in {"insertAuth", "writeStatus"}
        /\ IF Kind(s) \in Buying THEN pc'[s] = "readAuth" /\ Current(s) = s
                                 ELSE pc'[s] = "respond"
        /\ Kind(s) \in Buying \cup OnRef
  <2>1. CASE Purchase(s)
    <3>1. /\ Kind(s) \in Buying /\ pc[s] = "insertAuth" /\ pc'[s] = "readAuth"
          /\ UNCHANGED <<claim, newSettlement, newRows, req, queue>>
          /\ newAuth' = [newAuth EXCEPT ![s][s] =
                           Authorized(req[s].record, req[s].user, AmountOf(req[s]))]
      BY <2>1, Moved DEF Purchase, Kind, Buying, WriteAuth, handler
    <3>2. Current(s) = s /\ s \in AuthIds /\ req[s] \in Requests
      BY <3>1, HandlerFacts, SessionsAreAuthIds DEF Buying
    <3>3. AmountOf(req[s]) \in Int
      BY <2>1, <3>2, RequestFields, PaymentsAssumption
      DEF Purchase, AmountOf, Known, PaymentsAssumption
    <3>4. Authorized(req[s].record, req[s].user, AmountOf(req[s])) \in Authorization
      BY <2>1, <3>3, AuthorizedTyped DEF Purchase
    <3>5. Authorized(req[s].record, req[s].user, AmountOf(req[s])).status = StatusWritten(s)
      BY <3>1 DEF Authorized, StatusWritten, Buying
    <3>6. Writes(s) = {s}
      BY <3>1 DEF Writes
    <3> QED
      BY <3>1, <3>2, <3>4, <3>5, <3>6
  <2>2. CASE CreatePending(s)
    <3> DEFINE t == Terms[Current(s)]
               h == [Authorized(t.record, t.user, t.amount) EXCEPT !.status = "pending"]
    <3>1. /\ Kind(s) = "created" /\ pc[s] = "insertAuth" /\ pc'[s] = "respond"
          /\ UNCHANGED <<claim, newSettlement, newRows, req, queue>>
          /\ newAuth' = [newAuth EXCEPT ![s][Current(s)] = h]
      BY <2>2, Moved DEF CreatePending, Kind, WriteAuth, handler
    <3>2. Current(s) = req[s].ref /\ Current(s) \in Refs /\ Current(s) \in AuthIds
      BY <3>1, HandlerFacts DEF OnRef
    <3>3. Known(t.record, t.user)
      BY <3>1 DEF CheckedOK, CheckedAt
    <3>4. t.amount \in Int
      BY <3>2, PaymentsAssumption DEF PaymentsAssumption
    <3>5. h \in Authorization
      BY <3>3, <3>4, AuthorizedTyped
    <3>6. h.status = "pending"
      BY DEF Authorized
    <3>7. Writes(s) = {Current(s)} /\ StatusWritten(s) = "pending" /\ Kind(s) \notin Buying
      BY <3>1, <3>2 DEF Writes, StatusWritten, Buying, OnRef
    <3> QED
      BY <3>1, <3>2, <3>5, <3>6, <3>7 DEF OnRef
  <2>3. CASE WriteStatus(s)
    <3> DEFINE old == auth[Current(s)]
               status == IF Kind(s) = "approved" THEN "authorized" ELSE "declined"
               h == [old EXCEPT !.status = status]
    <3>1. /\ pc[s] = "writeStatus" /\ pc'[s] = "respond"
          /\ UNCHANGED <<claim, newSettlement, newRows, req, queue>>
          /\ newAuth' = [newAuth EXCEPT ![s][Current(s)] = h]
      BY <2>3, Moved DEF WriteStatus, Kind, WriteAuth, handler
    <3>2. Kind(s) \in {"approved", "declined"}
      BY <3>1, HandlerFacts DEF KindAt
    <3>3. Current(s) = req[s].ref /\ Current(s) \in AuthIds
      BY <3>1, <3>2, HandlerFacts DEF OnRef
    <3>4. old \in Authorization
      BY <3>1, <3>3 DEF CheckedOK, CheckedAt, TypeOK
    <3>5. h \in Authorization /\ h.status = status
      BY <3>4 DEF Authorization, AuthorizationStatus
    <3>6. /\ Writes(s) = {Current(s)} /\ StatusWritten(s) = status
          /\ Kind(s) \notin Buying /\ Kind(s) \in OnRef
      BY <3>2, <3>3 DEF Writes, StatusWritten, Buying, OnRef
    <3> QED
      BY <3>1, <3>2, <3>3, <3>5, <3>6
  <2> QED
    BY <2>1, <2>2, <2>3
<1>2. /\ Kind(s)' = Kind(s) /\ Current(s)' = Current(s) /\ Claims(s)' = Claims(s)
      /\ Batch(s)' = Batch(s) /\ Refunded(s)' = Refunded(s) /\ Writes(s)' = Writes(s)
      /\ StatusWritten(s)' = StatusWritten(s)
  BY <1>1 DEF Kind, Current, Claims, Batch, Refunded, Writes, StatusWritten
<1>3. claim[s] = Claims(s) /\ newAuth[s] = NoWrites /\ NoSettlements(s)
  BY <1>1 DEF DraftAt, Before
<1>4. /\ newAuth'[s][Current(s)] = h /\ h # None
      /\ \A a \in AuthIds : a # Current(s) => newAuth'[s][a] = None
  <2>1. newAuth'[s] = [newAuth[s] EXCEPT ![Current(s)] = h]
    BY <1>1 DEF TypeOK
  <2> QED
    BY <1>1, <1>3, <2>1, RowsAssumption DEF RowsAssumption, NoWrites
<1>5. \A a \in AuthIds : newSettlement'[s][a] = "none" /\ newRows'[s][a] = <<>>
  BY <1>1, <1>3 DEF NoSettlements
<1>6. claim'[s] = Claims(s)'
  BY <1>1, <1>2, <1>3
<1>7. pc[s] # "idle" /\ pc'[s] \notin {"claim", "idle"}
  BY <1>1
<1>8. (pc'[s] # "idle" /\ Kind(s)' = "settled") => Range(queue[s])' \subseteq Batch(s)'
  BY <1>1, <1>2, <1>7 DEF DraftAt
<1>9. \A a \in AuthIds : newAuth'[s][a] # None => newAuth'[s][a].status = StatusWritten(s)'
  BY <1>1, <1>2, <1>4
<1>10. CASE Kind(s) \in Buying
  <2>1. Batch(s) = {s} /\ queue[s] = <<s>> /\ queue[s] \in Seq(AuthIds)
    BY <1>7, <1>10, HandlerFacts DEF Batch, QueueAt, TypeOK, Buying
  <2>2. Range(queue[s]) = {s}
    BY <2>1, RangeOfOne
  <2>3. pc'[s] = "readAuth" /\ Current(s) = s
    BY <1>1, <1>10
  <2>4. Partial(s)'
    BY <1>1, <1>2, <1>4, <1>5, <1>6, <1>10, <2>1, <2>2, <2>3 DEF Partial
  <2> QED
    BY <1>1, <1>8, <1>9, <1>10, <2>4 DEF DraftAt, Fresh, Before, Midway, Finished
<1>11. CASE Kind(s) \notin Buying
  <2>1. Batch(s) = {} /\ Refunded(s) = {}
    BY <1>1, <1>11 DEF Batch, Refunded, OnRef
  <2>2. Complete(s)'
    BY <1>1, <1>2, <1>4, <1>5, <1>6, <2>1 DEF Complete
  <2> QED
    BY <1>1, <1>8, <1>9, <1>11, <2>2 DEF DraftAt, Fresh, Before, Midway, Finished
<1> QED
  BY <1>10, <1>11

LEMMA InsertDrafts ==
  ASSUME TypeOK, HandlerOK, NEW s \in Sessions, DraftAt(s), InsertSettlement(s)
  PROVE  DraftAt(s)'
<1>1. /\ pc[s] = "insertSettlement" /\ pc'[s] = "post"
      /\ newSettlement' = [newSettlement EXCEPT ![s][Current(s)] = "settled"]
      /\ UNCHANGED <<claim, newAuth, newRows, req, queue>>
  BY Moved DEF InsertSettlement, WriteSettlement
<1>2. /\ Kind(s)' = Kind(s) /\ Current(s)' = Current(s) /\ Claims(s)' = Claims(s)
      /\ Batch(s)' = Batch(s) /\ Refunded(s)' = Refunded(s)
      /\ StatusWritten(s)' = StatusWritten(s)
  BY <1>1 DEF Kind, Current, Claims, Batch, Refunded, StatusWritten
<1>3. Partial(s)
  BY <1>1 DEF DraftAt, Midway
<1>4. Current(s) \in AuthIds /\ Kind(s) \in {"purchase", "cardauth", "settled"}
  BY <1>1, HandlerFacts DEF KindAt
<1>5. Current(s) \in Batch(s)
  <2>1. CASE Kind(s) \in Buying
    BY <1>1, <2>1, HandlerFacts DEF Batch, Buying
  <2>2. CASE Kind(s) = "settled"
    <3>1. queue[s] \in Seq(AuthIds) /\ queue[s] # <<>>
      BY <1>1, <1>4, HandlerFacts DEF QueueAt, TypeOK
    <3>2. Current(s) \in Range(queue[s])
      BY <3>1, RangeFacts DEF Current
    <3> QED
      BY <1>1, <2>2, <3>2 DEF DraftAt
  <2> QED
    BY <1>4, <2>1, <2>2 DEF Buying
<1>6. /\ newSettlement'[s][Current(s)] = "settled"
      /\ \A a \in AuthIds : a # Current(s) => newSettlement'[s][a] = newSettlement[s][a]
  BY <1>1, <1>4 DEF TypeOK
<1>7. Partial(s)'
  BY <1>1, <1>2, <1>3, <1>5, <1>6 DEF Partial
<1> QED
  BY <1>1, <1>2, <1>7 DEF DraftAt, Fresh, Before, Midway, Finished

LEMMA PostedDrafts ==
  ASSUME TypeOK, HandlerOK, NEW s \in Sessions, DraftAt(s), Posted(s)
  PROVE  DraftAt(s)'
<1> DEFINE e == Head(entries[s])
<1>1. /\ pc[s] = "post"
      /\ newRows' = [newRows EXCEPT ![s][Current(s)] = Append(@, e)]
      /\ UNCHANGED <<claim, newAuth, newSettlement, req>>
  BY PostedFacts DEF PostHead
<1> HIDE DEF e
<1>2. /\ Kind(s)' = Kind(s) /\ Claims(s)' = Claims(s)
      /\ Batch(s)' = Batch(s) /\ Refunded(s)' = Refunded(s)
      /\ StatusWritten(s)' = StatusWritten(s) /\ Writes(s)' = Writes(s)
  BY <1>1 DEF Kind, Claims, Batch, Refunded, StatusWritten, Writes
<1>3. Partial(s)
  BY <1>1 DEF DraftAt, Midway
<1>4. /\ Current(s) \in AuthIds /\ Kind(s) \in {"purchase", "cardauth", "settled", "refund"}
      /\ Kind(s) = "refund" => Current(s) = req[s].auth
  BY <1>1, HandlerFacts DEF KindAt
<1>5. \A a \in AuthIds : a # Current(s) => newRows'[s][a] = newRows[s][a]
  BY <1>1, <1>4 DEF TypeOK
<1>6. newSettlement[s][Current(s)] = "settled" \/ Current(s) \in Refunded(s)
  BY <1>1, <1>3, <1>4 DEF Partial, Refunded
<1>7. /\ \A a \in AuthIds :
           newRows'[s][a] # <<>> => newSettlement[s][a] = "settled" \/ a \in Refunded(s)
  BY <1>3, <1>5, <1>6 DEF Partial
<1>8. queue[s] \in Seq(AuthIds) /\ queue[s] # <<>> /\ Current(s) = Head(queue[s])
  BY <1>1, HandlerFacts DEF QueueAt, TypeOK, Current
<1>9. \A a \in AuthIds : newAuth'[s][a] # None => newAuth'[s][a].status = StatusWritten(s)'
  BY <1>1, <1>2 DEF DraftAt
<1>10. CASE PostEntry(s) \/ PostLastReversal(s)
  <2>1. /\ UNCHANGED queue
        /\ pc'[s] = "post" \/ (pc'[s] = "markReversed" /\ Kind(s) = "refund")
    BY <1>1, <1>10, Moved DEF PostEntry, PostLastReversal, Kind
  <2>2. Current(s)' = Current(s)
    BY <2>1 DEF Current
  <2>3. Partial(s)'
    BY <1>1, <1>2, <1>3, <1>7, <2>1, <2>2 DEF Partial
  <2> QED
    BY <1>1, <1>2, <1>9, <2>1, <2>3 DEF DraftAt, Fresh, Before, Midway, Finished
<1>11. CASE PostLastOfMany(s)
  <2>1. /\ queue'[s] = Tail(queue[s]) /\ pc'[s] = "readAuth" /\ Len(queue[s]) > 1
    BY <1>11, Moved DEF PostLastOfMany, TypeOK
  <2>2. Kind(s) = "settled"
    <3>1. ASSUME Kind(s) # "settled" PROVE FALSE
      <4>1. PICK x : queue[s] = <<x>>
        BY <1>1, <1>4, <3>1, HandlerFacts DEF QueueAt
      <4> QED
        BY <2>1, <4>1, LengthOne
    <3> QED
      BY <3>1
  <2>3. Range(queue[s]) = {Current(s)} \cup Range(queue'[s])
    BY <1>8, <2>1, RangeFacts
  <2>4. newSettlement[s][Current(s)] = "settled"
    BY <1>1, <1>3, <2>2 DEF Partial
  <2>5. Partial(s)'
    BY <1>1, <1>2, <1>3, <1>7, <2>1, <2>3, <2>4 DEF Partial
  <2>6. Range(queue[s])' \subseteq Batch(s)'
    BY <1>1, <1>2, <2>2, <2>3 DEF DraftAt
  <2> QED
    BY <1>1, <1>2, <1>9, <2>1, <2>5, <2>6 DEF DraftAt, Fresh, Before, Midway, Finished
<1>12. CASE PostLast(s)
  <2>1. /\ UNCHANGED queue /\ pc'[s] = "respond" /\ Len(queue[s]) = 1 /\ Kind(s) # "refund"
    BY <1>12, Moved DEF PostLast, Kind
  <2>2. ~ (Len(queue[s]) > 1)
    BY <2>1
  <2>3. Range(queue[s]) = {Current(s)}
    BY <1>8, <2>2, RangeFacts
  <2>4. newSettlement[s][Current(s)] = "settled"
    BY <1>1, <1>3, <2>1 DEF Partial
  <2>5. Refunded(s) = {} /\ \A a \in AuthIds : a \in Writes(s) <=> Kind(s) \in Buying /\ a = s
    BY <1>4, <2>1 DEF Refunded, Writes, OnRef, Buying
  <2>6. \A a \in AuthIds : newSettlement[s][a] = "settled" <=> a \in Batch(s)
    BY <1>3, <2>3, <2>4 DEF Partial
  <2>7. Complete(s)'
    BY <1>1, <1>2, <1>3, <1>7, <2>5, <2>6 DEF Partial, Complete
  <2> QED
    BY <1>1, <1>2, <1>9, <2>1, <2>7 DEF DraftAt, Fresh, Before, Midway, Finished
<1> QED
  BY <1>10, <1>11, <1>12 DEF Posted

LEMMA RefundDrafts ==
  ASSUME TypeOK, HandlerOK, NEW s \in Sessions, DraftAt(s), ListRows(s) \/ FlagReversed(s)
  PROVE  DraftAt(s)'
<1>1. Kind(s) = "refund" /\ pc[s] # "idle" /\ Current(s) = req[s].auth /\ Current(s) \in AuthIds
  BY HandlerFacts DEF ListRows, FlagReversed, KindAt
<1>2. Batch(s) = {} /\ Refunded(s) = {Current(s)} /\ Writes(s) = {} /\ Claims(s) = None
  BY <1>1 DEF Batch, Refunded, Writes, Claims, Buying, OnRef, FromProcessor
<1>3. CASE ListRows(s)
  <2>1. SameDraft(s) /\ pc[s] = "listRows" /\ pc'[s] \in {"post", "rollback"}
    BY <1>3, Moved DEF ListRows, Require, SameDraft
  <2>2. Nothing(s) /\ Nothing(s)'
    BY <2>1, SameDraftSame DEF DraftAt, Fresh
  <2>3. CASE pc'[s] = "rollback"
    BY <1>1, <2>1, <2>3, SameDraftKeeps
  <2>4. CASE pc'[s] = "post"
    <3>1. \A a \in AuthIds : newAuth'[s][a] = None
      BY <2>2 DEF Nothing, NoWrites
    <3>2. Partial(s)'
      BY <1>1, <1>2, <2>1, <2>2, <2>4, <3>1, SameDraftSame DEF Partial, Nothing, NoSettlements, Buying
    <3> QED
      BY <1>1, <2>1, <2>4, <3>1, <3>2, SameDraftSame DEF DraftAt, Fresh, Before, Midway, Finished
  <2> QED
    BY <2>1, <2>3, <2>4
<1>4. CASE FlagReversed(s)
  <2>1. /\ pc[s] = "markReversed" /\ pc'[s] = "respond"
        /\ newSettlement' = [newSettlement EXCEPT ![s][Current(s)] = "reversed"]
        /\ UNCHANGED <<claim, newAuth, newRows, req, queue>>
    BY <1>4, Moved DEF FlagReversed, WriteSettlement, handler
  <2>2. /\ newSettlement'[s][Current(s)] = "reversed"
        /\ \A a \in AuthIds : a # Current(s) => newSettlement'[s][a] = newSettlement[s][a]
    BY <1>1, <2>1 DEF TypeOK
  <2>3. Partial(s)
    BY <2>1 DEF DraftAt, Midway
  <2>4. /\ Kind(s)' = Kind(s) /\ Claims(s)' = Claims(s) /\ Batch(s)' = Batch(s)
        /\ Refunded(s)' = Refunded(s) /\ Writes(s)' = Writes(s)
        /\ StatusWritten(s)' = StatusWritten(s)
    BY <2>1 DEF Kind, Claims, Batch, Refunded, StatusWritten, Writes
  <2>5. Complete(s)'
    BY <1>1, <1>2, <2>1, <2>2, <2>3, <2>4 DEF Partial, Complete, Buying
  <2> QED
    BY <1>1, <2>1, <2>4, <2>5 DEF DraftAt, Fresh, Before, Midway, Finished
<1> QED
  BY <1>3, <1>4

LEMMA EndDrafts ==
  ASSUME TypeOK, NEW s \in Sessions, DraftAt(s),
         Commit(s) \/ Rollback(s) \/ Aborting(s) \/ Lose(s)
  PROVE  DraftAt(s)'
<1>1. Discard(s) /\ UNCHANGED <<req, queue>> /\ pc'[s] \in {"done", "rollback"}
  BY Moved, AbortingAborts DEF Commit, Rollback, Abort, Lose, handler
<1>2. /\ claim'[s] = None /\ newAuth'[s] = NoWrites
      /\ \A a \in AuthIds : newSettlement'[s][a] = "none" /\ newRows'[s][a] = <<>>
  BY <1>1 DEF Discard, TypeOK
<1>3. \A a \in AuthIds : newAuth'[s][a] = None
  BY <1>2 DEF NoWrites
<1>4. Nothing(s)'
  BY <1>2, <1>3 DEF Nothing, NoSettlements, NoWrites
<1>5. pc[s] # "idle"
  BY DEF Commit, Rollback, Lose, Open, Aborting, CreateDuplicate, SettleDuplicate, PostOverflow,
     DeadlockAbort, BusyTimeout, Blocked, Writing
<1>6. Kind(s)' = Kind(s) /\ Batch(s)' = Batch(s)
  BY <1>1 DEF Kind, Batch
<1> QED
  BY <1>1, <1>3, <1>4, <1>5, <1>6 DEF DraftAt, Fresh, Before, Midway, Finished

LEMMA ArriveDrafts ==
  ASSUME TypeOK, NEW s \in Sessions, DraftAt(s), NEW r \in Requests, Arrive(s, r)
  PROVE  DraftAt(s)'
<1>1. /\ pc[s] = "idle" /\ pc'[s] = FirstStep(r.kind) /\ req'[s] = r
      /\ queue'[s] = Targets(s, r) /\ UNCHANGED <<claim, newAuth, newSettlement, newRows>>
  BY Moved DEF Arrive, TypeOK, draft
<1>2. Nothing(s)
  BY <1>1 DEF DraftAt, Fresh
<1>3. \A a \in AuthIds : newAuth'[s][a] = None
  BY <1>1, <1>2 DEF Nothing, NoWrites
<1>4. Nothing(s)'
  BY <1>1, <1>2 DEF Nothing, NoSettlements, NoWrites
<1>5. Kind(s)' = r.kind /\ r.kind \in Kinds
  BY <1>1, RequestFields DEF Kind
<1>6. r.kind = "settled" => queue'[s] = req'[s].refs /\ Batch(s)' = Range(r.refs)
  BY <1>1, <1>5 DEF Targets, Batch, Buying, OnRef
<1>7. pc'[s] \in Fresh \/ (pc'[s] = "insertAuth" /\ r.kind = "cardauth")
  BY <1>1, <1>5 DEF FirstStep, Kinds, FromProcessor, OnRef, Fresh
<1>8. r.kind = "cardauth" => Claims(s)' = None
  BY <1>1, <1>5 DEF Claims, FromProcessor, OnRef
<1> QED
  BY <1>1, <1>3, <1>4, <1>5, <1>6, <1>7, <1>8
  DEF DraftAt, Fresh, Before, Midway, Finished, Nothing

(* Nor does it change what the others have drafted by their statement.     *)
LEMMA OthersKeepDrafts ==
  ASSUME NEW s, OthersKept(s), OthersDraftKept(s), NEW t \in Sessions, t # s, DraftAt(t)
  PROVE  DraftAt(t)'
<1>1. SameDraft(t) /\ pc'[t] = pc[t]
  BY DEF OthersKept, OthersDraftKept, SameDraft
<1>2. Partial(t)' <=> Partial(t)
  BY <1>1, SameDraftSame DEF Partial, SameDraft
<1> QED
  BY <1>1, <1>2, SameDraftSame DEF DraftAt, SameDraft, NoWrites

LEMMA DraftStep ==
  ASSUME IInv, DraftOK, [Next]_vars
  PROVE  DraftOK'
<1> USE DEF IInv, DraftOK
<1>1. ASSUME NEW s \in Sessions, Step(s) \/ Lose(s) \/ \E r \in Requests : Arrive(s, r)
      PROVE  DraftOK'
  <2>1. OthersKept(s) /\ OthersDraftKept(s)
    BY <1>1, KeepsOthers, KeepsOtherDrafts
  <2>2. DraftAt(s)'
    BY <1>1, StepCases, ReadingDrafts, ClaimDrafts, AuthorizingDrafts, InsertDrafts,
       PostedDrafts, RefundDrafts, EndDrafts, ArriveDrafts
  <2> QED
    BY <2>1, <2>2, OthersKeepDrafts
<1>2. CASE UNCHANGED vars
  <2>1. \A s \in Sessions : SameDraft(s) /\ pc'[s] = pc[s]
    BY <1>2 DEF vars, draft, handler, SameDraft
  <2>2. \A s \in Sessions : Partial(s)' <=> Partial(s)
    BY <2>1, SameDraftSame DEF Partial, SameDraft
  <2> QED
    BY <2>1, <2>2, SameDraftSame DEF DraftAt, SameDraft, NoWrites
<1> QED
  BY <1>1, <1>2 DEF Next, AllServed

LEMMA DraftInit ==
  Init => DraftOK
<1> SUFFICES ASSUME Init, NEW s \in Sessions PROVE DraftAt(s)
  BY DEF DraftOK
<1>1. pc[s] = "idle" /\ newAuth[s] = NoWrites /\ Nothing(s)
  BY DEF Init, Nothing, NoSettlements
<1> QED
  BY <1>1 DEF DraftAt, Before, Midway, Finished, NoWrites

(* At each statement a session has drafted what its handler says it has.   *)
THEOREM Drafts == Spec => []DraftOK
<1>1. Init => DraftOK
  BY DraftInit
<1>2. IInv /\ DraftOK /\ [Next]_vars => DraftOK'
  BY DraftStep
<1> QED
  BY <1>1, <1>2, Invariant, PTL DEF Spec

-----------------------------------------------------------------------------
(* Purchases, settlements and batches are whole.                           *)

LEMMA EntriesOfSameTerms ==
  ASSUME NEW h, NEW k, SameTerms(h, k)
  PROVE  SettlementEntries(h) = SettlementEntries(k)
  BY DEF SameTerms, SettlementEntries

LEMMA CreditIsList ==
  ASSUME NEW account, NEW cents
  PROVE  CreditIfAny(account, cents) \in Seq({Entry(account, "credit", cents)})
<1>1. CASE cents = 0
  BY <1>1 DEF CreditIfAny
<1>2. CASE cents # 0
  BY <1>2 DEF CreditIfAny
<1> QED
  BY <1>1, <1>2

LEMMA ListsJoin ==
  ASSUME NEW R, NEW S, NEW q \in Seq(R), NEW r \in Seq(S)
  PROVE  q \o r \in Seq(R \cup S) /\ (q # <<>> => q \o r # <<>>)
<1>1. q \in Seq(R \cup S) /\ r \in Seq(R \cup S)
  OBVIOUS
<1>2. q \o r \in Seq(R \cup S) /\ Len(q \o r) = Len(q) + Len(r)
        /\ Len(q) \in Nat /\ Len(r) \in Nat
  BY <1>1
<1>3. ASSUME q # <<>>, q \o r = <<>> PROVE FALSE
  <2>1. Len(q) # 0 /\ Len(q \o r) = 0
    BY <1>3
  <2> QED
    BY <1>2, <2>1
<1> QED
  BY <1>2, <1>3

(* Every settlement posts at least the debit. *)
LEMMA SomeEntries ==
  ASSUME NEW h
  PROVE  SettlementEntries(h) # <<>>
<1> DEFINE share == Split(h.amount, Bps)
           scribe == ScribeAccount[h.record]
           toScribe == IF scribe = None THEN 0 ELSE share["transcriptionist"]
           toPlatform == share["platform"] + (share["transcriptionist"] - toScribe)
           e == Entry(UserAccount[h.user], "debit", h.amount)
           d == <<e>>
           q == CreditIfAny(ArchiveAccount[h.record], share["archive"])
           r == CreditIfAny(scribe, toScribe)
           p == CreditIfAny(PlatformAccount, toPlatform)
           Q == {Entry(ArchiveAccount[h.record], "credit", share["archive"])}
           R == {Entry(scribe, "credit", toScribe)}
           P == {Entry(PlatformAccount, "credit", toPlatform)}
<1>1. SettlementEntries(h) = ((d \o q) \o r) \o p
  BY DEF SettlementEntries
<1>2. q \in Seq(Q) /\ r \in Seq(R) /\ p \in Seq(P)
  BY CreditIsList
<1> HIDE DEF share, scribe, toScribe, toPlatform, e, q, r, p, Q, R, P
<1>3. d \in Seq({e}) /\ d # <<>>
  OBVIOUS
<1> HIDE DEF d
<1>4. d \o q \in Seq({e} \cup Q) /\ d \o q # <<>>
  BY <1>2, <1>3, ListsJoin
<1>5. (d \o q) \o r \in Seq(({e} \cup Q) \cup R) /\ (d \o q) \o r # <<>>
  BY <1>2, <1>4, ListsJoin
<1>6. ((d \o q) \o r) \o p # <<>>
  BY <1>2, <1>5, ListsJoin
<1> QED
  BY <1>1, <1>6

(* A settlement changes only by a commit, to what the session has written. *)
LEMMA SettlementAfter ==
  ASSUME NEW s \in Sessions, UNCHANGED tables \/ Commit(s), NEW a \in AuthIds
  PROVE  \/ settlement'[a] = settlement[a]
         \/ /\ Commit(s) /\ newSettlement[s][a] # "none"
            /\ settlement'[a] = newSettlement[s][a]
  BY DEF tables, Commit, Overlay

(* Two sessions never have a settlement of one authorization written: its  *)
(* lock.                                                                   *)
LEMMA OneSettler ==
  ASSUME WritesAreLocked, NEW s \in Sessions, NEW t \in Sessions, NEW a \in AuthIds,
         newSettlement[s][a] # "none", newSettlement[t][a] # "none"
  PROVE  s = t
  BY DEF WritesAreLocked

(* What a session is posting or reversing is unaffected by the commits of  *)
(* others.                                                                 *)
LEMMA OthersKeepSettling ==
  ASSUME IInv, WholeOK, NEW s \in Sessions, OthersKept(s), OthersDraftKept(s),
         UNCHANGED tables \/ Commit(s), NEW t \in Sessions, t # s
  PROVE  SettlingAt(t)' /\ RefundingAt(t)'
<1> USE DEF IInv
<1>1. /\ pc'[t] = pc[t] /\ req'[t] = req[t] /\ newAuth'[t] = newAuth[t]
      /\ newSettlement'[t] = newSettlement[t] /\ newRows'[t] = newRows[t]
      /\ entries'[t] = entries[t] /\ Current(t)' = Current(t) /\ Live(t)' = Live(t)
      /\ Kind(t)' = Kind(t)
  BY DEF OthersKept, OthersDraftKept, Current, Live, Kind
<1>2. SettlingAt(t) /\ RefundingAt(t)
  BY DEF WholeOK
<1>3. ASSUME NEW a \in AuthIds, Live(t), newSettlement[t][a] = "settled"
      PROVE  /\ settlement'[a] = "none" /\ SeenAuth(t, a)' # None
             /\ SettlementEntries(SeenAuth(t, a)') = SettlementEntries(SeenAuth(t, a))
  <2>1. settlement[a] = "none" /\ SeenAuth(t, a) # None
    BY <1>2, <1>3 DEF SettlingAt
  <2>2. settlement'[a] = "none"
    BY <1>3, <2>1, SettlementAfter, OneSettler
  <2>3. SeenAuth(t, a)' # None /\ SameTerms(SeenAuth(t, a)', SeenAuth(t, a))
    BY <1>1, <2>1, SeenStays
  <2> QED
    BY <2>2, <2>3, EntriesOfSameTerms
<1>4. SettlingAt(t)'
  BY <1>1, <1>2, <1>3 DEF SettlingAt
<1>5. RefundingAt(t)'
  <2>1. ASSUME Live(t), Kind(t) = "refund", pc[t] # "readRefund"
        PROVE  settlement'[req[t].auth] # "none"
    <3>1. settlement[req[t].auth] # "none" /\ req[t].auth \in AuthIds
      BY <1>2, <2>1, HandlerFacts, RequestFields DEF RefundingAt, Live, Kind
    <3> QED
      BY <3>1, SettlementAfter
  <2> QED
    BY <1>1, <2>1 DEF RefundingAt
<1> QED
  BY <1>4, <1>5

(* A session whose draft stays the same.                                   *)
LEMMA SameDraftSettles ==
  ASSUME NEW s, SettlingAt(s), SameDraft(s), UNCHANGED tables,
         pc[s] # "post", pc'[s] # "post", Live(s)
  PROVE  SettlingAt(s)'
<1>1. \A a : SeenAuth(s, a)' = SeenAuth(s, a)
  BY DEF SameDraft, SeenAuth, tables
<1> QED
  BY <1>1 DEF SettlingAt, SameDraft, tables

LEMMA NoneSettles ==
  ASSUME NEW s, \A a \in AuthIds : newSettlement'[s][a] # "settled"
  PROVE  SettlingAt(s)'
  BY DEF SettlingAt

(* The entries still to be posted begin as all of the settlement's.        *)
LEMMA InsertSettles ==
  ASSUME IInv, NEW s \in Sessions, DraftAt(s), SettlingAt(s), InsertSettlement(s)
  PROVE  SettlingAt(s)'
<1> USE DEF IInv
<1> DEFINE c == Current(s)
<1>1. /\ pc[s] = "insertSettlement" /\ pc'[s] = "post" /\ settlement[c] = "none"
      /\ newSettlement' = [newSettlement EXCEPT ![s][c] = "settled"]
      /\ entries' = [entries EXCEPT ![s] = SettlementEntries(SeenAuth(s, c))]
      /\ UNCHANGED <<tables, newAuth, newRows, queue>>
  BY Moved DEF InsertSettlement, WriteSettlement, Unsettled
<1>2. c \in AuthIds /\ Kind(s) # "refund" /\ SeenAuth(s, c) # None /\ Settleable(SeenAuth(s, c))
  BY <1>1, HandlerFacts DEF KindAt, CheckedOK, CheckedAt
<1>3. newRows[s][c] = <<>>
  <2>1. Partial(s)
    BY <1>1 DEF DraftAt, Midway
  <2> QED
    BY <1>1, <1>2, <2>1 DEF Partial, Refunded
<1>4. /\ \A a : SeenAuth(s, a)' = SeenAuth(s, a)
      /\ Current(s)' = c /\ settlement' = settlement /\ newRows'[s] = newRows[s]
  BY <1>1 DEF SeenAuth, Current, tables
<1>5. \A a \in AuthIds : a # c => newSettlement'[s][a] = newSettlement[s][a]
  BY <1>1, <1>2 DEF TypeOK
<1>6. SettlementEntries(SeenAuth(s, c)) \in Seq(Row)
  <2>1. SeenAuth(s, c) \in Authorization
    BY <1>2 DEF SeenAuth, TypeOK
  <2> QED
    BY <1>2, <2>1, EntriesTyped
<1>7. entries'[s] = SettlementEntries(SeenAuth(s, c))
  BY <1>1 DEF TypeOK
<1>8. <<>> \o entries'[s] = entries'[s]
  BY <1>6, <1>7
<1>9. Live(s)
  BY <1>1 DEF Live
<1> HIDE DEF c
<1>10. ASSUME NEW a \in AuthIds, newSettlement'[s][a] = "settled"
       PROVE  /\ settlement'[a] = "none" /\ SeenAuth(s, a)' # None
              /\ (IF pc'[s] = "post" /\ a = Current(s)' THEN newRows'[s][a] \o entries'[s]
                                                        ELSE newRows'[s][a])
                   = SettlementEntries(SeenAuth(s, a)')
  <2>1. CASE a = c
    BY <1>1, <1>2, <1>3, <1>4, <1>7, <1>8, <2>1
  <2>2. CASE a # c
    BY <1>1, <1>4, <1>5, <1>9, <1>10, <2>2 DEF SettlingAt
  <2> QED
    BY <2>1, <2>2
<1> QED
  BY <1>10 DEF SettlingAt

LEMMA SequencesAreEqual ==
  ASSUME NEW S, NEW q \in Seq(S), NEW r \in Seq(S), Len(q) = Len(r),
         \A i \in 1 .. Len(r) : q[i] = r[i]
  PROVE  q = r
  OBVIOUS

(* Sequences: joining them, and moving a head across.                      *)
LEMMA JoinedLists ==
  ASSUME NEW S, NEW q \in Seq(S), NEW r \in Seq(S)
  PROVE  /\ q \o r \in Seq(S) /\ Len(q \o r) = Len(q) + Len(r)
         /\ \A i \in 1 .. Len(q) : (q \o r)[i] = q[i]
         /\ \A i \in 1 .. Len(r) : (q \o r)[Len(q) + i] = r[i]
  OBVIOUS

LEMMA AppendTail ==
  ASSUME NEW S, NEW q \in Seq(S), NEW r \in Seq(S), r # <<>>
  PROVE  /\ Append(q, Head(r)) \o Tail(r) = q \o r
         /\ Len(r) = 1 => Append(q, Head(r)) = q \o r
<1>1. Len(r) \in Nat /\ Len(r) # 0 /\ r \in [1 .. Len(r) -> S] /\ Len(q) \in Nat
        /\ Head(r) = r[1] /\ Head(r) \in S /\ Tail(r) \in Seq(S) /\ Len(Tail(r)) = Len(r) - 1
        /\ \A i \in 1 .. Len(r) - 1 : Tail(r)[i] = r[i + 1]
  OBVIOUS
<1> DEFINE h == Head(r)
           t == Tail(r)
           a == Append(q, h)
<1>2. a \in Seq(S) /\ Len(a) = Len(q) + 1 /\ a[Len(q) + 1] = h
        /\ \A i \in 1 .. Len(q) : a[i] = q[i]
  BY <1>1
<1>3. t \in Seq(S) /\ Len(t) = Len(r) - 1
  BY <1>1
<1> HIDE DEF h, t, a
<1>4. /\ a \o t \in Seq(S) /\ Len(a \o t) = Len(a) + Len(t)
      /\ \A i \in 1 .. Len(a) : (a \o t)[i] = a[i]
      /\ \A i \in 1 .. Len(t) : (a \o t)[Len(a) + i] = t[i]
  <2>1. \A x, y \in Seq(S) :
          /\ x \o y \in Seq(S) /\ Len(x \o y) = Len(x) + Len(y)
          /\ \A i \in 1 .. Len(x) : (x \o y)[i] = x[i]
          /\ \A i \in 1 .. Len(y) : (x \o y)[Len(x) + i] = y[i]
    BY JoinedLists
  <2> QED
    BY <1>2, <1>3, <2>1
<1>5. /\ q \o r \in Seq(S) /\ Len(q \o r) = Len(q) + Len(r)
      /\ \A i \in 1 .. Len(q) : (q \o r)[i] = q[i]
      /\ \A i \in 1 .. Len(r) : (q \o r)[Len(q) + i] = r[i]
  OBVIOUS
<1>6. Len(a \o t) = Len(q \o r)
  BY <1>1, <1>2, <1>3, <1>4, <1>5
<1>7. ASSUME NEW i \in 1 .. Len(q \o r) PROVE (a \o t)[i] = (q \o r)[i]
  <2>1. CASE i \in 1 .. Len(q)
    <3>1. i \in 1 .. Len(a)
      BY <1>1, <1>2, <2>1
    <3> QED
      BY <1>2, <1>4, <1>5, <2>1, <3>1
  <2>2. CASE i = Len(q) + 1
    <3>1. i \in 1 .. Len(a) /\ 1 \in 1 .. Len(r)
      BY <1>1, <1>2, <2>2
    <3> QED
      BY <1>1, <1>2, <1>4, <1>5, <2>2, <3>1 DEF h
  <2>3. CASE i > Len(q) + 1
    <3> DEFINE j == i - Len(a)
    <3>1. j \in 1 .. Len(t) /\ j + 1 \in 1 .. Len(r) /\ Len(a) + j = i /\ Len(q) + (j + 1) = i
      BY <1>1, <1>2, <1>3, <1>5, <2>3
    <3> HIDE DEF j
    <3>2. (a \o t)[i] = t[j] /\ (q \o r)[i] = r[j + 1]
      BY <1>4, <1>5, <3>1
    <3>3. t[j] = r[j + 1]
      BY <1>1, <1>3, <3>1 DEF t
    <3> QED
      BY <3>2, <3>3
  <2>4. Len(q) \in Nat /\ i \in Nat /\ i >= 1
    BY <1>1, <1>5
  <2>5. i \in 1 .. Len(q) \/ i = Len(q) + 1 \/ i > Len(q) + 1
    BY <2>4
  <2> QED
    BY <2>1, <2>2, <2>3, <2>5
<1>8. a \o t = q \o r
  BY <1>4, <1>5, <1>6, <1>7, SequencesAreEqual
<1>9. ASSUME Len(r) = 1 PROVE a = q \o r
  <2>1. Len(t) = 0
    BY <1>3, <1>9
  <2>2. t = <<>>
    BY <1>3, <2>1
  <2> QED
    BY <1>2, <1>8, <2>2
<1> QED
  BY <1>8, <1>9 DEF a, h, t

(* Posting an entry moves it from those to be posted to those posted.      *)
LEMMA PostedSettles ==
  ASSUME IInv, NEW s \in Sessions, SettlingAt(s), Posted(s)
  PROVE  SettlingAt(s)'
<1> USE DEF IInv
<1> DEFINE c == Current(s)
           e == entries[s]
<1>1. /\ pc[s] = "post" /\ e # <<>> /\ e \in Seq(Row) /\ c \in AuthIds
      /\ newRows' = [newRows EXCEPT ![s][c] = Append(@, Head(e))]
      /\ entries' = [entries EXCEPT ![s] = Tail(@)]
      /\ UNCHANGED <<tables, newAuth, newSettlement>>
  <2>1. PostHead(s) /\ e # <<>>
    BY PostedFacts
  <2> QED
    BY <2>1, HandlerFacts DEF PostHead, TypeOK
<1>2. /\ newRows[s][c] \in Seq(Row) /\ entries'[s] = Tail(e)
      /\ newRows'[s][c] = Append(newRows[s][c], Head(e))
      /\ \A a \in AuthIds : a # c => newRows'[s][a] = newRows[s][a]
  BY <1>1 DEF TypeOK
<1>3. \/ pc'[s] = "post" /\ Current(s)' = c
      \/ pc'[s] # "post" /\ Len(e) = 1
  <2>1. CASE PostEntry(s)
    BY <1>1, <2>1 DEF PostEntry, Current
  <2>2. CASE PostLastOfMany(s) \/ PostLast(s) \/ PostLastReversal(s)
    BY <2>2, Moved DEF PostLastOfMany, PostLast, PostLastReversal
  <2> QED
    BY <2>1, <2>2 DEF Posted
<1>4. /\ \A a : SeenAuth(s, a)' = SeenAuth(s, a)
      /\ settlement' = settlement /\ newSettlement' = newSettlement /\ Live(s)
  BY <1>1 DEF SeenAuth, tables, Live
<1>5. /\ newRows'[s][c] \o entries'[s] = newRows[s][c] \o e
      /\ Len(e) = 1 => newRows'[s][c] = newRows[s][c] \o e
  BY <1>1, <1>2, AppendTail
<1>6. ASSUME NEW a \in AuthIds, newSettlement[s][a] = "settled"
      PROVE  (IF pc'[s] = "post" /\ a = Current(s)' THEN newRows'[s][a] \o entries'[s]
                                                    ELSE newRows'[s][a])
               = IF pc[s] = "post" /\ a = c THEN newRows[s][a] \o e ELSE newRows[s][a]
  <2> HIDE DEF c, e
  <2> QED
    BY <1>1, <1>2, <1>3, <1>5
<1> HIDE DEF c, e
<1>7. SettlingAt(s)'
  BY <1>4, <1>6 DEF SettlingAt, c, e
<1> QED
  BY <1>7

(* The acting session itself. *)
LEMMA OwnSettling ==
  ASSUME IInv, NEW s \in Sessions, DraftAt(s), SettlingAt(s),
         Step(s) \/ Lose(s) \/ \E r \in Requests : Arrive(s, r)
  PROVE  SettlingAt(s)'
<1> USE DEF IInv
<1>1. CASE Reading(s)
  <2>1. SameDraft(s) /\ UNCHANGED tables /\ Live(s) /\ pc[s] # "post"
    BY <1>1
    DEF Reading, LookUpKey, ClaimTaken, RejectPurchase, ReadNew, ReadStatus, ReadAuth,
        ReadSettlement, ReadForRefund, Respond, draft, handler, SameDraft, Live
  <2>2. pc'[s] # "post"
    BY <1>1, Moved
    DEF Reading, LookUpKey, ClaimTaken, RejectPurchase, ReadNew, ReadStatus, ReadAuth,
        ReadSettlement, ReadForRefund, Respond, Require
  <2> QED
    BY <2>1, <2>2, SameDraftSettles
<1>2. CASE Claim(s) \/ Purchase(s) \/ CreatePending(s) \/ WriteStatus(s)
  <2>1. /\ pc[s] \in {"claim", "insertAuth", "writeStatus"}
        /\ newSettlement' = newSettlement
    BY <1>2 DEF Claim, Purchase, CreatePending, WriteStatus
  <2>2. NoSettlements(s)
    BY <2>1 DEF DraftAt, Fresh, Before, Nothing
  <2> QED
    BY <2>1, <2>2, NoneSettles DEF NoSettlements
<1>3. CASE ListRows(s)
  <2>1. pc[s] = "listRows" /\ newSettlement' = newSettlement
    BY <1>3 DEF ListRows
  <2>2. NoSettlements(s)
    BY <2>1 DEF DraftAt, Fresh, Nothing
  <2> QED
    BY <2>1, <2>2, NoneSettles DEF NoSettlements
<1>4. CASE FlagReversed(s)
  <2>1. /\ pc[s] = "markReversed"
        /\ newSettlement' = [newSettlement EXCEPT ![s][Current(s)] = "reversed"]
    BY <1>4 DEF FlagReversed, WriteSettlement
  <2>2. Kind(s) = "refund" /\ Current(s) \in AuthIds
    BY <2>1, HandlerFacts DEF KindAt
  <2>3. Batch(s) = {} /\ Partial(s)
    BY <2>1, <2>2 DEF DraftAt, Midway, Batch, Buying
  <2>4. \A a \in AuthIds : newSettlement'[s][a] \in {newSettlement[s][a], "reversed"}
    BY <2>1, <2>2 DEF TypeOK
  <2>5. \A a \in AuthIds : newSettlement'[s][a] # "settled"
    BY <2>3, <2>4 DEF Partial
  <2> QED
    BY <2>5, NoneSettles
<1>5. CASE Commit(s) \/ Rollback(s) \/ Aborting(s) \/ Lose(s)
  <2>1. Discard(s)
    BY <1>5, AbortingAborts DEF Commit, Rollback, Abort, Lose
  <2>2. \A a \in AuthIds : newSettlement'[s][a] = "none"
    BY <2>1 DEF Discard, TypeOK
  <2> QED
    BY <2>2, NoneSettles
<1>6. CASE \E r \in Requests : Arrive(s, r)
  <2>1. pc[s] = "idle" /\ newSettlement' = newSettlement
    BY <1>6 DEF Arrive, draft
  <2>2. NoSettlements(s)
    BY <2>1 DEF DraftAt, Fresh, Nothing
  <2> QED
    BY <2>1, <2>2, NoneSettles DEF NoSettlements
<1> QED
  BY <1>1, <1>2, <1>3, <1>4, <1>5, <1>6, StepCases, InsertSettles, PostedSettles

(* Which actions are there at which statement. *)
LEMMA StepAt ==
  ASSUME NEW s, Step(s), ~ Aborting(s)
  PROVE  /\ pc[s] = "lookup" => LookUpKey(s)
         /\ pc[s] = "claim" => Claim(s) \/ ClaimTaken(s)
         /\ pc[s] = "insertAuth" => RejectPurchase(s) \/ Purchase(s) \/ CreatePending(s)
         /\ pc[s] = "readNew" => ReadNew(s)
         /\ pc[s] = "readStatus" => ReadStatus(s)
         /\ pc[s] = "writeStatus" => WriteStatus(s)
         /\ pc[s] = "readAuth" => ReadAuth(s)
         /\ pc[s] = "readSettlement" => ReadSettlement(s)
         /\ pc[s] = "insertSettlement" => InsertSettlement(s)
         /\ pc[s] = "post" => Posted(s)
         /\ pc[s] = "readRefund" => ReadForRefund(s)
         /\ pc[s] = "listRows" => ListRows(s)
         /\ pc[s] = "markReversed" => FlagReversed(s)
         /\ pc[s] = "respond" => Respond(s)
         /\ pc[s] = "commit" => Commit(s)
         /\ pc[s] = "rollback" => Rollback(s)
<1>1. /\ LookUpKey(s) => pc[s] = "lookup"
      /\ Claim(s) \/ ClaimTaken(s) => pc[s] = "claim"
  BY DEF LookUpKey, Claim, ClaimTaken
<1>2. /\ RejectPurchase(s) \/ Purchase(s) \/ CreatePending(s) => pc[s] = "insertAuth"
      /\ ReadNew(s) => pc[s] = "readNew"
      /\ ReadStatus(s) => pc[s] = "readStatus"
      /\ WriteStatus(s) => pc[s] = "writeStatus"
  BY DEF RejectPurchase, Purchase, CreatePending, ReadNew, ReadStatus, WriteStatus
<1>3. /\ ReadAuth(s) => pc[s] = "readAuth"
      /\ ReadSettlement(s) => pc[s] = "readSettlement"
      /\ InsertSettlement(s) => pc[s] = "insertSettlement"
      /\ Posted(s) => pc[s] = "post"
  BY DEF ReadAuth, ReadSettlement, InsertSettlement, Posted, PostEntry, PostLastOfMany,
         PostLast, PostLastReversal, PostHead
<1>4. /\ ReadForRefund(s) => pc[s] = "readRefund"
      /\ ListRows(s) => pc[s] = "listRows"
      /\ FlagReversed(s) => pc[s] = "markReversed"
  BY DEF ReadForRefund, ListRows, FlagReversed
<1>5. /\ Respond(s) => pc[s] = "respond"
      /\ Commit(s) => pc[s] = "commit"
      /\ Rollback(s) => pc[s] = "rollback"
  BY DEF Respond, Commit, Rollback
<1> QED
  BY <1>1, <1>2, <1>3, <1>4, <1>5, StepCases DEF Reading

(* A refund posts against rows that stay those it listed.                  *)
LEMMA OwnRefunding ==
  ASSUME IInv, NEW s \in Sessions, DraftAt(s), RefundingAt(s),
         Step(s) \/ Lose(s) \/ \E r \in Requests : Arrive(s, r)
  PROVE  RefundingAt(s)'
<1> USE DEF IInv
<1>1. CASE ReadForRefund(s)
  <2>1. /\ pc[s] = "readRefund" /\ UNCHANGED <<tables, req>>
        /\ pc'[s] = "rollback" \/ SeenSettlement(s, Current(s)) = "settled"
    BY <1>1, Moved DEF ReadForRefund, Require, Refundable, handler
  <2>2. Current(s) = req[s].auth /\ Current(s) \in AuthIds
    BY <2>1, HandlerFacts DEF KindAt
  <2>3. newSettlement[s][Current(s)] = "none"
    BY <2>1, <2>2 DEF DraftAt, Fresh, Nothing, NoSettlements
  <2> QED
    BY <2>1, <2>2, <2>3 DEF SeenSettlement, RefundingAt, Live, tables
<1>2. CASE \E r \in Requests : Arrive(s, r)
  <2>1. PICK r \in Requests : Arrive(s, r)
    BY <1>2
  <2>2. pc'[s] = FirstStep(r.kind) /\ req'[s] = r
    BY <2>1, Moved DEF Arrive, TypeOK
  <2>3. Kind(s)' = "refund" => pc'[s] = "readRefund"
    BY <2>2 DEF Kind, FirstStep, FromProcessor, OnRef
  <2> QED
    BY <2>3 DEF RefundingAt
<1>3. CASE (Step(s) /\ ~ ReadForRefund(s)) \/ Lose(s)
  <2>1. CASE ~ Live(s)'
    BY <2>1 DEF RefundingAt
  <2>2. CASE Live(s)' /\ Kind(s) = "refund"
    <3>1. /\ Step(s) /\ ~ ReadForRefund(s)
          /\ req'[s] = req[s] /\ pc[s] \notin {"idle", "done"}
      BY <1>3, <2>2, Moved, StepFollows DEF Lose, Live
    <3>2. ~ Aborting(s) /\ ~ Rollback(s)
      BY <2>2, AbortingAborts, Moved DEF Abort, Rollback, Live
    <3>3. pc[s] # "readRefund" /\ pc[s] # "rollback"
      BY <1>3, <3>1, <3>2, StepAt
    <3>4. settlement[req[s].auth] # "none" /\ req[s].auth \in AuthIds
      BY <2>2, <3>1, <3>3, HandlerFacts, RequestFields DEF RefundingAt, Live, Kind
    <3>5. settlement'[req[s].auth] # "none"
      BY <1>3, <3>4, TablesKept, SettlementAfter
    <3> QED
      BY <3>1, <3>5 DEF RefundingAt
  <2>3. CASE Kind(s) # "refund"
    <3>1. req'[s] = req[s]
      BY <1>3, StepFollows DEF Lose, handler
    <3> QED
      BY <2>3, <3>1 DEF RefundingAt, Kind
  <2> QED
    BY <2>1, <2>2, <2>3
<1> QED
  BY <1>1, <1>2, <1>3

(* What Commit leaves of one authorization. *)
LEMMA CommittedWhole ==
  ASSUME IInv, DraftOK, WholeOK, NEW s \in Sessions, Commit(s), NEW a \in AuthIds
  PROVE  WholeAt(a)'
<1> USE DEF IInv
<1>1. /\ pc[s] = "commit" /\ Live(s)
      /\ auth'[a] = SeenAuth(s, a)
      /\ settlement'[a] = IF newSettlement[s][a] = "none" THEN settlement[a]
                                                          ELSE newSettlement[s][a]
      /\ rows'[a] = CommittedRows(s, a)
  BY DEF Commit, Overlay, SeenAuth, Live
<1>2. Nothing(s) \/ Complete(s)
  BY <1>1 DEF DraftOK, DraftAt, Finished
<1>3. WholeAt(a) /\ SettlingAt(s) /\ RefundingAt(s)
  BY DEF WholeOK
<1>4. /\ rows[a] \in Seq(Row) /\ newRows[s][a] \in Seq(Row)
      /\ newSettlement[s][a] \in {"none", "settled", "reversed"}
  BY DEF TypeOK
<1>5. /\ auth[a] # None => auth'[a] # None
      /\ (auth[a] # None /\ auth'[a] # None) =>
           SettlementEntries(auth'[a]) = SettlementEntries(auth[a])
  <2>1. (newAuth[s][a] # None /\ auth[a] # None) => SameTerms(newAuth[s][a], auth[a])
    BY DEF TermsOK
  <2> QED
    BY <1>1, <2>1, EntriesOfSameTerms DEF SeenAuth
<1>6. CASE newSettlement[s][a] = "none"
  <2>1. newRows[s][a] = <<>>
    BY <1>2, <1>6 DEF Nothing, NoSettlements, Complete
  <2>2. rows'[a] = rows[a] /\ settlement'[a] = settlement[a]
    BY <1>1, <1>4, <1>6, <2>1 DEF CommittedRows
  <2>3. (a \in Sessions /\ newAuth[s][a] # None) => FALSE
    <3>1. ASSUME a \in Sessions, newAuth[s][a] # None PROVE FALSE
      <4>1. Complete(s) /\ a \in Writes(s) /\ a \notin Batch(s)
        BY <1>2, <1>6, <3>1 DEF Nothing, NoWrites, Complete
      <4>2. Kind(s) \in OnRef /\ a = req[s].ref
        BY <4>1 DEF Writes, Batch
      <4> QED
        BY <1>1, <3>1, <4>2, HandlerFacts, RequestFields, SessionsAreAuthIds DEF Kind
    <3> QED
      BY <3>1
  <2> QED
    BY <1>1, <1>3, <1>5, <2>2, <2>3 DEF WholeAt, SeenAuth
<1>7. CASE newSettlement[s][a] = "settled"
  <2>1. /\ settlement[a] = "none" /\ SeenAuth(s, a) # None
        /\ newRows[s][a] = SettlementEntries(SeenAuth(s, a))
    BY <1>1, <1>3, <1>7 DEF SettlingAt
  <2>2. rows[a] = <<>>
    BY <1>3, <2>1 DEF WholeAt
  <2>3. rows'[a] = SettlementEntries(auth'[a]) /\ settlement'[a] = "settled" /\ auth'[a] # None
    BY <1>1, <1>4, <1>7, <2>1, <2>2 DEF CommittedRows
  <2> QED
    BY <2>3, SomeEntries DEF WholeAt
<1>8. CASE newSettlement[s][a] = "reversed"
  <2>1. a \in Refunded(s)
    BY <1>2, <1>8 DEF Nothing, NoSettlements, Complete
  <2>2. settlement[a] # "none"
    BY <1>1, <1>3, <2>1 DEF Refunded, RefundingAt
  <2>3. auth[a] # None /\ rows[a] # <<>>
    BY <1>3, <2>2 DEF WholeAt
  <2>4. rows'[a] # <<>>
    <3>1. Len(rows[a]) \in Nat /\ Len(rows[a]) # 0 /\ Len(rows[a]) <= Len(rows'[a])
      BY <1>1, <1>4, <2>3, CommittedRowsKept
    <3>2. rows'[a] = <<>> => Len(rows'[a]) = 0
      OBVIOUS
    <3> QED
      BY <3>1, <3>2
  <2>5. settlement'[a] = "reversed" /\ auth'[a] # None
    BY <1>1, <1>5, <1>8, <2>3
  <2> QED
    BY <2>4, <2>5 DEF WholeAt
<1> QED
  BY <1>4, <1>6, <1>7, <1>8

(* A stored answer names an authorization that is committed with it.       *)
LEMMA AnswersAfter ==
  ASSUME IInv, DraftOK, WholeOK, NEW s \in Sessions, UNCHANGED tables \/ Commit(s),
         NEW k \in Keys, answer'[k] # None
  PROVE  auth'[answer'[k]] # None
<1> USE DEF IInv
<1>1. CASE answer'[k] = answer[k]
  <2>1. auth[answer[k]] # None /\ answer[k] \in AuthIds
    BY <1>1 DEF WholeOK, TypeOK
  <2> QED
    BY <1>1, <2>1, AuthAfter
<1>2. CASE Commit(s) /\ k = claim[s] /\ answer'[k] = s
  <2>1. pc[s] = "commit" /\ claim[s] # None
    BY <1>2, NoneIsNothing DEF Commit
  <2>2. Complete(s)
    BY <2>1 DEF DraftOK, DraftAt, Finished, Nothing
  <2>3. Claims(s) \in Keys /\ req[s] \in Requests
    BY <1>2, <2>1, <2>2, HandlerFacts DEF Complete
  <2>4. Kind(s) = "purchase"
    <3>1. ASSUME Kind(s) # "purchase" PROVE FALSE
      <4>1. Kind(s) \in FromProcessor /\ req[s].event \in Keys
        BY <2>3, <3>1, NoneIsNothing DEF Claims
      <4>2. req[s].event \in Events
        BY <2>3, <4>1, RequestFields DEF Kind, FromProcessor
      <4> QED
        BY <4>1, <4>2, PaymentsAssumption DEF PaymentsAssumption
    <3> QED
      BY <3>1
  <2>5. newAuth[s][s] # None /\ s \in AuthIds
    BY <2>2, <2>4, SessionsAreAuthIds DEF Complete, Writes, Buying
  <2> QED
    BY <1>2, <2>5 DEF Commit, Overlay
<1> QED
  BY <1>1, <1>2, AnswerAfter

(* A commit writes settlement, rows and answer together, so the tables     *)
(* stay whole.                                                             *)
LEMMA WholeStep ==
  ASSUME IInv, DraftOK, WholeOK, [Next]_vars
  PROVE  WholeOK'
<1> USE DEF IInv
<1>1. ASSUME NEW s \in Sessions, Step(s) \/ Lose(s) \/ \E r \in Requests : Arrive(s, r)
      PROVE  WholeOK'
  <2>1. OthersKept(s) /\ OthersDraftKept(s) /\ (UNCHANGED tables \/ Commit(s))
    BY <1>1, KeepsOthers, KeepsOtherDrafts, TablesKept
  <2>2. \A t \in Sessions : SettlingAt(t)' /\ RefundingAt(t)'
    <3>1. SettlingAt(s)' /\ RefundingAt(s)'
      BY <1>1, OwnSettling, OwnRefunding DEF DraftOK, WholeOK
    <3> QED
      BY <2>1, <3>1, OthersKeepSettling
  <2>3. \A a \in AuthIds : WholeAt(a)'
    <3>1. UNCHANGED tables => \A a \in AuthIds : WholeAt(a)'
      BY DEF WholeOK, WholeAt, tables
    <3> QED
      BY <2>1, <3>1, CommittedWhole
  <2>4. \A k \in Keys : answer'[k] # None => auth'[answer'[k]] # None
    BY <2>1, AnswersAfter
  <2> QED
    BY <2>2, <2>3, <2>4 DEF WholeOK
<1>2. CASE UNCHANGED vars
  BY <1>2 DEF vars, tables, draft, handler, WholeOK, SettlingAt, RefundingAt, WholeAt, Live,
              Kind, Current, SeenAuth
<1> QED
  BY <1>1, <1>2 DEF Next, AllServed

LEMMA PastTyped ==
  ASSUME NEW a \in Refs, Past[a] # "absent"
  PROVE  PastAuth(a) \in Authorization /\ PastAuth(a) # None
<1>1. /\ Terms[a].record \in Records /\ Terms[a].user \in Users /\ Terms[a].amount \in Int
  BY PastAssumption, PaymentsAssumption DEF PastAssumption, PaymentsAssumption, Known
<1>2. PastAuth(a) \in Authorization
  BY <1>1 DEF PastAuth, Authorization, AuthorizationStatus
<1> QED
  BY <1>2, RowsAssumption DEF RowsAssumption

LEMMA WholeInit ==
  Init => WholeOK
<1> SUFFICES ASSUME Init PROVE WholeOK
  OBVIOUS
<1>1. \A s \in Sessions : SettlingAt(s) /\ RefundingAt(s)
  BY DEF Init, SettlingAt, RefundingAt, Live
<1>2. ASSUME NEW a \in AuthIds PROVE WholeAt(a)
  <2>1. /\ auth[a] = PastAuth(a) /\ rows[a] = PastRows(a)
        /\ settlement[a] = IF WasSettled(a) THEN "settled" ELSE "none"
    BY DEF Init
  <2>2. a \in Sessions => auth[a] = None
    BY <2>1, SessionsAreAuthIds DEF PastAuth
  <2>3. CASE WasSettled(a)
    <3>1. auth[a] # None
      BY <2>1, <2>3, PastTyped DEF WasSettled
    <3> QED
      BY <2>1, <2>2, <2>3, <3>1, SomeEntries DEF WholeAt, PastRows
  <2>4. CASE ~ WasSettled(a)
    BY <2>1, <2>2, <2>4 DEF WholeAt, PastRows
  <2> QED
    BY <2>3, <2>4
<1> QED
  BY <1>1, <1>2 DEF WholeOK, Init

(* What is committed is whole: a settlement with its authorization and all *)
(* of its rows, a buyer's authorization with its settlement, an answer     *)
(* with what it names (get_db).                                            *)
THEOREM Whole == Spec => []WholeOK
<1>1. Init => WholeOK
  BY WholeInit
<1>2. IInv /\ DraftOK /\ WholeOK /\ [Next]_vars => WholeOK'
  BY WholeStep
<1> QED
  BY <1>1, <1>2, Invariant, Drafts, PTL DEF Spec

(* A settlement's entries are posted once, however often it is named       *)
(* (settle_authorization, post_entries).                                   *)
THEOREM EntriesPostedOnce == Spec => []PostedOnce
<1>1. WholeOK => PostedOnce
  BY DEF WholeOK, WholeAt, PostedOnce
<1> QED
  BY <1>1, Whole, PTL

(* A purchase is committed with its settlement, rows and stored answer, or *)
(* not at all (get_db).                                                    *)
THEOREM PurchaseWhole == Spec => []PurchaseIsWhole
<1>1. ASSUME IInv, WholeOK PROVE PurchaseIsWhole
  <2> USE <1>1 DEF IInv
  <2> SUFFICES ASSUME NEW s \in Sessions, IsPurchase(s)
               PROVE  /\ auth[s] # None <=> settlement[s] # "none"
                      /\ auth[s] # None <=> rows[s] # <<>>
                      /\ auth[s] # None <=> answer[req[s].key] = s
    BY DEF PurchaseIsWhole
  <2>1. WholeAt(s) /\ s \in AuthIds /\ s # None
    BY SessionsAreAuthIds, NoneIsNothing DEF WholeOK
  <2>2. req[s].key \in Keys
    BY PurchaseKey
  <2>3. auth[s] # None => answer[req[s].key] = s
    BY KeysAtAll DEF KeysAt
  <2>4. answer[req[s].key] = s => auth[s] # None
    BY <2>1, <2>2 DEF WholeOK
  <2> QED
    BY <2>1, <2>3, <2>4 DEF WholeAt
<1> QED
  BY <1>1, Invariant, Whole, PTL

-----------------------------------------------------------------------------
(* Balances are the sum of the rows.                                       *)

LEMMA FiniteAuthIds ==
  IsFiniteSet(AuthIds)
  BY RowsAssumption, FS_Union DEF RowsAssumption, AuthIds

(* What the rows of a table, authorization by authorization, did to an     *)
(* account, and what they did in all.                                      *)
Nets(table, c) == [a \in AuthIds |-> NetOf(table[a], c)]

Total(table, c) == SumFunction(Nets(table, c))

LEMMA RowsInCents ==
  InCents(Row)
  BY TransactionsInCents DEF Row

LEMMA NetsAreInts ==
  ASSUME NEW table \in [AuthIds -> Seq(Row)], NEW c
  PROVE  /\ Total(table, c) = SumOver(Nets(table, c), AuthIds)
         /\ IntsOn(Nets(table, c), AuthIds)
         /\ Total(table, c) \in Int
<1>1. Total(table, c) = SumOver(Nets(table, c), AuthIds)
  <2>1. DOMAIN Nets(table, c) = AuthIds
    BY DEF Nets
  <2> QED
    BY <2>1, SumFunctionIsSumOver DEF Total
<1>2. ASSUME NEW a \in AuthIds PROVE NetOf(table[a], c) \in Int
  <2>1. table[a] \in Seq(Row)
    OBVIOUS
  <2> QED
    BY <2>1, RowsInCents, NetTyped
<1>3. IntsOn(Nets(table, c), AuthIds)
  BY <1>2 DEF IntsOn, Nets
<1> QED
  BY <1>1, <1>3, FiniteAuthIds, SumTyped

(* Table new is old with row e appended to the list of a. *)
OneMoreRow(old, new, a, e) ==
  /\ old \in [AuthIds -> Seq(Row)] /\ new \in [AuthIds -> Seq(Row)]
  /\ a \in AuthIds /\ e \in Row
  /\ new[a] = Append(old[a], e)
  /\ \A x \in AuthIds : x # a => new[x] = old[x]

(* A row is appended to one list. *)
LEMMA TotalAppend ==
  ASSUME NEW old, NEW new, NEW a, NEW e, NEW c, OneMoreRow(old, new, a, e)
  PROVE  Total(new, c) = Total(old, c) + Effect(e, c)
<1>a. /\ old \in [AuthIds -> Seq(Row)] /\ new \in [AuthIds -> Seq(Row)]
      /\ a \in AuthIds /\ e \in Row
      /\ new[a] = Append(old[a], e)
      /\ \A x \in AuthIds : x # a => new[x] = old[x]
  BY DEF OneMoreRow
<1> DEFINE f == Nets(old, c)
           g == Nets(new, c)
<1>1. old[a] \in Seq(Row)
  BY <1>a
<1>2. NetOf(new[a], c) = NetOf(old[a], c) + Effect(e, c)
  BY <1>a, <1>1, RowsInCents, NetAppend
<1>3. Effect(e, c) \in Int
  BY <1>a, RowsInCents, EffectTyped
<1>4. g[a] = f[a] + Effect(e, c) /\ \A x \in AuthIds \ {a} : g[x] = f[x]
  BY <1>a, <1>2 DEF Nets
<1>5. IntsOn(f, AuthIds) /\ Total(old, c) = SumOver(f, AuthIds)
        /\ Total(new, c) = SumOver(g, AuthIds)
  BY <1>a, NetsAreInts
<1> HIDE DEF f, g
<1>6. SumOver(g, AuthIds) = SumOver(f, AuthIds) + Effect(e, c)
  BY <1>a, <1>3, <1>4, <1>5, FiniteAuthIds, SumChange
<1> QED
  BY <1>5, <1>6

(* No rows add up to nothing.                                              *)
LEMMA TotalEmpty ==
  ASSUME NEW table \in [AuthIds -> Seq(Row)], \A a \in AuthIds : table[a] = <<>>, NEW c
  PROVE  Total(table, c) = 0
<1>1. \A a \in AuthIds : Nets(table, c)[a] = 0
  BY NetEmpty DEF Nets
<1> QED
  BY <1>1, FiniteAuthIds, SumOfZeros, NetsAreInts

(* The lists of a session are appended to those of the table. *)
LEMMA TotalJoined ==
  ASSUME NEW old \in [AuthIds -> Seq(Row)], NEW drafted \in [AuthIds -> Seq(Row)],
         NEW new \in [AuthIds -> Seq(Row)], NEW c,
         \A a \in AuthIds : NetOf(new[a], c) = NetOf(old[a], c) + NetOf(drafted[a], c)
  PROVE  Total(new, c) = Total(old, c) + Total(drafted, c)
<1> DEFINE f == Nets(old, c)
           g == Nets(drafted, c)
           h == Nets(new, c)
<1>1. \A a \in AuthIds : h[a] = f[a] + g[a]
  BY DEF Nets
<1>2. /\ IntsOn(f, AuthIds) /\ Total(old, c) = SumOver(f, AuthIds)
      /\ IntsOn(g, AuthIds) /\ Total(drafted, c) = SumOver(g, AuthIds)
      /\ Total(new, c) = SumOver(h, AuthIds)
  BY NetsAreInts
<1> HIDE DEF f, g, h
<1>3. SumOver(h, AuthIds) = SumOver(f, AuthIds) + SumOver(g, AuthIds)
  BY <1>1, <1>2, FiniteAuthIds, SumPlus
<1> QED
  BY <1>2, <1>3

(* SumsOK, in terms of totals.                                             *)
LEMMA SumsAreTotals ==
  /\ SumsOK <=> /\ \A c \in Accounts : balance[c] = Total(rows, c)
                /\ \A s \in Sessions, c \in Accounts : Gain(s, c) = Total(newRows[s], c)
  /\ SumsOK' <=> /\ \A c \in Accounts : balance'[c] = Total(rows', c)
                 /\ \A s \in Sessions, c \in Accounts : Gain(s, c)' = Total(newRows'[s], c)
  BY DEF SumsOK, Total, Nets

LEMMA SeenTyped ==
  ASSUME TypeOK, NEW s \in Sessions, NEW c \in Accounts
  PROVE  balance[c] \in Int /\ SeenBalance(s, c) \in Int /\ Gain(s, c) \in Int
<1>1. balance[c] \in Int /\ newBalance[s][c] \in Int \cup {None}
  BY DEF TypeOK
<1>2. SeenBalance(s, c) \in Int
  BY <1>1 DEF SeenBalance
<1> QED
  BY <1>1, <1>2 DEF Gain

(* One entry posted adds to the session's balance change what it adds to   *)
(* its rows (post_entries).                                                *)
LEMMA PostedSums ==
  ASSUME IInv, NEW s \in Sessions, Posted(s), NEW c \in Accounts,
         Gain(s, c) = Total(newRows[s], c), TypeOK'
  PROVE  Gain(s, c)' = Total(newRows'[s], c)
<1> USE DEF IInv
<1> DEFINE e == Head(entries[s])
           a == Current(s)
<1>1. /\ pc[s] = "post" /\ entries[s] # <<>>
      /\ newRows' = [newRows EXCEPT ![s][a] = Append(@, e)]
      /\ newBalance' = [newBalance EXCEPT ![s][e.account] = AdjustedBalance(s, e)]
  BY PostedFacts DEF PostHead
<1>2. a \in AuthIds /\ e \in Row
  BY <1>1, HandlerFacts DEF TypeOK
<1>3. e.account \in Accounts /\ Delta(e) \in Int
  BY <1>2, DeltaTyped
<1> HIDE DEF e, a
<1>4. /\ newRows[s] \in [AuthIds -> Seq(Row)] /\ newRows'[s] \in [AuthIds -> Seq(Row)]
      /\ Gain(s, c) \in Int /\ SeenBalance(s, c) \in Int /\ balance[c] \in Int
      /\ balance' = balance
  <2>1. balance' = balance
    BY PostedFacts DEF PostHead, tables
  <2>2. newRows[s] \in [AuthIds -> Seq(Row)] /\ newRows'[s] \in [AuthIds -> Seq(Row)]
    BY DEF TypeOK
  <2> QED
    BY <2>1, <2>2, SeenTyped
<1>5. /\ newRows'[s][a] = Append(newRows[s][a], e)
      /\ \A x \in AuthIds : x # a => newRows'[s][x] = newRows[s][x]
  BY <1>1, <1>2 DEF TypeOK
<1>6. Gain(s, c)' = IF e.account = c THEN Gain(s, c) + Delta(e) ELSE Gain(s, c)
  <2>1. PICK k \in Accounts, n \in Int : e.account = k /\ AdjustedBalance(s, e) = n
          /\ n = SeenBalance(s, k) + Delta(e)
    <3>1. SeenBalance(s, e.account) + Delta(e) \in Int
      BY <1>3, SeenTyped
    <3> QED
      BY <1>3, <3>1 DEF AdjustedBalance
  <2>2. newBalance' = [newBalance EXCEPT ![s][k] = n]
    BY <1>1, <2>1
  <2>3. newBalance'[s][c] = IF k = c THEN n ELSE newBalance[s][c]
    BY <2>2 DEF TypeOK
  <2>4. SeenBalance(s, c)' = IF k = c THEN n ELSE SeenBalance(s, c)
    BY <1>4, <2>1, <2>3, NoneIsNothing DEF SeenBalance
  <2>5. CASE k = c
    BY <1>3, <1>4, <2>1, <2>4, <2>5 DEF Gain
  <2>6. CASE k # c
    BY <1>4, <2>1, <2>4, <2>6 DEF Gain
  <2> QED
    BY <2>1, <2>5, <2>6
<1>7. Effect(e, c) = IF e.account = c THEN Delta(e) ELSE 0
  BY DEF Effect, Delta
<1>8. Total(newRows'[s], c) = Total(newRows[s], c) + Effect(e, c)
  <2>1. OneMoreRow(newRows[s], newRows'[s], a, e)
    BY ONLY <1>2, <1>4, <1>5 DEF OneMoreRow
  <2> QED
    BY ONLY <2>1, TotalAppend
<1> QED
  BY <1>4, <1>6, <1>7, <1>8

(* The acting session's UPDATEs add up to the rows it inserted.            *)
LEMMA OwnSums ==
  ASSUME IInv, TypeOK', NEW s \in Sessions, NEW c \in Accounts,
         Gain(s, c) = Total(newRows[s], c),
         Step(s) \/ Lose(s) \/ \E r \in Requests : Arrive(s, r)
  PROVE  Gain(s, c)' = Total(newRows'[s], c)
<1> USE DEF IInv
<1>1. CASE Reading(s)
  <2>1. UNCHANGED <<tables, draft>>
    BY <1>1
    DEF Reading, LookUpKey, ClaimTaken, RejectPurchase, ReadNew, ReadStatus, ReadAuth,
        ReadSettlement, ReadForRefund, Respond
  <2> QED
    BY <2>1 DEF Gain, SeenBalance, tables, draft
<1>2. CASE \/ Claim(s) \/ Purchase(s) \/ CreatePending(s) \/ WriteStatus(s)
           \/ InsertSettlement(s) \/ ListRows(s) \/ FlagReversed(s)
  <2>1. UNCHANGED <<tables, newBalance, newRows>>
    BY <1>2
    DEF Claim, Purchase, CreatePending, WriteStatus, InsertSettlement, ListRows, FlagReversed
  <2> QED
    BY <2>1 DEF Gain, SeenBalance, tables
<1>3. CASE \E r \in Requests : Arrive(s, r)
  BY <1>3 DEF Arrive, Gain, SeenBalance, tables, draft
<1>4. CASE Commit(s) \/ Rollback(s) \/ Aborting(s) \/ Lose(s)
  <2>1. Discard(s)
    BY <1>4, AbortingAborts DEF Commit, Rollback, Abort, Lose
  <2>2. Gain(s, c)' = 0 /\ \A a \in AuthIds : newRows'[s][a] = <<>>
    BY <2>1 DEF Discard, TypeOK, Gain, SeenBalance
  <2>3. newRows'[s] \in [AuthIds -> Seq(Row)]
    BY DEF TypeOK
  <2> QED
    BY <2>2, <2>3, TotalEmpty
<1> QED
  BY <1>1, <1>2, <1>3, <1>4, PostedSums, StepCases

(* A commit adds the drafted rows to the tables.                           *)
LEMMA CommittedTotals ==
  ASSUME TypeOK, TypeOK', NEW s \in Sessions, Commit(s), NEW c \in Accounts
  PROVE  Total(rows', c) = Total(rows, c) + Total(newRows[s], c)
<1>1. rows' = [a \in AuthIds |-> CommittedRows(s, a)]
  BY DEF Commit
<1>3. /\ rows \in [AuthIds -> Seq(Row)] /\ rows' \in [AuthIds -> Seq(Row)]
      /\ newRows[s] \in [AuthIds -> Seq(Row)]
  BY DEF TypeOK
<1>4. ASSUME NEW a \in AuthIds
      PROVE  NetOf(rows'[a], c) = NetOf(rows[a], c) + NetOf(newRows[s][a], c)
  <2> DEFINE kept == IF newSettlement[s][a] = "reversed" THEN MarkReversed(rows[a], listed[s])
                                                         ELSE rows[a]
  <2>1. rows[a] \in Seq(Row) /\ newRows[s][a] \in Seq(Row) /\ listed[s] \in Nat
    BY DEF TypeOK
  <2>2. kept \in Seq(Row) /\ NetOf(kept, c) = NetOf(rows[a], c)
    BY <2>1, MarkReversedTyped, NetOfFlagged DEF Row
  <2>3. rows'[a] = kept \o newRows[s][a]
    BY <1>1 DEF CommittedRows
  <2> HIDE DEF kept
  <2> QED
    BY <2>1, <2>2, <2>3, RowsInCents, NetConcat
<1>5. ASSUME NEW x \in [AuthIds -> Seq(Row)], NEW y \in [AuthIds -> Seq(Row)],
             NEW z \in [AuthIds -> Seq(Row)],
             \A a \in AuthIds : NetOf(z[a], c) = NetOf(x[a], c) + NetOf(y[a], c)
      PROVE  Total(z, c) = Total(x, c) + Total(y, c)
  BY ONLY <1>5, TotalJoined
<1> QED
  BY <1>3, <1>4, <1>5

(* A commit writes the balance that the session sees.                      *)
LEMMA CommittedBalance ==
  ASSUME TypeOK, NEW s \in Sessions, Commit(s), NEW c \in Accounts
  PROVE  balance'[c] = balance[c] + Gain(s, c)
<1>1. balance[c] \in Int /\ SeenBalance(s, c) \in Int
  BY SeenTyped
<1>2. balance'[c] = SeenBalance(s, c)
  BY DEF Commit
<1> QED
  BY <1>1, <1>2 DEF Gain

(* Nobody else changes a balance under a session that has written it, and  *)
(* a session that has not will build on what is committed: what each has   *)
(* added is its own, because the row is locked until the commit.           *)
LEMMA OthersGain ==
  ASSUME IInv, NEW s \in Sessions, NEW t \in Sessions, t # s, NEW c \in Accounts,
         OthersDraftKept(s), UNCHANGED tables \/ Commit(s)
  PROVE  Gain(t, c)' = Gain(t, c)
<1>1. newBalance'[t] = newBalance[t]
  BY DEF OthersDraftKept
<1>2. CASE UNCHANGED tables
  BY <1>1, <1>2 DEF Gain, SeenBalance, tables
<1>3. CASE Commit(s)
  <2>1. balance'[c] = SeenBalance(s, c) /\ balance'[c] \in Int /\ balance[c] \in Int
    BY <1>3 DEF Commit, SeenBalance, IInv, TypeOK
  <2>2. CASE newBalance[s][c] = None
    BY <1>1, <2>1, <2>2 DEF Gain, SeenBalance
  <2>3. CASE newBalance[s][c] # None
    <3>1. newBalance[t][c] = None
      BY <2>3 DEF IInv, WritesAreLocked
    <3> QED
      BY <1>1, <2>1, <3>1 DEF Gain, SeenBalance
  <2> QED
    BY <2>2, <2>3
<1> QED
  BY <1>2, <1>3

(* A commit adds to balance and rows the same (adjust_balance).            *)
LEMMA CommittedSums ==
  ASSUME IInv, SumsOK, TypeOK', NEW s \in Sessions, Commit(s), NEW c \in Accounts
  PROVE  balance'[c] = Total(rows', c)
<1>1. balance'[c] = balance[c] + Gain(s, c)
  BY CommittedBalance DEF IInv
<1>2. balance[c] = Total(rows, c) /\ Gain(s, c) = Total(newRows[s], c)
  BY SumsAreTotals
<1>3. Total(rows', c) = Total(rows, c) + Total(newRows[s], c)
  BY CommittedTotals DEF IInv
<1> QED
  BY <1>1, <1>2, <1>3

LEMMA SumsStep ==
  ASSUME IInv, TypeOK', SumsOK, [Next]_vars
  PROVE  SumsOK'
<1> USE DEF IInv
<1>1. ASSUME NEW s \in Sessions, Step(s) \/ Lose(s) \/ \E r \in Requests : Arrive(s, r)
      PROVE  SumsOK'
  <2>1. OthersDraftKept(s) /\ (UNCHANGED tables \/ Commit(s))
    BY <1>1, KeepsOtherDrafts, TablesKept
  <2>2. ASSUME NEW t \in Sessions, NEW c \in Accounts
        PROVE  Gain(t, c)' = Total(newRows'[t], c)
    <3>1. Gain(t, c) = Total(newRows[t], c)
      BY SumsAreTotals
    <3>2. CASE t = s
      BY <1>1, <3>1, <3>2, OwnSums
    <3>3. CASE t # s
      BY <2>1, <3>1, <3>3, OthersGain DEF OthersDraftKept
    <3> QED
      BY <3>2, <3>3
  <2>3. ASSUME NEW c \in Accounts PROVE balance'[c] = Total(rows', c)
    <3>1. CASE UNCHANGED tables
      <4>1. balance' = balance /\ rows' = rows
        BY <3>1 DEF tables
      <4> QED
        BY <4>1, SumsAreTotals
    <3> QED
      BY <2>1, <3>1, CommittedSums
  <2> QED
    BY <2>2, <2>3, SumsAreTotals
<1>2. CASE UNCHANGED vars
  <2>1. balance' = balance /\ rows' = rows /\ newBalance' = newBalance /\ newRows' = newRows
    BY <1>2 DEF vars, tables, draft
  <2> QED
    BY <2>1, SumsAreTotals DEF Gain, SeenBalance
<1> QED
  BY <1>1, <1>2 DEF Next, AllServed

LEMMA SumsInit ==
  Init => SumsOK
<1> SUFFICES ASSUME Init PROVE SumsOK
  OBVIOUS
<1>1. TypeOK
  BY InitInvariant DEF IInv
<1>2. ASSUME NEW c \in Accounts PROVE balance[c] = Total(rows, c)
  <2>1. balance[c] = SumFunction([a \in AuthIds |-> NetOf(PastRows(a), c)])
    BY PastAssumption DEF PastAssumption, Init
  <2>2. Nets(rows, c) = [a \in AuthIds |-> NetOf(PastRows(a), c)]
    BY DEF Nets, Init
  <2> QED
    BY <2>1, <2>2 DEF Total
<1>3. ASSUME NEW s \in Sessions, NEW c \in Accounts
      PROVE  Gain(s, c) = Total(newRows[s], c)
  <2>1. Gain(s, c) = 0 /\ \A a \in AuthIds : newRows[s][a] = <<>>
    BY <1>1 DEF Init, TypeOK, Gain, SeenBalance
  <2>2. newRows[s] \in [AuthIds -> Seq(Row)]
    BY <1>1 DEF TypeOK
  <2> QED
    BY <2>1, <2>2, TotalEmpty
<1> QED
  BY <1>2, <1>3, SumsAreTotals

(* Balances are the sum of committed rows, and what a session has added to *)
(* a balance is the sum of the rows it has inserted (post_entries,         *)
(* adjust_balance).                                                        *)
THEOREM BooksBalance == Spec => []SumsOK
<1>1. Init => SumsOK
  BY SumsInit
<1>2. IInv /\ IInv' /\ SumsOK /\ [Next]_vars => SumsOK'
  BY SumsStep DEF IInv
<1> QED
  BY <1>1, <1>2, Invariant, PTL DEF Spec

(* The stored balance of every account is what its committed transactions  *)
(* add up to: reconcile_all never finds a difference that the service made *)
(* (adjust_balance, reconciliation_service.reconcile_all).                 *)
THEOREM BalancesMatch == Spec => []BalanceMatchesRows
<1>1. SumsOK => BalanceMatchesRows
  BY DEF SumsOK, BalanceMatchesRows
<1> QED
  BY <1>1, BooksBalance, PTL

-----------------------------------------------------------------------------
(* Requests in turn.                                                       *)

(* A session's queue only shrinks while it is served.                      *)
LEMMA QueueShrinks ==
  ASSUME TypeOK, NEW s \in Sessions, Step(s) \/ Lose(s)
  PROVE  /\ req'[s] = req[s] /\ pc[s] \notin {"idle", "done"}
         /\ Range(queue[s])' \subseteq Range(queue[s])
<1>1. CASE Lose(s)
  BY <1>1 DEF Lose, Open, handler
<1>2. CASE Step(s)
  <2>1. /\ req'[s] = req[s] /\ pc[s] \notin {"idle", "done"}
        /\ queue'[s] = queue[s] \/ (Len(queue[s]) > 1 /\ queue'[s] = Tail(queue[s]))
    BY <1>2, StepFollows DEF Follows, Goes
  <2>2. ASSUME Len(queue[s]) > 1 PROVE Range(Tail(queue[s])) \subseteq Range(queue[s])
    <3>1. queue[s] \in Seq(AuthIds)
      BY DEF TypeOK
    <3>2. queue[s] # <<>>
      <4>1. queue[s] = <<>> => Len(queue[s]) = 0
        OBVIOUS
      <4> QED
        BY <2>2, <4>1
    <3> QED
      BY <3>1, <3>2, RangeFacts
  <2> QED
    BY <2>1, <2>2
<1> QED
  BY <1>1, <1>2

LEMMA InTurnStep ==
  ASSUME IInv, InTurnOK, [Next]_vars
  PROVE  InTurnOK'
<1> USE DEF IInv
<1>1. ASSUME NEW s \in Sessions, Step(s) \/ Lose(s) PROVE InTurnOK'
  <2>1. OthersKept(s)
    BY <1>1, KeepsOthers
  <2>2. \A t \in Sessions :
          /\ Kind(t)' = Kind(t)
          /\ Open(t)' => Open(t)
          /\ Range(queue[t])' \subseteq Range(queue[t])
    BY <1>1, <2>1, QueueShrinks DEF OthersKept, Kind, Open
  <2> QED
    BY <2>2 DEF InTurnOK
<1>2. ASSUME NEW s \in Sessions, NEW r \in Requests, Arrive(s, r) PROVE InTurnOK'
  <2>1. OthersKept(s)
    BY <1>2, KeepsOthers
  <2>2. /\ Kind(s)' = r.kind /\ queue'[s] = Targets(s, r) /\ InTurn(s, r)
    BY <1>2 DEF Arrive, Kind, TypeOK
  <2>3. \A t \in Sessions : t # s =>
          /\ Kind(t)' = Kind(t) /\ Open(t)' = Open(t)
          /\ Range(queue[t])' = Range(queue[t])
    BY <2>1 DEF OthersKept, Kind, Open
  <2>4. ASSUME NEW t \in Sessions, t # s, Open(t)', {Kind(s)', Kind(t)'} \subseteq Serial
        PROVE  Range(queue[s])' \cap Range(queue[t])' = {}
    BY <2>2, <2>3, <2>4 DEF InTurn, Kind
  <2> QED
    BY <2>3, <2>4 DEF InTurnOK
<1>3. CASE UNCHANGED vars
  BY <1>3 DEF vars, handler, InTurnOK, Kind, Open
<1> QED
  BY <1>1, <1>2, <1>3 DEF Next, AllServed

(* The requests that Serial names stay apart for as long as they are open: *)
(* what Arrive checks on arrival holds until they end.                     *)
THEOREM RequestsInTurn == Spec => []InTurnOK
<1>1. Init => InTurnOK
  BY DEF Init, InTurnOK, Open
<1>2. IInv /\ InTurnOK /\ [Next]_vars => InTurnOK'
  BY InTurnStep
<1> QED
  BY <1>1, <1>2, Invariant, PTL DEF Spec

-----------------------------------------------------------------------------
(* A refund offsets what it found, if no other refund of the same          *)
(* authorization is open - without that the code refunds twice.            *)

RefundsInTurn == "refund" \in Serial

(* A refund names one authorization and has it in its queue.               *)
LEMMA RefundQueue ==
  ASSUME IInv, NEW s \in Sessions, pc[s] # "idle", Kind(s) = "refund"
  PROVE  /\ req[s].auth \in AuthIds /\ Current(s) = req[s].auth
         /\ queue[s] = <<req[s].auth>> /\ req[s].auth \in Range(queue[s])
<1>1. /\ req[s] \in Requests /\ QueueAt(s) /\ Current(s) = req[s].auth
  BY HandlerFacts DEF IInv
<1>2. queue[s] = <<req[s].auth>> /\ req[s].auth \in AuthIds
  BY <1>1, RequestFields DEF QueueAt, Kind
<1> QED
  BY <1>1, <1>2, RangeOfOne

(* What a commit does to a settlement and its rows.                        *)
LEMMA CommitCases ==
  ASSUME IInv, DraftOK, WholeOK, NEW s \in Sessions, Commit(s), NEW a \in AuthIds
  PROVE  \/ /\ newSettlement[s][a] = "none" /\ newRows[s][a] = <<>>
            /\ settlement'[a] = settlement[a] /\ rows'[a] = rows[a]
         \/ /\ newSettlement[s][a] = "settled" /\ a \in Batch(s)
            /\ settlement[a] = "none" /\ settlement'[a] = "settled"
         \/ /\ newSettlement[s][a] = "reversed" /\ Kind(s) = "refund" /\ a = req[s].auth
            /\ settlement'[a] = "reversed"
            /\ rows'[a] = MarkReversed(rows[a], listed[s]) \o newRows[s][a]
<1> USE DEF IInv
<1>1. /\ pc[s] = "commit" /\ Live(s)
      /\ settlement'[a] = IF newSettlement[s][a] = "none" THEN settlement[a]
                                                          ELSE newSettlement[s][a]
      /\ rows'[a] = CommittedRows(s, a)
  BY DEF Commit, Overlay, Live
<1>2. Nothing(s) \/ Complete(s)
  BY <1>1 DEF DraftOK, DraftAt, Finished
<1>3. rows[a] \in Seq(Row) /\ newSettlement[s][a] \in {"none", "settled", "reversed"}
  BY DEF TypeOK
<1>4. CASE newSettlement[s][a] = "none"
  <2>1. newRows[s][a] = <<>>
    BY <1>2, <1>4 DEF Nothing, NoSettlements, Complete
  <2> QED
    BY <1>1, <1>3, <1>4, <2>1 DEF CommittedRows
<1>5. CASE newSettlement[s][a] = "settled"
  <2>1. a \in Batch(s)
    BY <1>2, <1>5 DEF Nothing, NoSettlements, Complete
  <2> QED
    BY <1>1, <1>5, <2>1 DEF WholeOK, SettlingAt
<1>6. CASE newSettlement[s][a] = "reversed"
  <2>1. a \in Refunded(s)
    BY <1>2, <1>6 DEF Nothing, NoSettlements, Complete
  <2> QED
    BY <1>1, <1>6, <2>1 DEF Refunded, CommittedRows
<1> QED
  BY <1>3, <1>4, <1>5, <1>6

(* Nobody else commits to the settlement that a refund is reversing: a     *)
(* second settlement collides with the first, a second refund is kept      *)
(* apart.                                                                  *)
LEMMA OthersKeepOffset ==
  ASSUME IInv, DraftOK, WholeOK, InTurnOK, RefundsInTurn, NEW s \in Sessions,
         OthersKept(s), OthersDraftKept(s), UNCHANGED tables \/ Commit(s),
         NEW t \in Sessions, t # s, OffsetAt(t)
  PROVE  OffsetAt(t)'
<1>1. /\ pc'[t] = pc[t] /\ req'[t] = req[t] /\ newRows'[t] = newRows[t]
      /\ entries'[t] = entries[t] /\ Live(t)' = Live(t) /\ Kind(t)' = Kind(t)
  BY DEF OthersKept, OthersDraftKept, Live, Kind
<1>2. ASSUME Live(t), Kind(t) = "refund", pc[t] # "readRefund"
      PROVE  settlement'[req[t].auth] = "settled" /\ rows'[req[t].auth] = rows[req[t].auth]
  <2> DEFINE a == req[t].auth
  <2>1. settlement[a] = "settled"
    BY <1>2 DEF OffsetAt
  <2>2. a \in AuthIds /\ a \in Range(queue[t])
    BY <1>2, RefundQueue DEF Live
  <2> HIDE DEF a
  <2>3. CASE Commit(s)
    <3>1. pc[s] = "commit"
      BY <2>3 DEF Commit
    <3>2. ~ (Kind(s) = "refund" /\ a = req[s].auth)
      <4>1. ASSUME Kind(s) = "refund", a = req[s].auth PROVE FALSE
        <5>1. a \in Range(queue[s])
          BY <3>1, <4>1, RefundQueue
        <5>2. Open(s) /\ Open(t) /\ {Kind(s), Kind(t)} \subseteq Serial
          BY <1>2, <3>1, <4>1 DEF Open, Live, RefundsInTurn
        <5> QED
          BY <2>2, <5>1, <5>2 DEF InTurnOK
      <4> QED
        BY <4>1
    <3> QED
      BY <2>1, <2>2, <2>3, <3>2, CommitCases DEF a
  <2>4. CASE UNCHANGED tables
    BY <2>1, <2>4 DEF tables, a
  <2> QED
    BY <2>3, <2>4
<1> QED
  BY <1>1, <1>2 DEF OffsetAt

(* The reversals of the rows listed offset them, in any order.             *)
LEMMA ListedOffset ==
  ASSUME IInv, NEW s \in Sessions, DraftAt(s), OffsetAt(s), ListRows(s)
  PROVE  OffsetAt(s)'
<1> USE DEF IInv
<1> DEFINE a == req[s].auth
           found == rows[a]
<1>1. /\ pc[s] = "listRows" /\ Live(s) /\ UNCHANGED <<tables, newRows, req>>
      /\ pc'[s] \in {"post", "rollback"}
  BY Moved DEF ListRows, Require, Live
<1>2. Kind(s) = "refund" /\ a \in AuthIds /\ Current(s) = a
  BY <1>1, HandlerFacts, RefundQueue DEF KindAt
<1>3. found \in Seq(Row)
  BY <1>2 DEF TypeOK
<1>4. PICK order \in Bijection(DOMAIN found, DOMAIN found) :
        entries' = [entries EXCEPT ![s] = [i \in DOMAIN found |-> Reversal(found[order[i]])]]
  BY <1>2 DEF ListRows
<1>5. /\ order \in [DOMAIN found -> DOMAIN found]
      /\ \A y \in DOMAIN found : \E x \in DOMAIN found : order[x] = y
  BY DEF Bijection, Surjection
<1>6. entries'[s] = [i \in DOMAIN found |-> Reversal(found[order[i]])]
  BY <1>4 DEF TypeOK
<1> HIDE DEF found
<1>7. ASSUME NEW c \in Accounts PROVE NetOf(entries'[s], c) = -NetOf(found, c)
  <2>1. NetOf([i \in DOMAIN found |-> Reversal(found[order[i]])], c) = -NetOf(found, c)
    BY <1>3, <1>5, NetOfReversals DEF Row
  <2> QED
    BY <1>6, <2>1
<1>8. newRows[s][a] = <<>> /\ settlement[a] = "settled"
  BY <1>1, <1>2 DEF DraftAt, Fresh, Nothing, NoSettlements, OffsetAt
<1>9. ASSUME NEW c \in Accounts
      PROVE  NetOf(newRows[s][a], c) + NetOf(entries'[s], c) = -NetOf(found, c)
  <2>1. NetOf(newRows[s][a], c) = 0
    BY <1>8, NetEmpty
  <2>2. NetOf(found, c) \in Int
    BY <1>3, RowsInCents, NetTyped
  <2> QED
    BY <1>7, <2>1, <2>2
<1>10. /\ req'[s] = req[s] /\ newRows' = newRows /\ rows' = rows /\ settlement' = settlement
  BY <1>1 DEF tables
<1> QED
  BY <1>1, <1>8, <1>9, <1>10 DEF OffsetAt, Live, found

LEMMA TailOfOne ==
  ASSUME NEW S, NEW q \in Seq(S), Len(q) = 1
  PROVE  Tail(q) = <<>>
<1> DEFINE t == Tail(q)
<1>1. q # <<>>
  <2>1. q = <<>> => Len(q) = 0
    OBVIOUS
  <2> QED
    BY <2>1
<1>2. t \in Seq(S) /\ Len(t) = Len(q) - 1
  BY <1>1
<1> HIDE DEF t
<1>3. t = <<>>
  BY <1>2
<1> QED
  BY <1>3 DEF t

LEMMA PostedOffset ==
  ASSUME IInv, NEW s \in Sessions, OffsetAt(s), Posted(s), Kind(s) = "refund"
  PROVE  OffsetAt(s)'
<1> USE DEF IInv
<1> DEFINE a == Current(s)
           q == entries[s]
           e == Head(q)
<1>1. /\ pc[s] = "post" /\ q # <<>> /\ q \in Seq(Row) /\ e \in Row
      /\ newRows' = [newRows EXCEPT ![s][a] = Append(@, e)]
      /\ entries' = [entries EXCEPT ![s] = Tail(@)]
      /\ UNCHANGED <<tables, req>>
  <2>1. PostHead(s) /\ q # <<>>
    BY PostedFacts
  <2>2. q \in Seq(Row)
    BY DEF TypeOK
  <2> QED
    BY <2>1, <2>2 DEF PostHead
<1>2. a \in AuthIds /\ a = req[s].auth /\ queue[s] = <<a>>
  BY <1>1, RefundQueue
<1>3. /\ newRows[s][a] \in Seq(Row) /\ rows[a] \in Seq(Row)
      /\ entries'[s] = Tail(q) /\ newRows'[s][a] = Append(newRows[s][a], e)
  BY <1>1, <1>2 DEF TypeOK
<1>4. pc'[s] = "post" \/ (Len(q) = 1 /\ pc'[s] = "markReversed")
  <2>1. CASE PostEntry(s)
    BY <1>1, <2>1 DEF PostEntry
  <2>2. CASE PostLastReversal(s)
    BY <2>2, Moved DEF PostLastReversal
  <2>3. ~ PostLastOfMany(s)
    BY <1>2, LengthOne DEF PostLastOfMany
  <2>4. ~ PostLast(s)
    BY DEF PostLast, Kind
  <2> QED
    BY <2>1, <2>2, <2>3, <2>4 DEF Posted
<1>5. req'[s] = req[s] /\ rows' = rows /\ settlement' = settlement /\ Live(s)
  BY <1>1 DEF tables, Live
<1>6. settlement[a] = "settled"
  BY <1>1, <1>2, <1>5 DEF OffsetAt
<1>7. Len(q) = 1 => Tail(q) = <<>>
  BY <1>1, TailOfOne
<1>8. \A c \in Accounts : NetOf(newRows[s][a], c) + NetOf(q, c) = -NetOf(rows[a], c)
  BY <1>1, <1>2, <1>5 DEF OffsetAt
<1> HIDE DEF a, q, e
<1>9. ASSUME NEW c \in Accounts
      PROVE  NetOf(newRows'[s][a], c) + (IF pc'[s] = "post" THEN NetOf(entries'[s], c) ELSE 0)
               = -NetOf(rows[a], c)
  <2>1. NetOf(newRows'[s][a], c) = NetOf(newRows[s][a], c) + Effect(e, c)
    BY <1>1, <1>3, RowsInCents, NetAppend
  <2>2. NetOf(Tail(q), c) = NetOf(q, c) - Effect(e, c)
    BY <1>1, RowsInCents, NetOfTail DEF e
  <2>3. /\ NetOf(newRows[s][a], c) \in Int /\ NetOf(q, c) \in Int /\ Effect(e, c) \in Int
        /\ NetOf(rows[a], c) \in Int
    BY <1>1, <1>3, RowsInCents, NetTyped, EffectTyped
  <2>4. CASE pc'[s] = "post"
    BY <1>3, <1>8, <2>1, <2>2, <2>3, <2>4
  <2>5. CASE pc'[s] # "post"
    <3>1. NetOf(Tail(q), c) = 0
      BY <1>4, <1>7, <2>5, NetEmpty
    <3> QED
      BY <1>8, <2>1, <2>2, <2>3, <2>5, <3>1
  <2> QED
    BY <2>4, <2>5
<1> QED
  BY <1>2, <1>4, <1>5, <1>6, <1>9 DEF OffsetAt

(* A refund that neither lists nor posts, nor has been read: its rows and  *)
(* entries stay.                                                           *)
LEMMA QuietOffset ==
  ASSUME NEW s, OffsetAt(s), UNCHANGED tables, req'[s] = req[s],
         newRows'[s] = newRows[s], entries'[s] = entries[s], Live(s),
         pc[s] \notin {"readRefund", "listRows", "post"}, pc'[s] \notin {"listRows", "post"}
  PROVE  OffsetAt(s)'
<1>1. Kind(s)' = Kind(s) /\ rows' = rows /\ settlement' = settlement
  BY DEF Kind, tables
<1> QED
  BY <1>1 DEF OffsetAt

LEMMA OwnOffset ==
  ASSUME IInv, NEW s \in Sessions, DraftAt(s), OffsetAt(s),
         Step(s) \/ Lose(s) \/ \E r \in Requests : Arrive(s, r)
  PROVE  OffsetAt(s)'
<1> USE DEF IInv
<1>1. CASE \E r \in Requests : Arrive(s, r)
  <2>1. PICK r \in Requests : Arrive(s, r)
    BY <1>1
  <2>2. pc'[s] = FirstStep(r.kind) /\ req'[s] = r
    BY <2>1, Moved DEF Arrive, TypeOK
  <2>3. Kind(s)' = "refund" => pc'[s] = "readRefund"
    BY <2>2 DEF Kind, FirstStep, FromProcessor, OnRef
  <2> QED
    BY <2>3 DEF OffsetAt
<1>2. CASE Lose(s) \/ Aborting(s) \/ Commit(s) \/ Rollback(s)
  <2>1. pc'[s] \in {"done", "rollback"}
    BY <1>2, AbortingAborts, Moved DEF Lose, Abort, Commit, Rollback
  <2> QED
    BY <2>1 DEF OffsetAt, Live
<1>3. CASE Step(s) /\ ~ (Aborting(s) \/ Commit(s) \/ Rollback(s))
  <2>1. req'[s] = req[s] /\ pc[s] \notin {"idle", "done"} /\ pc[s] \in Steps
    BY <1>3, StepFollows DEF TypeOK
  <2>2. CASE Kind(s) # "refund"
    BY <2>1, <2>2 DEF OffsetAt, Kind
  <2>3. CASE Kind(s) = "refund"
    <3>1. pc[s] \in {"readRefund", "listRows", "post", "markReversed", "respond", "commit", "rollback"}
      BY <2>1, <2>3, HandlerFacts DEF KindAt, Steps, FromProcessor, OnRef
    <3>2. pc[s] \notin {"commit", "rollback"}
      BY <1>3, StepAt
    <3>3. CASE pc[s] = "readRefund"
      <4>1. ReadForRefund(s)
        BY <1>3, <3>3, StepAt
      <4>2. /\ UNCHANGED <<tables, newRows, req>>
            /\ pc'[s] = "rollback"
                 \/ (pc'[s] = "listRows" /\ SeenSettlement(s, Current(s)) = "settled")
        BY <4>1, Moved DEF ReadForRefund, Require, Refundable, handler, draft
      <4>3. Current(s) = req[s].auth /\ Current(s) \in AuthIds
        BY <2>1, <2>3, RefundQueue
      <4>4. newSettlement[s][Current(s)] = "none" /\ newRows[s][Current(s)] = <<>>
        BY <3>3, <4>3 DEF DraftAt, Fresh, Nothing, NoSettlements
      <4>5. \A c \in Accounts : NetOf(newRows[s][Current(s)], c) + 0 = 0
        BY <4>4, NetEmpty
      <4>6. CASE pc'[s] = "listRows"
        <5>1. settlement[Current(s)] = "settled"
          BY <4>2, <4>4, <4>6 DEF SeenSettlement
        <5> QED
          BY <4>2, <4>3, <4>5, <4>6, <5>1 DEF OffsetAt, tables
      <4> QED
        BY <4>2, <4>6 DEF OffsetAt, Live
    <3>4. CASE pc[s] \in {"markReversed", "respond"}
      <4>1. FlagReversed(s) \/ Respond(s)
        BY <1>3, <3>4, StepAt
      <4>2. /\ UNCHANGED <<tables, newRows, entries>>
            /\ pc'[s] \in {"respond", "commit"}
        BY <4>1, Moved DEF FlagReversed, Respond, handler, draft
      <4> QED
        BY <2>1, <3>4, <4>2, QuietOffset DEF Live
    <3> QED
      BY <1>3, <2>3, <3>1, <3>2, <3>3, <3>4, StepAt, ListedOffset, PostedOffset
  <2> QED
    BY <2>2, <2>3
<1> QED
  BY <1>1, <1>2, <1>3

(* A committed refund leaves rows that add up to nothing.                  *)
LEMMA CommittedOffset ==
  ASSUME IInv, DraftOK, WholeOK, OffsetOK, NEW s \in Sessions, Commit(s), NEW a \in AuthIds,
         settlement'[a] = "reversed", NEW c \in Accounts
  PROVE  NetOf(rows'[a], c) = 0
<1> USE DEF IInv
<1>1. CASE newSettlement[s][a] = "none"
  BY <1>1, CommitCases DEF OffsetOK
<1>2. CASE newSettlement[s][a] = "reversed"
  <2>1. /\ Kind(s) = "refund" /\ a = req[s].auth
        /\ rows'[a] = MarkReversed(rows[a], listed[s]) \o newRows[s][a]
    BY <1>2, CommitCases
  <2>2. pc[s] = "commit" /\ Live(s)
    BY DEF Commit, Live
  <2>3. /\ rows[a] \in Seq(Row) /\ newRows[s][a] \in Seq(Row) /\ listed[s] \in Nat
    BY DEF TypeOK
  <2>4. NetOf(rows[a], c) \in Int /\ NetOf(newRows[s][a], c) \in Int
    BY <2>3, RowsInCents, NetTyped
  <2>5. NetOf(newRows[s][a], c) + 0 = -NetOf(rows[a], c)
    BY <2>1, <2>2 DEF OffsetOK, OffsetAt
  <2> DEFINE kept == MarkReversed(rows[a], listed[s])
  <2>6. kept \in Seq(Row) /\ NetOf(kept, c) = NetOf(rows[a], c)
    BY <2>3, MarkReversedTyped, NetOfFlagged DEF Row
  <2>7. rows'[a] = kept \o newRows[s][a]
    BY <2>1
  <2> HIDE DEF kept
  <2>8. NetOf(kept \o newRows[s][a], c) = NetOf(kept, c) + NetOf(newRows[s][a], c)
    BY <2>3, <2>6, RowsInCents, NetConcat
  <2> QED
    BY <2>4, <2>5, <2>6, <2>7, <2>8
<1> QED
  BY <1>1, <1>2, CommitCases

LEMMA OffsetStep ==
  ASSUME IInv, DraftOK, WholeOK, InTurnOK, RefundsInTurn, OffsetOK, [Next]_vars
  PROVE  OffsetOK'
<1> USE DEF IInv
<1>1. ASSUME NEW s \in Sessions, Step(s) \/ Lose(s) \/ \E r \in Requests : Arrive(s, r)
      PROVE  OffsetOK'
  <2>1. OthersKept(s) /\ OthersDraftKept(s) /\ (UNCHANGED tables \/ Commit(s))
    BY <1>1, KeepsOthers, KeepsOtherDrafts, TablesKept
  <2>2. \A t \in Sessions : OffsetAt(t)'
    <3>1. OffsetAt(s)'
      BY <1>1, OwnOffset DEF DraftOK, OffsetOK
    <3> QED
      BY <2>1, <3>1, OthersKeepOffset DEF OffsetOK
  <2>3. ASSUME NEW a \in AuthIds, settlement'[a] = "reversed", NEW c \in Accounts
        PROVE  NetOf(rows'[a], c) = 0
    <3>1. CASE UNCHANGED tables
      BY <2>3, <3>1 DEF tables, OffsetOK
    <3> QED
      BY <2>1, <2>3, <3>1, CommittedOffset
  <2> QED
    BY <2>2, <2>3 DEF OffsetOK
<1>2. CASE UNCHANGED vars
  BY <1>2 DEF vars, tables, draft, handler, OffsetOK, OffsetAt, Live, Kind
<1> QED
  BY <1>1, <1>2 DEF Next, AllServed

(* What a refund has posted and has still to post offsets the rows of a    *)
(* settlement that still stands, and a reversed settlement nets to zero    *)
(* (refund_settlement), if refunds of it are sent one at a time.           *)
THEOREM Offsets == ASSUME RefundsInTurn PROVE Spec => []OffsetOK
<1>1. Init => OffsetOK
  BY DEF Init, OffsetOK, OffsetAt, Live, WasSettled
<1>2. IInv /\ DraftOK /\ WholeOK /\ InTurnOK /\ OffsetOK /\ [Next]_vars => OffsetOK'
  BY OffsetStep
<1> QED
  BY <1>1, <1>2, Invariant, Drafts, Whole, RequestsInTurn, PTL DEF Spec

(* A refund nets every balance back to where it was before the purchase    *)
(* (refund_settlement), provided that refunds of one settlement are sent   *)
(* one at a time: the code checks the status without a lock.               *)
THEOREM RefundsRestore == ASSUME RefundsInTurn PROVE Spec => []RefundRestores
<1>1. OffsetOK => RefundRestores
  BY DEF OffsetOK, RefundRestores
<1> QED
  BY <1>1, Offsets, PTL

(* The stored balances show the settlements that stand and nothing else,   *)
(* under the same proviso.                                                 *)
THEOREM BalancesShow == ASSUME RefundsInTurn PROVE Spec => []BalancesShowStages
<1>1. ASSUME TypeOK, WholeOK, SumsOK, OffsetOK PROVE BalancesShowStages
  <2> SUFFICES ASSUME NEW c \in Accounts
               PROVE  balance[c] = SumFunction([a \in AuthIds |->
                        IF StageOf(a) = "settled" THEN NetOf(SettlementEntries(auth[a]), c) ELSE 0])
    BY DEF BalancesShowStages
  <2> DEFINE standing == [a \in AuthIds |->
                IF StageOf(a) = "settled" THEN NetOf(SettlementEntries(auth[a]), c) ELSE 0]
             f == Nets(rows, c)
  <2>1. ASSUME NEW a \in AuthIds PROVE standing[a] = f[a]
    <3>1. /\ settlement[a] \in {"none", "settled", "reversed"}
          /\ auth[a] \in Authorization \cup {None} /\ WholeAt(a)
      BY <1>1 DEF TypeOK, WholeOK
    <3>2. CASE settlement[a] = "none"
      <4>1. StageOf(a) # "settled"
        BY <3>1, <3>2 DEF StageOf, Authorization, AuthorizationStatus
      <4> QED
        BY <3>1, <3>2, <4>1, NetEmpty DEF WholeAt, Nets
    <3>3. CASE settlement[a] = "settled"
      BY <3>1, <3>3 DEF WholeAt, Nets, StageOf
    <3>4. CASE settlement[a] = "reversed"
      BY <1>1, <3>4 DEF OffsetOK, Nets, StageOf
    <3> QED
      BY <3>1, <3>2, <3>3, <3>4
  <2>2. rows \in [AuthIds -> Seq(Row)]
    BY <1>1 DEF TypeOK
  <2>3. balance[c] = SumOver(f, AuthIds) /\ IntsOn(f, AuthIds)
    BY <1>1, <2>2, NetsAreInts, SumsAreTotals
  <2>4. SumFunction(standing) = SumOver(standing, AuthIds)
    <3>1. DOMAIN standing = AuthIds
      OBVIOUS
    <3> HIDE DEF standing
    <3> QED
      BY <3>1, SumFunctionIsSumOver
  <2> HIDE DEF standing, f
  <2>5. SumOver(standing, AuthIds) = SumOver(f, AuthIds)
    BY <2>1, <2>3, FiniteAuthIds, SumEqual
  <2>6. balance[c] = SumFunction(standing)
    BY <2>3, <2>4, <2>5
  <2> QED
    BY <2>6 DEF standing
<1> QED
  BY <1>1, TypeCorrect, Whole, BooksBalance, Offsets, PTL

-----------------------------------------------------------------------------
(* Money moves between accounts and is neither made nor lost.              *)

LEMMA SurplusOfOne ==
  ASSUME NEW row \in Row
  PROVE  Surplus(<<row>>, Accounts) = Delta(row)
<1>1. row \in TransactionRow(Accounts) /\ IsFiniteSet(Accounts)
  BY RowsAssumption DEF RowsAssumption, Row
<1>2. \A c \in Accounts : NetOf(<<row>>, c) = Effect(row, c)
  BY RowsInCents, NetOfOne
<1>3. [c \in Accounts |-> NetOf(<<row>>, c)] = [c \in Accounts |-> Effect(row, c)]
  BY <1>2
<1> QED
  BY <1>1, <1>3, EffectOnAll DEF Surplus

LEMMA SurplusOfCredit ==
  ASSUME NEW account, NEW cents \in Nat, cents # 0 => account \in Accounts
  PROVE  /\ CreditIfAny(account, cents) \in Seq(Row)
         /\ Surplus(CreditIfAny(account, cents), Accounts) = cents
<1>1. IsFiniteSet(Accounts)
  BY RowsAssumption DEF RowsAssumption
<1>2. CASE cents = 0
  BY <1>1, <1>2, CreditTyped, SurplusEmpty DEF CreditIfAny
<1>3. CASE cents # 0
  <2>1. Entry(account, "credit", cents) \in Row /\ Delta(Entry(account, "credit", cents)) = cents
    BY <1>3, EntryTyped DEF TransactionType, Delta, Entry
  <2> QED
    BY <1>3, <2>1, CreditTyped, SurplusOfOne DEF CreditIfAny
<1> QED
  BY <1>2, <1>3

(* What settle_authorization posts balances: the shares add up to the      *)
(* amount, and the share of a missing transcriptionist goes to the         *)
(* platform instead of getting lost.                                       *)
LEMMA SettlementBalances ==
  ASSUME NEW h \in Authorization, Splittable(h.amount), HasAccounts(h)
  PROVE  Balanced(SettlementEntries(h)) /\ Surplus(SettlementEntries(h), Accounts) = 0
<1> DEFINE share == Split(h.amount, Bps)
           scribe == ScribeAccount[h.record]
           toScribe == IF scribe = None THEN 0 ELSE share["transcriptionist"]
           toPlatform == share["platform"] + (share["transcriptionist"] - toScribe)
           debit == Entry(UserAccount[h.user], "debit", h.amount)
           paid == <<debit>>
           archive == CreditIfAny(ArchiveAccount[h.record], share["archive"])
           transcriptionist == CreditIfAny(scribe, toScribe)
           platform == CreditIfAny(PlatformAccount, toPlatform)
           two == paid \o archive
           three == two \o transcriptionist
<1>1. h.amount \in Nat /\ h.record \in Records /\ h.user \in Users
  BY DEF Splittable, Authorization
<1>2. /\ share["archive"] \in Nat /\ share["transcriptionist"] \in Nat /\ share["platform"] \in Nat
      /\ share["archive"] + share["transcriptionist"] + share["platform"] = h.amount
  <2>1. Bps \in SplitConfig
    BY PaymentsAssumption DEF PaymentsAssumption
  <2> QED
    BY <1>1, <2>1, SplitAddsUp DEF SumOfParties, Party
<1>3. /\ UserAccount[h.user] \in Accounts /\ ArchiveAccount[h.record] \in Accounts
      /\ PlatformAccount \in Accounts /\ scribe \in Accounts \cup {None}
  BY <1>1, PaymentsAssumption DEF HasAccounts, PaymentsAssumption
<1> HIDE DEF share
<1>4. /\ toScribe \in Nat /\ toPlatform \in Nat /\ (toScribe # 0 => scribe \in Accounts)
      /\ share["archive"] + toScribe + toPlatform = h.amount
  BY <1>2, <1>3
<1>5. debit \in Row /\ Delta(debit) = -h.amount
  BY <1>1, <1>3, EntryTyped DEF TransactionType, Delta, Entry
<1>6. SettlementEntries(h) = three \o platform
  BY DEF SettlementEntries, share
<1> HIDE DEF scribe, toScribe, toPlatform, debit
<1>7. paid \in Seq(Row) /\ Surplus(paid, Accounts) = -h.amount
  BY <1>5, SurplusOfOne
<1>8. /\ archive \in Seq(Row) /\ Surplus(archive, Accounts) = share["archive"]
      /\ transcriptionist \in Seq(Row) /\ Surplus(transcriptionist, Accounts) = toScribe
      /\ platform \in Seq(Row) /\ Surplus(platform, Accounts) = toPlatform
  BY <1>2, <1>3, <1>4, SurplusOfCredit
<1>9. IsFiniteSet(Accounts) /\ InCents(Row)
  BY RowsAssumption, RowsInCents DEF RowsAssumption
<1> HIDE DEF paid, archive, transcriptionist, platform
<1>10. /\ two \in Seq(Row)
       /\ Surplus(two, Accounts) = Surplus(paid, Accounts) + Surplus(archive, Accounts)
  BY <1>7, <1>8, <1>9, ConcatTyped, SurplusConcat
<1> HIDE DEF two
<1>11. /\ three \in Seq(Row)
       /\ Surplus(three, Accounts) = Surplus(two, Accounts) + Surplus(transcriptionist, Accounts)
  BY <1>8, <1>9, <1>10, ConcatTyped, SurplusConcat
<1> HIDE DEF three
<1>12. Surplus(SettlementEntries(h), Accounts) = 0
  <2>1. Surplus(SettlementEntries(h), Accounts) = Surplus(three, Accounts) + Surplus(platform, Accounts)
    BY <1>6, <1>8, <1>9, <1>11, SurplusConcat
  <2> QED
    BY <1>1, <1>2, <1>4, <1>7, <1>8, <1>10, <1>11, <2>1
<1>13. SettlementEntries(h) \in Seq(TransactionRow(Accounts))
  BY SettlementRows DEF Row
<1> QED
  BY <1>9, <1>12, <1>13, BalancedIsNoSurplus

(* What is drafted on an authorization, together with the entries still to *)
(* be posted, and what is committed add nothing to the sum of balances.    *)
Due(s, a) == IF pc[s] = "post" /\ a = Current(s) THEN Surplus(entries[s], Accounts) ELSE 0

MoneyAt(s) ==
  pc[s] # "rollback" => \A a \in AuthIds : Surplus(newRows[s][a], Accounts) + Due(s, a) = 0

MoneyOK ==
  /\ \A s \in Sessions : MoneyAt(s)
  /\ \A a \in AuthIds : Surplus(rows[a], Accounts) = 0

LEMMA OthersKeepMoney ==
  ASSUME NEW s \in Sessions, OthersKept(s), OthersDraftKept(s),
         NEW t \in Sessions, t # s, MoneyAt(t)
  PROVE  MoneyAt(t)'
  BY DEF OthersKept, OthersDraftKept, MoneyAt, Due, Current

LEMMA QuietMoney ==
  ASSUME TypeOK, NEW s \in Sessions, MoneyAt(s), newRows'[s] = newRows[s],
         pc[s] \notin {"post", "rollback"}, pc'[s] # "post"
  PROVE  MoneyAt(s)'
  BY DEF MoneyAt, Due

LEMMA NoRowsNoMoney ==
  ASSUME NEW s \in Sessions, \A a \in AuthIds : newRows'[s][a] = <<>>, pc'[s] # "post"
  PROVE  MoneyAt(s)'
<1>1. Surplus(<<>>, Accounts) = 0
  BY RowsAssumption, SurplusEmpty DEF RowsAssumption
<1> QED
  BY <1>1 DEF MoneyAt, Due

LEMMA InsertMoney ==
  ASSUME IInv, NEW s \in Sessions, MoneyAt(s), InsertSettlement(s)
  PROVE  MoneyAt(s)'
<1> USE DEF IInv
<1> DEFINE h == SeenAuth(s, Current(s))
<1>1. /\ pc[s] = "insertSettlement" /\ pc'[s] = "post"
      /\ entries' = [entries EXCEPT ![s] = SettlementEntries(h)]
      /\ UNCHANGED <<newRows, queue>>
  BY Moved DEF InsertSettlement
<1>2. Current(s) \in AuthIds /\ h # None /\ Settleable(h)
  BY <1>1, HandlerFacts DEF CheckedOK, CheckedAt
<1>3. h \in Authorization
  BY <1>2 DEF SeenAuth, TypeOK
<1>4. Surplus(SettlementEntries(h), Accounts) = 0
  BY <1>2, <1>3, SettlementBalances DEF Settleable
<1>5. Surplus(entries'[s], Accounts) = 0
  BY <1>1, <1>4 DEF TypeOK
<1> QED
  BY <1>1, <1>5 DEF MoneyAt, Due

LEMMA ListedMoney ==
  ASSUME IInv, NEW s \in Sessions, MoneyOK, ListRows(s)
  PROVE  MoneyAt(s)'
<1> USE DEF IInv
<1> DEFINE found == rows[Current(s)]
<1>1. /\ pc[s] = "listRows" /\ pc'[s] \in {"post", "rollback"} /\ UNCHANGED <<newRows, queue>>
  BY Moved DEF ListRows, Require
<1>2. Current(s) \in AuthIds
  BY <1>1, HandlerFacts
<1>3. found \in Seq(Row) /\ Surplus(found, Accounts) = 0
  BY <1>2 DEF TypeOK, MoneyOK
<1>4. PICK order \in Bijection(DOMAIN found, DOMAIN found) :
        entries' = [entries EXCEPT ![s] = [i \in DOMAIN found |-> Reversal(found[order[i]])]]
  BY DEF ListRows
<1>5. /\ order \in [DOMAIN found -> DOMAIN found]
      /\ \A y \in DOMAIN found : \E x \in DOMAIN found : order[x] = y
  BY DEF Bijection, Surjection
<1>6. entries'[s] = [i \in DOMAIN found |-> Reversal(found[order[i]])]
  BY <1>4 DEF TypeOK
<1>7. IsFiniteSet(Accounts)
  BY RowsAssumption DEF RowsAssumption
<1> DEFINE offset == [i \in DOMAIN found |-> Reversal(found[order[i]])]
<1> HIDE DEF found
<1>8. Surplus(offset, Accounts) = -Surplus(found, Accounts)
  BY <1>3, <1>5, <1>7, SurplusOfReversals DEF Row
<1> HIDE DEF offset
<1>9. Surplus(entries'[s], Accounts) = 0
  <2>1. entries'[s] = offset
    BY <1>6 DEF offset
  <2>2. Surplus(found, Accounts) \in Int
    BY <1>3
  <2>3. Surplus(found, Accounts) + Surplus(offset, Accounts) = 0
    BY <1>8, <2>2
  <2>4. Surplus(offset, Accounts) \in Int
    BY <1>8, <2>2
  <2> QED
    BY <1>3, <2>1, <2>3, <2>4
<1> QED
  BY <1>1, <1>9 DEF MoneyOK, MoneyAt, Due

LEMMA PostedMoney ==
  ASSUME IInv, NEW s \in Sessions, MoneyAt(s), Posted(s)
  PROVE  MoneyAt(s)'
<1> USE DEF IInv
<1> DEFINE a == Current(s)
           q == entries[s]
           r == newRows[s][a]
<1>1. /\ pc[s] = "post" /\ q # <<>> /\ q \in Seq(Row)
      /\ newRows' = [newRows EXCEPT ![s][a] = Append(@, Head(q))]
      /\ entries' = [entries EXCEPT ![s] = Tail(@)]
  <2>1. PostHead(s) /\ q # <<>>
    BY PostedFacts
  <2>2. q \in Seq(Row)
    BY DEF TypeOK
  <2> QED
    BY <2>1, <2>2 DEF PostHead
<1>2. a \in AuthIds
  BY <1>1, HandlerFacts
<1>3. /\ r \in Seq(Row) /\ entries'[s] = Tail(q) /\ newRows'[s][a] = Append(r, Head(q))
      /\ \A b \in AuthIds : b # a => newRows'[s][b] = newRows[s][b]
  BY <1>1, <1>2 DEF TypeOK
<1>4. \/ pc'[s] = "post" /\ Current(s)' = a
      \/ pc'[s] # "post" /\ Len(q) = 1
  <2>1. CASE PostEntry(s)
    BY <1>1, <2>1 DEF PostEntry, Current
  <2>2. CASE PostLastOfMany(s)
    BY <2>2, Moved DEF PostLastOfMany
  <2>3. CASE PostLast(s)
    BY <2>3, Moved DEF PostLast
  <2>4. CASE PostLastReversal(s)
    BY <2>4, Moved DEF PostLastReversal
  <2> QED
    BY <2>1, <2>2, <2>3, <2>4 DEF Posted
<1>5. Len(q) = 1 => Tail(q) = <<>>
  BY <1>1, TailOfOne
<1>6. IsFiniteSet(Accounts) /\ InCents(Row)
  BY RowsAssumption, RowsInCents DEF RowsAssumption
<1>7. /\ Surplus(r, Accounts) + Surplus(q, Accounts) = 0
      /\ \A b \in AuthIds : b # a => Surplus(newRows[s][b], Accounts) + 0 = 0
  BY <1>1, <1>2 DEF MoneyAt, Due
<1> HIDE DEF a, q, r
<1>8. Surplus(Append(r, Head(q)), Accounts) + Surplus(Tail(q), Accounts) = 0
  BY <1>1, <1>3, <1>6, <1>7, SurplusMoved
<1>9. Surplus(<<>>, Accounts) = 0
  BY <1>6, SurplusEmpty
<1>10. ASSUME NEW b \in AuthIds
       PROVE  Surplus(newRows'[s][b], Accounts)
                + (IF pc'[s] = "post" /\ b = Current(s)' THEN Surplus(entries'[s], Accounts) ELSE 0) = 0
  <2>1. CASE b = a /\ pc'[s] = "post"
    BY <1>3, <1>4, <1>8, <2>1
  <2>2. CASE b = a /\ pc'[s] # "post"
    BY <1>3, <1>4, <1>5, <1>8, <1>9, <2>2
  <2>3. CASE b # a
    BY <1>3, <1>4, <1>7, <2>3
  <2> QED
    BY <2>1, <2>2, <2>3
<1> QED
  BY <1>10 DEF MoneyAt, Due

LEMMA OwnMoney ==
  ASSUME IInv, MoneyOK, NEW s \in Sessions,
         Step(s) \/ Lose(s) \/ \E r \in Requests : Arrive(s, r)
  PROVE  MoneyAt(s)'
<1> USE DEF IInv
<1>1. CASE Reading(s)
  <2>1. /\ newRows' = newRows /\ pc[s] \notin {"post", "rollback"} /\ pc'[s] # "post"
    BY <1>1, Moved
    DEF Reading, LookUpKey, ClaimTaken, RejectPurchase, ReadNew, ReadStatus, ReadAuth,
        ReadSettlement, ReadForRefund, Respond, Require, draft
  <2> QED
    BY <2>1, QuietMoney DEF MoneyOK
<1>2. CASE Claim(s) \/ Purchase(s) \/ CreatePending(s) \/ WriteStatus(s) \/ FlagReversed(s)
  <2>1. /\ newRows' = newRows /\ pc[s] \notin {"post", "rollback"} /\ pc'[s] # "post"
    <3>1. ASSUME Claim(s)
          PROVE  newRows' = newRows /\ pc[s] = "claim" /\ pc'[s] # "post"
      <4>1. pc[s] = "claim" /\ pc'[s] = AfterClaim(s) /\ newRows' = newRows
        BY <3>1, Moved DEF Claim
      <4>2. Kind(s) \in {"purchase"} \cup FromProcessor
        BY <4>1, HandlerFacts DEF KindAt
      <4> QED
        BY <4>1, <4>2 DEF AfterClaim, Kind, FromProcessor, OnRef
    <3> QED
      BY <1>2, <3>1, Moved DEF Purchase, CreatePending, WriteStatus, FlagReversed
  <2> QED
    BY <2>1, QuietMoney DEF MoneyOK
<1>3. CASE InsertSettlement(s) \/ Posted(s) \/ ListRows(s)
  BY <1>3, InsertMoney, PostedMoney, ListedMoney DEF MoneyOK
<1>4. CASE Commit(s) \/ Rollback(s) \/ Aborting(s) \/ Lose(s)
  <2>1. Discard(s) /\ pc'[s] # "post"
    BY <1>4, AbortingAborts, Moved DEF Commit, Rollback, Abort, Lose
  <2>2. \A a \in AuthIds : newRows'[s][a] = <<>>
    BY <2>1 DEF Discard, TypeOK
  <2> QED
    BY <2>1, <2>2, NoRowsNoMoney
<1>5. CASE \E r \in Requests : Arrive(s, r)
  <2>1. PICK r \in Requests : Arrive(s, r)
    BY <1>5
  <2>2. /\ newRows' = newRows /\ pc[s] = "idle" /\ pc'[s] = FirstStep(r.kind)
    BY <2>1, Moved DEF Arrive, draft
  <2>3. r.kind \in Kinds
    BY PaymentsAssumption DEF PaymentsAssumption, RequestType, Kinds, FromProcessor, OnRef
  <2>4. FirstStep(r.kind) # "post"
    BY <2>3 DEF FirstStep, Kinds, FromProcessor, OnRef
  <2> QED
    BY <2>2, <2>4, QuietMoney DEF MoneyOK
<1> QED
  BY <1>1, <1>2, <1>3, <1>4, <1>5, StepCases

LEMMA CommittedMoney ==
  ASSUME IInv, MoneyOK, NEW s \in Sessions, Commit(s), NEW a \in AuthIds
  PROVE  Surplus(rows'[a], Accounts) = 0
<1> USE DEF IInv
<1> DEFINE kept == IF newSettlement[s][a] = "reversed" THEN MarkReversed(rows[a], listed[s])
                                                       ELSE rows[a]
<1>1. rows[a] \in Seq(Row) /\ newRows[s][a] \in Seq(Row) /\ listed[s] \in Nat
  BY DEF TypeOK
<1>2. kept \in Seq(Row) /\ Surplus(kept, Accounts) = Surplus(rows[a], Accounts)
  BY <1>1, MarkReversedTyped, SurplusOfFlagged DEF Row
<1>3. rows'[a] = kept \o newRows[s][a]
  BY DEF Commit, CommittedRows
<1>4. Surplus(rows[a], Accounts) = 0 /\ Surplus(newRows[s][a], Accounts) = 0
  <2>1. pc[s] = "commit" /\ MoneyAt(s)
    BY DEF Commit, MoneyOK
  <2>2. InCents(Row) /\ IsFiniteSet(Accounts)
    BY RowsInCents, RowsAssumption DEF RowsAssumption
  <2>3. Surplus(newRows[s][a], Accounts) \in Int
    BY <1>1, <2>2, SurplusIsSum
  <2> QED
    BY <2>1, <2>3 DEF MoneyOK, MoneyAt, Due
<1>5. InCents(Row) /\ IsFiniteSet(Accounts)
  BY RowsInCents, RowsAssumption DEF RowsAssumption
<1> HIDE DEF kept
<1> QED
  BY <1>1, <1>2, <1>3, <1>4, <1>5, SurplusConcat

LEMMA MoneyStep ==
  ASSUME IInv, MoneyOK, [Next]_vars
  PROVE  MoneyOK'
<1> USE DEF IInv
<1>1. ASSUME NEW s \in Sessions, Step(s) \/ Lose(s) \/ \E r \in Requests : Arrive(s, r)
      PROVE  MoneyOK'
  <2>1. OthersKept(s) /\ OthersDraftKept(s) /\ (UNCHANGED tables \/ Commit(s))
    BY <1>1, KeepsOthers, KeepsOtherDrafts, TablesKept
  <2>2. \A t \in Sessions : MoneyAt(t)'
    <3>1. MoneyAt(s)'
      BY <1>1, OwnMoney
    <3> QED
      BY <2>1, <3>1, OthersKeepMoney DEF MoneyOK
  <2>3. \A a \in AuthIds : Surplus(rows'[a], Accounts) = 0
    <3>1. CASE UNCHANGED tables
      BY <3>1 DEF tables, MoneyOK
    <3> QED
      BY <2>1, <3>1, CommittedMoney
  <2> QED
    BY <2>2, <2>3 DEF MoneyOK
<1>2. CASE UNCHANGED vars
  BY <1>2 DEF vars, tables, draft, handler, MoneyOK, MoneyAt, Due, Current
<1> QED
  BY <1>1, <1>2 DEF Next, AllServed

LEMMA PastMoney ==
  ASSUME NEW a \in AuthIds
  PROVE  PastRows(a) \in Seq(Row) /\ Surplus(PastRows(a), Accounts) = 0
<1>1. CASE WasSettled(a)
  <2>1. PastAuth(a) \in Authorization
    BY <1>1, PastTyped DEF WasSettled
  <2>2. Settleable(PastAuth(a))
    BY <1>1, PastAssumption DEF PastAssumption
  <2> QED
    BY <1>1, <2>1, <2>2, EntriesTyped, SettlementBalances DEF Settleable, PastRows
<1>2. CASE ~ WasSettled(a)
  BY <1>2, RowsAssumption, SurplusEmpty DEF PastRows, RowsAssumption
<1> QED
  BY <1>1, <1>2

LEMMA MoneyInit ==
  Init => MoneyOK
<1> SUFFICES ASSUME Init PROVE MoneyOK
  OBVIOUS
<1>1. Surplus(<<>>, Accounts) = 0
  BY RowsAssumption, SurplusEmpty DEF RowsAssumption
<1>2. \A s \in Sessions : MoneyAt(s)
  BY <1>1 DEF Init, MoneyAt, Due
<1> QED
  BY <1>2, PastMoney DEF MoneyOK, Init

(* Nothing that a settlement or a refund posts, drafted or committed,      *)
(* makes or loses a cent (post_entries).                                   *)
THEOREM MoneyMoves == Spec => []MoneyOK
<1>1. Init => MoneyOK
  BY MoneyInit
<1>2. IInv /\ MoneyOK /\ [Next]_vars => MoneyOK'
  BY MoneyStep
<1> QED
  BY <1>1, <1>2, Invariant, PTL DEF Spec

(* post_entries never refuses what a settlement or a refund hands it: the  *)
(* entries of an authorization balance whatever its amount, the split and  *)
(* the accounts that are missing, and so do the rows a refund finds.       *)
THEOREM BooksNeverUnbalanced == Spec => []NeverUnbalanced
<1>1. ASSUME IInv, MoneyOK PROVE NeverUnbalanced
  <2> USE <1>1 DEF IInv
  <2>1. ASSUME NEW s \in Sessions, pc[s] = "readSettlement",
               Splittable(SeenAuth(s, Current(s)).amount), HasAccounts(SeenAuth(s, Current(s)))
        PROVE  Balanced(SettlementEntries(SeenAuth(s, Current(s))))
    <3>1. Current(s) \in AuthIds /\ SeenAuth(s, Current(s)) # None
      BY <2>1, HandlerFacts DEF CheckedOK, CheckedAt
    <3>2. SeenAuth(s, Current(s)) \in Authorization
      BY <3>1 DEF SeenAuth, TypeOK
    <3> QED
      BY <2>1, <3>2, SettlementBalances
  <2>2. ASSUME NEW s \in Sessions, pc[s] = "listRows"
        PROVE  Balanced(rows[Current(s)])
    <3>1. Current(s) \in AuthIds
      BY <2>2, HandlerFacts
    <3>2. rows[Current(s)] \in Seq(TransactionRow(Accounts))
      BY <3>1 DEF TypeOK, Row
    <3>3. Surplus(rows[Current(s)], Accounts) = 0 /\ IsFiniteSet(Accounts)
      BY <3>1, RowsAssumption DEF MoneyOK, RowsAssumption
    <3> QED
      BY <3>2, <3>3, BalancedIsNoSurplus
  <2> QED
    BY <2>1, <2>2 DEF NeverUnbalanced
<1> QED
  BY <1>1, Invariant, MoneyMoves, PTL

(* Balances that show, account by account, what rows add up to add up to   *)
(* nothing when the rows of each authorization do.                         *)
LEMMA NoMoneyInRows ==
  ASSUME NEW table \in [AuthIds -> Seq(Row)], NEW held, DOMAIN held = Accounts,
         \A c \in Accounts : held[c] = Total(table, c),
         \A a \in AuthIds : Surplus(table[a], Accounts) = 0
  PROVE  SumFunction(held) = 0
<1> DEFINE f == [a \in AuthIds |-> [c \in Accounts |-> NetOf(table[a], c)]]
           across == [a \in AuthIds |-> SumOver(f[a], Accounts)]
           columns == [c \in Accounts |-> SumOver([a \in AuthIds |-> f[a][c]], AuthIds)]
<1>1. IsFiniteSet(Accounts) /\ IsFiniteSet(AuthIds)
  BY RowsAssumption, FiniteAuthIds DEF RowsAssumption
<1>2. f \in [AuthIds -> [Accounts -> Int]]
  <2>1. \A a \in AuthIds, c \in Accounts : NetOf(table[a], c) \in Int
    BY RowsInCents, NetTyped
  <2> QED
    BY <2>1
<1>3. \A a \in AuthIds : across[a] = 0
  BY DEF Surplus
<1>4. \A c \in Accounts : held[c] = columns[c] /\ held[c] \in Int
  <2>1. ASSUME NEW c \in Accounts PROVE held[c] = columns[c] /\ held[c] \in Int
    <3>1. [a \in AuthIds |-> f[a][c]] = Nets(table, c)
      BY DEF Nets
    <3> QED
      BY <3>1, NetsAreInts
  <2> QED
    BY <2>1
<1>5. SumFunction(held) = SumOver(held, Accounts)
  BY SumFunctionIsSumOver
<1>6. /\ across = [a \in AuthIds |-> SumOver(f[a], Accounts)]
      /\ columns = [c \in Accounts |-> SumOver([a \in AuthIds |-> f[a][c]], AuthIds)]
  OBVIOUS
<1> HIDE DEF f, across, columns
<1>7. SumOver(columns, Accounts) = 0
  <2>1. SumOver(across, AuthIds) = SumOver(columns, Accounts)
    <3>1. SumOver([a \in AuthIds |-> SumOver(f[a], Accounts)], AuthIds)
            = SumOver([c \in Accounts |-> SumOver([a \in AuthIds |-> f[a][c]], AuthIds)], Accounts)
      <4>1. ASSUME NEW S, NEW T, IsFiniteSet(S), IsFiniteSet(T), NEW g \in [S -> [T -> Int]]
            PROVE  SumOver([a \in S |-> SumOver(g[a], T)], S)
                     = SumOver([c \in T |-> SumOver([a \in S |-> g[a][c]], S)], T)
        BY ONLY <4>1, SumsExchange
      <4> QED
        BY ONLY <1>1, <1>2, <4>1
    <3> QED
      BY <1>6, <3>1
  <2> QED
    BY <1>1, <1>3, <2>1, SumOfZeros
<1>8. \A c \in Accounts : columns[c] = held[c]
  BY <1>4
<1>9. IntsOn(held, Accounts)
  BY <1>4 DEF IntsOn
<1>10. SumOver(columns, Accounts) = SumOver(held, Accounts)
  BY <1>1, <1>8, <1>9, SumEqual
<1> QED
  BY <1>5, <1>7, <1>10

(* The sum of all balances never changes: what a researcher pays is what   *)
(* the others are credited, whichever requests fail, are lost or are       *)
(* refunded (post_entries, adjust_balance, get_db).                        *)
THEOREM MoneyConserved == Spec => []MoneyIsConserved
<1>1. ASSUME TypeOK, SumsOK, MoneyOK PROVE SumFunction(balance) = 0
  <2>1. rows \in [AuthIds -> Seq(Row)] /\ DOMAIN balance = Accounts
    BY <1>1 DEF TypeOK
  <2>2. \A c \in Accounts : balance[c] = Total(rows, c)
    BY <1>1, SumsAreTotals
  <2>3. \A a \in AuthIds : Surplus(rows[a], Accounts) = 0
    BY <1>1 DEF MoneyOK
  <2> QED
    BY <2>1, <2>2, <2>3, NoMoneyInRows
<1>2. SumFunction(Opening) = 0
  <2> DEFINE past == [a \in AuthIds |-> PastRows(a)]
  <2>1. past \in [AuthIds -> Seq(Row)] /\ \A a \in AuthIds : Surplus(past[a], Accounts) = 0
    BY PastMoney
  <2>2. DOMAIN Opening = Accounts
    BY PaymentsAssumption DEF PaymentsAssumption
  <2>3. \A c \in Accounts : Opening[c] = Total(past, c)
    <3>1. \A c : Nets(past, c) = [a \in AuthIds |-> NetOf(PastRows(a), c)]
      BY DEF Nets
    <3> QED
      BY <3>1, PastAssumption DEF PastAssumption, Total
  <2> HIDE DEF past
  <2> QED
    BY <2>1, <2>2, <2>3, NoMoneyInRows
<1>3. TypeOK /\ SumsOK /\ MoneyOK => MoneyIsConserved
  BY <1>1, <1>2 DEF MoneyIsConserved
<1> QED
  BY <1>3, TypeCorrect, BooksBalance, MoneyMoves, PTL
=============================================================================
