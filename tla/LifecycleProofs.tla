---------------------------- MODULE LifecycleProofs ----------------------------
(***************************************************************************)
(* An authorization moves through the stages of Lifecycle and in no other  *)
(* way: decided once, settled only when authorized, and an event_id is     *)
(* recorded exactly when what it announced has happened.  Also proved: all *)
(* who hear an answer to one Idempotency-Key hear the same.                *)
(***************************************************************************)
EXTENDS BooksProofs

Decisions == {"approved", "declined"}

(* The code checks the status of an authorization and writes it in two     *)
(* statements without a row lock.  What keeps two decisions apart is that  *)
(* the processor sends one at a time or that the database has one writer.  *)
DecisionsInTurn == Engine = "sqlite" \/ Decisions \subseteq Serial

(* An event_id names one event of the processor (a redelivery is the same  *)
(* request again).                                                         *)
UniqueEvents ==
  \A q, r \in Requests :
    (q.kind \in FromProcessor /\ r.kind \in FromProcessor /\ q.event = r.event) => q = r

-----------------------------------------------------------------------------
(* The inductive invariants.                                               *)

(* An authorization is created once, and decided only when it is there; an *)
(* event_id that is being recorded is not recorded yet.                    *)
NewAt(s) ==
  /\ \A a \in AuthIds : newAuth[s][a] # None =>
       /\ Kind(s) = "created" => auth[a] = None
       /\ Kind(s) \in Decisions => auth[a] # None
  /\ claim[s] \in Events => claim[s] \notin processed

NewOK == \A s \in Sessions : NewAt(s)

Pending(h)  == h # None /\ IsPending(h)
Approved(h) == h # None /\ IsAuthorized(h)

(* A decision is taken on what is still pending, and what a session        *)
(* settles or has checked for settling stays authorized.                   *)
DecidingAt(s) ==
  /\ pc[s] = "writeStatus" => Pending(auth[Current(s)])
  /\ \A a \in AuthIds :
       (newAuth[s][a] # None /\ Kind(s) \in Decisions) => Pending(auth[a])

ApprovedAt(s) ==
  /\ pc[s] \in {"readSettlement", "insertSettlement"} => Approved(SeenAuth(s, Current(s)))
  /\ \A a \in AuthIds :
       (Live(s) /\ newSettlement[s][a] = "settled") => Approved(SeenAuth(s, a))

DecisionOK ==
  /\ \A s \in Sessions : DecidingAt(s) /\ ApprovedAt(s)
  /\ \A a \in AuthIds : settlement[a] # "none" => Approved(auth[a])

(* What a client is told under a key is what is, or will be, stored there. *)
AnswerAt(s) ==
  LET k == req[s].key IN
  IsPurchase(s) =>
    /\ (pc[s] \in {"respond", "commit"} /\ reply[s] = "ok") =>
         \/ claim[s] = k /\ result[s] = s
         \/ claim[s] = None /\ result[s] # None /\ answer[k] = result[s]
    /\ (pc[s] = "done" /\ reply[s] = "ok") => result[s] # None /\ answer[k] = result[s]
    /\ pc[s] = "rollback" => reply[s] # "ok"

AnswerOK == \A s \in Sessions : AnswerAt(s)

-----------------------------------------------------------------------------
(* Authorizations are created once, and events recorded once.              *)

(* Where a written authorization comes from. *)
LEMMA DraftedAuth ==
  ASSUME IInv, NEW s \in Sessions,
         Step(s) \/ Lose(s) \/ \E r \in Requests : Arrive(s, r),
         NEW a \in AuthIds, newAuth'[s][a] # None
  PROVE  /\ UNCHANGED tables /\ Kind(s)' = Kind(s) /\ pc[s] # "idle"
         /\ \/ newAuth'[s][a] = newAuth[s][a]
            \/ Purchase(s) /\ Kind(s) \in Buying
            \/ CreatePending(s) /\ Kind(s) = "created" /\ a = Current(s)
            \/ WriteStatus(s) /\ Kind(s) \in Decisions /\ a = Current(s)
<1> USE DEF IInv
<1>1. CASE Commit(s) \/ Rollback(s) \/ Aborting(s) \/ Lose(s)
  <2>1. Discard(s)
    BY <1>1, AbortingAborts DEF Commit, Rollback, Abort, Lose
  <2> QED
    BY <2>1 DEF Discard, TypeOK, NoWrites
<1>2. CASE \E r \in Requests : Arrive(s, r)
  <2>1. pc[s] = "idle" /\ newAuth' = newAuth
    BY <1>2 DEF Arrive, draft
  <2> QED
    BY <2>1 DEF HandlerOK, HandlerAt, EarlySteps, NoWrites
<1>3. CASE Reading(s)
  <2>1. UNCHANGED <<tables, newAuth, req>> /\ pc[s] # "idle"
    BY <1>3
    DEF Reading, LookUpKey, ClaimTaken, RejectPurchase, ReadNew, ReadStatus, ReadAuth,
        ReadSettlement, ReadForRefund, Respond, draft, handler
  <2> QED
    BY <2>1 DEF Kind
<1>4. CASE Posted(s)
  <2>1. UNCHANGED <<tables, newAuth, req>> /\ pc[s] # "idle"
    BY <1>4 DEF Posted, PostEntry, PostLastOfMany, PostLast, PostLastReversal, PostHead
  <2> QED
    BY <2>1 DEF Kind
<1>5. CASE Claim(s) \/ InsertSettlement(s) \/ ListRows(s) \/ FlagReversed(s)
  <2>1. UNCHANGED <<tables, newAuth, req>> /\ pc[s] # "idle"
    BY <1>5 DEF Claim, InsertSettlement, ListRows, FlagReversed, handler
  <2> QED
    BY <2>1 DEF Kind
<1>6. CASE Purchase(s)
  BY <1>6 DEF Purchase, Kind, Buying, handler
<1>7. CASE CreatePending(s)
  <2>1. /\ UNCHANGED <<tables, req>> /\ pc[s] = "insertAuth" /\ Kind(s) = "created"
        /\ Kind(s)' = Kind(s)
    BY <1>7 DEF CreatePending, Kind, handler
  <2>2. PICK h : newAuth' = [newAuth EXCEPT ![s][Current(s)] = h]
    BY <1>7 DEF CreatePending, WriteAuth
  <2>3. a # Current(s) => newAuth'[s][a] = newAuth[s][a]
    BY <2>2 DEF TypeOK
  <2> QED
    BY <1>7, <2>1, <2>3
<1>8. CASE WriteStatus(s)
  <2>1. /\ UNCHANGED <<tables, req>> /\ pc[s] = "writeStatus" /\ Kind(s)' = Kind(s)
    BY <1>8 DEF WriteStatus, Kind, handler
  <2>2. Kind(s) \in Decisions
    BY <2>1, HandlerFacts DEF KindAt, Decisions
  <2>3. PICK h : newAuth' = [newAuth EXCEPT ![s][Current(s)] = h]
    BY <1>8 DEF WriteStatus, WriteAuth
  <2>4. a # Current(s) => newAuth'[s][a] = newAuth[s][a]
    BY <2>3 DEF TypeOK
  <2> QED
    BY <1>8, <2>1, <2>2, <2>4
<1> QED
  BY <1>1, <1>2, <1>3, <1>4, <1>5, <1>6, <1>7, <1>8, StepCases

(* Where a recorded event or key comes from. *)
LEMMA DraftedClaim ==
  ASSUME IInv, NEW s \in Sessions,
         Step(s) \/ Lose(s) \/ \E r \in Requests : Arrive(s, r), claim'[s] # None
  PROVE  /\ UNCHANGED tables
         /\ claim'[s] = claim[s] \/ (Claim(s) /\ claim'[s] = ClaimValue(s))
<1> USE DEF IInv
<1>1. CASE Commit(s) \/ Rollback(s) \/ Aborting(s) \/ Lose(s)
  <2>1. Discard(s)
    BY <1>1, AbortingAborts DEF Commit, Rollback, Abort, Lose
  <2> QED
    BY <2>1 DEF Discard, TypeOK
<1>2. CASE Reading(s)
  BY <1>2
  DEF Reading, LookUpKey, ClaimTaken, RejectPurchase, ReadNew, ReadStatus, ReadAuth,
      ReadSettlement, ReadForRefund, Respond, draft
<1>3. CASE Posted(s)
  BY <1>3 DEF Posted, PostEntry, PostLastOfMany, PostLast, PostLastReversal, PostHead
<1>4. CASE InsertSettlement(s) \/ ListRows(s) \/ FlagReversed(s)
  BY <1>4 DEF InsertSettlement, ListRows, FlagReversed
<1>5. CASE Purchase(s) \/ CreatePending(s) \/ WriteStatus(s)
  BY <1>5 DEF Purchase, CreatePending, WriteStatus
<1>6. CASE \E r \in Requests : Arrive(s, r)
  BY <1>6 DEF Arrive, draft
<1>7. CASE Claim(s)
  BY <1>7 DEF Claim, TypeOK
<1> QED
  BY <1>1, <1>2, <1>3, <1>4, <1>5, <1>6, <1>7, StepCases

(* A claim or a creation finds nothing committed under its key: the lock.  *)
LEMMA OwnNew ==
  ASSUME IInv, NEW s \in Sessions, NewAt(s),
         Step(s) \/ Lose(s) \/ \E r \in Requests : Arrive(s, r)
  PROVE  NewAt(s)'
<1> USE DEF IInv
<1>1. ASSUME NEW a \in AuthIds, newAuth'[s][a] # None
      PROVE  /\ Kind(s)' = "created" => auth'[a] = None
             /\ Kind(s)' \in Decisions => auth'[a] # None
  <2>1. Kind(s)' = Kind(s) /\ auth' = auth
    BY <1>1, DraftedAuth DEF tables
  <2>2. CASE newAuth'[s][a] = newAuth[s][a]
    BY <1>1, <2>1, <2>2 DEF NewAt
  <2>3. CASE Purchase(s) /\ Kind(s) \in Buying
    BY <2>1, <2>3 DEF Buying, Decisions
  <2>4. CASE CreatePending(s) /\ Kind(s) = "created" /\ a = Current(s)
    BY <2>1, <2>4 DEF CreatePending, Decisions
  <2>5. CASE WriteStatus(s) /\ Kind(s) \in Decisions /\ a = Current(s)
    BY <2>1, <2>5 DEF WriteStatus, CheckedOK, CheckedAt, Decisions
  <2> QED
    BY <1>1, <2>2, <2>3, <2>4, <2>5, DraftedAuth
<1>2. ASSUME claim'[s] \in Events PROVE claim'[s] \notin processed'
  <2>1. claim'[s] # None
    BY <1>2, NoneIsNothing
  <2>2. processed' = processed
    BY <2>1, DraftedClaim DEF tables
  <2>3. CASE claim'[s] = claim[s]
    BY <1>2, <2>2, <2>3 DEF NewAt
  <2>4. CASE Claim(s) /\ claim'[s] = ClaimValue(s)
    <3>1. pc[s] = "claim" /\ ~ Claimed(s)
      BY <2>4 DEF Claim
    <3>2. req[s].kind # "purchase"
      <4>1. ASSUME req[s].kind = "purchase" PROVE FALSE
        <5>1. claim'[s] \in Keys
          BY <2>4, <3>1, <4>1, HandlerFacts, RequestFields DEF ClaimValue
        <5> QED
          BY <1>2, <5>1, PaymentsAssumption DEF PaymentsAssumption
      <4> QED
        BY <4>1
    <3> QED
      BY <2>2, <2>4, <3>1, <3>2 DEF Claimed, ClaimValue
  <2> QED
    BY <2>1, <2>3, <2>4, DraftedClaim
<1> QED
  BY <1>1, <1>2 DEF NewAt

LEMMA OthersKeepNew ==
  ASSUME IInv, NEW s \in Sessions, OthersKept(s), UNCHANGED tables \/ Commit(s),
         NEW t \in Sessions, t # s, NewAt(t)
  PROVE  NewAt(t)'
<1> USE DEF IInv
<1>1. Kind(t)' = Kind(t) /\ newAuth'[t] = newAuth[t] /\ claim'[t] = claim[t]
  BY DEF OthersKept, Kind
<1>2. ASSUME NEW a \in AuthIds, newAuth[t][a] # None PROVE auth'[a] = auth[a]
  BY <1>2, AuthAfter, OneWriter
<1>3. ASSUME claim[t] \in Events PROVE claim[t] \notin processed'
  <2>1. claim[t] # claim[s]
    BY <1>3 DEF WritesAreLocked
  <2>2. processed' = processed \/ processed' = processed \cup ({claim[s]} \cap Events)
    BY DEF tables, Commit
  <2> QED
    BY <1>3, <2>1, <2>2 DEF NewAt
<1> QED
  BY <1>1, <1>2, <1>3 DEF NewAt

LEMMA NewStep ==
  ASSUME IInv, NewOK, [Next]_vars
  PROVE  NewOK'
<1> USE DEF IInv
<1>1. ASSUME NEW s \in Sessions, Step(s) \/ Lose(s) \/ \E r \in Requests : Arrive(s, r)
      PROVE  NewOK'
  <2>1. OthersKept(s) /\ (UNCHANGED tables \/ Commit(s))
    BY <1>1, KeepsOthers, TablesKept
  <2>2. NewAt(s)'
    BY <1>1, OwnNew DEF NewOK
  <2> QED
    BY <2>1, <2>2, OthersKeepNew DEF NewOK
<1>2. CASE UNCHANGED vars
  BY <1>2 DEF vars, tables, draft, handler, NewOK, NewAt, Kind
<1> QED
  BY <1>1, <1>2 DEF Next, AllServed

(* A created authorization is new, a decided one is there, and an event_id *)
(* is recorded by one session at most (try_claim's unique constraint).     *)
THEOREM CreatedOnce == Spec => []NewOK
<1>1. Init => NewOK
  BY NoneIsNothing DEF Init, NewOK, NewAt, NoWrites
<1>2. IInv /\ NewOK /\ [Next]_vars => NewOK'
  BY NewStep
<1> QED
  BY <1>1, <1>2, Invariant, PTL DEF Spec

-----------------------------------------------------------------------------
(* Decided once.                                                           *)

(* Whose authorization a commit writes. *)
LEMMA CommittedAuth ==
  ASSUME IInv, DraftOK, NEW s \in Sessions, Commit(s),
         NEW a \in AuthIds, newAuth[s][a] # None
  PROVE  /\ Open(s) /\ Complete(s)
         /\ \/ Kind(s) \in Buying /\ a = s /\ auth[a] = None
            \/ Kind(s) \in OnRef /\ a \in Refs /\ a = req[s].ref /\ a \in Range(queue[s])
<1> USE DEF IInv
<1>1. pc[s] = "commit" /\ Open(s)
  BY DEF Commit, Open
<1>2. Complete(s)
  BY <1>1 DEF DraftOK, DraftAt, Finished, Nothing, NoWrites
<1>3. a \in Writes(s)
  BY <1>2 DEF Complete
<1>4. auth[s] = None
  BY <1>1, KeysAtAll DEF KeysAt
<1>5. CASE Kind(s) \in Buying
  BY <1>1, <1>2, <1>3, <1>4, <1>5 DEF Writes
<1>6. CASE Kind(s) \notin Buying
  <2>1. Kind(s) \in OnRef /\ a = req[s].ref
    BY <1>3, <1>6 DEF Writes
  <2>2. queue[s] = <<a>> /\ a \in Refs
    BY <1>1, <2>1, HandlerFacts DEF QueueAt
  <2> QED
    BY <1>1, <1>2, <2>1, <2>2, RangeOfOne
<1> QED
  BY <1>5, <1>6

(* What a session has written to an authorization is committed onto        *)
(* nothing or onto a pending one.                                          *)
LEMMA Undecided ==
  ASSUME IInv, DraftOK, NewOK, DecisionOK, NEW s \in Sessions, Commit(s),
         NEW a \in AuthIds, newAuth[s][a] # None
  PROVE  auth[a] = None \/ Pending(auth[a])
<1>1. CASE Kind(s) \in Buying
  BY <1>1, CommittedAuth DEF Buying, OnRef
<1>2. CASE Kind(s) \in OnRef
  BY <1>2 DEF OnRef, Decisions, NewOK, NewAt, DecisionOK, DecidingAt
<1> QED
  BY <1>1, <1>2, CommittedAuth

(* What is approved stays as it is. *)
LEMMA ApprovedStays ==
  ASSUME IInv, DraftOK, NewOK, DecisionOK, NEW s \in Sessions, UNCHANGED tables \/ Commit(s),
         NEW a \in AuthIds
  PROVE  /\ (auth[a] # None /\ ~ IsPending(auth[a])) => auth'[a] = auth[a]
         /\ Approved(auth[a]) => Approved(auth'[a])
<1>1. (auth[a] # None /\ ~ IsPending(auth[a])) => auth'[a] = auth[a]
  BY AuthAfter, Undecided DEF Pending
<1>2. IsAuthorized(auth[a]) => ~ IsPending(auth[a])
  BY DEF IsAuthorized, IsPending
<1> QED
  BY <1>1, <1>2 DEF Approved

(* Between the read of a pending status and its update nobody commits      *)
(* another decision: this is where DecisionsInTurn is needed.              *)
LEMMA NoOtherDecision ==
  ASSUME IInv, DraftOK, NewOK, InTurnOK, DecisionsInTurn,
         NEW s \in Sessions, Commit(s), NEW t \in Sessions, t # s,
         pc[t] = "writeStatus", Pending(auth[Current(t)])
  PROVE  newAuth[s][Current(t)] = None
<1> USE DEF IInv
<1> DEFINE a == Current(t)
<1>1. /\ Kind(t) \in Decisions /\ a \in Refs /\ a \in AuthIds /\ a \notin Sessions
      /\ req[t] \in Requests /\ Open(t)
  BY HandlerFacts, SessionsAreAuthIds DEF KindAt, Decisions, OnRef, Open
<1>2. a \in Range(queue[t])
  <2>1. queue[t] = <<a>>
    BY <1>1, HandlerFacts DEF QueueAt, OnRef, Decisions, Current
  <2> QED
    BY <2>1, RangeOfOne
<1>3. req[t].event \in Events
  BY <1>1, RequestFields DEF Kind, Decisions, FromProcessor, OnRef
<1>4. claim[t] = req[t].event
  BY <1>1 DEF DraftOK, DraftAt, Before, Claims, Decisions, FromProcessor, OnRef
<1> HIDE DEF a
<1> SUFFICES ASSUME newAuth[s][a] # None PROVE FALSE
  BY DEF a
<1>5. Open(s) /\ Kind(s) \in OnRef /\ a \in Range(queue[s])
  BY <1>1, CommittedAuth
<1>6. Kind(s) \in Decisions
  BY <1>1, <1>5 DEF OnRef, Decisions, NewOK, NewAt, Pending, a
<1>7. CASE Decisions \subseteq Serial
  BY <1>1, <1>2, <1>5, <1>6, <1>7 DEF InTurnOK
<1>8. CASE Engine = "sqlite"
  <2>1. holder[LockOf(<<"auth", a>>)] = s /\ holder[LockOf(<<"event", claim[t]>>)] = t
    BY <1>1, <1>3, <1>4 DEF WritesAreLocked
  <2> QED
    BY <1>8, <2>1 DEF LockOf
<1> QED
  BY <1>7, <1>8 DEF DecisionsInTurn

(* What a session has read of a status outlives the commits of others.     *)
LEMMA OthersKeepDeciding ==
  ASSUME IInv, DraftOK, NewOK, InTurnOK, DecisionsInTurn, DecisionOK,
         NEW s \in Sessions, OthersKept(s), OthersDraftKept(s), UNCHANGED tables \/ Commit(s),
         NEW t \in Sessions, t # s
  PROVE  DecidingAt(t)' /\ ApprovedAt(t)'
<1> USE DEF IInv
<1>1. /\ pc'[t] = pc[t] /\ newAuth'[t] = newAuth[t] /\ newSettlement'[t] = newSettlement[t]
      /\ Current(t)' = Current(t) /\ Live(t)' = Live(t) /\ Kind(t)' = Kind(t)
  BY DEF OthersKept, OthersDraftKept, Current, Live, Kind
<1>2. DecidingAt(t) /\ ApprovedAt(t)
  BY DEF DecisionOK
<1>3. ASSUME pc[t] = "writeStatus" PROVE Pending(auth'[Current(t)])
  <2>1. Pending(auth[Current(t)]) /\ Current(t) \in AuthIds
    BY <1>2, <1>3, HandlerFacts DEF DecidingAt
  <2>2. Commit(s) => newAuth[s][Current(t)] = None
    BY <1>3, <2>1, NoOtherDecision
  <2> QED
    BY <2>1, <2>2, AuthAfter
<1>4. ASSUME NEW a \in AuthIds, newAuth[t][a] # None PROVE auth'[a] = auth[a]
  BY <1>4, AuthAfter, OneWriter
<1>5. DecidingAt(t)'
  BY <1>1, <1>2, <1>3, <1>4 DEF DecidingAt
<1>6. ASSUME NEW a \in AuthIds, Approved(SeenAuth(t, a)) PROVE Approved(SeenAuth(t, a)')
  BY <1>1, <1>6, ApprovedStays DEF SeenAuth
<1>7. pc[t] \in {"readSettlement", "insertSettlement"} => Current(t) \in AuthIds
  BY HandlerFacts
<1>8. ApprovedAt(t)'
  BY <1>1, <1>2, <1>6, <1>7 DEF ApprovedAt, SeenAuth
<1> QED
  BY <1>5, <1>8

(* How a session gets to the statements that rely on a check. *)
LEMMA CheckedBefore ==
  ASSUME IInv, NEW s \in Sessions,
         Step(s) \/ Lose(s) \/ \E r \in Requests : Arrive(s, r)
  PROVE  /\ pc'[s] = "writeStatus" => ReadStatus(s)
         /\ pc'[s] = "readSettlement" => ReadAuth(s)
         /\ pc'[s] = "insertSettlement" => ReadSettlement(s)
<1> USE DEF IInv
<1>1. CASE Lose(s)
  BY <1>1, Moved DEF Lose
<1>2. CASE \E r \in Requests : Arrive(s, r)
  <2>1. PICK r \in Requests : Arrive(s, r)
    BY <1>2
  <2>2. pc'[s] = FirstStep(r.kind) /\ r.kind \in Kinds
    BY <2>1, Moved, RequestFields DEF Arrive
  <2> QED
    BY <2>2 DEF FirstStep, Kinds, FromProcessor, OnRef
<1>3. CASE Step(s)
  <2>1. Follows(s)
    BY <1>3, StepFollows
  <2>2. Aborting(s) => pc'[s] = "rollback"
    BY AbortingAborts, Moved DEF Abort
  <2>3. pc[s] = "claim" => AfterClaim(s) \notin {"writeStatus", "readSettlement", "insertSettlement"}
    <3>1. pc[s] = "claim" => Kind(s) \in {"purchase"} \cup FromProcessor
      BY HandlerFacts DEF KindAt
    <3> QED
      BY <3>1 DEF AfterClaim, Kind, FromProcessor, OnRef
  <2>4. /\ pc'[s] = "writeStatus" => pc[s] = "readStatus"
        /\ pc'[s] = "readSettlement" => pc[s] = "readAuth"
        /\ pc'[s] = "insertSettlement" => pc[s] = "readSettlement"
    BY <2>1, <2>3 DEF Follows, Goes, Ended
  <2> QED
    BY <1>3, <2>2, <2>4, StepAt
<1> QED
  BY <1>1, <1>2, <1>3

LEMMA OwnDeciding ==
  ASSUME IInv, NEW s \in Sessions, DecidingAt(s),
         Step(s) \/ Lose(s) \/ \E r \in Requests : Arrive(s, r)
  PROVE  DecidingAt(s)'
<1> USE DEF IInv
<1>1. ASSUME pc'[s] = "writeStatus" PROVE Pending(auth'[Current(s)'])
  <2>1. ReadStatus(s)
    BY <1>1, CheckedBefore
  <2>2. /\ pc[s] = "readStatus" /\ UNCHANGED <<tables, queue>>
        /\ Pending(SeenAuth(s, Current(s)))
    BY <1>1, <2>1, Moved DEF ReadStatus, Require, Pending, handler
  <2>3. newAuth[s] = NoWrites /\ Current(s) \in AuthIds
    BY <2>2, HandlerFacts DEF HandlerOK, HandlerAt, EarlySteps
  <2> QED
    BY <2>2, <2>3 DEF SeenAuth, NoWrites, Current, tables
<1>2. ASSUME NEW a \in AuthIds, newAuth'[s][a] # None, Kind(s)' \in Decisions
      PROVE  Pending(auth'[a])
  <2>1. auth' = auth /\ Kind(s)' = Kind(s)
    BY <1>2, DraftedAuth DEF tables
  <2>2. CASE newAuth'[s][a] = newAuth[s][a]
    BY <1>2, <2>1, <2>2 DEF DecidingAt
  <2>3. CASE WriteStatus(s) /\ a = Current(s)
    BY <2>1, <2>3 DEF WriteStatus, DecidingAt
  <2> QED
    BY <1>2, <2>1, <2>2, <2>3, DraftedAuth DEF Buying, Decisions
<1> QED
  BY <1>1, <1>2 DEF DecidingAt

(* Where a drafted settlement comes from. *)
LEMMA DraftedSettlement ==
  ASSUME IInv, NEW s \in Sessions, DraftAt(s),
         Step(s) \/ Lose(s) \/ \E r \in Requests : Arrive(s, r),
         Live(s)', NEW a \in AuthIds, newSettlement'[s][a] = "settled"
  PROVE  /\ UNCHANGED tables /\ newAuth'[s] = newAuth[s]
         /\ \/ Live(s) /\ newSettlement[s][a] = "settled"
            \/ InsertSettlement(s) /\ a = Current(s)
<1> USE DEF IInv
<1>1. CASE Commit(s) \/ Rollback(s) \/ Aborting(s) \/ Lose(s)
  <2>1. Discard(s)
    BY <1>1, AbortingAborts DEF Commit, Rollback, Abort, Lose
  <2> QED
    BY <2>1 DEF Discard, TypeOK
<1>2. CASE \/ Claim(s) \/ Purchase(s) \/ CreatePending(s) \/ WriteStatus(s)
           \/ \E r \in Requests : Arrive(s, r)
  <2>1. /\ pc[s] \in {"idle", "claim", "insertAuth", "writeStatus"}
        /\ newSettlement' = newSettlement
    BY <1>2 DEF Claim, Purchase, CreatePending, WriteStatus, Arrive, draft
  <2> QED
    BY <2>1 DEF DraftAt, Fresh, Before, Nothing, NoSettlements
<1>3. CASE Reading(s)
  BY <1>3
  DEF Reading, LookUpKey, ClaimTaken, RejectPurchase, ReadNew, ReadStatus, ReadAuth,
      ReadSettlement, ReadForRefund, Respond, draft, Live
<1>4. CASE Posted(s)
  BY <1>4 DEF Posted, PostEntry, PostLastOfMany, PostLast, PostLastReversal, PostHead, Live
<1>5. CASE ListRows(s)
  BY <1>5 DEF ListRows, Live
<1>6. CASE FlagReversed(s)
  <2>1. /\ UNCHANGED <<tables, newAuth>> /\ pc[s] = "markReversed"
        /\ newSettlement' = [newSettlement EXCEPT ![s][Current(s)] = "reversed"]
    BY <1>6 DEF FlagReversed, WriteSettlement
  <2>2. newSettlement'[s][a] \in {newSettlement[s][a], "reversed"}
    BY <2>1, HandlerFacts DEF TypeOK
  <2> QED
    BY <2>1, <2>2 DEF Live
<1>7. CASE InsertSettlement(s)
  <2>1. /\ UNCHANGED <<tables, newAuth>> /\ pc[s] = "insertSettlement"
        /\ newSettlement' = [newSettlement EXCEPT ![s][Current(s)] = "settled"]
    BY <1>7 DEF InsertSettlement, WriteSettlement
  <2>2. a # Current(s) => newSettlement'[s][a] = newSettlement[s][a]
    BY <2>1, HandlerFacts DEF TypeOK
  <2> QED
    BY <1>7, <2>1, <2>2 DEF Live
<1> QED
  BY <1>1, <1>2, <1>3, <1>4, <1>5, <1>6, <1>7, StepCases

LEMMA OwnApproved ==
  ASSUME IInv, NEW s \in Sessions, DraftAt(s), ApprovedAt(s),
         Step(s) \/ Lose(s) \/ \E r \in Requests : Arrive(s, r)
  PROVE  ApprovedAt(s)'
<1> USE DEF IInv
<1>1. ASSUME pc'[s] \in {"readSettlement", "insertSettlement"}
      PROVE  Approved(SeenAuth(s, Current(s)))'
  <2>1. CASE pc'[s] = "readSettlement"
    <3>1. ReadAuth(s)
      BY <2>1, CheckedBefore
    <3>2. UNCHANGED <<tables, newAuth, queue>> /\ Approved(SeenAuth(s, Current(s)))
      BY <2>1, <3>1, Moved DEF ReadAuth, Require, Approved, handler, draft
    <3> QED
      BY <3>2 DEF SeenAuth, Current, Approved, tables
  <2>2. CASE pc'[s] = "insertSettlement"
    <3>1. ReadSettlement(s)
      BY <2>2, CheckedBefore
    <3>2. UNCHANGED <<tables, newAuth, queue>> /\ pc[s] = "readSettlement"
      BY <3>1 DEF ReadSettlement, handler, draft
    <3>3. Approved(SeenAuth(s, Current(s)))
      BY <3>2 DEF ApprovedAt
    <3> QED
      BY <3>2, <3>3 DEF SeenAuth, Current, Approved, tables
  <2> QED
    BY <1>1, <2>1, <2>2
<1>2. ASSUME NEW a \in AuthIds, Live(s)', newSettlement'[s][a] = "settled"
      PROVE  Approved(SeenAuth(s, a)')
  <2>1. /\ UNCHANGED tables /\ newAuth'[s] = newAuth[s]
        /\ \/ Live(s) /\ newSettlement[s][a] = "settled"
           \/ InsertSettlement(s) /\ a = Current(s)
    BY <1>2, DraftedSettlement
  <2>2. InsertSettlement(s) => pc[s] = "insertSettlement"
    BY DEF InsertSettlement
  <2>3. Approved(SeenAuth(s, a))
    BY <2>1, <2>2 DEF ApprovedAt
  <2> QED
    BY <2>1, <2>3 DEF SeenAuth, tables
<1> QED
  BY <1>1, <1>2 DEF ApprovedAt

(* A settlement is committed onto an authorization that is authorized.     *)
LEMMA CommittedApproved ==
  ASSUME IInv, DraftOK, WholeOK, NewOK, DecisionOK, NEW s \in Sessions, Commit(s),
         NEW a \in AuthIds, settlement'[a] # "none"
  PROVE  Approved(auth'[a])
<1> USE DEF IInv
<1>1. pc[s] = "commit" /\ Live(s) /\ auth'[a] = SeenAuth(s, a)
  BY DEF Commit, Overlay, SeenAuth, Live
<1>2. CASE newSettlement[s][a] = "settled"
  BY <1>1, <1>2 DEF DecisionOK, ApprovedAt
<1>3. CASE newSettlement[s][a] # "settled"
  <2>1. settlement[a] # "none"
    BY <1>1, <1>3, CommitCases DEF WholeOK, RefundingAt
  <2> QED
    BY <2>1, ApprovedStays DEF DecisionOK
<1> QED
  BY <1>2, <1>3

LEMMA DecisionStep ==
  ASSUME IInv, DraftOK, WholeOK, NewOK, InTurnOK, DecisionsInTurn, DecisionOK, [Next]_vars
  PROVE  DecisionOK'
<1> USE DEF IInv
<1>1. ASSUME NEW s \in Sessions, Step(s) \/ Lose(s) \/ \E r \in Requests : Arrive(s, r)
      PROVE  DecisionOK'
  <2>1. OthersKept(s) /\ OthersDraftKept(s) /\ (UNCHANGED tables \/ Commit(s))
    BY <1>1, KeepsOthers, KeepsOtherDrafts, TablesKept
  <2>2. DecidingAt(s)' /\ ApprovedAt(s)'
    BY <1>1, OwnDeciding, OwnApproved DEF DecisionOK, DraftOK
  <2>3. \A t \in Sessions : t # s => DecidingAt(t)' /\ ApprovedAt(t)'
    BY <2>1, OthersKeepDeciding
  <2>4. ASSUME NEW a \in AuthIds, settlement'[a] # "none" PROVE Approved(auth'[a])
    <3>1. UNCHANGED tables => Approved(auth'[a])
      BY <2>4 DEF tables, DecisionOK
    <3> QED
      BY <2>1, <2>4, <3>1, CommittedApproved
  <2> QED
    BY <2>2, <2>3, <2>4 DEF DecisionOK
<1>2. CASE UNCHANGED vars
  BY <1>2 DEF vars, tables, draft, handler, DecisionOK, DecidingAt, ApprovedAt, Live, Kind,
              Current, SeenAuth
<1> QED
  BY <1>1, <1>2 DEF Next, AllServed

LEMMA DecisionInit ==
  Init => DecisionOK
<1> SUFFICES ASSUME Init PROVE DecisionOK
  OBVIOUS
<1>1. \A s \in Sessions : DecidingAt(s) /\ ApprovedAt(s)
  BY DEF Init, DecidingAt, ApprovedAt, Live, NoWrites
<1>2. ASSUME NEW a \in AuthIds, settlement[a] # "none" PROVE Approved(auth[a])
  <2>1. a \in Refs /\ Past[a] = "settled" /\ auth[a] = PastAuth(a)
    BY <1>2 DEF Init, WasSettled
  <2> QED
    BY <2>1, PastTyped DEF Approved, IsAuthorized, PastAuth
<1> QED
  BY <1>1, <1>2 DEF DecisionOK

(* Each decision is taken on a pending authorization and each settlement   *)
(* on an authorized one, if decisions are kept apart (DecisionsInTurn).    *)
THEOREM Decided == ASSUME DecisionsInTurn PROVE Spec => []DecisionOK
<1>1. IInv /\ DraftOK /\ WholeOK /\ NewOK /\ InTurnOK /\ DecisionOK /\ [Next]_vars => DecisionOK'
  BY DecisionStep
<1> QED
  BY <1>1, DecisionInit, Invariant, Drafts, Whole, CreatedOnce, RequestsInTurn, PTL DEF Spec

(* Money moved only on an authorization that is still authorized           *)
(* (settle_authorization's check outlives the statement that made it).     *)
THEOREM SettledAuthorized == ASSUME DecisionsInTurn PROVE Spec => []SettledIsAuthorized
<1>1. DecisionOK => SettledIsAuthorized
  BY DEF DecisionOK, SettledIsAuthorized, Approved, IsAuthorized
<1> QED
  BY <1>1, Decided, PTL

(* A decision is never revised (README.md's state diagram), under the same *)
(* proviso; without it the code lets the later of two decisions win.       *)
THEOREM DecisionsAreFinal == ASSUME DecisionsInTurn PROVE Spec => DecisionIsFinal
<1>1. ASSUME IInv, DraftOK, NewOK, DecisionOK, [Next]_vars,
             NEW a \in AuthIds, auth[a] # None, auth[a].status # "pending"
      PROVE  auth'[a] = auth[a]
  <2>1. ASSUME NEW s \in Sessions, Step(s) \/ Lose(s) \/ \E r \in Requests : Arrive(s, r)
        PROVE  auth'[a] = auth[a]
    BY <1>1, <2>1, TablesKept, ApprovedStays DEF IsPending
  <2>2. CASE UNCHANGED vars
    BY <2>2 DEF vars, tables
  <2> QED
    BY <1>1, <2>1, <2>2 DEF Next, AllServed
<1>2. IInv /\ DraftOK /\ NewOK /\ DecisionOK /\ [Next]_vars
        => [\A a \in AuthIds :
              (auth[a] # None /\ auth[a].status # "pending") => auth'[a] = auth[a]]_vars
  BY <1>1
<1> QED
  BY <1>2, Invariant, Drafts, CreatedOnce, Decided, PTL DEF Spec, DecisionIsFinal

-----------------------------------------------------------------------------
(* Events and their effects.                                               *)

(* A commit that announces is the commit that does. *)
LEMMA CommittedEvent ==
  ASSUME IInv, DraftOK, UniqueEvents, NEW s \in Sessions, Commit(s),
         NEW q \in Requests, q.kind \in FromProcessor,
         q.event \in processed', q.event \notin processed
  PROVE  Complete(s) /\ pc[s] = "commit" /\ req[s] = q /\ Kind(s) = q.kind
<1> USE DEF IInv
<1>1. pc[s] = "commit" /\ processed' = processed \cup ({claim[s]} \cap Events)
  BY DEF Commit
<1>2. claim[s] = q.event /\ q.event \in Events /\ q.event # None
  BY <1>1, NoneIsNothing
<1>3. Complete(s) /\ claim[s] = Claims(s)
  BY <1>1, <1>2 DEF DraftOK, DraftAt, Finished, Nothing, Complete
<1>4. req[s] \in Requests
  BY <1>1, HandlerFacts
<1>5. Kind(s) \in FromProcessor /\ req[s].event = q.event
  <2>1. Kind(s) # "purchase"
    <3>1. Kind(s) = "purchase" => req[s].key \in Keys
      BY <1>4, RequestFields DEF Kind
    <3> QED
      BY <1>2, <1>3, <3>1, PaymentsAssumption DEF Claims, PaymentsAssumption
  <2> QED
    BY <1>2, <1>3, <2>1 DEF Claims
<1>6. req[s] = q
  BY <1>4, <1>5 DEF UniqueEvents, Kind
<1> QED
  BY <1>1, <1>3, <1>6 DEF Kind

(* A commit records the event it serves. *)
LEMMA CommittedRecord ==
  ASSUME IInv, NEW s \in Sessions, Commit(s), Complete(s), Kind(s) \in FromProcessor
  PROVE  req[s] \in Requests /\ req[s].event \in Events /\ req[s].event \in processed'
<1> USE DEF IInv
<1>1. pc[s] = "commit" /\ processed' = processed \cup ({claim[s]} \cap Events)
  BY DEF Commit
<1>2. req[s] \in Requests /\ req[s].event \in Events
  BY <1>1, HandlerFacts, RequestFields DEF Kind, FromProcessor
<1>3. claim[s] = req[s].event
  BY DEF Complete, Claims, FromProcessor, OnRef
<1> QED
  BY <1>1, <1>2, <1>3

(* An event of one of the kinds has been recorded for the authorization.   *)
Happened(kinds, a) ==
  \E q \in Requests : q.kind \in kinds /\ q.ref = a /\ q.event \in processed

SettledInBatch(a) ==
  \E q \in Requests : q.kind = "settled" /\ a \in Range(q.refs) /\ q.event \in processed

IsDecided(a) == auth[a] # None /\ auth[a].status # "pending"

EffectsAt(a) ==
  /\ Past[a] = "absent" => (auth[a] # None <=> Happened({"created"}, a))
  /\ Past[a] \in {"absent", "pending"} => (IsDecided(a) <=> Happened(Decisions, a))
  /\ Past[a] # "settled" => (settlement[a] # "none" <=> SettledInBatch(a))

EffectsOK == \A a \in Refs : EffectsAt(a)

(* What a commit adds to the events that have happened, and below, to what *)
(* they have done: the same.                                               *)
LEMMA CommittedHappenings ==
  ASSUME IInv, DraftOK, UniqueEvents, NEW s \in Sessions, Commit(s), NEW a \in Refs
  PROVE  /\ \A kinds \in SUBSET OnRef :
              Happened(kinds, a)' <=>
                Happened(kinds, a) \/ (Complete(s) /\ Kind(s) \in kinds /\ req[s].ref = a)
         /\ SettledInBatch(a)' <=>
              SettledInBatch(a)
                \/ (Complete(s) /\ Kind(s) = "settled" /\ a \in Range(req[s].refs))
<1>1. \A e : e \in processed => e \in processed'
  BY DEF Commit
<1>2. ASSUME NEW kinds \in SUBSET OnRef
      PROVE  Happened(kinds, a)' <=>
               Happened(kinds, a) \/ (Complete(s) /\ Kind(s) \in kinds /\ req[s].ref = a)
  <2>1. kinds \subseteq FromProcessor
    BY DEF FromProcessor
  <2>2. ASSUME Happened(kinds, a)', ~ Happened(kinds, a)
        PROVE  Complete(s) /\ Kind(s) \in kinds /\ req[s].ref = a
    <3>1. PICK q \in Requests : q.kind \in kinds /\ q.ref = a /\ q.event \in processed'
      BY <2>2 DEF Happened
    <3>2. q.event \notin processed
      BY <2>2, <3>1 DEF Happened
    <3> QED
      BY <2>1, <3>1, <3>2, CommittedEvent
  <2>3. ASSUME Complete(s), Kind(s) \in kinds, req[s].ref = a
        PROVE  Happened(kinds, a)'
    BY <2>1, <2>3, CommittedRecord DEF Happened, Kind
  <2>4. Happened(kinds, a) => Happened(kinds, a)'
    BY <1>1 DEF Happened
  <2> QED
    BY <2>2, <2>3, <2>4
<1>3. ASSUME SettledInBatch(a)', ~ SettledInBatch(a)
      PROVE  Complete(s) /\ Kind(s) = "settled" /\ a \in Range(req[s].refs)
  <2>1. PICK q \in Requests : q.kind = "settled" /\ a \in Range(q.refs) /\ q.event \in processed'
    BY <1>3 DEF SettledInBatch
  <2>2. q.event \notin processed
    BY <1>3, <2>1 DEF SettledInBatch
  <2> QED
    BY <2>1, <2>2, CommittedEvent DEF FromProcessor
<1>4. ASSUME Complete(s), Kind(s) = "settled", a \in Range(req[s].refs)
      PROVE  SettledInBatch(a)'
  BY <1>4, CommittedRecord DEF SettledInBatch, Kind, FromProcessor
<1>5. SettledInBatch(a) => SettledInBatch(a)'
  BY <1>1 DEF SettledInBatch
<1> QED
  BY <1>2, <1>3, <1>4, <1>5

LEMMA CommittedEffects ==
  ASSUME IInv, DraftOK, WholeOK, NewOK, NEW s \in Sessions, Commit(s), NEW a \in Refs
  PROVE  /\ auth'[a] # None <=>
              auth[a] # None \/ (Complete(s) /\ Kind(s) = "created" /\ req[s].ref = a)
         /\ IsDecided(a)' <=>
              IsDecided(a) \/ (Complete(s) /\ Kind(s) \in Decisions /\ req[s].ref = a)
         /\ settlement'[a] # "none" <=>
              settlement[a] # "none"
                \/ (Complete(s) /\ Kind(s) = "settled" /\ a \in Range(req[s].refs))
<1> USE DEF IInv
<1>1. /\ pc[s] = "commit" /\ Live(s) /\ a \in AuthIds /\ a \notin Sessions
      /\ auth'[a] = IF newAuth[s][a] = None THEN auth[a] ELSE newAuth[s][a]
  BY SessionsAreAuthIds DEF Commit, Overlay, Live
<1>2. (Complete(s) /\ Kind(s) \in OnRef /\ req[s].ref = a) <=> newAuth[s][a] # None
  <2>1. ASSUME Complete(s), Kind(s) \in OnRef, req[s].ref = a PROVE newAuth[s][a] # None
    BY <1>1, <2>1 DEF Complete, Writes, OnRef, Buying
  <2> QED
    BY <1>1, <2>1, CommittedAuth
<1>3. ASSUME newAuth[s][a] = None
      PROVE  /\ auth'[a] = auth[a]
             /\ ~ (Complete(s) /\ Kind(s) \in {"created"} \cup Decisions /\ req[s].ref = a)
  BY <1>1, <1>2, <1>3 DEF OnRef, Decisions
<1>4. ASSUME newAuth[s][a] # None
      PROVE  /\ auth'[a] = newAuth[s][a] /\ newAuth[s][a].status = StatusWritten(s)
             /\ Kind(s) = "created" => auth[a] = None
             /\ Kind(s) \in Decisions => auth[a] # None
             /\ Complete(s) /\ req[s].ref = a /\ Kind(s) \in OnRef
  BY <1>1, <1>2, <1>4 DEF DraftOK, DraftAt, NewOK, NewAt
<1>5. /\ auth'[a] # None <=>
           auth[a] # None \/ (Complete(s) /\ Kind(s) = "created" /\ req[s].ref = a)
      /\ IsDecided(a)' <=>
           IsDecided(a) \/ (Complete(s) /\ Kind(s) \in Decisions /\ req[s].ref = a)
  <2>1. CASE newAuth[s][a] # None /\ Kind(s) = "created"
    BY <1>4, <2>1 DEF IsDecided, StatusWritten, Decisions
  <2>2. CASE newAuth[s][a] # None /\ Kind(s) \in Decisions
    BY <1>4, <2>2 DEF IsDecided, StatusWritten, Decisions
  <2> QED
    BY <1>3, <1>4, <2>1, <2>2, <1>1, <1>2 DEF OnRef, Decisions, IsDecided
<1>6. (Complete(s) /\ Kind(s) = "settled" /\ a \in Range(req[s].refs))
        <=> newSettlement[s][a] = "settled"
  <2>1. (Complete(s) /\ Kind(s) = "settled" /\ a \in Range(req[s].refs))
          => newSettlement[s][a] = "settled"
    BY <1>1 DEF Complete, Batch, Buying
  <2>2. ASSUME newSettlement[s][a] = "settled"
        PROVE  Complete(s) /\ Kind(s) = "settled" /\ a \in Range(req[s].refs)
    <3>1. Complete(s)
      BY <1>1, <2>2 DEF DraftOK, DraftAt, Finished, Nothing, NoSettlements
    <3>2. a \in Batch(s)
      BY <1>1, <2>2, <3>1 DEF Complete
    <3>3. Kind(s) \notin Buying
      BY <1>1, <3>2 DEF Batch
    <3> QED
      BY <3>1, <3>2, <3>3 DEF Batch
  <2> QED
    BY <2>1, <2>2
<1>7. settlement'[a] # "none" <=> settlement[a] # "none" \/ newSettlement[s][a] = "settled"
  BY <1>1, CommitCases DEF WholeOK, RefundingAt
<1> QED
  BY <1>5, <1>6, <1>7

LEMMA EffectsStep ==
  ASSUME IInv, DraftOK, WholeOK, NewOK, UniqueEvents, EffectsOK, [Next]_vars
  PROVE  EffectsOK'
<1> SUFFICES ASSUME NEW a \in Refs PROVE EffectsAt(a)'
  BY DEF EffectsOK
<1>1. EffectsAt(a)
  BY DEF EffectsOK
<1>2. UNCHANGED tables => EffectsAt(a)'
  BY <1>1 DEF EffectsAt, Happened, SettledInBatch, IsDecided, tables
<1>3. ASSUME NEW s \in Sessions, Commit(s) PROVE EffectsAt(a)'
  <2>1. {"created"} \in SUBSET OnRef /\ Decisions \in SUBSET OnRef
    BY DEF OnRef, Decisions
  <2>2. /\ Happened({"created"}, a)' <=>
             Happened({"created"}, a) \/ (Complete(s) /\ Kind(s) = "created" /\ req[s].ref = a)
        /\ Happened(Decisions, a)' <=>
             Happened(Decisions, a) \/ (Complete(s) /\ Kind(s) \in Decisions /\ req[s].ref = a)
    BY <1>3, <2>1, CommittedHappenings
  <2> QED
    BY <1>1, <1>3, <2>2, CommittedHappenings, CommittedEffects DEF EffectsAt
<1> QED
  BY <1>2, <1>3, TablesKept DEF Next, AllServed, vars

LEMMA EffectsInit ==
  Init => EffectsOK
<1> SUFFICES ASSUME Init, NEW a \in Refs PROVE EffectsAt(a)
  BY DEF EffectsOK
<1>1. /\ a \in AuthIds /\ auth[a] = PastAuth(a)
      /\ Past[a] # "settled" => settlement[a] = "none"
      /\ processed = {}
  BY SessionsAreAuthIds DEF Init, WasSettled
<1>2. Past[a] \in {"absent", "pending"} => ~ IsDecided(a)
  BY <1>1 DEF PastAuth, IsDecided
<1> QED
  BY <1>1, <1>2 DEF EffectsAt, Happened, SettledInBatch, PastAuth

(* Authorizations are created, decided and settled exactly by the events   *)
(* that are recorded (processor_events).                                   *)
THEOREM EffectsFollow == ASSUME UniqueEvents PROVE Spec => []EffectsOK
<1>1. IInv /\ DraftOK /\ WholeOK /\ NewOK /\ EffectsOK /\ [Next]_vars => EffectsOK'
  BY EffectsStep
<1> QED
  BY <1>1, EffectsInit, Invariant, Drafts, Whole, CreatedOnce, PTL DEF Spec

(* No event is burned without its effect and nothing advances without an   *)
(* event that is recorded (try_claim: one transaction with the handler).   *)
THEOREM EventsMatch == ASSUME UniqueEvents PROVE Spec => []EventsMatchEffects
<1>1. ASSUME EffectsOK PROVE EventsMatchEffects
  <2> SUFFICES ASSUME NEW a \in Refs
               PROVE  /\ Past[a] = "absent" =>
                           (auth[a] # None <=> EventsOf("created", a) \cap processed # {})
                      /\ Past[a] \in {"absent", "pending"} =>
                           (IsDecided(a) <=>
                              (EventsOf("approved", a) \cup EventsOf("declined", a))
                                 \cap processed # {})
                      /\ Past[a] # "settled" =>
                           (settlement[a] # "none"
                              <=> SettlementEventsOf(a) \cap processed # {})
    BY DEF EventsMatchEffects, IsDecided
  <2>1. ASSUME NEW kind \in OnRef
        PROVE  EventsOf(kind, a) \cap processed # {} <=> Happened({kind}, a)
    BY DEF EventsOf, Happened
  <2>2. SettlementEventsOf(a) \cap processed # {} <=> SettledInBatch(a)
    BY DEF SettlementEventsOf, SettledInBatch
  <2>3. Happened(Decisions, a) <=> Happened({"approved"}, a) \/ Happened({"declined"}, a)
    BY DEF Happened, Decisions
  <2>4. EffectsAt(a)
    BY <1>1 DEF EffectsOK
  <2> QED
    BY <2>1, <2>2, <2>3, <2>4 DEF EffectsAt, OnRef
<1> QED
  BY <1>1, EffectsFollow, PTL

-----------------------------------------------------------------------------
(* One key, one answer - as long as no worker dies after it has answered.  *)

(* A run that has lost no session so far has not lost one in this step.    *)
LEMMA LosesAreCounted ==
  ASSUME NEW s \in Sessions, Step(s) \/ \E r \in Requests : Arrive(s, r)
  PROVE  crashes' = crashes
<1>1. CASE Reading(s)
  BY <1>1
  DEF Reading, LookUpKey, ClaimTaken, RejectPurchase, ReadNew, ReadStatus, ReadAuth,
      ReadSettlement, ReadForRefund, Respond
<1>2. CASE Claim(s) \/ Purchase(s) \/ CreatePending(s) \/ WriteStatus(s)
  BY <1>2 DEF Claim, Purchase, CreatePending, WriteStatus
<1>3. CASE InsertSettlement(s) \/ ListRows(s) \/ FlagReversed(s)
  BY <1>3 DEF InsertSettlement, ListRows, FlagReversed
<1>4. CASE Posted(s)
  BY <1>4 DEF Posted, PostEntry, PostLastOfMany, PostLast, PostLastReversal, PostHead
<1>5. CASE Commit(s) \/ Rollback(s) \/ Aborting(s)
  BY <1>5, AbortingAborts DEF Commit, Rollback, Abort
<1>6. CASE \E r \in Requests : Arrive(s, r)
  BY <1>6 DEF Arrive
<1> QED
  BY <1>1, <1>2, <1>3, <1>4, <1>5, <1>6, StepCases

LEMMA NoneLost ==
  ASSUME TypeOK, NEW s \in Sessions, Step(s) \/ Lose(s) \/ \E r \in Requests : Arrive(s, r),
         crashes' = 0
  PROVE  crashes = 0 /\ ~ Lose(s)
<1>1. crashes \in Nat
  BY PaymentsAssumption DEF TypeOK, PaymentsAssumption
<1>2. ~ Lose(s)
  BY <1>1 DEF Lose
<1> QED
  BY <1>2, LosesAreCounted

Settles(s) == pc'[s] \in {"respond", "commit", "done", "rollback"}

LEMMA OthersKeepAnswers ==
  ASSUME IInv, AnswerOK, NEW s \in Sessions, OthersKept(s), OthersDraftKept(s),
         UNCHANGED tables \/ Commit(s), NEW t \in Sessions, t # s
  PROVE  AnswerAt(t)'
<1> USE DEF IInv
<1>1. /\ pc'[t] = pc[t] /\ req'[t] = req[t] /\ claim'[t] = claim[t]
      /\ reply'[t] = reply[t] /\ result'[t] = result[t] /\ IsPurchase(t)' = IsPurchase(t)
  BY DEF OthersKept, OthersDraftKept, IsPurchase
<1>2. ASSUME NEW k \in Keys, answer[k] # None PROVE answer'[k] = answer[k]
  <2>1. claim[s] # k
    BY <1>2, KeysAtAll DEF KeysAt
  <2> QED
    BY <2>1, AnswerAfter
<1>3. AnswerAt(t)
  BY DEF AnswerOK
<1>4. IsPurchase(t) => req[t].key \in Keys
  BY PurchaseKey
<1> QED
  BY <1>1, <1>2, <1>3, <1>4 DEF AnswerAt

(* The steps of a purchase that end it or send its answer. *)
LEMMA PurchaseEnds ==
  ASSUME IInv, crashes' = 0, NEW s \in Sessions, IsPurchase(s)',
         Step(s) \/ Lose(s) \/ \E r \in Requests : Arrive(s, r), Settles(s)
  PROVE  /\ IsPurchase(s) /\ req'[s] = req[s] /\ pc[s] # "idle"
         /\ \/ pc'[s] = "rollback" /\ reply'[s] # "ok"
            \/ LookUpKey(s) \/ PostLast(s) \/ Respond(s) \/ Commit(s) \/ Rollback(s)
<1> USE DEF IInv
<1>1. ~ Lose(s)
  BY NoneLost
<1>2. ~ \E r \in Requests : Arrive(s, r)
  <2>1. ASSUME NEW r \in Requests, Arrive(s, r) PROVE FALSE
    <3>1. pc'[s] = FirstStep(r.kind) /\ r.kind \in Kinds
      BY <2>1, Moved, RequestFields DEF Arrive
    <3> QED
      BY <3>1 DEF FirstStep, Kinds, FromProcessor, OnRef, Settles
  <2> QED
    BY <2>1
<1>3. Step(s) /\ req'[s] = req[s] /\ pc[s] \notin {"idle", "done"}
  BY <1>1, <1>2, StepFollows
<1>4. IsPurchase(s) /\ Kind(s) = "purchase"
  BY <1>3 DEF IsPurchase, Kind
<1>5. ASSUME NEW response, Raise(s, response) PROVE pc'[s] = "rollback" /\ reply'[s] = response
  BY <1>5 DEF Raise, Go, TypeOK
<1>6. ASSUME NEW cond, NEW step, Require(s, cond, step), step \notin {"respond", "commit", "done", "rollback"}
      PROVE  pc'[s] = "rollback" /\ reply'[s] # "ok"
  BY <1>5, <1>6, Moved DEF Require, Settles
<1>7. CASE Aborting(s)
  BY <1>3, <1>4, <1>5, <1>7, AbortingAborts DEF Abort
<1>8. CASE ClaimTaken(s)
  BY <1>3, <1>4, <1>5, <1>8 DEF ClaimTaken, Kind
<1>9. CASE RejectPurchase(s)
  BY <1>3, <1>4, <1>5, <1>9 DEF RejectPurchase
<1>10. CASE ReadNew(s) \/ ReadStatus(s) \/ ReadAuth(s) \/ ReadSettlement(s) \/ ReadForRefund(s)
  BY <1>3, <1>4, <1>6, <1>10 DEF ReadNew, ReadStatus, ReadAuth, ReadSettlement, ReadForRefund
<1>11. CASE ListRows(s) \/ FlagReversed(s) \/ CreatePending(s) \/ WriteStatus(s)
  <2>1. pc[s] \in {"listRows", "markReversed", "writeStatus"} \/ Kind(s) = "created"
    BY <1>11 DEF ListRows, FlagReversed, CreatePending, WriteStatus, Kind
  <2> QED
    BY <1>3, <1>4, <2>1, HandlerFacts DEF KindAt
<1>12. CASE Claim(s)
  BY <1>4, <1>12, Moved DEF Claim, AfterClaim, Kind, Settles
<1>13. CASE Purchase(s) \/ InsertSettlement(s)
  BY <1>13, Moved DEF Purchase, InsertSettlement, Settles
<1>14. CASE Posted(s)
  <2>1. PostEntry(s) => pc[s] = "post" /\ pc' = pc
    BY DEF PostEntry, PostHead
  <2>2. PostLastOfMany(s) => pc'[s] = "readAuth"
    BY Moved DEF PostLastOfMany
  <2>3. PostLastReversal(s) => pc'[s] = "markReversed"
    BY Moved DEF PostLastReversal
  <2> QED
    BY <1>3, <1>4, <1>14, <2>1, <2>2, <2>3 DEF Posted, Settles
<1> QED
  BY <1>3, <1>4, <1>7, <1>8, <1>9, <1>10, <1>11, <1>12, <1>13, <1>14, StepCases DEF Reading

(* What a client hears is what its session stores, or has found stored.    *)
LEMMA OwnAnswer ==
  ASSUME IInv, crashes' = 0, NEW s \in Sessions, DraftAt(s), AnswerAt(s),
         Step(s) \/ Lose(s) \/ \E r \in Requests : Arrive(s, r)
  PROVE  AnswerAt(s)'
<1> USE DEF IInv
<1> SUFFICES ASSUME IsPurchase(s)', Settles(s) PROVE AnswerAt(s)'
  BY DEF AnswerAt, Settles
<1>1. /\ IsPurchase(s) /\ req'[s] = req[s] /\ pc[s] # "idle" /\ Kind(s) = "purchase"
      /\ req[s].key \in Keys /\ req[s].key # None
      /\ \/ pc'[s] = "rollback" /\ reply'[s] # "ok"
         \/ LookUpKey(s) \/ PostLast(s) \/ Respond(s) \/ Commit(s) \/ Rollback(s)
  BY PurchaseEnds, PurchaseKey, NoneIsNothing
<1>2. CASE pc'[s] = "rollback" /\ reply'[s] # "ok"
  BY <1>2 DEF AnswerAt
<1>3. CASE LookUpKey(s)
  <2>1. claim[s] = None /\ claim' = claim /\ answer' = answer
    BY <1>3 DEF LookUpKey, DraftAt, Fresh, Nothing, tables, draft
  <2>2. pc'[s] = "respond" /\ result'[s] = answer[req[s].key] /\ answer[req[s].key] # None
    BY <1>3, Moved DEF LookUpKey, Settles, TypeOK
  <2> QED
    BY <1>1, <2>1, <2>2 DEF AnswerAt
<1>4. CASE PostLast(s)
  <2>1. pc[s] = "post" /\ claim' = claim /\ result'[s] = s /\ pc'[s] = "respond"
    BY <1>1, <1>4, Moved DEF PostLast, PostHead, Kind, TypeOK
  <2>2. claim[s] = req[s].key
    BY <1>1, <2>1 DEF DraftAt, Midway, Partial, Claims
  <2> QED
    BY <1>1, <2>1, <2>2 DEF AnswerAt
<1>5. CASE Respond(s)
  <2>1. /\ pc[s] = "respond" /\ pc'[s] = "commit"
        /\ UNCHANGED <<claim, result, reply, answer>>
    BY <1>5, Moved DEF Respond, tables, draft
  <2> QED
    BY <1>1, <2>1 DEF AnswerAt
<1>6. CASE Commit(s)
  <2>1. /\ pc[s] = "commit" /\ pc'[s] = "done" /\ UNCHANGED <<result, reply>>
        /\ answer'[req[s].key] = IF req[s].key = claim[s] THEN s ELSE answer[req[s].key]
    BY <1>1, <1>6, Moved DEF Commit
  <2> QED
    BY <1>1, <2>1, NoneIsNothing DEF AnswerAt
<1>7. CASE Rollback(s)
  <2>1. pc[s] = "rollback" /\ pc'[s] = "done" /\ reply' = reply
    BY <1>7, Moved DEF Rollback
  <2> QED
    BY <1>1, <2>1 DEF AnswerAt
<1> QED
  BY <1>1, <1>2, <1>3, <1>4, <1>5, <1>6, <1>7

LEMMA AnswerStep ==
  ASSUME IInv, DraftOK, crashes = 0 => AnswerOK, [Next]_vars, crashes' = 0
  PROVE  AnswerOK'
<1> USE DEF IInv
<1>1. ASSUME NEW s \in Sessions, Step(s) \/ Lose(s) \/ \E r \in Requests : Arrive(s, r)
      PROVE  AnswerOK'
  <2>1. OthersKept(s) /\ OthersDraftKept(s) /\ (UNCHANGED tables \/ Commit(s))
    BY <1>1, KeepsOthers, KeepsOtherDrafts, TablesKept
  <2>2. AnswerOK
    BY <1>1, NoneLost
  <2>3. AnswerAt(s)'
    BY <1>1, <2>2, OwnAnswer DEF AnswerOK, DraftOK
  <2> QED
    BY <2>1, <2>2, <2>3, OthersKeepAnswers DEF AnswerOK
<1>2. CASE UNCHANGED vars
  BY <1>2 DEF vars, tables, draft, handler, AnswerOK, AnswerAt, IsPurchase
<1> QED
  BY <1>1, <1>2 DEF Next, AllServed

(* As long as no session is lost, what a client has been told under a key  *)
(* is stored under it, or will be by the commit that follows (purchase,    *)
(* get_db).                                                                *)
THEOREM Answers == Spec => [](crashes = 0 => AnswerOK)
<1>1. Init => AnswerOK
  BY DEF Init, AnswerOK, AnswerAt
<1>2. IInv /\ DraftOK /\ (crashes = 0 => AnswerOK) /\ [Next]_vars => (crashes = 0 => AnswerOK)'
  BY AnswerStep
<1> QED
  BY <1>1, <1>2, Invariant, Drafts, PTL DEF Spec

(* Retrying with the same key returns the original response                *)
(* (docs/api-spec.md): as long as no worker has died, all who are told of  *)
(* a purchase under a key are told of the same one.                        *)
THEOREM SameAnswer == Spec => [](crashes = 0 => SameKeySameAnswer)
<1>1. ASSUME IInv, AnswerOK PROVE SameKeySameAnswer
  <2> USE <1>1 DEF IInv
  <2> SUFFICES ASSUME NEW s \in Sessions, NEW t \in Sessions, IsPurchase(s), IsPurchase(t),
                      req[s].key = req[t].key, Heard(s), Heard(t)
               PROVE  result[s] = result[t]
    BY DEF SameKeySameAnswer
  <2> DEFINE k == req[s].key
  <2>1. k \in Keys
    BY PurchaseKey
  <2>2. /\ \/ claim[s] = k /\ result[s] = s
           \/ result[s] # None /\ answer[k] = result[s]
        /\ \/ claim[t] = k /\ result[t] = t
           \/ result[t] # None /\ answer[k] = result[t]
    BY DEF AnswerOK, AnswerAt, Heard
  <2>3. claim[s] = k \/ claim[t] = k => answer[k] = None
    BY <2>1, KeysAtAll DEF KeysAt
  <2> HIDE DEF k
  <2>4. (claim[s] = k /\ claim[t] = k) => s = t
    <3>1. /\ claim[s] = k => holder[LockOf(<<"key", k>>)] = s
          /\ claim[t] = k => holder[LockOf(<<"key", k>>)] = t
      BY <2>1 DEF WritesAreLocked
    <3> QED
      BY <3>1
  <2> QED
    BY <2>2, <2>3, <2>4
<1> QED
  BY <1>1, Invariant, Answers, PTL

-----------------------------------------------------------------------------
(* The payment core implements Lifecycle.                                  *)

(* Each kind of request commits to one step of Lifecycle.                  *)
LEMMA AdvanceOf ==
  ASSUME NEW group \in SUBSET AuthIds, NEW from, NEW to,
         \A a \in group : StageOf(a) = from /\ StageOf(a)' = to,
         \A a \in AuthIds : a \notin group => StageOf(a)' = StageOf(a)
  PROVE  Promise!Advance(group, from, to)
<1>1. \A a \in group : [b \in AuthIds |-> StageOf(b)][a] = from
  OBVIOUS
<1>2. [b \in AuthIds |-> StageOf(b)]'
        = [a \in AuthIds |-> IF a \in group THEN to ELSE [b \in AuthIds |-> StageOf(b)][a]]
  OBVIOUS
<1> QED
  BY <1>1, <1>2 DEF Promise!Advance, Promise!AuthIds, AuthIds

(* What a complete commit makes of an authorization, by its two tables.    *)
LEMMA CommittedStage ==
  ASSUME IInv, DraftOK, NEW s \in Sessions, Commit(s), Complete(s), NEW a \in AuthIds
  PROVE  /\ a \in Batch(s) => StageOf(a)' = "settled"
         /\ a \in Refunded(s) => StageOf(a)' = "reversed"
         /\ (a \in Writes(s) /\ a \notin Batch(s) \cup Refunded(s) /\ settlement[a] = "none")
              => StageOf(a)' = StatusWritten(s)
         /\ a \notin Writes(s) \cup Batch(s) \cup Refunded(s) => StageOf(a)' = StageOf(a)
<1> USE DEF IInv
<1>1. /\ auth'[a] = IF newAuth[s][a] = None THEN auth[a] ELSE newAuth[s][a]
      /\ settlement'[a] = IF newSettlement[s][a] = "none" THEN settlement[a]
                                                          ELSE newSettlement[s][a]
      /\ newSettlement[s][a] \in {"none", "settled", "reversed"}
  BY DEF Commit, Overlay, TypeOK
<1>2. /\ newAuth[s][a] # None <=> a \in Writes(s)
      /\ newSettlement[s][a] = "settled" <=> a \in Batch(s)
      /\ newSettlement[s][a] = "reversed" <=> a \in Refunded(s)
      /\ newAuth[s][a] # None => newAuth[s][a].status = StatusWritten(s)
  BY DEF Complete, DraftOK, DraftAt
<1> QED
  BY <1>1, <1>2 DEF StageOf

(* What a commit stores under a key and records of an event.               *)
LEMMA CommittedClaim ==
  ASSUME IInv, NEW s \in Sessions, Commit(s)
  PROVE  /\ claim[s] \notin Keys => answer' = answer
         /\ claim[s] \in Keys => answer' = [answer EXCEPT ![claim[s]] = s]
         /\ claim[s] \notin Events => processed' = processed
         /\ claim[s] \in Events => processed' = processed \cup {claim[s]}
<1> USE DEF IInv
<1>1. /\ answer' = [k \in Keys |-> IF k = claim[s] THEN s ELSE answer[k]]
      /\ processed' = processed \cup ({claim[s]} \cap Events)
      /\ answer \in [Keys -> AuthIds \cup {None}]
  BY DEF Commit, TypeOK
<1> QED
  BY <1>1

LEMMA PurchaseMoves ==
  ASSUME IInv, DraftOK, WholeOK, NEW s \in Sessions, Commit(s), Complete(s), Kind(s) \in Buying
  PROVE  Promise!Next
<1> USE DEF IInv
<1>1. pc[s] = "commit" /\ Live(s) /\ s \in AuthIds /\ req[s] \in Requests
  BY HandlerFacts, SessionsAreAuthIds DEF Commit, Live
<1>2. /\ Batch(s) = {s} /\ Writes(s) = {s} /\ Refunded(s) = {} /\ claim[s] = Claims(s)
      /\ newSettlement[s][s] = "settled"
  BY <1>1 DEF Batch, Writes, Refunded, Buying, Complete
<1>3. auth[s] = None /\ settlement[s] = "none"
  BY <1>1, <1>2, KeysAtAll DEF KeysAt, WholeOK, SettlingAt
<1>4. StageOf(s) = "absent"
  BY <1>3 DEF StageOf
<1>5. Promise!Advance({s}, "absent", "settled")
  BY <1>1, <1>2, <1>4, CommittedStage, AdvanceOf
<1>6. CASE Kind(s) = "purchase"
  <2>1. claim[s] \in Keys /\ claim[s] \notin Events
    BY <1>1, <1>2, <1>6, RequestFields, PaymentsAssumption DEF Claims, Kind, PaymentsAssumption
  <2>2. answer[claim[s]] = None
    BY <2>1, KeysAtAll DEF KeysAt
  <2>3. answer' = [answer EXCEPT ![claim[s]] = s] /\ processed' = processed
    BY <2>1, CommittedClaim
  <2>4. Promise!Purchase(s, claim[s])
    BY <1>5, <2>2, <2>3 DEF Promise!Purchase
  <2> QED
    BY <2>1, <2>4 DEF Promise!Next
<1>7. CASE Kind(s) # "purchase"
  <2>1. claim[s] = None
    BY <1>2, <1>7 DEF Claims, Buying, FromProcessor, OnRef
  <2>2. answer' = answer /\ processed' = processed
    BY <2>1, CommittedClaim, NoneIsNothing
  <2>3. Promise!CardPurchase(s)
    BY <1>5, <2>2 DEF Promise!CardPurchase
  <2> QED
    BY <2>3 DEF Promise!Next
<1> QED
  BY <1>6, <1>7

(* The event of a session is recorded at its commit, for the first time.   *)
LEMMA RecordsOnce ==
  ASSUME IInv, NewOK, NEW s \in Sessions, Commit(s), Complete(s), Kind(s) \in FromProcessor
  PROVE  /\ req[s] \in Requests /\ req[s].event \in Events
         /\ Promise!Record(req[s].event) /\ answer' = answer
<1>1. req[s] \in Requests /\ req[s].event \in Events
  BY CommittedRecord
<1>2. claim[s] = req[s].event
  BY DEF Complete, Claims, FromProcessor, OnRef
<1>3. claim[s] \in Events /\ claim[s] \notin Keys /\ claim[s] \notin processed
  BY <1>1, <1>2, PaymentsAssumption DEF PaymentsAssumption, NewOK, NewAt
<1>4. processed' = processed \cup {claim[s]} /\ answer' = answer
  BY <1>3, CommittedClaim
<1> QED
  BY <1>1, <1>2, <1>3, <1>4 DEF Promise!Record

LEMMA EventMoves ==
  ASSUME IInv, DraftOK, WholeOK, NewOK, DecisionOK,
         NEW s \in Sessions, Commit(s), Complete(s), Kind(s) \in OnRef
  PROVE  Promise!Next
<1> USE DEF IInv
<1> DEFINE a == req[s].ref
           e == req[s].event
<1>1. /\ e \in Events /\ Promise!Record(e) /\ answer' = answer /\ a \in Refs /\ a \in AuthIds
  BY RecordsOnce, RequestFields, SessionsAreAuthIds DEF FromProcessor, Kind
<1>2. /\ Batch(s) = {} /\ Writes(s) = {a} /\ Refunded(s) = {}
      /\ newAuth[s][a] # None
  BY <1>1 DEF Batch, Writes, Refunded, Buying, OnRef, Complete
<1> HIDE DEF a, e
<1>3. CASE Kind(s) = "created"
  <2>1. auth[a] = None /\ settlement[a] = "none"
    BY <1>1, <1>2, <1>3 DEF NewOK, NewAt, WholeOK, WholeAt
  <2>2. StageOf(a) = "absent" /\ StatusWritten(s) = "pending"
    BY <1>3, <2>1 DEF StageOf, StatusWritten
  <2>3. Promise!Advance({a}, "absent", "pending")
    BY <1>1, <1>2, <2>1, <2>2, CommittedStage, AdvanceOf
  <2>4. Promise!Create(e, a)
    BY <1>1, <2>3 DEF Promise!Create
  <2> QED
    BY <1>1, <2>4 DEF Promise!Next
<1>4. CASE Kind(s) \in Decisions
  <2>1. Pending(auth[a]) /\ settlement[a] = "none"
    BY <1>1, <1>2, <1>4 DEF DecisionOK, DecidingAt, Pending, Approved, IsPending, IsAuthorized
  <2>2. StageOf(a) = "pending" /\ StatusWritten(s) \in {"authorized", "declined"}
    BY <1>4, <2>1 DEF StageOf, StatusWritten, Decisions, Pending, IsPending
  <2>3. Promise!Advance({a}, "pending", StatusWritten(s))
    BY <1>1, <1>2, <2>1, <2>2, CommittedStage, AdvanceOf
  <2>4. Promise!Decide(e, a, StatusWritten(s))
    BY <1>1, <2>3 DEF Promise!Decide
  <2> QED
    BY <1>1, <2>2, <2>4 DEF Promise!Next
<1> QED
  BY <1>3, <1>4 DEF OnRef, Decisions

LEMMA BatchMoves ==
  ASSUME IInv, DraftOK, WholeOK, NewOK, DecisionOK,
         NEW s \in Sessions, Commit(s), Complete(s), Kind(s) = "settled"
  PROVE  Promise!Next
<1> USE DEF IInv
<1> DEFINE e == req[s].event
<1>1. e \in Events /\ Promise!Record(e) /\ answer' = answer /\ req[s] \in Requests
  BY RecordsOnce DEF FromProcessor
<1>2. Batch(s) = Range(req[s].refs) /\ Writes(s) = {} /\ Refunded(s) = {}
  BY DEF Batch, Writes, Refunded, Buying, OnRef
<1>3. Batch(s) \in SUBSET Refs /\ Batch(s) \in SUBSET AuthIds
  <2>1. req[s].refs \in Seq(Refs)
    BY <1>1, RequestFields DEF Kind
  <2>2. \A i \in DOMAIN req[s].refs : req[s].refs[i] \in Refs
    BY <2>1
  <2> QED
    BY <1>2, <2>2 DEF Range, AuthIds
<1>4. ASSUME NEW a \in Batch(s) PROVE StageOf(a) = "authorized"
  <2>1. a \in AuthIds /\ newSettlement[s][a] = "settled" /\ newAuth[s][a] = None /\ Live(s)
    BY <1>2, <1>3, <1>4 DEF Complete, Commit, Live
  <2>2. settlement[a] = "none" /\ Approved(auth[a])
    BY <2>1 DEF WholeOK, SettlingAt, DecisionOK, ApprovedAt, SeenAuth
  <2> QED
    BY <2>2 DEF StageOf, Approved, IsAuthorized
<1>5. Promise!Advance(Batch(s), "authorized", "settled")
  BY <1>2, <1>3, <1>4, CommittedStage, AdvanceOf
<1>6. Promise!Settle(e, Batch(s))
  BY <1>1, <1>5 DEF Promise!Settle
<1> QED
  BY <1>1, <1>3, <1>6 DEF Promise!Next

LEMMA RefundMoves ==
  ASSUME IInv, DraftOK, OffsetOK, NEW s \in Sessions, Commit(s), Complete(s), Kind(s) = "refund"
  PROVE  Promise!Next
<1> USE DEF IInv
<1>1. pc[s] = "commit" /\ Live(s) /\ req[s].auth \in AuthIds
  BY RefundQueue DEF Commit, Live
<1> DEFINE a == req[s].auth
<1>2. Batch(s) = {} /\ Writes(s) = {} /\ Refunded(s) = {a} /\ claim[s] = None
  BY DEF Batch, Writes, Refunded, Buying, OnRef, Complete, Claims, FromProcessor
<1>3. StageOf(a) = "settled"
  BY <1>1 DEF OffsetOK, OffsetAt, StageOf
<1>4. Promise!Advance({a}, "settled", "reversed")
  BY <1>1, <1>2, <1>3, CommittedStage, AdvanceOf
<1>5. answer' = answer /\ processed' = processed
  BY <1>2, CommittedClaim, NoneIsNothing
<1>6. Promise!Refund(a)
  BY <1>4, <1>5 DEF Promise!Refund
<1> QED
  BY <1>1, <1>6 DEF Promise!Next, Promise!AuthIds, AuthIds

(* Every step of the statements is a step of Lifecycle or none.            *)
LEMMA LifecycleStep ==
  ASSUME IInv, DraftOK, WholeOK, NewOK, DecisionOK, OffsetOK, [Next]_vars
  PROVE  [Promise!Next]_(Promise!vars)
<1> USE DEF IInv
<1>1. ASSUME \A a \in AuthIds : StageOf(a)' = StageOf(a), UNCHANGED <<answer, processed>>
      PROVE  UNCHANGED Promise!vars
  BY <1>1 DEF Promise!vars
<1>2. CASE UNCHANGED tables
  BY <1>1, <1>2 DEF tables, StageOf
<1>3. ASSUME NEW s \in Sessions, Commit(s) PROVE [Promise!Next]_(Promise!vars)
  <2>1. Nothing(s) \/ Complete(s)
    BY <1>3 DEF Commit, DraftOK, DraftAt, Finished
  <2>2. CASE Nothing(s)
    <3>1. answer' = answer /\ processed' = processed
      BY <1>3, <2>2, CommittedClaim, NoneIsNothing DEF Nothing
    <3>2. ASSUME NEW a \in AuthIds PROVE StageOf(a)' = StageOf(a)
      <4>1. auth'[a] = auth[a] /\ settlement'[a] = settlement[a]
        BY <1>3, <2>2 DEF Commit, Overlay, Nothing, NoWrites, NoSettlements
      <4> QED
        BY <4>1 DEF StageOf
    <3> QED
      BY <1>1, <3>1, <3>2
  <2>3. CASE Complete(s)
    <3>1. Kind(s) \in Kinds
      BY <1>3, HandlerFacts DEF Commit
    <3> QED
      BY <1>3, <2>3, <3>1, PurchaseMoves, EventMoves, BatchMoves, RefundMoves
      DEF Kinds, Buying, OnRef
  <2> QED
    BY <2>1, <2>2, <2>3
<1> QED
  BY <1>2, <1>3, TablesKept DEF Next, AllServed, vars

LEMMA LifecycleInit ==
  Init => Promise!Init
<1> SUFFICES ASSUME Init PROVE Promise!Init
  OBVIOUS
<1>1. ASSUME NEW a \in AuthIds
      PROVE  StageOf(a) = IF a \in Refs THEN Past[a] ELSE "absent"
  <2>1. /\ auth[a] = PastAuth(a)
        /\ settlement[a] = IF WasSettled(a) THEN "settled" ELSE "none"
    BY DEF Init
  <2>2. CASE a \notin Refs
    BY <2>1, <2>2 DEF StageOf, PastAuth, WasSettled
  <2>3. CASE a \in Refs
    <3>1. Past[a] \in {"absent", "pending", "authorized", "settled"}
      BY <2>3, PaymentsAssumption DEF PaymentsAssumption
    <3>2. CASE Past[a] = "absent"
      BY <2>1, <2>3, <3>2 DEF StageOf, PastAuth, WasSettled
    <3>3. CASE Past[a] # "absent"
      <4>1. auth[a] # None
        BY <2>1, <2>3, <3>3, PastTyped
      <4>2. auth[a].status = IF Past[a] = "pending" THEN "pending" ELSE "authorized"
        BY <2>1, <2>3, <3>3 DEF PastAuth
      <4> QED
        BY <2>1, <2>3, <3>1, <3>3, <4>1, <4>2 DEF StageOf, WasSettled
    <3> QED
      BY <3>2, <3>3
  <2> QED
    BY <2>2, <2>3
<1>2. answer = [k \in Keys |-> None] /\ processed = {}
  BY DEF Init
<1> QED
  BY <1>1, <1>2 DEF Promise!Init, Promise!AuthIds, AuthIds

(* Whatever the interleaving, what is committed moves through the stages   *)
(* of Lifecycle, each request in one step or not at all (get_db), provided *)
(* that decisions and refunds of one authorization are kept apart.         *)
THEOREM Implements ==
  ASSUME DecisionsInTurn, RefundsInTurn PROVE Spec => ImplementsLifecycle
<1>1. /\ IInv /\ DraftOK /\ WholeOK /\ NewOK /\ DecisionOK /\ OffsetOK /\ [Next]_vars
      => [Promise!Next]_(Promise!vars)
  BY LifecycleStep
<1> QED
  BY <1>1, LifecycleInit, Invariant, Drafts, Whole, CreatedOnce, Decided, Offsets, PTL
  DEF Spec, ImplementsLifecycle, Promise!Spec
=============================================================================
