--------------------------- MODULE DeliveryProofs ---------------------------
(***************************************************************************)
(* Proofs about deliveries of processor events, however many are in flight,*)
(* however their sessions overlap and however often workers die: if no     *)
(* authorization is announced both approved and declined, the processor    *)
(* may forget what it heard a 2xx for; and if none is decided twice, what  *)
(* commits follows Lifecycle.                                              *)
(***************************************************************************)
EXTENDS Delivery, TLAPS

Open(e) == handler[e] # "none"

Typed ==
  /\ stage \in [L!AuthIds -> L!Stages]
  /\ handler \in [Events -> {"none", "checked", "written", "answered"}]
  /\ heard \subseteq Events
  /\ processed \subseteq Events

(* Where an authorization may be while a session is open that has found it *)
(* as its event expects: others may have moved it on since.                *)
CheckedStages(kind) ==
  CASE kind = "created"  -> L!Stages
    [] kind = "approved" -> {"pending", "authorized", "settled", "reversed"}
    [] kind = "declined" -> {"pending", "declined"}
    [] kind = "settled"  -> {"authorized", "settled", "reversed"}

(* The same once the session has written: a unique constraint has stopped  *)
(* the inserts that came too late.                                         *)
WrittenStages(kind) ==
  CASE kind = "created"  -> {"absent"}
    [] kind = "approved" -> {"pending", "authorized", "settled", "reversed"}
    [] kind = "declined" -> {"pending", "declined"}
    [] kind = "settled"  -> {"authorized"}

ChecksHold ==
  \A e \in Events : Open(e) =>
    /\ e \notin processed
    /\ \A a \in Announces[e].refs : stage[a] \in CheckedStages(Announces[e].kind)

WritesHold ==
  \A e \in Events : Uncommitted(e) =>
    \A a \in Announces[e].refs : stage[a] \in WrittenStages(Announces[e].kind)

(* A row that one session has written and not committed no other writes.   *)
Apart ==
  \A e, f \in Events :
    (e # f /\ Uncommitted(e) /\ Uncommitted(f)) => ~ WritesSameRow(e, f)

(* An event_id that is recorded has taken effect.                          *)
RecordedTookEffect == \A e \in processed : TookEffect(e)

IInv ==
  /\ Typed
  /\ ChecksHold
  /\ WritesHold
  /\ Apart
  /\ RecordedTookEffect
  /\ HeardIsKept

-----------------------------------------------------------------------------
(* What a commit moves an authorization to.                                *)

LEMMA Moves ==
  ASSUME NEW kind \in Kinds, NEW from \in WrittenStages(kind)
  PROVE  /\ Moved(kind, from) \in L!Stages
         /\ Moved(kind, from) \in Reaches(kind)
         /\ \A other \in Kinds : from \in Reaches(other) => Moved(kind, from) \in Reaches(other)
  BY DEF Kinds, WrittenStages, Moved, Reaches, L!Stages

(* It leaves in place what other sessions have checked, unless one of the  *)
(* two approves what the other declines.                                   *)
LEMMA MovesKeepChecks ==
  ASSUME NEW kind \in Kinds, NEW other \in Kinds,
         ~ (kind = "approved" /\ other = "declined"),
         ~ (kind = "declined" /\ other = "approved"),
         NEW from \in WrittenStages(kind), from \in CheckedStages(other)
  PROVE  Moved(kind, from) \in CheckedStages(other)
  BY DEF Kinds, CheckedStages, WrittenStages, Moved, L!Stages

LEMMA MovesKeepWrites ==
  ASSUME NEW kind \in Kinds, NEW other \in Kinds, Table(kind) # Table(other),
         NEW from \in WrittenStages(kind), from \in WrittenStages(other)
  PROVE  Moved(kind, from) \in WrittenStages(other)
  BY DEF Kinds, WrittenStages, Moved, Table

LEMMA Announced ==
  ASSUME NEW e \in Events
  PROVE  Announces[e].kind \in Kinds /\ Announces[e].refs \subseteq L!AuthIds
  BY DeliveryAssumption DEF DeliveryAssumption, L!AuthIds

-----------------------------------------------------------------------------

LEMMA InitInv == Init => IInv
  <1>1. SUFFICES ASSUME Init PROVE IInv
    OBVIOUS
  <1>2. Typed
    BY <1>1, PastAssumption DEF Init, L!Init, Typed, L!AuthIds, L!Stages
  <1>3. \A e \in Events : ~ Open(e) /\ ~ Uncommitted(e)
    BY <1>1 DEF Init, Open, Uncommitted
  <1>4. processed = {} /\ heard = {}
    BY <1>1 DEF Init, L!Init
  <1>5. QED
    BY <1>2, <1>3, <1>4
    DEF IInv, ChecksHold, WritesHold, Apart, RecordedTookEffect, HeardIsKept

(* A step that leaves the service and its sessions alone, and lets the     *)
(* processor hear at most what has taken effect.                           *)
LEMMA QuietStep ==
  ASSUME IInv, UNCHANGED <<stage, answer, processed, handler, lost>>,
         heard' \subseteq Events,
         \A e \in heard' \ heard : e \in processed
  PROVE  IInv'
  <1>1. /\ Typed' /\ ChecksHold' /\ WritesHold' /\ Apart' /\ RecordedTookEffect'
    BY DEF IInv, Typed, ChecksHold, WritesHold, Apart, RecordedTookEffect,
           Open, Uncommitted, TookEffect
  <1>2. \A e : TookEffect(e)' <=> TookEffect(e)
    BY DEF TookEffect
  <1>3. HeardIsKept'
    BY <1>2 DEF IInv, HeardIsKept, RecordedTookEffect
  <1>4. QED
    BY <1>1, <1>3 DEF IInv

(* A session goes on from one point to another and nothing is committed.   *)
LEMMA SessionStep ==
  ASSUME IInv, NEW e \in Events, NEW point \in {"none", "checked", "written", "answered"},
         UNCHANGED <<stage, processed>>,
         handler' = [handler EXCEPT ![e] = point],
         point # "none" => ChecksHold',
         point \in {"written", "answered"} => WritesHold' /\ Apart',
         heard' \subseteq Events,
         HeardIsKept'
  PROVE  IInv'
  <1>1. Typed'
    BY DEF IInv, Typed
  <1>2. \A f \in Events : handler'[f] = IF f = e THEN point ELSE handler[f]
    BY DEF IInv, Typed
  <1>3. ChecksHold'
    BY <1>2 DEF IInv, ChecksHold, Open
  <1>4. WritesHold' /\ Apart'
    <2>1. CASE point \in {"written", "answered"}
      BY <2>1
    <2>2. CASE point \in {"none", "checked"}
      BY <1>2, <2>2 DEF IInv, WritesHold, Apart, Uncommitted
    <2>3. QED
      BY <2>1, <2>2
  <1>5. RecordedTookEffect'
    BY DEF IInv, RecordedTookEffect, TookEffect
  <1>6. QED
    BY <1>1, <1>3, <1>4, <1>5 DEF IInv

LEMMA CheckInv ==
  ASSUME IInv, NEW e \in Events, Check(e)
  PROVE  IInv'
  <1>1. /\ Applicable(e) /\ e \notin processed /\ handler[e] = "none"
        /\ UNCHANGED <<stage, answer, processed, heard, lost>>
        /\ handler' = [handler EXCEPT ![e] = "checked"]
    BY DEF Check, Claims, service
  <1>2. \A f \in Events : handler'[f] = IF f = e THEN "checked" ELSE handler[f]
    BY <1>1 DEF IInv, Typed
  <1>3. Expects(Announces[e].kind) \in CheckedStages(Announces[e].kind)
    BY Announced DEF Kinds, Expects, CheckedStages, L!Stages
  <1>4. ChecksHold'
    BY <1>1, <1>2, <1>3 DEF IInv, ChecksHold, Open, Applicable
  <1>5. HeardIsKept'
    BY <1>1, <1>2 DEF IInv, Typed, HeardIsKept, TookEffect
  <1>6. heard' \subseteq Events
    BY <1>1 DEF IInv, Typed
  <1>7. QED
    BY <1>1, <1>4, <1>5, <1>6, SessionStep

LEMMA WriteInv ==
  ASSUME IInv, NEW e \in Events, Write(e)
  PROVE  IInv'
  <1>1. /\ handler[e] = "checked" /\ CanWrite(e) /\ ~ Collides(e)
        /\ UNCHANGED <<stage, answer, processed, heard, lost>>
        /\ handler' = [handler EXCEPT ![e] = "written"]
    BY DEF Write, service
  <1>2. \A f \in Events : handler'[f] = IF f = e THEN "written" ELSE handler[f]
    BY <1>1 DEF IInv, Typed
  <1>3. ChecksHold'
    BY <1>1, <1>2 DEF IInv, ChecksHold, Open
  <1>4. WritesHold'
    <2>1. ASSUME NEW a \in Announces[e].refs
          PROVE  stage[a] \in WrittenStages(Announces[e].kind)
      <3>1. stage[a] \in CheckedStages(Announces[e].kind)
        BY <1>1 DEF IInv, ChecksHold, Open
      <3>2. /\ Announces[e].kind = "created" => stage[a] = "absent"
            /\ Announces[e].kind = "settled" => stage[a] \notin {"settled", "reversed"}
        BY <1>1 DEF Collides
      <3>3. QED
        BY <3>1, <3>2, Announced DEF Kinds, CheckedStages, WrittenStages
    <2>2. QED
      BY <1>1, <1>2, <2>1 DEF IInv, WritesHold, Uncommitted
  <1>5. Apart'
    <2>1. \A f \in Events : (f # e /\ Uncommitted(f)) =>
            ~ WritesSameRow(e, f) /\ ~ WritesSameRow(f, e)
      BY <1>1 DEF CanWrite, WritesSameRow
    <2>2. QED
      BY <1>2, <2>1 DEF IInv, Apart, Uncommitted, WritesSameRow
  <1>6. HeardIsKept'
    BY <1>1, <1>2 DEF IInv, Typed, HeardIsKept, TookEffect
  <1>7. heard' \subseteq Events
    BY <1>1 DEF IInv, Typed
  <1>8. QED
    BY <1>1, <1>3, <1>4, <1>5, <1>6, <1>7, SessionStep

LEMMA FailInv ==
  ASSUME IInv, NEW e \in Events, FailToWrite(e)
  PROVE  IInv'
  <1>1. /\ handler[e] = "checked"
        /\ UNCHANGED <<stage, answer, processed, heard, lost>>
        /\ handler' = [handler EXCEPT ![e] = "none"]
    BY DEF FailToWrite, service
  <1>2. HeardIsKept' /\ heard' \subseteq Events
    BY <1>1 DEF IInv, Typed, HeardIsKept, TookEffect
  <1>3. QED
    BY <1>1, <1>2, SessionStep

LEMMA RespondInv ==
  ASSUME IInv, NEW e \in Events, Respond(e)
  PROVE  IInv'
  <1>1. /\ handler[e] = "written"
        /\ UNCHANGED <<stage, answer, processed, lost>>
        /\ handler' = [handler EXCEPT ![e] = "answered"]
        /\ heard' \in {heard, heard \cup {e}}
    BY DEF Respond, service, MayHear
  <1>2. \A f \in Events : handler'[f] = IF f = e THEN "answered" ELSE handler[f]
    BY <1>1 DEF IInv, Typed
  <1>3. \A f \in Events : (Open(f)' <=> Open(f)) /\ (Uncommitted(f)' <=> Uncommitted(f))
    BY <1>1, <1>2 DEF Open, Uncommitted
  <1>4. ChecksHold' /\ WritesHold' /\ Apart'
    BY <1>1, <1>3 DEF IInv, ChecksHold, WritesHold, Apart, WritesSameRow
  <1>5. HeardIsKept' /\ heard' \subseteq Events
    BY <1>1, <1>2 DEF IInv, Typed, HeardIsKept, TookEffect
  <1>6. QED
    BY <1>1, <1>4, <1>5, SessionStep

LEMMA CrashInv ==
  ASSUME IInv, NEW e \in Events, Crash(e)
  PROVE  IInv'
  <1>1. /\ UNCHANGED <<stage, answer, processed, heard>>
        /\ handler' = [handler EXCEPT ![e] = "none"]
        /\ lost' = lost \cup ({e} \cap heard)
    BY DEF Crash, service
  <1>2. HeardIsKept' /\ heard' \subseteq Events
    BY <1>1 DEF IInv, Typed, HeardIsKept, TookEffect
  <1>3. QED
    BY <1>1, <1>2, SessionStep

LEMMA CommitInv ==
  ASSUME OneVerdict, IInv, NEW e \in Events, Commit(e)
  PROVE  IInv'
  <1> DEFINE kind == Announces[e].kind
             refs == Announces[e].refs
  <1>1. /\ handler[e] = "answered"
        /\ stage' = [a \in L!AuthIds |-> IF a \in refs THEN Moved(kind, stage[a]) ELSE stage[a]]
        /\ processed' = processed \cup {e}
        /\ handler' = [handler EXCEPT ![e] = "none"]
        /\ UNCHANGED <<heard, lost>>
    BY DEF Commit
  <1>2. Typed /\ Uncommitted(e) /\ kind \in Kinds /\ refs \subseteq L!AuthIds
    BY <1>1, Announced DEF IInv, Uncommitted
  <1>3. \A a \in refs : stage[a] \in WrittenStages(kind)
    BY <1>2 DEF IInv, WritesHold
  <1>4. \A f \in Events : handler'[f] = IF f = e THEN "none" ELSE handler[f]
    BY <1>1, <1>2 DEF Typed
  <1>5. \A f \in Events : TookEffect(f) => TookEffect(f)'
    BY <1>1, <1>3, Announced, Moves DEF TookEffect
  <1>6. TookEffect(e)'
    BY <1>1, <1>2, <1>3, Moves DEF TookEffect
  <1>7. Typed'
    <2>1. \A a \in refs : Moved(kind, stage[a]) \in L!Stages
      BY <1>2, <1>3, Moves
    <2>2. stage' \in [L!AuthIds -> L!Stages]
      BY <1>1, <1>2, <2>1 DEF Typed
    <2>3. QED
      BY <1>1, <1>2, <2>2 DEF Typed
  <1>8. ChecksHold'
    <2>1. SUFFICES ASSUME NEW f \in Events, Open(f)'
                   PROVE  /\ f \notin processed'
                          /\ \A a \in Announces[f].refs :
                               stage'[a] \in CheckedStages(Announces[f].kind)
      BY DEF ChecksHold
    <2>2. /\ f # e /\ f \notin processed
          /\ \A a \in Announces[f].refs : stage[a] \in CheckedStages(Announces[f].kind)
      BY <1>4, <2>1 DEF IInv, ChecksHold, Open
    <2>3. ASSUME NEW a \in Announces[f].refs
          PROVE  stage'[a] \in CheckedStages(Announces[f].kind)
      <3>1. a \in L!AuthIds /\ Announces[f].kind \in Kinds
        BY Announced
      <3>2. CASE a \notin refs
        BY <1>1, <2>2, <3>1, <3>2
      <3>3. CASE a \in refs
        <4>1. /\ ~ (kind = "approved" /\ Announces[f].kind = "declined")
              /\ ~ (kind = "declined" /\ Announces[f].kind = "approved")
          BY <3>3 DEF OneVerdict
        <4>2. Moved(kind, stage[a]) \in CheckedStages(Announces[f].kind)
          BY <1>2, <1>3, <2>2, <3>1, <3>3, <4>1, MovesKeepChecks
        <4>3. QED
          BY <1>1, <3>1, <3>3, <4>2
      <3>4. QED
        BY <3>2, <3>3
    <2>4. QED
      BY <1>1, <2>2, <2>3
  <1>9. WritesHold'
    <2>1. SUFFICES ASSUME NEW f \in Events, Uncommitted(f)', NEW a \in Announces[f].refs
                   PROVE  stage'[a] \in WrittenStages(Announces[f].kind)
      BY DEF WritesHold
    <2>2. f # e /\ Uncommitted(f) /\ stage[a] \in WrittenStages(Announces[f].kind)
      BY <1>4, <2>1 DEF IInv, WritesHold, Uncommitted
    <2>3. a \in L!AuthIds /\ Announces[f].kind \in Kinds
      BY Announced
    <2>4. CASE a \notin refs
      BY <1>1, <2>2, <2>3, <2>4
    <2>5. CASE a \in refs
      <3>1. Table(kind) # Table(Announces[f].kind)
        BY <1>2, <2>2, <2>5 DEF IInv, Apart, WritesSameRow
      <3>2. Moved(kind, stage[a]) \in WrittenStages(Announces[f].kind)
        BY <1>2, <1>3, <2>2, <2>3, <2>5, <3>1, MovesKeepWrites
      <3>3. QED
        BY <1>1, <2>3, <2>5, <3>2
    <2>6. QED
      BY <2>4, <2>5
  <1>10. Apart'
    BY <1>4 DEF IInv, Apart, Uncommitted, WritesSameRow
  <1>11. RecordedTookEffect'
    BY <1>1, <1>2, <1>5, <1>6 DEF IInv, RecordedTookEffect, Typed
  <1>12. HeardIsKept'
    BY <1>1, <1>2, <1>4, <1>5, <1>6 DEF IInv, Typed, HeardIsKept
  <1>13. QED
    BY <1>7, <1>8, <1>9, <1>10, <1>11, <1>12 DEF IInv

LEMMA StepInv == OneVerdict /\ IInv /\ [Next]_vars => IInv'
  <1>1. SUFFICES ASSUME OneVerdict, IInv, [Next]_vars PROVE IInv'
    OBVIOUS
  <1>2. CASE UNCHANGED vars
    BY <1>1, <1>2, QuietStep DEF vars, service, IInv, Typed
  <1>3. CASE Tick
    BY <1>1, <1>3, QuietStep DEF Tick, service, IInv, Typed
  <1>4. ASSUME NEW e \in Events, NEW lead \in Leads, NEW seal \in Seals, Send(e, lead, seal)
        PROVE  IInv'
    BY <1>1, <1>4, QuietStep DEF Send, service, IInv, Typed
  <1>5. ASSUME NEW e \in Events, Lose(e) PROVE IInv'
    BY <1>1, <1>5, QuietStep DEF Lose, service, IInv, Typed
  <1>6. ASSUME NEW e \in Events, Refuse(e) PROVE IInv'
    BY <1>1, <1>6, QuietStep DEF Refuse, service, IInv, Typed
  <1>7. ASSUME NEW e \in Events, Ignore(e) PROVE IInv'
    BY <1>1, <1>7, QuietStep DEF Ignore, MayHear, service, IInv, Typed
  <1>8. ASSUME NEW e \in Events, Reject(e) PROVE IInv'
    BY <1>1, <1>8, QuietStep DEF Reject, service, IInv, Typed
  <1>9. ASSUME NEW e \in Events, Proceed(e) PROVE IInv'
    BY <1>1, <1>9, WriteInv, FailInv, RespondInv, CommitInv DEF Proceed
  <1>10. QED
    BY <1>1, <1>2, <1>3, <1>4, <1>5, <1>6, <1>7, <1>8, <1>9,
       CheckInv, CrashInv DEF Next, Receive

(* If no authorization is announced both approved and declined, the        *)
(* processor may forget what it heard a 2xx for: for every such history of *)
(* events, every order, number and overlap of deliveries and every number  *)
(* of workers that die, such an event has taken effect or is about to,     *)
(* unless the worker that answered died before its commit.                 *)
THEOREM HeardKept ==
  ASSUME OneVerdict
  PROVE  Spec => []HeardIsKept
  <1>1. Init => IInv
    BY InitInv
  <1>2. IInv /\ [Next]_vars => IInv'
    BY OneVerdict, StepInv
  <1>3. IInv => HeardIsKept
    BY DEF IInv
  <1>4. QED
    BY <1>1, <1>2, <1>3, PTL DEF Spec

-----------------------------------------------------------------------------
(* What commits is a step of Lifecycle.                                    *)

(* While the session that decides is open nothing else moves what it is    *)
(* about.                                                                  *)
DecisionsHold ==
  \A e \in Events : (Open(e) /\ Decides(e)) => \A a \in Announces[e].refs : stage[a] = "pending"

LEMMA DecisionImpliesVerdict == OneDecision => OneVerdict
  BY DEF OneDecision, OneVerdict, Decides

LEMMA DecisionStep ==
  ASSUME OneDecision, IInv, DecisionsHold, [Next]_vars
  PROVE  DecisionsHold'
  <1>1. SUFFICES ASSUME NEW e \in Events, Open(e)', Decides(e), NEW a \in Announces[e].refs
                 PROVE  stage'[a] = "pending"
    BY DEF DecisionsHold, Decides
  <1>2. a \in L!AuthIds
    BY Announced
  <1>3. ASSUME UNCHANGED <<stage, handler>> PROVE stage'[a] = "pending"
    BY <1>1, <1>3 DEF DecisionsHold, Open
  <1>4. ASSUME NEW f \in Events, Check(f) PROVE stage'[a] = "pending"
    <2>1. Applicable(f) /\ stage' = stage /\ handler' = [handler EXCEPT ![f] = "checked"]
      BY <1>4 DEF Check, service
    <2>2. CASE f = e
      BY <1>1, <2>1, <2>2 DEF Applicable, Expects, Decides
    <2>3. CASE f # e
      BY <1>1, <2>1, <2>3 DEF IInv, Typed, DecisionsHold, Open
    <2>4. QED
      BY <2>2, <2>3
  <1>5. ASSUME NEW f \in Events,
               \/ Write(f) \/ FailToWrite(f) \/ Respond(f) \/ Crash(f)
        PROVE  stage'[a] = "pending"
    <2>1. /\ stage' = stage
          /\ \A g \in Events : Open(g)' => Open(g)
      BY <1>5 DEF Write, FailToWrite, Respond, Crash, service, IInv, Typed, Open
    <2>2. QED
      BY <1>1, <2>1 DEF DecisionsHold
  <1>6. ASSUME NEW f \in Events, Commit(f) PROVE stage'[a] = "pending"
    <2>1. /\ handler[f] = "answered" /\ handler' = [handler EXCEPT ![f] = "none"]
          /\ stage' = [b \in L!AuthIds |-> IF b \in Announces[f].refs
                                           THEN Moved(Announces[f].kind, stage[b]) ELSE stage[b]]
      BY <1>6 DEF Commit
    <2>2. f # e /\ stage[a] = "pending"
      BY <1>1, <2>1 DEF IInv, Typed, DecisionsHold, Open
    <2>3. a \notin Announces[f].refs
      <3>1. SUFFICES ASSUME a \in Announces[f].refs PROVE FALSE
        OBVIOUS
      <3>2. ~ Decides(f)
        BY <1>1, <2>2, <3>1 DEF OneDecision
      <3>3. stage[a] \in WrittenStages(Announces[f].kind)
        BY <2>1, <3>1 DEF IInv, WritesHold, Uncommitted
      <3>4. QED
        BY <2>2, <3>2, <3>3, Announced DEF Decides, Kinds, WrittenStages
    <2>4. QED
      BY <1>2, <2>1, <2>2, <2>3
  <1>7. QED
    BY <1>3, <1>4, <1>5, <1>6
    DEF Next, vars, service, Tick, Send, Lose, Receive, Refuse, Ignore, Reject, Proceed

LEMMA CommitRefines ==
  ASSUME IInv, DecisionsHold, NEW e \in Events, Commit(e)
  PROVE  L!Next
  <1> DEFINE kind == Announces[e].kind
             refs == Announces[e].refs
  <1>1. /\ handler[e] = "answered"
        /\ stage' = [a \in L!AuthIds |-> IF a \in refs THEN Moved(kind, stage[a]) ELSE stage[a]]
        /\ processed' = processed \cup {e} /\ answer' = answer
    BY DEF Commit
  <1>2. Open(e) /\ Uncommitted(e) /\ kind \in Kinds
    BY <1>1, Announced DEF Open, Uncommitted
  <1>3. e \notin processed /\ refs \subseteq Refs
    BY <1>2, DeliveryAssumption DEF IInv, ChecksHold, DeliveryAssumption
  <1>4. \A a \in refs : stage[a] \in WrittenStages(kind)
    BY <1>2 DEF IInv, WritesHold
  <1>5. kind # "settled" => \E a \in Refs : refs = {a}
    BY DeliveryAssumption DEF DeliveryAssumption
  <1>6. CASE kind = "settled"
    <2>1. L!Advance(refs, "authorized", "settled")
      BY <1>1, <1>4, <1>6 DEF L!Advance, WrittenStages, Moved
    <2>2. L!Settle(e, refs)
      BY <1>1, <1>3, <2>1 DEF L!Settle, L!Record
    <2>3. QED
      BY <1>3, <2>2 DEF L!Next
  <1>7. CASE kind = "created"
    <2>1. PICK a \in Refs : refs = {a}
      BY <1>5, <1>7
    <2>2. L!Advance({a}, "absent", "pending")
      BY <1>1, <1>4, <1>7, <2>1 DEF L!Advance, WrittenStages, Moved
    <2>3. L!Create(e, a)
      BY <1>1, <1>3, <2>2 DEF L!Create, L!Record
    <2>4. QED
      BY <2>3 DEF L!Next
  <1>8. CASE Decides(e)
    <2>1. PICK a \in Refs : refs = {a}
      BY <1>5, <1>8 DEF Decides
    <2>2. stage[a] = "pending"
      BY <1>2, <1>8, <2>1 DEF DecisionsHold
    <2>3. PICK d \in {"authorized", "declined"} : Moved(kind, "pending") = d
      BY <1>8 DEF Decides, Moved
    <2>4. L!Advance({a}, "pending", d)
      BY <1>1, <2>1, <2>2, <2>3 DEF L!Advance
    <2>5. L!Decide(e, a, d)
      BY <1>1, <1>3, <2>4 DEF L!Decide, L!Record
    <2>6. QED
      BY <2>5 DEF L!Next
  <1>9. QED
    BY <1>2, <1>6, <1>7, <1>8 DEF Kinds, Decides

LEMMA StepRefines ==
  ASSUME IInv, DecisionsHold, [Next]_vars
  PROVE  [L!Next]_(L!vars)
  <1>1. ASSUME NEW e \in Events, Commit(e) PROVE L!Next
    BY <1>1, CommitRefines
  <1>2. QED
    BY <1>1
    DEF Next, vars, service, L!vars, Tick, Send, Lose, Receive, Refuse, Ignore, Reject,
        Check, Proceed, Write, FailToWrite, Respond, Crash

(* If no authorization is decided twice, then whatever sessions overlap    *)
(* between their checks and their commits, each commit is one step of      *)
(* Lifecycle: for every history of events, every order and number of       *)
(* deliveries and every number of workers that die.                        *)
THEOREM EffectsFollow ==
  ASSUME OneDecision
  PROVE  Spec => EffectsFollowLifecycle
  <1>1. Init => L!Init /\ IInv /\ DecisionsHold
    BY InitInv DEF Init, DecisionsHold, Open
  <1>2. IInv /\ DecisionsHold /\ [Next]_vars => (IInv /\ DecisionsHold)'
    BY OneDecision, DecisionImpliesVerdict, StepInv, DecisionStep
  <1>3. IInv /\ DecisionsHold /\ [Next]_vars => [L!Next]_(L!vars)
    BY StepRefines
  <1>4. QED
    BY <1>1, <1>2, <1>3, PTL DEF Spec, EffectsFollowLifecycle, L!Spec
=============================================================================
