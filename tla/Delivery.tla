------------------------------ MODULE Delivery ------------------------------
(***************************************************************************)
(* Deliveries of processor events to POST /webhooks/processor-events: the  *)
(* processor signs and sends an event until it hears a 2xx, the network    *)
(* loses, repeats, delays and reorders what was sent, and the service      *)
(* checks the signature (app/security/webhook_signature.py), claims the    *)
(* event_id, checks what the event is about, writes, answers and then      *)
(* commits (app/api/webhooks.py).  Sessions overlap: each checks what is   *)
(* committed at that moment and locks nothing by it, and waits for another *)
(* only to write the row that the other one has written.  What a session   *)
(* writes is here the stage of Lifecycle that its rows amount to.          *)
(*                                                                         *)
(* One copy of each event is in flight: sending the event again replaces   *)
(* the copy, and a copy may be delivered any number of times.              *)
(***************************************************************************)
EXTENDS Integers

CONSTANTS
  Sessions, Refs, Keys, Events, Past, None,   \* of Lifecycle
  Announces,   \* [Events -> what the event says, and of which authorizations]
  Tolerance,   \* SIGNATURE_TOLERANCE_SECONDS, in ticks
  Leads,       \* how far the processor's clock may be ahead of ours
  Seals,       \* what may be wrong with a delivery
  MaxCrashes

Kinds == {"created", "approved", "declined", "settled"}

DeliveryAssumption ==
  /\ Announces \in [Events -> [kind: Kinds, refs: SUBSET Refs]]
  /\ \A e \in Events : Announces[e].kind # "settled" => \E a \in Refs : Announces[e].refs = {a}
  /\ Tolerance \in Nat
  /\ Leads \subseteq Int
  /\ Seals \subseteq {"missing", "malformed", "wrong", "unparsable", "good"}
  /\ MaxCrashes \in Nat

ASSUME DeliveryAssumption

VARIABLES
  stage, answer, processed,   \* of Lifecycle
  copy,      \* [Events -> the signed delivery in flight, or None]
  handler,   \* [Events -> how far its open session is: "none", "checked",
             \* "written" or "answered"]
  heard,     \* events for which the processor has heard a 2xx
  lost,      \* events the processor heard a 2xx for, whose worker then died
             \* before it committed
  crashes

L == INSTANCE Lifecycle

(* What earlier requests left behind is a stage.                           *)
ASSUME PastAssumption == Past \in [Refs -> L!Stages]

service == <<stage, answer, processed>>
vars == <<service, copy, handler, heard, lost, crashes>>

Init ==
  /\ L!Init
  /\ copy = [e \in Events |-> None]
  /\ handler = [e \in Events |-> "none"]
  /\ heard = {}
  /\ lost = {}
  /\ crashes = 0

-----------------------------------------------------------------------------
(* The processor and the network.                                          *)

(* sign_payload: the timestamp is the processor's clock.                   *)
Send(e, lead, seal) ==
  /\ e \notin heard
  /\ copy' = [copy EXCEPT ![e] = [age |-> -lead, seal |-> seal]]
  /\ UNCHANGED <<service, handler, heard, lost, crashes>>

(* Time passes; how much a copy is too old by does not matter.             *)
Older(c) == IF c = None \/ c.age > Tolerance THEN c ELSE [c EXCEPT !.age = @ + 1]

Tick ==
  /\ copy' = [e \in Events |-> Older(copy[e])]
  /\ UNCHANGED <<service, handler, heard, lost, crashes>>

Lose(e) ==
  /\ copy' = [copy EXCEPT ![e] = None]
  /\ UNCHANGED <<service, handler, heard, lost, crashes>>

(* A delivered copy may come again.                                        *)
MayRepeat(e) == copy' \in {copy, [copy EXCEPT ![e] = None]}

(* The processor hears an answer, or not.                                  *)
MayHear(e) == heard' \in {heard, heard \cup {e}}

-----------------------------------------------------------------------------
(* The service.                                                            *)

(* abs(time.time() - timestamp) > SIGNATURE_TOLERANCE_SECONDS              *)
Expired(age) == age > Tolerance \/ -age > Tolerance

(* verify_webhook_signature, then the parsing of the envelope.             *)
Verdict(c) ==
  CASE c.seal = "missing"    -> "missing_signature"
    [] c.seal = "malformed"  -> "malformed_signature"
    [] c.seal \notin {"missing", "malformed"} /\ Expired(c.age) -> "signature_expired"
    [] c.seal = "wrong"      /\ ~ Expired(c.age) -> "invalid_signature"
    [] c.seal = "unparsable" /\ ~ Expired(c.age) -> "malformed_payload"
    [] c.seal = "good"       /\ ~ Expired(c.age) -> "accepted"

Accepted(e) == copy[e] # None /\ Verdict(copy[e]) = "accepted"

(* 401 or 400 before anything is claimed.                                  *)
Refuse(e) ==
  /\ copy[e] # None
  /\ ~ Accepted(e)
  /\ MayRepeat(e)
  /\ UNCHANGED <<service, handler, heard, lost, crashes>>

(* The stage that an authorization must be at for the event's handler.     *)
Expects(kind) ==
  CASE kind = "created" -> "absent"
    [] kind \in {"approved", "declined"} -> "pending"
    [] kind = "settled" -> "authorized"

Applicable(e) == \A a \in Announces[e].refs : stage[a] = Expects(Announces[e].kind)

(* try_claim finds the event_id taken: 200 "ignored".                      *)
Ignore(e) ==
  /\ Accepted(e)
  /\ e \in processed
  /\ MayRepeat(e)
  /\ MayHear(e)
  /\ UNCHANGED <<service, handler, lost, crashes>>

(* The claim of an event_id waits for the session that holds it.           *)
Claims(e) ==
  /\ Accepted(e)
  /\ e \notin processed
  /\ handler[e] = "none"

(* Mutant: the event is recorded although its handler failed. *)
RejectAndRecord(e) ==
  /\ Claims(e)
  /\ ~ Applicable(e)
  /\ processed' = processed \cup {e}
  /\ MayRepeat(e)
  /\ UNCHANGED <<stage, answer, handler, heard, lost, crashes>>

(* Mutant: a handler that failed is answered 200. *)
RejectWithOk(e) ==
  /\ Claims(e)
  /\ ~ Applicable(e)
  /\ MayRepeat(e)
  /\ MayHear(e)
  /\ UNCHANGED <<service, handler, lost, crashes>>

(* The handler raises ValueError: 400, and the claim is rolled back.       *)
Reject(e) ==
  /\ Claims(e)
  /\ ~ Applicable(e)
  /\ MayRepeat(e)
  /\ UNCHANGED <<service, handler, heard, lost, crashes>>

(* The checks of the event's handler, on what is committed.                *)
Check(e) ==
  /\ Claims(e)
  /\ Applicable(e)
  /\ handler' = [handler EXCEPT ![e] = "checked"]
  /\ MayRepeat(e)
  /\ UNCHANGED <<service, heard, lost, crashes>>

(* The table whose rows an event of this kind writes.                      *)
Table(kind) == IF kind = "settled" THEN "settlements" ELSE "authorizations"

WritesSameRow(e, f) ==
  /\ Table(Announces[e].kind) = Table(Announces[f].kind)
  /\ Announces[e].refs \cap Announces[f].refs # {}

Uncommitted(e) == handler[e] \in {"written", "answered"}

CanWrite(e) == \A f \in Events \ {e} : Uncommitted(f) => ~ WritesSameRow(e, f)

(* Mutant: no unique constraint on what is inserted. *)
NeverCollides(e) == FALSE

(* The row that an INSERT adds is there by now: the unique constraints on  *)
(* external_reference and on settlements.authorization_id.  The UPDATE of  *)
(* a decision names its row by the id alone.                               *)
Collides(e) ==
  \E a \in Announces[e].refs :
    \/ Announces[e].kind = "created" /\ stage[a] # "absent"
    \/ Announces[e].kind = "settled" /\ stage[a] \in {"settled", "reversed"}

Write(e) ==
  /\ handler[e] = "checked"
  /\ CanWrite(e)
  /\ ~ Collides(e)
  /\ handler' = [handler EXCEPT ![e] = "written"]
  /\ UNCHANGED <<service, copy, heard, lost, crashes>>

(* 500, and everything is rolled back.                                     *)
FailToWrite(e) ==
  /\ handler[e] = "checked"
  /\ CanWrite(e)
  /\ Collides(e)
  /\ handler' = [handler EXCEPT ![e] = "none"]
  /\ UNCHANGED <<service, copy, heard, lost, crashes>>

Respond(e) ==
  /\ handler[e] = "written"
  /\ handler' = [handler EXCEPT ![e] = "answered"]
  /\ MayHear(e)
  /\ UNCHANGED <<service, copy, lost, crashes>>

(* The stage of an authorization once the rows that the session wrote are  *)
(* committed; what is settled stays so whatever its status says.           *)
Moved(kind, from) ==
  CASE kind = "created"  -> "pending"
    [] kind = "approved" -> IF from \in {"settled", "reversed"} THEN from ELSE "authorized"
    [] kind = "declined" -> IF from \in {"settled", "reversed"} THEN from ELSE "declined"
    [] kind = "settled"  -> "settled"

Commit(e) ==
  /\ handler[e] = "answered"
  /\ stage' = [a \in L!AuthIds |-> IF a \in Announces[e].refs
                                    THEN Moved(Announces[e].kind, stage[a]) ELSE stage[a]]
  /\ processed' = processed \cup {e}
  /\ handler' = [handler EXCEPT ![e] = "none"]
  /\ UNCHANGED <<answer, copy, heard, lost, crashes>>

(* The worker dies and its session is rolled back.                         *)
Crash(e) ==
  /\ crashes < MaxCrashes
  /\ handler[e] # "none"
  /\ handler' = [handler EXCEPT ![e] = "none"]
  /\ lost' = lost \cup ({e} \cap heard)
  /\ crashes' = crashes + 1
  /\ UNCHANGED <<service, copy, heard>>

-----------------------------------------------------------------------------

Receive(e) == Refuse(e) \/ Ignore(e) \/ Reject(e) \/ Check(e)

Proceed(e) == Write(e) \/ FailToWrite(e) \/ Respond(e) \/ Commit(e)

Next ==
  \/ Tick
  \/ \E e \in Events :
       \/ \E lead \in Leads, seal \in Seals : Send(e, lead, seal)
       \/ Lose(e)
       \/ Receive(e)
       \/ Proceed(e)
       \/ Crash(e)

Spec == Init /\ [][Next]_vars

(* An open session gets to write, to answer and to commit.  What is        *)
(* outside the service is assumed to be persistent: the processor goes on  *)
(* sending an event it heard nothing about, and of infinitely many good    *)
(* copies the network brings some in time.                                 *)
FairSpec ==
  /\ Spec
  /\ \A e \in Events :
       /\ WF_vars(Proceed(e))
       /\ WF_vars(Send(e, 0, "good"))
       /\ SF_vars(Accepted(e) /\ Receive(e))

-----------------------------------------------------------------------------

(* The stages that show an event of this kind to have taken effect.        *)
Reaches(kind) ==
  CASE kind = "created"  -> L!Stages \ {"absent"}
    [] kind = "approved" -> {"authorized", "settled", "reversed"}
    [] kind = "declined" -> {"declined"}
    [] kind = "settled"  -> {"settled", "reversed"}

TookEffect(e) == \A a \in Announces[e].refs : stage[a] \in Reaches(Announces[e].kind)

Decides(e) == Announces[e].kind \in {"approved", "declined"}

(* What the history of events must be like: no authorization is both       *)
(* approved and declined (two sessions that overlap would accept both, and *)
(* the later commit undo the other), and for the stages to follow one      *)
(* another, none is decided twice.                                         *)
OneVerdict ==
  \A e, f \in Events :
    (Announces[e].kind = "approved" /\ Announces[f].kind = "declined")
      => Announces[e].refs \cap Announces[f].refs = {}

OneDecision ==
  \A e, f \in Events :
    (e # f /\ Decides(e) /\ Decides(f)) => Announces[e].refs \cap Announces[f].refs = {}

(* The processor may forget what it heard a 2xx for: the event has taken   *)
(* effect or is about to, unless the worker that answered died before its  *)
(* commit (webhooks.py answers before get_db commits).                     *)
HeardIsKept ==
  \A e \in heard : TookEffect(e) \/ handler[e] = "answered" \/ e \in lost

(* When an event fails "the event_id is not burned, a corrected retry can  *)
(* still succeed" (webhooks.py).  However the network reorders, repeats,   *)
(* delays and loses deliveries, every event of a sound history takes       *)
(* effect in the end - unless a worker died between answering and          *)
(* committing.                                                             *)
EveryEventTakesEffect == <>((\A e \in Events : TookEffect(e)) \/ lost # {})

(* Whatever sessions overlap between their checks and their commits, each  *)
(* commit is one step of Lifecycle: what was checked still holds, or the   *)
(* write was refused (the unique constraints behind                        *)
(* processor_event_service.handle_event).                                  *)
EffectsFollowLifecycle == L!Spec
=============================================================================
