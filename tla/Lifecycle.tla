----------------------------- MODULE Lifecycle -----------------------------
(***************************************************************************)
(* What the payment core promises, whatever statements it takes to keep    *)
(* the promise: an authorization moves from one stage to the next, and a   *)
(* request takes effect in a single step or not at all.  A key is answered *)
(* with the purchase it made, an event_id is recorded together with what   *)
(* the event announced, and a settlement batch settles all or none.        *)
(***************************************************************************)
CONSTANTS
  Sessions,   \* requests; one that purchases gives its authorization its name
  Refs,       \* the processor's authorizations
  Keys, Events,
  Past,       \* [Refs -> stage that earlier requests left behind]
  None

VARIABLES
  stage,      \* [Refs and Sessions -> stage of the authorization]
  answer,     \* [Keys -> purchase the stored response names, or None]
  processed   \* event_ids that have taken effect

vars == <<stage, answer, processed>>

AuthIds == Refs \cup Sessions

Stages == {"absent", "pending", "authorized", "declined", "settled", "reversed"}

Init ==
  /\ stage = [a \in AuthIds |-> IF a \in Refs THEN Past[a] ELSE "absent"]
  /\ answer = [k \in Keys |-> None]
  /\ processed = {}

(* authorizations in `group` that are at stage `from` advance to `to`.     *)
Advance(group, from, to) ==
  /\ \A a \in group : stage[a] = from
  /\ stage' = [a \in AuthIds |-> IF a \in group THEN to ELSE stage[a]]

(* An event is recorded the first time it takes effect and never again.    *)
Record(e) ==
  /\ e \notin processed
  /\ processed' = processed \cup {e}

Purchase(s, k) ==
  /\ answer[k] = None
  /\ answer' = [answer EXCEPT ![k] = s]
  /\ Advance({s}, "absent", "settled")
  /\ UNCHANGED processed

CardPurchase(s) ==
  /\ Advance({s}, "absent", "settled")
  /\ UNCHANGED <<answer, processed>>

Create(e, a) ==
  /\ Record(e)
  /\ Advance({a}, "absent", "pending")
  /\ UNCHANGED answer

Decide(e, a, decision) ==
  /\ Record(e)
  /\ Advance({a}, "pending", decision)
  /\ UNCHANGED answer

Settle(e, batch) ==
  /\ Record(e)
  /\ Advance(batch, "authorized", "settled")
  /\ UNCHANGED answer

Refund(a) ==
  /\ Advance({a}, "settled", "reversed")
  /\ UNCHANGED <<answer, processed>>

Next ==
  \/ \E s \in Sessions, k \in Keys : Purchase(s, k)
  \/ \E s \in Sessions : CardPurchase(s)
  \/ \E e \in Events, a \in Refs : Create(e, a)
  \/ \E e \in Events, a \in Refs, d \in {"authorized", "declined"} : Decide(e, a, d)
  \/ \E e \in Events, batch \in SUBSET Refs : Settle(e, batch)
  \/ \E a \in AuthIds : Refund(a)

Spec == Init /\ [][Next]_vars
=============================================================================
