------------------------- MODULE PaymentsRefinement -------------------------
(***************************************************************************)
(* Payments implements Lifecycle: every commit is one step of the stages,  *)
(* and everything between two commits is invisible.                        *)
(***************************************************************************)
EXTENDS PaymentsProperties

(* The stage of an authorization, read off its rows in the two tables.     *)
StageOf(a) ==
  IF settlement[a] # "none" THEN settlement[a]
  ELSE IF auth[a] = None THEN "absent" ELSE auth[a].status

Promise == INSTANCE Lifecycle WITH stage <- [a \in AuthIds |-> StageOf(a)]

(* README.md's state diagram and "one request = one transaction" (get_db): *)
(* whatever the interleaving, what is committed moves through the stages   *)
(* in the atomic steps of Lifecycle, from the stage the code checked.      *)
ImplementsLifecycle == Promise!Spec

(* The stored balances show exactly the settlements that stand: the effect *)
(* of each settled authorization once, of a reversed one not at all        *)
(* (post_entries, adjust_balance, refund_settlement).                      *)
BalancesShowStages ==
  \A c \in Accounts :
    balance[c] = SumFunction([a \in AuthIds |->
                   IF StageOf(a) = "settled" THEN NetOf(SettlementEntries(auth[a]), c) ELSE 0])
=============================================================================
