----------------------------- MODULE MCDelivery -----------------------------
(***************************************************************************)
(* A small instance of Delivery: the life of one authorization, created by *)
(* two events that the processor sends for the same reference, approved,   *)
(* and settled together with another one.                                  *)
(***************************************************************************)
EXTENDS Delivery

MCEvents == {"e1", "e2", "e3", "e4"}
MCRefs == {"ref1", "ref2"}
MCPast == [ref \in MCRefs |-> IF ref = "ref1" THEN "absent" ELSE "authorized"]

MCAnnounces ==
  [e \in MCEvents |->
     CASE e \in {"e1", "e4"} -> [kind |-> "created", refs |-> {"ref1"}]
       [] e = "e2" -> [kind |-> "approved", refs |-> {"ref1"}]
       [] e = "e3" -> [kind |-> "settled", refs |-> {"ref1", "ref2"}]]
=============================================================================
