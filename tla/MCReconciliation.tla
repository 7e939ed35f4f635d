-------------------------- MODULE MCReconciliation --------------------------
(***************************************************************************)
(* A small instance of Reconciliation: the requests of MCPayments, at most *)
(* one cent edited by hand, and one check.                                 *)
(***************************************************************************)
EXTENDS Reconciliation, MCPayments
=============================================================================
