----------------------------- MODULE MCCatalog -----------------------------
(***************************************************************************)
(* A small instance of Catalog: two instances that may start, one that     *)
(* must not, and the requests of clients with a valid key, with the key of *)
(* a client that was deactivated, and of a card processor.                 *)
(***************************************************************************)
EXTENDS Catalog, TLC

CONSTANTS i1, i2, i3, s1, s2, s3

Emails == {"mark", "jane", "ann", "bea"}
MCRole == [e \in Emails |-> IF e = "mark" THEN "transcriptionist" ELSE "researcher"]

Create(kind, name, key) == [kind |-> kind, name |-> name, key |-> key]

MCRequests ==
  {Create("user", "ann", "internal-admin"), Create("user", "bea", "internal-admin"),
   Create("archive", "Parish", "internal-admin"), Create("record", "deeds", "processor-webhook"),
   [kind |-> "cardauth"], [kind |-> "walk", key |-> "internal-admin"]}

ActorSymmetry == Permutations(Sessions) \cup Permutations(Instances \ Misconfigured)
=============================================================================
