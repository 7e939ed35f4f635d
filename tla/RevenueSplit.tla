---------------------------- MODULE RevenueSplit ----------------------------
(***************************************************************************)
(* The revenue split of app/services/revenue_split.py: a total in cents is *)
(* divided between three parties by fixed shares given in basis points.    *)
(* Each share is floored, and the cents left over go one by one to the     *)
(* parties with the largest remainders (Hamilton's method).                *)
(***************************************************************************)
EXTENDS Integers

BasisPoints == 10000

Party == {"archive", "transcriptionist", "platform"}

(* Position of a party in _PARTIES, which breaks ties between remainders. *)
Priority(p) ==
  CASE p = "archive" -> 0 [] p = "transcriptionist" -> 1 [] p = "platform" -> 2

SumOfParties(f) == f["archive"] + f["transcriptionist"] + f["platform"]

(* The configurations RevenueSplitConfig.__post_init__ accepts. *)
SplitConfig == {c \in [Party -> Nat] : SumOfParties(c) = BasisPoints}

-----------------------------------------------------------------------------

(* divmod(total_cents * bps, BASIS_POINTS_TOTAL) *)
FloorShare(total, bps, p) == (total * bps[p]) \div BasisPoints
Remainder(total, bps, p)  == (total * bps[p]) % BasisPoints

FloorShares(total, bps) == [p \in Party |-> FloorShare(total, bps, p)]

Leftover(total, bps) == total - SumOfParties(FloorShares(total, bps))

(* Mutant: the sort key without its minus sign. *)
PrecedesAscending(total, bps, q, p) ==
  \/ Remainder(total, bps, q) < Remainder(total, bps, p)
  \/ /\ Remainder(total, bps, q) = Remainder(total, bps, p)
     /\ Priority(q) < Priority(p)

(* q precedes p when sorted by (-remainder, position in _PARTIES). *)
Precedes(total, bps, q, p) ==
  \/ Remainder(total, bps, q) > Remainder(total, bps, p)
  \/ /\ Remainder(total, bps, q) = Remainder(total, bps, p)
     /\ Priority(q) < Priority(p)

(* 0-based position of p in that order: how many parties precede it. *)
Rank(total, bps, p) ==
  SumOfParties([q \in Party |-> IF Precedes(total, bps, q, p) THEN 1 ELSE 0])

(* Mutants: one cent short, and every cent to the last party of the order. *)
ExtraOneShort(leftover, rank) == (leftover + 1 - rank) \div 3
ExtraToLast(leftover, rank) == IF rank = 2 THEN leftover ELSE 0

(* How many i in 0 .. leftover-1 have i % 3 = rank: the cents that the     *)
(* distribution loop adds to the party at that position.                   *)
Extra(leftover, rank) == (leftover + 2 - rank) \div 3

(* split_amount for the totals it accepts; the guard total > 0 is Splittable. *)
Splittable(total) == total > 0

Split(total, bps) ==
  [p \in Party |-> FloorShare(total, bps, p)
                     + Extra(Leftover(total, bps), Rank(total, bps, p))]
=============================================================================
