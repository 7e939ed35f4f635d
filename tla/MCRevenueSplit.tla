--------------------------- MODULE MCRevenueSplit ---------------------------
(***************************************************************************)
(* Sweeps split_amount over every total up to MaxTotal and a choice of     *)
(* configurations: the total grows a cent at a time, so that a step        *)
(* compares the splits of two neighbouring totals.                         *)
(***************************************************************************)
EXTENDS RevenueSplit, FiniteSets

CONSTANTS
  MaxTotal,    \* the largest total swept
  Grain        \* configurations whose shares are multiples of Grain bps

VARIABLES total, bps

vars == <<total, bps>>

Shares(a, t) ==
  [p \in Party |-> CASE p = "archive" -> a
                     [] p = "transcriptionist" -> t
                     [] p = "platform" -> BasisPoints - a - t]

(* app/config.py: 7000 / 2000 / 1000 *)
DefaultConfig == Shares(7000, 2000)

(* Some shares with remainders that never tie, and a grid of shares with   *)
(* every kind of zero and tie.                                             *)
SweptConfigs ==
  {DefaultConfig, Shares(3333, 3333), Shares(3334, 3333), Shares(9999, 1)} \cup
  {c \in {Shares(Grain * i, Grain * j) : i, j \in 0 .. BasisPoints \div Grain} :
     c \in SplitConfig}

Init == /\ total = 1
        /\ bps \in SweptConfigs

OneMoreCent == /\ total < MaxTotal
               /\ total' = total + 1
               /\ UNCHANGED bps

Next == OneMoreCent

Spec == Init /\ [][Next]_vars

-----------------------------------------------------------------------------
(* Reference definition: among all ways of giving each party its share     *)
(* rounded down or up that hand out exactly the total, one that is closest *)
(* to the exact shares; ties favour the party listed first.                *)

Error(a, p) == LET d == a[p] * BasisPoints - total * bps[p] IN IF d < 0 THEN -d ELSE d

TotalError(a) == SumOfParties([p \in Party |-> Error(a, p)])

Candidates ==
  LET up(p) == {FloorShare(total, bps, p), FloorShare(total, bps, p) + 1}
      triples == up("archive") \X up("transcriptionist") \X up("platform")
      asShares(t) == [p \in Party |-> t[Priority(p) + 1]]
  IN {a \in {asShares(t) : t \in triples} : SumOfParties(a) = total}

(* The shares add up to the total: no cent is created or lost by rounding  *)
(* (the guarantee in split_amount's docstring, "for every input").         *)
SharesAddUp == SumOfParties(Split(total, bps)) = total

(* No other distribution of the total is closer to the configured          *)
(* percentages, and of the equally close ones the split is the one that    *)
(* favours the earlier party: the leftover loop and the sort key together  *)
(* compute exactly Hamilton's apportionment.                               *)
SplitIsClosest ==
  LET s == Split(total, bps)
      earlier(a, b) == \/ a["archive"] > b["archive"]
                       \/ /\ a["archive"] = b["archive"]
                          /\ a["transcriptionist"] >= b["transcriptionist"]
  IN /\ s \in Candidates
     /\ \A a \in Candidates : \/ TotalError(s) < TotalError(a)
                              \/ TotalError(s) = TotalError(a) /\ earlier(s, a)

(* With the shipped 70/20/10 configuration a dearer record never pays any  *)
(* party less.  Largest-remainder rounding does not give this in general   *)
(* (with shares 5/15/80 the archive gets 1 cent of 10 but none of 11), so  *)
(* it is a fact about the default of app/config.py.                        *)
DearerNeverPaysLess ==
  [][bps = DefaultConfig =>
       \A p \in Party : Split(total', bps')[p] >= Split(total, bps)[p]]_vars
=============================================================================
