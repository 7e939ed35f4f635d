---------------------------- MODULE LedgerProofs ----------------------------
(***************************************************************************)
(* What the operators behind the ledger compute.                           *)
(*                                                                         *)
(* The split of an amount: the shares are natural numbers that add up to   *)
(* it, for every amount and every configuration.                           *)
(*                                                                         *)
(* Sums over finite sets, and what they give for the ledger: what rows do  *)
(* to the balance of an account does not depend on the order in which they *)
(* are listed, flagging them changes nothing, and reversing them undoes    *)
(* it.  SumFunction is a fold over the subsets of its domain, defined by   *)
(* recursion; every fact about it is proved by taking a smallest subset    *)
(* for which the fact would fail.                                          *)
(***************************************************************************)
EXTENDS RevenueSplit, Ledger, FiniteSetTheorems, TLAPS

-----------------------------------------------------------------------------
(* The split of an amount.                                                 *)

(* divmod by BASIS_POINTS_TOTAL: quotient and remainder make up the number. *)
LEMMA DivMod ==
  ASSUME NEW n \in Int
  PROVE  /\ n \div BasisPoints \in Int
         /\ n % BasisPoints \in Nat /\ n % BasisPoints < BasisPoints
         /\ n = BasisPoints * (n \div BasisPoints) + (n % BasisPoints)
         /\ n >= 0 => n \div BasisPoints >= 0
  BY DEF BasisPoints

LEMMA Distribute ==
  ASSUME NEW t \in Int, NEW a \in Int, NEW b \in Int, NEW c \in Int
  PROVE  t * (a + b + c) = t * a + t * b + t * c
  OBVIOUS

(* Summing three divisions: what is left of the total, in basis points.    *)
LEMMA SumOfDivisions ==
  ASSUME NEW t \in Int, NEW f1 \in Int, NEW f2 \in Int, NEW f3 \in Int,
         NEW r1 \in Int, NEW r2 \in Int, NEW r3 \in Int,
         t * 10000 = (10000 * f1 + r1) + (10000 * f2 + r2) + (10000 * f3 + r3)
  PROVE  10000 * (t - (f1 + f2 + f3)) = r1 + r2 + r3
  OBVIOUS

(* The floored shares and the remainders of a total, as plain integers.    *)
LEMMA SharesOfTotal ==
  ASSUME NEW total \in Nat, NEW bps \in SplitConfig
  PROVE  /\ \A p \in Party : /\ FloorShare(total, bps, p) \in Nat
                             /\ Remainder(total, bps, p) \in Nat
                             /\ Remainder(total, bps, p) < BasisPoints
                             /\ bps[p] \in Nat
                             /\ total * bps[p] = BasisPoints * FloorShare(total, bps, p)
                                                   + Remainder(total, bps, p)
         /\ Leftover(total, bps) \in Int
         /\ BasisPoints * Leftover(total, bps)
              = Remainder(total, bps, "archive") + Remainder(total, bps, "transcriptionist")
                  + Remainder(total, bps, "platform")
<1> DEFINE F(p) == FloorShare(total, bps, p)
           R(p) == Remainder(total, bps, p)
<1>1. ASSUME NEW p \in Party
      PROVE  /\ F(p) \in Nat /\ R(p) \in Nat /\ R(p) < BasisPoints
             /\ bps[p] \in Nat /\ total * bps[p] \in Nat
             /\ total * bps[p] = BasisPoints * F(p) + R(p)
  <2> DEFINE n == total * bps[p]
  <2>1. bps[p] \in Nat
    BY DEF SplitConfig
  <2>2. n \in Nat
    BY <2>1
  <2>3. F(p) = n \div BasisPoints /\ R(p) = n % BasisPoints
    BY DEF FloorShare, Remainder
  <2> HIDE DEF n, F, R
  <2>4. /\ F(p) \in Int /\ F(p) >= 0 /\ R(p) \in Nat /\ R(p) < BasisPoints
        /\ n = BasisPoints * F(p) + R(p)
    BY <2>2, <2>3, DivMod
  <2> QED
    BY <2>1, <2>2, <2>4 DEF n
<1>2. Leftover(total, bps) = total - (F("archive") + F("transcriptionist") + F("platform"))
  BY DEF Leftover, SumOfParties, FloorShares, Party
<1>3. bps["archive"] + bps["transcriptionist"] + bps["platform"] = BasisPoints
  BY DEF SplitConfig, SumOfParties
<1>4. total * BasisPoints
        = total * bps["archive"] + total * bps["transcriptionist"] + total * bps["platform"]
  <2>1. \A p \in Party : bps[p] \in Int
    BY DEF SplitConfig
  <2> QED
    BY <2>1, <1>3, Distribute DEF Party
<1> HIDE DEF F, R
<1>5. BasisPoints * Leftover(total, bps) = R("archive") + R("transcriptionist") + R("platform")
  <2>1. \A p \in Party : F(p) \in Int /\ R(p) \in Int
    BY <1>1
  <2>2. total * 10000 = (10000 * F("archive") + R("archive"))
                          + (10000 * F("transcriptionist") + R("transcriptionist"))
                          + (10000 * F("platform") + R("platform"))
    <3>1. /\ total * bps["archive"] = 10000 * F("archive") + R("archive")
          /\ total * bps["transcriptionist"]
               = 10000 * F("transcriptionist") + R("transcriptionist")
          /\ total * bps["platform"] = 10000 * F("platform") + R("platform")
      BY <1>1 DEF Party, BasisPoints
    <3> QED
      BY <1>4, <3>1 DEF BasisPoints
  <2> QED
    BY <2>1, <2>2, <1>2, SumOfDivisions DEF Party, BasisPoints
<1> QED
  BY <1>1, <1>2, <1>5 DEF F, R, Party

(* Fewer cents are left over than there are parties, so that the loop      *)
(* never comes back to the first party.                                    *)
LEMMA LeftoverBounded ==
  ASSUME NEW total \in Nat, NEW bps \in SplitConfig
  PROVE  Leftover(total, bps) \in 0 .. 2
<1> DEFINE L == Leftover(total, bps)
           r1 == Remainder(total, bps, "archive")
           r2 == Remainder(total, bps, "transcriptionist")
           r3 == Remainder(total, bps, "platform")
<1>1. /\ L \in Int
      /\ r1 \in Nat /\ r2 \in Nat /\ r3 \in Nat
      /\ r1 < 10000 /\ r2 < 10000 /\ r3 < 10000
      /\ 10000 * L = r1 + r2 + r3
  <2>1. /\ Leftover(total, bps) \in Int
        /\ \A p \in Party : /\ Remainder(total, bps, p) \in Nat
                            /\ Remainder(total, bps, p) < BasisPoints
        /\ BasisPoints * Leftover(total, bps)
              = Remainder(total, bps, "archive") + Remainder(total, bps, "transcriptionist")
                  + Remainder(total, bps, "platform")
    BY SharesOfTotal
  <2> QED
    BY <2>1 DEF Party, BasisPoints
<1> HIDE DEF L, r1, r2, r3
<1>2. L \in 0 .. 2
  BY <1>1
<1> QED
  BY <1>2 DEF L

(* Sorting by remainder and then by position gives every party a position  *)
(* of its own.                                                             *)
LEMMA RanksAreDistinct ==
  ASSUME NEW total \in Nat, NEW bps \in SplitConfig
  PROVE  /\ \A p \in Party : Rank(total, bps, p) \in 0 .. 2
         /\ \A p, q \in Party : Precedes(total, bps, q, p)
                                  => Rank(total, bps, q) < Rank(total, bps, p)
         /\ \A p, q \in Party : p # q => Rank(total, bps, q) # Rank(total, bps, p)
<1> DEFINE R(p) == Remainder(total, bps, p)
           C(q, p) == IF Precedes(total, bps, q, p) THEN 1 ELSE 0
<1>1. \A p \in Party : R(p) \in Int
  BY SharesOfTotal
<1>2. /\ Priority("archive") = 0 /\ Priority("transcriptionist") = 1
      /\ Priority("platform") = 2
  BY DEF Priority
<1>3. \A q, p \in Party : Precedes(total, bps, q, p)
                            <=> R(q) > R(p) \/ (R(q) = R(p) /\ Priority(q) < Priority(p))
  BY DEF Precedes
<1>4. \A p \in Party : Rank(total, bps, p)
                         = C("archive", p) + C("transcriptionist", p) + C("platform", p)
  BY DEF Rank, SumOfParties, Party
<1> HIDE DEF R
<1> QED
  BY <1>1, <1>2, <1>3, <1>4 DEF Party

(* Every cent of a purchase goes to exactly one party: the three shares    *)
(* are never negative and always add up to the total.                      *)
THEOREM SplitAddsUp ==
  ASSUME NEW total \in Nat, NEW bps \in SplitConfig
  PROVE  /\ \A p \in Party : Split(total, bps)[p] \in Nat
         /\ SumOfParties(Split(total, bps)) = total
<1> DEFINE L == Leftover(total, bps)
           K(p) == Rank(total, bps, p)
           F(p) == FloorShare(total, bps, p)
<1>1. /\ L \in 0 .. 2
      /\ L = total - (F("archive") + F("transcriptionist") + F("platform"))
  BY LeftoverBounded DEF Leftover, SumOfParties, FloorShares, Party
<1>2. /\ \A p \in Party : K(p) \in 0 .. 2
      /\ \A p, q \in Party : p # q => K(q) # K(p)
  BY RanksAreDistinct
<1>3. \A p \in Party : F(p) \in Nat
  BY SharesOfTotal
<1>4. \A p \in Party : Split(total, bps)[p] = F(p) + Extra(L, K(p))
  BY DEF Split
<1> HIDE DEF L, K, F
<1>5. \A p \in Party : Extra(L, K(p)) = IF K(p) < L THEN 1 ELSE 0
  BY <1>1, <1>2 DEF Extra
<1>6. Extra(L, K("archive")) + Extra(L, K("transcriptionist")) + Extra(L, K("platform")) = L
  BY <1>1, <1>2, <1>5 DEF Party
<1> QED
  BY <1>1, <1>3, <1>4, <1>5, <1>6 DEF SumOfParties, Party

-----------------------------------------------------------------------------
(* Sums over finite sets.                                                  *)

(* The element that the fold takes first, and the equation of its results  *)
(* h on the subsets of S.                                                  *)
Pick(s) == CHOOSE x \in s : TRUE

Sums(h, f, S) ==
  h = [s \in SUBSET S |-> IF s = {} THEN 0 ELSE f[Pick(s)] + h[s \ {Pick(s)}]]

SumOver(f, S) == (CHOOSE h : Sums(h, f, S))[S]

LEMMA SumFunctionIsSumOver ==
  ASSUME NEW f
  PROVE  SumFunction(f) = SumOver(f, DOMAIN f)
  BY DEF SumFunction, SumFunctionOnSet, FoldFunctionOnSet, MapThenFoldSet, SumOver, Sums, Pick

LEMMA PickIsElement ==
  ASSUME NEW s, s # {}
  PROVE  Pick(s) \in s
  BY DEF Pick

-----------------------------------------------------------------------------
(* A set of subsets of a finite set has a smallest member.                 *)

LEMMA SmallestSubset ==
  ASSUME NEW S, IsFiniteSet(S), NEW Bad, Bad \subseteq SUBSET S, Bad # {}
  PROVE  \E s \in Bad : \A t \in Bad : ~ (t \subseteq s /\ t # s)
<1>1. IsWellFoundedOn(StrictSubsetOrdering(S), SUBSET S)
  BY FS_StrictSubsetOrderingWellFounded, FS_FiniteSubsetsOfFinite
<1>2. PICK s \in Bad : \A t \in Bad : ~ (<<t, s>> \in StrictSubsetOrdering(S))
  BY <1>1, WFMin, Zenon
<1>3. ASSUME NEW t \in Bad PROVE ~ (t \subseteq s /\ t # s)
  <2>1. t \in SUBSET S /\ s \in SUBSET S
    OBVIOUS
  <2>2. ~ (<<t, s>> \in StrictSubsetOrdering(S))
    BY <1>2
  <2> QED
    BY <2>1, <2>2 DEF StrictSubsetOrdering
<1> QED
  BY <1>3

-----------------------------------------------------------------------------
(* The recursive definition of the sum defines it.                         *)

LEMMA SumsUnfold ==
  ASSUME NEW h, NEW f, NEW S, Sums(h, f, S), NEW s \in SUBSET S
  PROVE  h[s] = IF s = {} THEN 0 ELSE f[Pick(s)] + h[s \ {Pick(s)}]
  BY Zenon DEF Sums

(* Two solutions agree wherever both are defined.                          *)
LEMMA SumsAgree ==
  ASSUME NEW f, NEW S, NEW T, IsFiniteSet(S), NEW g, NEW h, Sums(g, f, S), Sums(h, f, T),
         NEW u, u \subseteq S, u \subseteq T
  PROVE  g[u] = h[u]
<1> DEFINE Bad == {s \in SUBSET S : s \subseteq T /\ g[s] # h[s]}
<1> SUFFICES ASSUME Bad # {} PROVE FALSE
  OBVIOUS
<1>1. PICK s \in Bad : \A t \in Bad : ~ (t \subseteq s /\ t # s)
  <2>1. Bad \subseteq SUBSET S
    OBVIOUS
  <2> HIDE DEF Bad
  <2> QED
    BY <2>1, SmallestSubset
<1>2. s \subseteq S /\ s \subseteq T /\ g[s] # h[s]
  OBVIOUS
<1>3. /\ g[s] = IF s = {} THEN 0 ELSE f[Pick(s)] + g[s \ {Pick(s)}]
      /\ h[s] = IF s = {} THEN 0 ELSE f[Pick(s)] + h[s \ {Pick(s)}]
  BY <1>2, SumsUnfold
<1>4. s # {}
  BY <1>2, <1>3
<1>5. s \ {Pick(s)} \subseteq s /\ s \ {Pick(s)} # s
  BY <1>4, PickIsElement
<1>6. g[s \ {Pick(s)}] = h[s \ {Pick(s)}]
  BY <1>1, <1>2, <1>5
<1> QED
  BY <1>2, <1>3, <1>6

(* A solution on a set is put together from those on its smaller subsets.  *)
LEMMA SumsExtend ==
  ASSUME NEW f, NEW T, IsFiniteSet(T),
         \A t \in SUBSET T : t # T => \E h : Sums(h, f, t)
  PROVE  \E h : Sums(h, f, T)
<1> DEFINE G(t) == (CHOOSE h : Sums(h, f, t))[t]
           h == [s \in SUBSET T |-> IF s = {} THEN 0 ELSE f[Pick(s)] + G(s \ {Pick(s)})]
<1>1. ASSUME NEW t \in SUBSET T, t # T
      PROVE  G(t) = IF t = {} THEN 0 ELSE f[Pick(t)] + G(t \ {Pick(t)})
  <2> DEFINE g == CHOOSE k : Sums(k, f, t)
             u == t \ {Pick(t)}
             gu == CHOOSE k : Sums(k, f, u)
  <2>1. Sums(g, f, t)
    BY <1>1
  <2>2. G(t) = IF t = {} THEN 0 ELSE f[Pick(t)] + g[u]
    BY <2>1, SumsUnfold
  <2>3. ASSUME t # {} PROVE g[u] = G(u)
    <3>1. u \subseteq t /\ u # t /\ u \in SUBSET T
      BY <2>3, PickIsElement
    <3>2. u # T
      BY <3>1
    <3>3. Sums(gu, f, u)
      BY <3>1, <3>2
    <3>4. IsFiniteSet(t)
      BY FS_Subset
    <3> HIDE DEF g, gu, u
    <3>5. g[u] = gu[u]
      BY <2>1, <3>1, <3>3, <3>4, SumsAgree
    <3> QED
      BY <3>5 DEF gu
  <2> QED
    BY <2>2, <2>3
<1>2. ASSUME NEW s \in SUBSET T, s # {}
      PROVE  h[s \ {Pick(s)}] = G(s \ {Pick(s)})
  <2> DEFINE u == s \ {Pick(s)}
  <2>1. u \in SUBSET T /\ u # T
    BY <1>2, PickIsElement
  <2> HIDE DEF G, u
  <2>2. h[u] = IF u = {} THEN 0 ELSE f[Pick(u)] + G(u \ {Pick(u)})
    BY <2>1
  <2>3. h[u] = G(u)
    BY <1>1, <2>1, <2>2
  <2> QED
    BY <2>3 DEF u
<1> HIDE DEF G
<1>3. h = [s \in SUBSET T |-> IF s = {} THEN 0 ELSE f[Pick(s)] + h[s \ {Pick(s)}]]
  BY <1>2
<1> QED
  BY <1>3 DEF Sums

LEMMA SumsExist ==
  ASSUME NEW f, NEW S, IsFiniteSet(S)
  PROVE  \E h : Sums(h, f, S)
<1> DEFINE Bad == {s \in SUBSET S : ~ \E h : Sums(h, f, s)}
<1> SUFFICES ASSUME Bad # {} PROVE FALSE
  OBVIOUS
<1>1. PICK T \in Bad : \A t \in Bad : ~ (t \subseteq T /\ t # T)
  <2>1. Bad \subseteq SUBSET S
    OBVIOUS
  <2> HIDE DEF Bad
  <2> QED
    BY <2>1, SmallestSubset
<1>2. \A t \in SUBSET T : t # T => \E h : Sums(h, f, t)
  BY <1>1
<1>3. IsFiniteSet(T)
  BY FS_Subset
<1> QED
  BY <1>2, <1>3, SumsExtend

(* The sum over a set, taken apart at the element the fold picks.          *)
LEMMA SumUnfold ==
  ASSUME NEW f, NEW S, IsFiniteSet(S)
  PROVE  SumOver(f, S) = IF S = {} THEN 0 ELSE f[Pick(S)] + SumOver(f, S \ {Pick(S)})
<1> DEFINE h == CHOOSE k : Sums(k, f, S)
           u == S \ {Pick(S)}
           g == CHOOSE k : Sums(k, f, u)
<1>1. IsFiniteSet(u) /\ u \subseteq S
  BY FS_RemoveElement
<1>2. Sums(h, f, S) /\ Sums(g, f, u)
  BY <1>1, SumsExist
<1> HIDE DEF u
<1>3. h[u] = g[u]
  BY <1>1, <1>2, SumsAgree
<1>4. h[S] = IF S = {} THEN 0 ELSE f[Pick(S)] + h[u]
  BY <1>2, SumsUnfold DEF u
<1> QED
  BY <1>3, <1>4 DEF SumOver, u

-----------------------------------------------------------------------------
(* Sums of integers.                                                       *)

IntsOn(f, S) == \A x \in S : f[x] \in Int

LEMMA SumTyped ==
  ASSUME NEW f, NEW S, IsFiniteSet(S), IntsOn(f, S)
  PROVE  SumOver(f, S) \in Int
<1> DEFINE Bad == {s \in SUBSET S : SumOver(f, s) \notin Int}
<1> SUFFICES ASSUME Bad # {} PROVE FALSE
  OBVIOUS
<1>1. PICK s \in Bad : \A t \in Bad : ~ (t \subseteq s /\ t # s)
  <2>1. Bad \subseteq SUBSET S
    OBVIOUS
  <2> HIDE DEF Bad
  <2> QED
    BY <2>1, SmallestSubset
<1>2. IsFiniteSet(s) /\ s \subseteq S
  BY FS_Subset
<1>3. SumOver(f, s) = IF s = {} THEN 0 ELSE f[Pick(s)] + SumOver(f, s \ {Pick(s)})
  BY <1>2, SumUnfold
<1>4. s # {} => f[Pick(s)] \in Int /\ SumOver(f, s \ {Pick(s)}) \in Int
  BY <1>1, <1>2, PickIsElement DEF IntsOn
<1> QED
  BY <1>3, <1>4

(* An element can be added to the sum in any order.                        *)
LEMMA SumWith ==
  ASSUME NEW f, NEW U, IsFiniteSet(U), IntsOn(f, U),
         NEW S \in SUBSET U, NEW a \in U, a \notin S
  PROVE  SumOver(f, S \cup {a}) = f[a] + SumOver(f, S)
<1> DEFINE Bad == {s \in SUBSET U : \E x \in U \ s : SumOver(f, s \cup {x}) # f[x] + SumOver(f, s)}
<1> SUFFICES ASSUME Bad # {} PROVE FALSE
  OBVIOUS
<1>1. PICK s \in Bad : \A t \in Bad : ~ (t \subseteq s /\ t # s)
  <2>1. Bad \subseteq SUBSET U
    OBVIOUS
  <2> HIDE DEF Bad
  <2> QED
    BY <2>1, SmallestSubset
<1>2. PICK x \in U \ s : SumOver(f, s \cup {x}) # f[x] + SumOver(f, s)
  OBVIOUS
<1>3. ASSUME NEW t \in SUBSET s, t # s, NEW z \in U \ t
      PROVE  SumOver(f, t \cup {z}) = f[z] + SumOver(f, t)
  <2>1. t \notin Bad
    BY <1>1, <1>3
  <2> QED
    BY <2>1
<1> DEFINE v == s \cup {x}
           y == Pick(v)
<1>4. y \in v /\ v \in SUBSET U /\ s \in SUBSET U
  BY PickIsElement
<1>5. IsFiniteSet(v)
  BY <1>4, FS_Subset
<1>6. SumOver(f, v) = f[y] + SumOver(f, v \ {y})
  BY <1>4, <1>5, SumUnfold
<1> HIDE DEF Bad, y
<1>7. CASE y = x
  <2>1. v \ {y} = s
    BY <1>7
  <2> QED
    BY <1>2, <1>6, <1>7, <2>1
<1>8. CASE y # x
  <2> DEFINE u == s \ {y}
  <2>1. y \in s /\ v \ {y} = u \cup {x} /\ s = u \cup {y}
    BY <1>4, <1>8
  <2>2. u \in SUBSET s /\ u # s /\ x \in U \ u /\ y \in U \ u
    BY <1>4, <2>1
  <2>3. IsFiniteSet(u) /\ IntsOn(f, u)
    BY <2>2, <1>4, FS_Subset DEF IntsOn
  <2> HIDE DEF u, v
  <2>4. SumOver(f, v \ {y}) = f[x] + SumOver(f, u)
    BY <1>3, <2>1, <2>2
  <2>5. SumOver(f, s) = f[y] + SumOver(f, u)
    BY <1>3, <2>1, <2>2
  <2>6. f[x] \in Int /\ f[y] \in Int /\ SumOver(f, u) \in Int
    BY <1>4, <2>1, <2>3, SumTyped DEF IntsOn
  <2> QED
    BY <1>2, <1>6, <2>4, <2>5, <2>6 DEF v
<1> QED
  BY <1>7, <1>8

LEMMA SumWithout ==
  ASSUME NEW f, NEW S, IsFiniteSet(S), IntsOn(f, S), NEW a \in S
  PROVE  /\ SumOver(f, S) = f[a] + SumOver(f, S \ {a})
         /\ IsFiniteSet(S \ {a}) /\ IntsOn(f, S \ {a}) /\ SumOver(f, S \ {a}) \in Int
<1> DEFINE u == S \ {a}
<1>1. IsFiniteSet(u) /\ IntsOn(f, u) /\ u \in SUBSET S /\ a \notin u /\ S = u \cup {a}
  BY FS_RemoveElement DEF IntsOn
<1> HIDE DEF u
<1>2. SumOver(f, u \cup {a}) = f[a] + SumOver(f, u)
  BY <1>1, SumWith
<1> QED
  BY <1>1, <1>2, SumTyped DEF u

LEMMA SumEmpty ==
  ASSUME NEW f
  PROVE  SumOver(f, {}) = 0
  BY SumUnfold, FS_EmptySet

LEMMA SumPlus ==
  ASSUME NEW f, NEW g, NEW h, NEW S, IsFiniteSet(S), IntsOn(f, S), IntsOn(g, S),
         \A x \in S : h[x] = f[x] + g[x]
  PROVE  SumOver(h, S) = SumOver(f, S) + SumOver(g, S)
<1> DEFINE Bad == {s \in SUBSET S : SumOver(h, s) # SumOver(f, s) + SumOver(g, s)}
<1> SUFFICES ASSUME Bad # {} PROVE FALSE
  OBVIOUS
<1>1. PICK s \in Bad : \A t \in Bad : ~ (t \subseteq s /\ t # s)
  <2>1. Bad \subseteq SUBSET S
    OBVIOUS
  <2> HIDE DEF Bad
  <2> QED
    BY <2>1, SmallestSubset
<1>2. IsFiniteSet(s) /\ s \subseteq S
  BY FS_Subset
<1>3. CASE s = {}
  BY <1>3, SumEmpty
<1>4. CASE s # {}
  <2> DEFINE a == Pick(s)
             u == s \ {a}
  <2>1. a \in s
    BY <1>4, PickIsElement
  <2>2. u \in SUBSET S /\ u \subseteq s /\ u # s
    BY <1>2, <2>1
  <2>3. SumOver(h, u) = SumOver(f, u) + SumOver(g, u)
    BY <1>1, <2>2
  <2>4. IsFiniteSet(u) /\ IntsOn(f, u) /\ IntsOn(g, u)
    BY <2>2, FS_Subset DEF IntsOn
  <2>5. SumOver(f, u) \in Int /\ SumOver(g, u) \in Int
    BY <2>4, SumTyped
  <2>6. /\ SumOver(f, s) = f[a] + SumOver(f, u)
        /\ SumOver(g, s) = g[a] + SumOver(g, u)
        /\ SumOver(h, s) = h[a] + SumOver(h, u)
    BY <1>2, <1>4, SumUnfold
  <2>7. f[a] \in Int /\ g[a] \in Int /\ h[a] = f[a] + g[a]
    BY <1>2, <2>1 DEF IntsOn
  <2>8. SumOver(h, s) # SumOver(f, s) + SumOver(g, s)
    OBVIOUS
  <2> HIDE DEF a, u, Bad
  <2> QED
    BY <2>3, <2>5, <2>6, <2>7, <2>8
<1> QED
  BY <1>3, <1>4

(* A sum whose terms are carried over one to one to another set.           *)
LEMMA SumMoved ==
  ASSUME NEW f, NEW g, NEW S, NEW T, IsFiniteSet(S), IsFiniteSet(T), IntsOn(g, T),
         NEW b, \A x \in S : b[x] \in T /\ f[x] = g[b[x]],
         \A x, y \in S : b[x] = b[y] => x = y,
         \A z \in T : \E x \in S : b[x] = z
  PROVE  SumOver(f, S) = SumOver(g, T)
<1> DEFINE Onto(s) == {z \in T : \E x \in s : b[x] = z}
           Bad == {s \in SUBSET S : SumOver(f, s) # SumOver(g, Onto(s))}
<1>1. ASSUME Bad # {} PROVE FALSE
  <2>1. PICK s \in Bad : \A t \in Bad : ~ (t \subseteq s /\ t # s)
    <3>1. Bad \subseteq SUBSET S
      OBVIOUS
    <3> HIDE DEF Bad
    <3> QED
      BY <1>1, <3>1, SmallestSubset
  <2>2. IsFiniteSet(s) /\ s \subseteq S
    BY FS_Subset
  <2>3. CASE s = {}
    <3>1. Onto(s) = {}
      BY <2>3
    <3> HIDE DEF Onto
    <3> QED
      BY <2>3, <3>1, SumEmpty
  <2>4. CASE s # {}
    <3> DEFINE a == Pick(s)
               u == s \ {a}
    <3>1. a \in s
      BY <2>4, PickIsElement
    <3>2. u \in SUBSET S /\ u \subseteq s /\ u # s
      BY <2>2, <3>1
    <3>3. SumOver(f, u) = SumOver(g, Onto(u))
      BY <2>1, <3>2
    <3>4. Onto(u) = Onto(s) \ {b[a]} /\ b[a] \in Onto(s)
      BY <2>2, <3>1
    <3>5. IsFiniteSet(Onto(s)) /\ IntsOn(g, Onto(s))
      BY FS_Subset DEF IntsOn
    <3>6. SumOver(f, s) = f[a] + SumOver(f, u) /\ f[a] = g[b[a]]
      BY <2>2, <2>4, <3>1, SumUnfold
    <3>7. SumOver(f, s) # SumOver(g, Onto(s))
      OBVIOUS
    <3> HIDE DEF a, u, Onto, Bad
    <3>8. SumOver(g, Onto(s)) = g[b[a]] + SumOver(g, Onto(s) \ {b[a]})
      BY <3>4, <3>5, SumWithout
    <3> QED
      BY <3>3, <3>4, <3>6, <3>7, <3>8
  <2> QED
    BY <2>3, <2>4
<1>2. Onto(S) = T
  OBVIOUS
<1> QED
  BY <1>1, <1>2

LEMMA SumEqual ==
  ASSUME NEW f, NEW g, NEW S, IsFiniteSet(S), IntsOn(g, S), \A x \in S : f[x] = g[x]
  PROVE  SumOver(f, S) = SumOver(g, S)
<1> DEFINE b == [x \in S |-> x]
<1>1. \A x \in S : b[x] = x
  OBVIOUS
<1> HIDE DEF b
<1> QED
  BY <1>1, SumMoved

LEMMA SumOfZeros ==
  ASSUME NEW f, NEW S, IsFiniteSet(S), \A x \in S : f[x] = 0
  PROVE  SumOver(f, S) = 0
<1>1. IntsOn(f, S) /\ \A x \in S : f[x] = f[x] + f[x]
  BY DEF IntsOn
<1> DEFINE n == SumOver(f, S)
<1>2. n = n + n /\ n \in Int
  BY <1>1, SumPlus, SumTyped
<1> HIDE DEF n
<1>3. n = 0
  BY <1>2
<1> QED
  BY <1>3 DEF n

LEMMA SumNegated ==
  ASSUME NEW f, NEW g, NEW S, IsFiniteSet(S), IntsOn(f, S), \A x \in S : g[x] = -f[x]
  PROVE  SumOver(g, S) = -SumOver(f, S)
<1> DEFINE z == [x \in S |-> 0]
<1>1. IntsOn(g, S) /\ \A x \in S : z[x] = f[x] + g[x]
  BY DEF IntsOn
<1>2. SumOver(z, S) = 0
  BY SumOfZeros
<1> HIDE DEF z
<1>3. SumOver(z, S) = SumOver(f, S) + SumOver(g, S)
  BY <1>1, SumPlus
<1>4. SumOver(f, S) \in Int /\ SumOver(g, S) \in Int
  BY <1>1, SumTyped
<1> QED
  BY <1>2, <1>3, <1>4

(* Terms that are zero outside T do not count.                             *)
LEMMA SumPadded ==
  ASSUME NEW f, NEW S, IsFiniteSet(S), IntsOn(f, S), NEW T \in SUBSET S,
         \A x \in S \ T : f[x] = 0
  PROVE  SumOver(f, S) = SumOver(f, T)
<1> DEFINE Bad == {s \in SUBSET S : SumOver(f, s) # SumOver(f, s \cap T)}
<1>1. ASSUME Bad # {} PROVE FALSE
  <2>1. PICK s \in Bad : \A t \in Bad : ~ (t \subseteq s /\ t # s)
    <3>1. Bad \subseteq SUBSET S
      OBVIOUS
    <3> HIDE DEF Bad
    <3> QED
      BY <1>1, <3>1, SmallestSubset
  <2>2. IsFiniteSet(s) /\ s \subseteq S /\ IntsOn(f, s)
    BY FS_Subset DEF IntsOn
  <2>3. SumOver(f, s) # SumOver(f, s \cap T)
    OBVIOUS
  <2>4. PICK a \in s : a \notin T
    <3>1. s \cap T # s
      BY <2>3
    <3> QED
      BY <3>1
  <2>5. SumOver(f, s \ {a}) = SumOver(f, (s \ {a}) \cap T)
    BY <2>1, <2>2
  <2>6. (s \ {a}) \cap T = s \cap T
    BY <2>4
  <2>7. f[a] = 0
    BY <2>2, <2>4
  <2> HIDE DEF Bad
  <2>8. SumOver(f, s) = f[a] + SumOver(f, s \ {a}) /\ SumOver(f, s \ {a}) \in Int
    BY <2>2, SumWithout
  <2>9. SumOver(f, s \ {a}) = SumOver(f, s \cap T)
    BY <2>5, <2>6
  <2> DEFINE n == SumOver(f, s \ {a})
  <2>10. SumOver(f, s) = 0 + n /\ n \in Int /\ SumOver(f, s) # n
    BY <2>3, <2>7, <2>8, <2>9
  <2> HIDE DEF n
  <2> QED
    BY <2>10
<1>2. S \cap T = T
  OBVIOUS
<1> QED
  BY <1>1, <1>2

(* A sum of which one term changes.                                        *)
LEMMA SumChange ==
  ASSUME NEW f, NEW g, NEW S, IsFiniteSet(S), IntsOn(f, S), NEW a \in S, NEW d \in Int,
         g[a] = f[a] + d, \A x \in S \ {a} : g[x] = f[x]
  PROVE  SumOver(g, S) = SumOver(f, S) + d
<1> DEFINE u == S \ {a}
<1>1. IntsOn(g, S)
  BY DEF IntsOn
<1>2. /\ SumOver(f, S) = f[a] + SumOver(f, u) /\ SumOver(g, S) = g[a] + SumOver(g, u)
      /\ IsFiniteSet(u) /\ IntsOn(f, u) /\ SumOver(f, u) \in Int
  BY <1>1, SumWithout
<1>3. \A x \in u : g[x] = f[x]
  OBVIOUS
<1> HIDE DEF u
<1>4. SumOver(g, u) = SumOver(f, u)
  BY <1>2, <1>3, SumEqual
<1>5. f[a] \in Int
  BY DEF IntsOn
<1> QED
  BY <1>2, <1>4, <1>5

-----------------------------------------------------------------------------
(* What a list of rows does to the balance of an account.                  *)

Effect(row, account) ==
  IF row.account # account THEN 0
  ELSE IF row.type = "credit" THEN row.cents ELSE -row.cents

Effects(q, account) == [i \in DOMAIN q |-> Effect(q[i], account)]

(* Rows of some table, whose cents are natural numbers.                    *)
InCents(R) == \A r \in R : r.cents \in Nat

LEMMA EffectTyped ==
  ASSUME NEW R, InCents(R), NEW r \in R, NEW c
  PROVE  Effect(r, c) \in Int
  BY DEF InCents, Effect

LEMMA NetIsSum ==
  ASSUME NEW R, InCents(R), NEW q \in Seq(R), NEW c
  PROVE  /\ NetOf(q, c) = SumOver(Effects(q, c), 1 .. Len(q))
         /\ IsFiniteSet(1 .. Len(q)) /\ IntsOn(Effects(q, c), 1 .. Len(q))
         /\ Len(q) \in Nat
<1>1. DOMAIN q = 1 .. Len(q) /\ Len(q) \in Nat /\ \A i \in 1 .. Len(q) : q[i] \in R
  OBVIOUS
<1>2. NetOf(q, c) = SumFunction(Effects(q, c))
  BY DEF NetOf, Effects, Effect
<1>3. DOMAIN Effects(q, c) = 1 .. Len(q)
  BY <1>1 DEF Effects
<1>4. IsFiniteSet(1 .. Len(q))
  BY <1>1, FS_Interval
<1>5. IntsOn(Effects(q, c), 1 .. Len(q))
  BY <1>1, EffectTyped DEF IntsOn, Effects
<1> QED
  BY <1>1, <1>2, <1>3, <1>4, <1>5, SumFunctionIsSumOver

LEMMA NetTyped ==
  ASSUME NEW R, InCents(R), NEW q \in Seq(R), NEW c
  PROVE  NetOf(q, c) \in Int
  BY NetIsSum, SumTyped

LEMMA NetEmpty ==
  ASSUME NEW c
  PROVE  NetOf(<<>>, c) = 0
<1>1. InCents({}) /\ <<>> \in Seq({}) /\ Len(<<>>) = 0
  BY DEF InCents
<1>2. NetOf(<<>>, c) = SumOver(Effects(<<>>, c), 1 .. Len(<<>>))
  BY <1>1, NetIsSum
<1>3. 1 .. Len(<<>>) = {}
  BY <1>1
<1> QED
  BY <1>2, <1>3, SumEmpty

(* The effects of two lists, one after the other, add up.                  *)
LEMMA NetConcat ==
  ASSUME NEW R, InCents(R), NEW q \in Seq(R), NEW r \in Seq(R), NEW c
  PROVE  NetOf(q \o r, c) = NetOf(q, c) + NetOf(r, c)
<1> DEFINE m == Len(q)
           n == Len(r)
           all == 1 .. m + n
           left == 1 .. m
           right == m + 1 .. m + n
           t == q \o r
           f == [i \in all |-> IF i <= m THEN Effect(q[i], c) ELSE 0]
           g == [i \in all |-> IF i <= m THEN 0 ELSE Effect(r[i - m], c)]
           b == [i \in right |-> i - m]
<1>1. /\ m \in Nat /\ n \in Nat /\ t \in Seq(R) /\ Len(t) = m + n
      /\ \A i \in left : q[i] \in R /\ t[i] = q[i]
      /\ \A i \in right : i - m \in 1 .. n /\ r[i - m] \in R /\ t[i] = r[i - m]
  OBVIOUS
<1>2. /\ NetOf(t, c) = SumOver(Effects(t, c), all) /\ IsFiniteSet(all)
      /\ NetOf(q, c) = SumOver(Effects(q, c), left) /\ IsFiniteSet(left)
      /\ NetOf(r, c) = SumOver(Effects(r, c), 1 .. n) /\ IsFiniteSet(1 .. n)
      /\ IntsOn(Effects(q, c), left) /\ IntsOn(Effects(r, c), 1 .. n)
  BY <1>1, NetIsSum
<1>3. all = left \cup right /\ left \subseteq all /\ right \subseteq all
        /\ \A i \in left : i <= m /\ i \notin right
  BY <1>1
<1>4. /\ \A i \in left : f[i] = Effect(q[i], c) /\ g[i] = 0
      /\ \A i \in right : f[i] = 0 /\ g[i] = Effect(r[i - m], c)
  BY <1>1, <1>3
<1>5. /\ \A i \in left : Effect(q[i], c) \in Int
      /\ \A i \in right : Effect(r[i - m], c) \in Int
  BY <1>1, EffectTyped
<1>6. IntsOn(f, all) /\ IntsOn(g, all)
  BY <1>3, <1>4, <1>5 DEF IntsOn
<1>7. \A i \in all : Effects(t, c)[i] = f[i] + g[i]
  <2>1. DOMAIN t = all
    BY <1>1
  <2>2. \A i \in all : Effects(t, c)[i] = Effect(t[i], c)
    BY <2>1 DEF Effects
  <2> HIDE DEF f, g, t, all, left, right
  <2>3. \A i \in left : Effect(t[i], c) = Effect(q[i], c)
    BY <1>1
  <2>4. \A i \in right : Effect(t[i], c) = Effect(r[i - m], c)
    BY <1>1
  <2> QED
    BY <1>3, <1>4, <1>5, <2>2, <2>3, <2>4
<1>8. /\ \A i \in left : Effects(q, c)[i] = Effect(q[i], c)
      /\ \A i \in right : Effects(r, c)[b[i]] = Effect(r[i - m], c)
  BY <1>1 DEF Effects
<1>9. /\ \A i \in right : b[i] \in 1 .. n
      /\ \A i, j \in right : b[i] = b[j] => i = j
      /\ \A k \in 1 .. n : \E i \in right : b[i] = k
  <2>1. \A k \in 1 .. n : k + m \in right /\ b[k + m] = k
    BY <1>1
  <2> QED
    BY <1>1, <2>1
<1>10. IsFiniteSet(right)
  BY <1>2, <1>3, FS_Subset
<1> HIDE DEF f, g, t, all, left, right, b, m, n
<1>11. SumOver(Effects(t, c), all) = SumOver(f, all) + SumOver(g, all)
  BY <1>2, <1>6, <1>7, SumPlus
<1>12. SumOver(f, all) = SumOver(f, left) /\ SumOver(g, all) = SumOver(g, right)
  BY <1>2, <1>3, <1>4, <1>6, SumPadded
<1>13. SumOver(f, left) = SumOver(Effects(q, c), left)
  BY <1>2, <1>4, <1>8, SumEqual
<1>14. SumOver(g, right) = SumOver(Effects(r, c), 1 .. n)
  <2>1. \A i \in right : b[i] \in 1 .. n /\ g[i] = Effects(r, c)[b[i]]
    BY <1>4, <1>8, <1>9
  <2> DEFINE T == 1 .. n
  <2>2. /\ IsFiniteSet(T) /\ IntsOn(Effects(r, c), T)
        /\ \A i \in right : b[i] \in T /\ g[i] = Effects(r, c)[b[i]]
        /\ \A k \in T : \E i \in right : b[i] = k
    BY <1>2, <1>9, <2>1
  <2> HIDE DEF T
  <2>3. SumOver(g, right) = SumOver(Effects(r, c), T)
    BY <1>9, <1>10, <2>2, SumMoved
  <2> QED
    BY <2>3 DEF T
<1> QED
  BY <1>2, <1>11, <1>12, <1>13, <1>14 DEF t

LEMMA NetOfOne ==
  ASSUME NEW R, InCents(R), NEW e \in R, NEW c
  PROVE  NetOf(<<e>>, c) = Effect(e, c)
<1>1. <<e>> \in Seq(R) /\ Len(<<e>>) = 1
  OBVIOUS
<1>2. NetOf(<<e>>, c) = SumOver(Effects(<<e>>, c), 1 .. 1)
      /\ IsFiniteSet(1 .. 1) /\ IntsOn(Effects(<<e>>, c), 1 .. 1)
  BY <1>1, NetIsSum
<1>3. Effects(<<e>>, c)[1] = Effect(e, c)
  BY DEF Effects
<1>4. 1 \in 1 .. 1 /\ (1 .. 1) \ {1} = {}
  OBVIOUS
<1>5. SumOver(Effects(<<e>>, c), 1 .. 1) = Effects(<<e>>, c)[1] + SumOver(Effects(<<e>>, c), {})
  BY <1>2, <1>4, SumWithout
<1> QED
  BY <1>2, <1>3, <1>5, SumEmpty, EffectTyped

LEMMA NetAppend ==
  ASSUME NEW R, InCents(R), NEW q \in Seq(R), NEW e \in R, NEW c
  PROVE  NetOf(Append(q, e), c) = NetOf(q, c) + Effect(e, c)
<1> DEFINE one == <<e>>
<1>1. Append(q, e) = q \o one /\ one \in Seq(R)
  OBVIOUS
<1>2. NetOf(one, c) = Effect(e, c)
  BY NetOfOne
<1> HIDE DEF one
<1>3. NetOf(q \o one, c) = NetOf(q, c) + NetOf(one, c)
  BY <1>1, NetConcat
<1> QED
  BY <1>1, <1>2, <1>3

LEMMA NetOfTail ==
  ASSUME NEW R, InCents(R), NEW q \in Seq(R), q # <<>>, NEW c
  PROVE  NetOf(Tail(q), c) = NetOf(q, c) - Effect(Head(q), c)
<1> DEFINE h == Head(q)
           t == Tail(q)
<1>1. q = <<h>> \o t /\ h \in R /\ t \in Seq(R) /\ <<h>> \in Seq(R)
  OBVIOUS
<1> HIDE DEF h, t
<1>2. NetOf(q, c) = NetOf(<<h>>, c) + NetOf(t, c)
  BY <1>1, NetConcat
<1>3. NetOf(t, c) \in Int /\ Effect(h, c) \in Int
  BY <1>1, NetTyped, EffectTyped
<1> QED
  BY <1>1, <1>2, <1>3, NetOfOne DEF h, t

(* Flagging rows as reversed changes no balance.                           *)
LEMMA TransactionsInCents ==
  ASSUME NEW A
  PROVE  InCents(TransactionRow(A))
  BY DEF InCents, TransactionRow

LEMMA NetOfFlagged ==
  ASSUME NEW A, NEW q \in Seq(TransactionRow(A)), NEW n \in Nat, NEW c
  PROVE  NetOf(MarkReversed(q, n), c) = NetOf(q, c)
<1> DEFINE R == TransactionRow(A)
           p == MarkReversed(q, n)
<1>1. DOMAIN q = 1 .. Len(q) /\ Len(q) \in Nat /\ \A i \in 1 .. Len(q) : q[i] \in R
  OBVIOUS
<1>2. \A r \in R : /\ [r EXCEPT !.status = "reversed"] \in R
                   /\ Effect([r EXCEPT !.status = "reversed"], c) = Effect(r, c)
  BY DEF TransactionRow, TransactionStatus, Effect
<1>3. InCents(R)
  BY TransactionsInCents
<1> HIDE DEF R
<1>4. \A i \in 1 .. Len(q) : p[i] \in R /\ Effect(p[i], c) = Effect(q[i], c)
  BY <1>1, <1>2 DEF MarkReversed
<1>5. DOMAIN p = 1 .. Len(q)
  BY <1>1 DEF MarkReversed
<1>6. p \in Seq(R) /\ Len(p) = Len(q)
  <2>1. p \in [1 .. Len(q) -> R]
    BY <1>1, <1>4 DEF MarkReversed
  <2> QED
    BY <1>1, <2>1
<1>7. \A i \in 1 .. Len(q) : Effects(p, c)[i] = Effects(q, c)[i]
  BY <1>1, <1>4, <1>5 DEF Effects
<1>8. q \in Seq(R)
  BY DEF R
<1> HIDE DEF p
<1>9. /\ NetOf(p, c) = SumOver(Effects(p, c), 1 .. Len(q))
      /\ NetOf(q, c) = SumOver(Effects(q, c), 1 .. Len(q))
      /\ IsFiniteSet(1 .. Len(q)) /\ IntsOn(Effects(q, c), 1 .. Len(q))
  BY <1>3, <1>6, <1>8, NetIsSum
<1>10. SumOver(Effects(p, c), 1 .. Len(q)) = SumOver(Effects(q, c), 1 .. Len(q))
  BY <1>7, <1>9, SumEqual
<1> QED
  BY <1>9, <1>10 DEF p

(* Reversing the rows of a settlement, in any order, undoes them.          *)
LEMMA ReversalEffect ==
  ASSUME NEW A, NEW row \in TransactionRow(A), NEW c
  PROVE  Reversal(row) \in TransactionRow(A) /\ Effect(Reversal(row), c) = -Effect(row, c)
  BY DEF TransactionRow, TransactionType, TransactionStatus, Reversal, Opposite, Entry, Effect

LEMMA OrderIsOneToOne ==
  ASSUME NEW n \in Nat, NEW order \in [1 .. n -> 1 .. n],
         \A y \in 1 .. n : \E x \in 1 .. n : order[x] = y
  PROVE  \A i, j \in 1 .. n : order[i] = order[j] => i = j
<1> DEFINE S == 1 .. n
<1>1. IsFiniteSet(S)
  BY FS_Interval
<1> HIDE DEF S
<1>2. order \in Surjection(S, S)
  BY DEF S, Surjection
<1>3. order \in Injection(S, S)
  BY <1>1, <1>2, FS_SurjSameCardinalityImpliesInj
<1>4. \A i, j \in S : order[i] = order[j] => i = j
  BY <1>2, <1>3, Zenon DEF Injection, IsInjective, Surjection
<1> QED
  BY <1>4 DEF S

LEMMA NetOfReversals ==
  ASSUME NEW A, NEW q \in Seq(TransactionRow(A)),
         NEW order \in [DOMAIN q -> DOMAIN q],
         \A y \in DOMAIN q : \E x \in DOMAIN q : order[x] = y,
         NEW c
  PROVE  NetOf([i \in DOMAIN q |-> Reversal(q[order[i]])], c) = -NetOf(q, c)
<1> DEFINE R == TransactionRow(A)
           n == Len(q)
           p == [i \in DOMAIN q |-> Reversal(q[order[i]])]
           g == [i \in 1 .. n |-> -Effect(q[i], c)]
<1>1. DOMAIN q = 1 .. n /\ n \in Nat /\ \A i \in 1 .. n : q[i] \in R
  OBVIOUS
<1>2. \A r \in R : Reversal(r) \in R /\ Effect(Reversal(r), c) = -Effect(r, c)
  BY ReversalEffect
<1>3. InCents(R)
  BY TransactionsInCents
<1>4. q \in Seq(R)
  OBVIOUS
<1> HIDE DEF R, n
<1>5. \A i \in 1 .. n : p[i] \in R /\ Effect(p[i], c) = -Effect(q[order[i]], c)
  BY <1>1, <1>2
<1>6. p \in Seq(R) /\ Len(p) = n /\ DOMAIN p = 1 .. n
  <2>1. p \in [1 .. n -> R]
    BY <1>1, <1>5
  <2> QED
    BY <1>1, <2>1
<1>7. \A i \in 1 .. n : Effects(p, c)[i] = g[order[i]]
  BY <1>1, <1>5, <1>6 DEF Effects
<1>8. \A i \in 1 .. n : g[i] = -Effects(q, c)[i] /\ Effect(q[i], c) \in Int
  BY <1>1, <1>3, EffectTyped DEF Effects
<1>9. \A i, j \in 1 .. n : order[i] = order[j] => i = j
  BY <1>1, OrderIsOneToOne
<1>10. IntsOn(g, 1 .. n)
  BY <1>8 DEF IntsOn
<1> HIDE DEF p, g
<1>11. /\ NetOf(p, c) = SumOver(Effects(p, c), 1 .. n)
       /\ NetOf(q, c) = SumOver(Effects(q, c), 1 .. n)
       /\ IsFiniteSet(1 .. n) /\ IntsOn(Effects(q, c), 1 .. n)
  BY <1>3, <1>4, <1>6, NetIsSum DEF n
<1>12. SumOver(Effects(p, c), 1 .. n) = SumOver(g, 1 .. n)
  <2> DEFINE T == 1 .. n
  <2>1. /\ IsFiniteSet(T) /\ IntsOn(g, T)
        /\ \A i \in T : order[i] \in T /\ Effects(p, c)[i] = g[order[i]]
        /\ \A i, j \in T : order[i] = order[j] => i = j
        /\ \A k \in T : \E i \in T : order[i] = k
    BY <1>1, <1>7, <1>9, <1>10, <1>11
  <2> HIDE DEF T
  <2>2. SumOver(Effects(p, c), T) = SumOver(g, T)
    BY <2>1, SumMoved
  <2> QED
    BY <2>2 DEF T
<1>13. SumOver(g, 1 .. n) = -SumOver(Effects(q, c), 1 .. n)
  <2> DEFINE T == 1 .. n
  <2>1. IsFiniteSet(T) /\ IntsOn(Effects(q, c), T) /\ \A i \in T : g[i] = -Effects(q, c)[i]
    BY <1>8, <1>11
  <2> HIDE DEF T
  <2>2. SumOver(g, T) = -SumOver(Effects(q, c), T)
    BY <2>1, SumNegated
  <2> QED
    BY <2>2 DEF T
<1> QED
  BY <1>11, <1>12, <1>13 DEF p

-----------------------------------------------------------------------------
(* What a list of rows does to the balances of a set of accounts.          *)

(* Adding up by rows or by columns comes to the same. *)
LEMMA SumsExchange ==
  ASSUME NEW S, NEW T, IsFiniteSet(S), IsFiniteSet(T), NEW f \in [S -> [T -> Int]]
  PROVE  SumOver([x \in S |-> SumOver(f[x], T)], S)
           = SumOver([y \in T |-> SumOver([x \in S |-> f[x][y]], S)], T)
<1> DEFINE across == [x \in S |-> SumOver(f[x], T)]
           column == [y \in T |-> [x \in S |-> f[x][y]]]
           down(s) == [y \in T |-> SumOver(column[y], s)]
           Bad == {s \in SUBSET S : SumOver(across, s) # SumOver(down(s), T)}
<1>1. \A x \in S : IntsOn(f[x], T) /\ across[x] = SumOver(f[x], T)
  BY DEF IntsOn
<1>2. \A x \in S : across[x] \in Int
  BY <1>1, SumTyped
<1>3. \A y \in T : IntsOn(column[y], S) /\ \A x \in S : column[y][x] = f[x][y]
  BY DEF IntsOn
<1>4. \A s : \A y \in T : down(s)[y] = SumOver(column[y], s)
  OBVIOUS
<1>5. S \in SUBSET S /\ down(S) = [y \in T |-> SumOver([x \in S |-> f[x][y]], S)]
  OBVIOUS
<1> HIDE DEF across, column, down
<1>6. ASSUME Bad # {} PROVE FALSE
  <2>1. PICK s \in Bad : \A t \in Bad : ~ (t \subseteq s /\ t # s)
    <3>1. Bad \subseteq SUBSET S
      OBVIOUS
    <3> HIDE DEF Bad
    <3> QED
      BY <1>6, <3>1, SmallestSubset
  <2>2. s \in SUBSET S /\ IsFiniteSet(s) /\ SumOver(across, s) # SumOver(down(s), T)
    BY FS_Subset
  <2>3. CASE s = {}
    <3>1. \A y \in T : down(s)[y] = 0
      BY <1>4, <2>3, SumEmpty
    <3> QED
      BY <2>2, <2>3, <3>1, SumEmpty, SumOfZeros
  <2>4. CASE s # {}
    <3>1. PICK a \in s : TRUE
      BY <2>4
    <3> DEFINE u == s \ {a}
    <3>2. u \in SUBSET S /\ u \subseteq s /\ u # s /\ a \in S
      BY <2>2, <3>1
    <3>3. SumOver(across, u) = SumOver(down(u), T)
      BY <2>1, <3>2
    <3>4. SumOver(across, s) = across[a] + SumOver(across, u)
      <4>1. IntsOn(across, s)
        BY <1>2, <2>2 DEF IntsOn
      <4> QED
        BY <2>2, <3>1, <4>1, SumWithout
    <3>5. ASSUME NEW y \in T
          PROVE  down(s)[y] = f[a][y] + down(u)[y] /\ down(u)[y] \in Int
      <4>1. IntsOn(column[y], s)
        BY <1>3, <2>2 DEF IntsOn
      <4>2. /\ SumOver(column[y], s) = column[y][a] + SumOver(column[y], u)
            /\ SumOver(column[y], u) \in Int
        BY <2>2, <3>1, <4>1, SumWithout
      <4> QED
        BY <1>3, <1>4, <3>2, <4>2
    <3> HIDE DEF u, Bad
    <3>6. IntsOn(down(u), T)
      BY <3>5 DEF IntsOn
    <3>7. SumOver(down(s), T) = SumOver(f[a], T) + SumOver(down(u), T)
      BY <1>1, <3>2, <3>5, <3>6, SumPlus
    <3> QED
      BY <1>1, <2>2, <3>2, <3>3, <3>4, <3>7
  <2> QED
    BY <2>3, <2>4
<1>7. SumOver(across, S) = SumOver(down(S), T)
  BY <1>5, <1>6
<1> QED
  BY <1>5, <1>7 DEF across

Surplus(q, A) == SumOver([c \in A |-> NetOf(q, c)], A)

LEMMA SurplusIsSum ==
  ASSUME NEW R, InCents(R), NEW q \in Seq(R), NEW A, IsFiniteSet(A)
  PROVE  IntsOn([c \in A |-> NetOf(q, c)], A) /\ Surplus(q, A) \in Int
<1>1. \A c \in A : NetOf(q, c) \in Int
  BY NetTyped
<1>2. IntsOn([c \in A |-> NetOf(q, c)], A)
  BY <1>1 DEF IntsOn
<1> QED
  BY <1>2, SumTyped DEF Surplus

LEMMA SurplusEmpty ==
  ASSUME NEW A, IsFiniteSet(A)
  PROVE  Surplus(<<>>, A) = 0
<1>1. \A c \in A : [x \in A |-> NetOf(<<>>, x)][c] = 0
  BY NetEmpty
<1> QED
  BY <1>1, SumOfZeros DEF Surplus

LEMMA SurplusConcat ==
  ASSUME NEW R, InCents(R), NEW q \in Seq(R), NEW r \in Seq(R), NEW A, IsFiniteSet(A)
  PROVE  Surplus(q \o r, A) = Surplus(q, A) + Surplus(r, A)
<1> DEFINE f == [c \in A |-> NetOf(q, c)]
           g == [c \in A |-> NetOf(r, c)]
           h == [c \in A |-> NetOf(q \o r, c)]
<1>1. IntsOn(f, A) /\ IntsOn(g, A)
  BY SurplusIsSum
<1>2. \A c \in A : h[c] = f[c] + g[c]
  BY NetConcat
<1>3. Surplus(q, A) = SumOver(f, A) /\ Surplus(r, A) = SumOver(g, A)
        /\ Surplus(q \o r, A) = SumOver(h, A)
  BY DEF Surplus
<1> HIDE DEF f, g, h
<1> QED
  BY <1>1, <1>2, <1>3, SumPlus

(* A row that is moved from a list to another changes neither sum of both. *)
LEMMA SurplusMoved ==
  ASSUME NEW R, InCents(R), NEW q \in Seq(R), NEW r \in Seq(R), r # <<>>, NEW A, IsFiniteSet(A)
  PROVE  Surplus(Append(q, Head(r)), A) + Surplus(Tail(r), A) = Surplus(q, A) + Surplus(r, A)
<1> DEFINE one == <<Head(r)>>
           rest == Tail(r)
           more == Append(q, Head(r))
<1>1. one \in Seq(R) /\ rest \in Seq(R) /\ r = one \o rest /\ more = q \o one
  OBVIOUS
<1> SUFFICES Surplus(more, A) + Surplus(rest, A) = Surplus(q, A) + Surplus(r, A)
  OBVIOUS
<1> HIDE DEF one, rest, more
<1>2. Surplus(r, A) = Surplus(one, A) + Surplus(rest, A)
  BY <1>1, SurplusConcat
<1>3. Surplus(more, A) = Surplus(q, A) + Surplus(one, A)
  BY <1>1, SurplusConcat
<1>4. Surplus(q, A) \in Int /\ Surplus(one, A) \in Int /\ Surplus(rest, A) \in Int
  BY <1>1, SurplusIsSum
<1> QED
  BY <1>2, <1>3, <1>4

LEMMA SurplusOfFlagged ==
  ASSUME NEW B, NEW q \in Seq(TransactionRow(B)), NEW n \in Nat, NEW A
  PROVE  Surplus(MarkReversed(q, n), A) = Surplus(q, A)
<1>1. \A c \in A : NetOf(MarkReversed(q, n), c) = NetOf(q, c)
  BY NetOfFlagged
<1>2. [c \in A |-> NetOf(MarkReversed(q, n), c)] = [c \in A |-> NetOf(q, c)]
  BY <1>1
<1> QED
  BY <1>2 DEF Surplus

LEMMA SurplusOfReversals ==
  ASSUME NEW B, NEW q \in Seq(TransactionRow(B)), NEW order \in [DOMAIN q -> DOMAIN q],
         \A y \in DOMAIN q : \E x \in DOMAIN q : order[x] = y, NEW A, IsFiniteSet(A)
  PROVE  Surplus([i \in DOMAIN q |-> Reversal(q[order[i]])], A) = -Surplus(q, A)
<1> DEFINE p == [i \in DOMAIN q |-> Reversal(q[order[i]])]
           f == [c \in A |-> NetOf(q, c)]
           g == [c \in A |-> NetOf(p, c)]
<1>1. \A c : NetOf(p, c) = -NetOf(q, c)
  BY NetOfReversals
<1>2. IntsOn(f, A)
  BY TransactionsInCents, SurplusIsSum
<1> HIDE DEF p
<1>3. \A c \in A : g[c] = -f[c]
  BY <1>1
<1>4. Surplus(q, A) = SumOver(f, A) /\ Surplus(p, A) = SumOver(g, A)
  BY DEF Surplus
<1> HIDE DEF f, g
<1> QED
  BY <1>2, <1>3, <1>4, SumNegated DEF p

(* Over all accounts a row counts once, with its sign. *)
LEMMA EffectOnAll ==
  ASSUME NEW A, IsFiniteSet(A), NEW row \in TransactionRow(A)
  PROVE  SumOver([c \in A |-> Effect(row, c)], A) = Delta(row)
<1> DEFINE z == [c \in A |-> 0]
           g == [c \in A |-> Effect(row, c)]
<1>1. row.account \in A /\ Delta(row) \in Int
  BY DEF TransactionRow, Delta
<1>2. IntsOn(z, A) /\ SumOver(z, A) = 0
  BY SumOfZeros DEF IntsOn
<1>3. /\ g[row.account] = z[row.account] + Delta(row)
      /\ \A c \in A \ {row.account} : g[c] = z[c]
  BY <1>1 DEF Effect, Delta
<1> HIDE DEF z, g
<1>4. SumOver(g, A) = SumOver(z, A) + Delta(row)
  BY <1>1, <1>2, <1>3, SumChange
<1> QED
  BY <1>1, <1>2, <1>4 DEF g

(* The balance check of post_entries is right: it passes exactly the lists *)
(* that leave the sum of all balances alone.                               *)
LEMMA BalancedIsNoSurplus ==
  ASSUME NEW A, IsFiniteSet(A), NEW q \in Seq(TransactionRow(A))
  PROVE  Balanced(q) <=> Surplus(q, A) = 0
<1> DEFINE R == TransactionRow(A)
           n == 1 .. Len(q)
           by == [i \in n |-> [c \in A |-> Effect(q[i], c)]]
           deltas == [i \in n |-> Delta(q[i])]
           cents(type) == [i \in n |-> IF q[i].type = type THEN q[i].cents ELSE 0]
           debits == cents("debit")
           credits == cents("credit")
           minus == [i \in n |-> -debits[i]]
<1>1. DOMAIN q = n /\ \A i \in n : q[i] \in R
  OBVIOUS
<1>2. IsFiniteSet(n)
  BY FS_Interval
<1>3. InCents(R)
  BY TransactionsInCents
<1> DEFINE nets == [c \in A |-> NetOf(q, c)]
<1>4. nets = [c \in A |-> SumOver([i \in n |-> by[i][c]], n)]
  <2>1. ASSUME NEW c \in A PROVE NetOf(q, c) = SumOver([i \in n |-> by[i][c]], n)
    <3>1. Effects(q, c) = [i \in n |-> by[i][c]]
      BY <1>1 DEF Effects
    <3> QED
      BY <1>3, <3>1, NetIsSum
  <2> QED
    BY <2>1
<1>5. deltas = [i \in n |-> SumOver(by[i], A)]
  BY <1>1, EffectOnAll
<1>6. by \in [n -> [A -> Int]]
  <2>1. \A i \in n, c \in A : Effect(q[i], c) \in Int
    BY <1>1, <1>3, EffectTyped
  <2> QED
    BY <2>1
<1>7. \A i \in n : q[i].cents \in Nat /\ q[i].type \in {"debit", "credit"}
  BY <1>1 DEF TransactionRow, TransactionType
<1>8. CentsOf(q, "debit") = SumOver(debits, n) /\ CentsOf(q, "credit") = SumOver(credits, n)
  <2>1. DOMAIN debits = n /\ DOMAIN credits = n
    OBVIOUS
  <2>2. CentsOf(q, "debit") = SumFunction(debits) /\ CentsOf(q, "credit") = SumFunction(credits)
    BY <1>1 DEF CentsOf
  <2> HIDE DEF debits, credits
  <2> QED
    BY <2>1, <2>2, SumFunctionIsSumOver
<1>9. /\ IntsOn(debits, n) /\ IntsOn(credits, n) /\ IntsOn(minus, n)
      /\ \A i \in n : deltas[i] = credits[i] + minus[i] /\ minus[i] = -debits[i]
  BY <1>7 DEF IntsOn, Delta
<1>10. Surplus(q, A) = SumOver(nets, A)
  BY DEF Surplus
<1> HIDE DEF n, by, deltas, debits, credits, minus, nets, R
<1>11. SumOver(nets, A) = SumOver(deltas, n)
  BY <1>2, <1>4, <1>5, <1>6, SumsExchange
<1>12. SumOver(deltas, n) = SumOver(credits, n) + SumOver(minus, n)
  BY <1>2, <1>9, SumPlus
<1>13. SumOver(minus, n) = -SumOver(debits, n)
  BY <1>2, <1>9, SumNegated
<1>14. SumOver(debits, n) \in Int /\ SumOver(credits, n) \in Int
  BY <1>2, <1>9, SumTyped
<1> QED
  BY <1>8, <1>10, <1>11, <1>12, <1>13, <1>14 DEF Balanced
=============================================================================
