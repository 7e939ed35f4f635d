------------------------- MODULE RevenueSplitProofs -------------------------
(***************************************************************************)
(* What split_amount guarantees for every positive total and every         *)
(* configuration RevenueSplitConfig accepts.                               *)
(***************************************************************************)
EXTENDS MCRevenueSplit, LedgerProofs

(* The loop adds one cent to each of the first Leftover parties in order.  *)
LEMMA ExtraIsOneOrNone ==
  ASSUME NEW amount \in Nat, NEW config \in SplitConfig, NEW p \in Party
  PROVE  Split(amount, config)[p] = FloorShare(amount, config, p)
           + (IF Rank(amount, config, p) < Leftover(amount, config) THEN 1 ELSE 0)
<1> DEFINE L == Leftover(amount, config)
           K == Rank(amount, config, p)
<1>1. L \in 0 .. 2 /\ K \in 0 .. 2
  BY LeftoverBounded, RanksAreDistinct
<1>2. Split(amount, config)[p] = FloorShare(amount, config, p) + Extra(L, K)
  BY DEF Split
<1> HIDE DEF L, K
<1>3. Extra(L, K) = IF K < L THEN 1 ELSE 0
  BY <1>1 DEF Extra
<1> QED
  BY <1>2, <1>3 DEF L, K

(* No party is ever paid more or less than its exact percentage rounded up *)
(* or down, and a party whose share is configured as zero is paid nothing, *)
(* whatever cents are left over: rounding cannot move money to a party     *)
(* that has no part in the split.                                          *)
THEOREM SplitWithinACent ==
  ASSUME NEW amount \in Nat, NEW config \in SplitConfig, NEW p \in Party
  PROVE  /\ Split(amount, config)[p]
              \in {FloorShare(amount, config, p), FloorShare(amount, config, p) + 1}
         /\ config[p] = 0 => Split(amount, config)[p] = 0
<1> DEFINE L == Leftover(amount, config)
           K(q) == Rank(amount, config, q)
           R(q) == Remainder(amount, config, q)
<1>1. Split(amount, config)[p] = FloorShare(amount, config, p) + (IF K(p) < L THEN 1 ELSE 0)
  BY ExtraIsOneOrNone
<1>2. FloorShare(amount, config, p) \in Nat
  BY SharesOfTotal
<1>3. ASSUME config[p] = 0  PROVE  FloorShare(amount, config, p) = 0 /\ R(p) = 0
  <2>1. amount * config[p] = 0
    BY <1>3
  <2> QED
    BY <2>1 DEF FloorShare, Remainder, BasisPoints
<1>4. ASSUME R(p) = 0  PROVE  ~ (K(p) < L)
  <2>1. /\ \A q \in Party : R(q) \in Nat /\ R(q) < 10000
        /\ 10000 * L = R("archive") + R("transcriptionist") + R("platform")
    BY SharesOfTotal DEF BasisPoints
  <2>2. /\ L \in 0 .. 2
        /\ \A q \in Party : K(q) \in 0 .. 2
        /\ \A q1, q2 \in Party : q1 # q2 => K(q1) # K(q2)
        /\ \A q \in Party : Precedes(amount, config, q, p) => K(q) < K(p)
    BY LeftoverBounded, RanksAreDistinct
  <2>3. \A q \in Party : R(q) > R(p) => K(q) < K(p)
    BY <2>2 DEF Precedes
  <2> HIDE DEF L, K, R
  <2>4. CASE L = 0
    BY <2>2, <2>4
  <2>5. CASE L > 0
    <3>1. PICK q \in Party : R(q) > 0
      BY <2>1, <2>2, <2>5 DEF Party
    <3>2. K(q) < K(p)
      BY <3>1, <2>3, <1>4
    <3>3. L = 1
      BY <2>1, <2>2, <2>5, <1>4 DEF Party
    <3> QED
      BY <3>2, <3>3, <2>2
  <2> QED
    BY <2>2, <2>4, <2>5
<1> HIDE DEF L, K, R
<1> QED
  BY <1>1, <1>2, <1>3, <1>4

-----------------------------------------------------------------------------
(* Every total and every configuration.                                    *)

(* The totals and configurations of the sweep are those split_amount and   *)
(* RevenueSplitConfig accept.                                              *)
SweepInv == total \in Nat \ {0} /\ bps \in SplitConfig

LEMMA SharesAreConfigs ==
  ASSUME NEW a \in Nat, NEW t \in Nat, a + t <= BasisPoints
  PROVE  Shares(a, t) \in SplitConfig
  BY DEF Shares, SplitConfig, SumOfParties, Party, BasisPoints

LEMMA SweptAreConfigs == SweptConfigs \subseteq SplitConfig
  <1>1. ASSUME NEW c \in {DefaultConfig, Shares(3333, 3333), Shares(3334, 3333), Shares(9999, 1)}
        PROVE  c \in SplitConfig
    BY SharesAreConfigs DEF DefaultConfig, BasisPoints
  <1>2. QED
    BY <1>1 DEF SweptConfigs

LEMMA SweepInvariance == Spec => []SweepInv
  <1>1. Init => SweepInv
    BY SweptAreConfigs DEF Init, SweepInv
  <1>2. SweepInv /\ [Next]_vars => SweepInv'
    BY DEF SweepInv, Next, OneMoreCent, vars, SplitConfig
  <1>3. QED
    BY <1>1, <1>2, PTL DEF Spec

(* split_amount's docstring: the shares add up "for every input".          *)
THEOREM SharesAlwaysAddUp == Spec => []SharesAddUp
  <1>1. SweepInv => SharesAddUp
    BY SplitAddsUp DEF SweepInv, SharesAddUp
  <1>2. QED
    BY <1>1, SweepInvariance, PTL

LEMMA CandidateShares ==
  ASSUME SweepInv, NEW a
  PROVE  a \in Candidates
           <=> /\ a \in [Party -> Nat] /\ SumOfParties(a) = total
               /\ \A p \in Party : a[p] \in {FloorShare(total, bps, p), FloorShare(total, bps, p) + 1}
  <1> DEFINE up(p) == {FloorShare(total, bps, p), FloorShare(total, bps, p) + 1}
             triples == up("archive") \X up("transcriptionist") \X up("platform")
             asShares(t) == [p \in Party |-> t[Priority(p) + 1]]
  <1>1. \A p \in Party : FloorShare(total, bps, p) \in Nat
    BY SharesOfTotal DEF SweepInv
  <1>2. Candidates = {c \in {asShares(t) : t \in triples} : SumOfParties(c) = total}
    BY DEF Candidates
  <1>3. ASSUME NEW t \in triples
        PROVE  /\ asShares(t)["archive"] = t[1] /\ asShares(t)["transcriptionist"] = t[2]
               /\ asShares(t)["platform"] = t[3]
    BY DEF Party, Priority
  <1>4. ASSUME NEW t \in triples
        PROVE  asShares(t) \in [Party -> Nat] /\ \A p \in Party : asShares(t)[p] \in up(p)
    <2>1. t[1] \in up("archive") /\ t[2] \in up("transcriptionist") /\ t[3] \in up("platform")
      OBVIOUS
    <2>2. \A p \in Party : asShares(t)[p] \in up(p)
      BY <1>3, <2>1 DEF Party
    <2>3. \A p \in Party : asShares(t)[p] \in Nat
      BY <1>1, <2>2
    <2>4. asShares(t) = [p \in Party |-> asShares(t)[p]]
      OBVIOUS
    <2>5. QED
      BY <2>2, <2>3, <2>4
  <1>5. ASSUME a \in [Party -> Nat], \A p \in Party : a[p] \in up(p)
        PROVE  \E t \in triples : a = asShares(t)
    <2> DEFINE t == <<a["archive"], a["transcriptionist"], a["platform"]>>
    <2>1. t \in triples
      BY <1>5 DEF Party
    <2>2. \A p \in Party : a[p] = t[Priority(p) + 1]
      BY DEF Party, Priority
    <2> HIDE DEF t
    <2>3. a = asShares(t)
      BY <1>5, <2>2
    <2>4. QED
      BY <2>1, <2>3
  <1> HIDE DEF triples, asShares, up
  <1>6. QED
    BY <1>2, <1>4, <1>5 DEF up
(* What rounding one share up or down costs.                               *)
Cost(y, r) == IF y = 1 THEN BasisPoints - r ELSE r

LEMMA ErrorOf ==
  ASSUME SweepInv, NEW a \in [Party -> Nat], NEW p \in Party, NEW y \in 0 .. 1,
         a[p] = FloorShare(total, bps, p) + y
  PROVE  Error(a, p) = Cost(y, Remainder(total, bps, p))
  <1> DEFINE f == FloorShare(total, bps, p)
             r == Remainder(total, bps, p)
             n == total * bps[p]
             d == a[p] * BasisPoints - n
  <1>1. f \in Nat /\ r \in Nat /\ r < 10000 /\ n = 10000 * f + r
    BY SharesOfTotal DEF SweepInv, BasisPoints
  <1>2. Error(a, p) = IF d < 0 THEN -d ELSE d
    BY DEF Error
  <1>3. d = a[p] * 10000 - n
    BY DEF BasisPoints
  <1> HIDE DEF f, r, n, d
  <1>4. a[p] = f + y
    BY DEF f
  <1>5. d = 10000 * y - r
    BY <1>1, <1>3, <1>4
  <1>6. QED
    BY <1>1, <1>2, <1>5 DEF Cost, BasisPoints, r

(* Of all the ways to round, split_amount takes the one closest to the     *)
(* exact shares (Hamilton's method is optimal), and of equally close ones  *)
(* the one that favours the party listed first.                            *)
THEOREM SplitClosest == SweepInv => SplitIsClosest
  <1> SUFFICES ASSUME SweepInv PROVE SplitIsClosest
    OBVIOUS
  <1> DEFINE s == Split(total, bps)
             L == Leftover(total, bps)
             F(p) == FloorShare(total, bps, p)
             R(p) == Remainder(total, bps, p)
             K(p) == Rank(total, bps, p)
             x(p) == IF K(p) < L THEN 1 ELSE 0
  <1>1. total \in Nat /\ bps \in SplitConfig
    BY DEF SweepInv
  <1>2. /\ \A p \in Party : F(p) \in Nat /\ R(p) \in Nat /\ R(p) < 10000
        /\ 10000 * L = R("archive") + R("transcriptionist") + R("platform")
    BY <1>1, SharesOfTotal DEF BasisPoints
  <1>3. L \in 0 .. 2 /\ L = total - (F("archive") + F("transcriptionist") + F("platform"))
    BY <1>1, LeftoverBounded DEF Leftover, SumOfParties, FloorShares, Party
  <1>4. /\ \A p \in Party : K(p) \in 0 .. 2
        /\ \A p, q \in Party : p # q => K(q) # K(p)
        /\ \A p, q \in Party : (R(q) > R(p) \/ (R(q) = R(p) /\ Priority(q) < Priority(p)))
                                  => K(q) < K(p)
    BY <1>1, RanksAreDistinct DEF Precedes
  <1>5. s \in [Party -> Nat] /\ SumOfParties(s) = total
    BY <1>1, SplitAddsUp DEF Split
  <1>6. \A p \in Party : s[p] = F(p) + x(p)
    BY <1>1, ExtraIsOneOrNone
  <1>7. s \in Candidates
    <2>1. \A p \in Party : s[p] \in {F(p), F(p) + 1}
      BY <1>2, <1>6
    <2>2. QED
      BY <1>5, <2>1, CandidateShares
  <1>8. ASSUME NEW a \in Candidates
        PROVE  \/ TotalError(s) < TotalError(a)
               \/ /\ TotalError(s) = TotalError(a)
                  /\ \/ s["archive"] > a["archive"]
                     \/ /\ s["archive"] = a["archive"]
                        /\ s["transcriptionist"] >= a["transcriptionist"]
    <2> DEFINE y(p) == a[p] - F(p)
    <2>1. /\ a \in [Party -> Nat] /\ SumOfParties(a) = total
          /\ \A p \in Party : a[p] \in {F(p), F(p) + 1}
      BY CandidateShares
    <2>2. \A p \in Party : y(p) \in 0 .. 1 /\ a[p] = F(p) + y(p) /\ x(p) \in 0 .. 1
      BY <1>2, <2>1
    <2>3. y("archive") + y("transcriptionist") + y("platform") = L
      BY <1>2, <1>3, <2>1 DEF SumOfParties, Party
    <2>4. \A p \in Party : Error(a, p) = Cost(y(p), R(p)) /\ Error(s, p) = Cost(x(p), R(p))
      BY <1>5, <1>6, <2>1, <2>2, ErrorOf
    <2>5. /\ TotalError(a) = Cost(y("archive"), R("archive"))
               + Cost(y("transcriptionist"), R("transcriptionist"))
               + Cost(y("platform"), R("platform"))
          /\ TotalError(s) = Cost(x("archive"), R("archive"))
               + Cost(x("transcriptionist"), R("transcriptionist"))
               + Cost(x("platform"), R("platform"))
      BY <2>4 DEF TotalError, SumOfParties, Party
    <2>6. \A p \in Party : (x(p) = 1) <=> (K(p) < L)
      OBVIOUS
    <2> HIDE DEF L, F, R, K, x, y
    <2>7. Priority("archive") = 0 /\ Priority("transcriptionist") = 1 /\ Priority("platform") = 2
      BY DEF Priority
    <2>8. \/ TotalError(s) < TotalError(a)
          \/ /\ TotalError(s) = TotalError(a)
             /\ \/ x("archive") > y("archive")
                \/ x("archive") = y("archive") /\ x("transcriptionist") >= y("transcriptionist")
      <3> DEFINE r1 == R("archive")  k1 == K("archive")  x1 == x("archive")  y1 == y("archive")
                 r2 == R("transcriptionist")  k2 == K("transcriptionist")
                 x2 == x("transcriptionist")  y2 == y("transcriptionist")
                 r3 == R("platform")  k3 == K("platform")  x3 == x("platform")  y3 == y("platform")
      <3>1. /\ r1 \in Nat /\ r2 \in Nat /\ r3 \in Nat
            /\ r1 < 10000 /\ r2 < 10000 /\ r3 < 10000
            /\ L \in 0 .. 2 /\ 10000 * L = r1 + r2 + r3
        BY <1>2, <1>3 DEF Party
      <3>2. /\ k1 \in 0 .. 2 /\ k2 \in 0 .. 2 /\ k3 \in 0 .. 2
            /\ k1 # k2 /\ k1 # k3 /\ k2 # k3
        BY <1>4 DEF Party
      <3>3. /\ r1 > r2 => k1 < k2
            /\ r1 > r3 => k1 < k3
            /\ r2 > r3 => k2 < k3
            /\ r2 > r1 => k2 < k1
            /\ r3 > r1 => k3 < k1
            /\ r3 > r2 => k3 < k2
        BY <1>4 DEF Party
      <3>4. /\ r1 = r2 => k1 < k2
            /\ r1 = r3 => k1 < k3
            /\ r2 = r3 => k2 < k3
        BY <1>4, <2>7 DEF Party
      <3>5. /\ x1 \in 0 .. 1 /\ x2 \in 0 .. 1 /\ x3 \in 0 .. 1
            /\ (x1 = 1) <=> (k1 < L)
            /\ (x2 = 1) <=> (k2 < L)
            /\ (x3 = 1) <=> (k3 < L)
        BY <2>2, <2>6 DEF Party
      <3>6. y1 \in 0 .. 1 /\ y2 \in 0 .. 1 /\ y3 \in 0 .. 1 /\ y1 + y2 + y3 = L
        BY <2>2, <2>3 DEF Party
      <3>7. /\ TotalError(a) = Cost(y1, r1) + Cost(y2, r2) + Cost(y3, r3)
            /\ TotalError(s) = Cost(x1, r1) + Cost(x2, r2) + Cost(x3, r3)
        BY <2>5
      <3> HIDE DEF r1, r2, r3, k1, k2, k3, x1, x2, x3, y1, y2, y3
      <3>8. LET st == Cost(x1, r1) + Cost(x2, r2) + Cost(x3, r3)
                at == Cost(y1, r1) + Cost(y2, r2) + Cost(y3, r3)
            IN st < at \/ (st = at /\ (x1 > y1 \/ (x1 = y1 /\ x2 >= y2)))
        BY <3>1, <3>2, <3>3, <3>4, <3>5, <3>6, SMTT(60) DEF Cost, BasisPoints
      <3>9. QED
        BY <3>7, <3>8 DEF x1, x2, y1, y2
    <2>9. \A p \in Party : s[p] = F(p) + x(p) /\ a[p] = F(p) + y(p) /\ F(p) \in Nat
                             /\ x(p) \in 0 .. 1 /\ y(p) \in 0 .. 1
      BY <1>2, <1>6, <2>2
    <2> HIDE DEF s
    <2>10. QED
      BY <2>8, <2>9 DEF Party
  <1> HIDE DEF s
  <1>9. QED
    BY <1>7, <1>8 DEF SplitIsClosest, s
(* Hence so it does for everything that is swept, whatever the bounds.     *)
THEOREM SplitAlwaysClosest == Spec => []SplitIsClosest
  BY SplitClosest, SweepInvariance, PTL

-----------------------------------------------------------------------------
(* The shipped 70/20/10 split repeats every ten cents.                     *)

Tenth(m) ==
  << [archive |-> 0, transcriptionist |-> 0, platform |-> 0],
     [archive |-> 1, transcriptionist |-> 0, platform |-> 0],
     [archive |-> 2, transcriptionist |-> 0, platform |-> 0],
     [archive |-> 2, transcriptionist |-> 1, platform |-> 0],
     [archive |-> 3, transcriptionist |-> 1, platform |-> 0],
     [archive |-> 4, transcriptionist |-> 1, platform |-> 0],
     [archive |-> 4, transcriptionist |-> 1, platform |-> 1],
     [archive |-> 5, transcriptionist |-> 1, platform |-> 1],
     [archive |-> 6, transcriptionist |-> 1, platform |-> 1],
     [archive |-> 6, transcriptionist |-> 2, platform |-> 1] >>[m + 1]

LEMMA DefaultSplit ==
  ASSUME NEW n \in Nat, NEW k \in Nat, NEW m \in 0 .. 9, n = 10 * k + m
  PROVE  /\ Split(n, DefaultConfig)["archive"] = 7 * k + Tenth(m)["archive"]
         /\ Split(n, DefaultConfig)["transcriptionist"] = 2 * k + Tenth(m)["transcriptionist"]
         /\ Split(n, DefaultConfig)["platform"] = k + Tenth(m)["platform"]
  <1>0. /\ FloorShare(n, DefaultConfig, "archive") = 7 * k + (7 * m) \div 10
        /\ FloorShare(n, DefaultConfig, "transcriptionist") = 2 * k + (2 * m) \div 10
        /\ FloorShare(n, DefaultConfig, "platform") = k
        /\ Remainder(n, DefaultConfig, "archive") = 1000 * ((7 * m) % 10)
        /\ Remainder(n, DefaultConfig, "transcriptionist") = 1000 * ((2 * m) % 10)
        /\ Remainder(n, DefaultConfig, "platform") = 1000 * m
    <2>1. /\ DefaultConfig["archive"] = 7000 /\ DefaultConfig["transcriptionist"] = 2000
          /\ DefaultConfig["platform"] = 1000
      BY DEF DefaultConfig, Shares, Party, BasisPoints
    <2>2. /\ n * 7000 = 70000 * k + 7000 * m
          /\ n * 2000 = 20000 * k + 2000 * m
          /\ n * 1000 = 10000 * k + 1000 * m
      OBVIOUS
    <2>3. /\ (70000 * k + 7000 * m) \div 10000 = 7 * k + (7 * m) \div 10
          /\ (70000 * k + 7000 * m) % 10000 = 1000 * ((7 * m) % 10)
      OBVIOUS
    <2>4. /\ (20000 * k + 2000 * m) \div 10000 = 2 * k + (2 * m) \div 10
          /\ (20000 * k + 2000 * m) % 10000 = 1000 * ((2 * m) % 10)
      OBVIOUS
    <2>5. /\ (10000 * k + 1000 * m) \div 10000 = k
          /\ (10000 * k + 1000 * m) % 10000 = 1000 * m
      OBVIOUS
    <2>6. QED
      BY <2>1, <2>2, <2>3, <2>4, <2>5 DEF FloorShare, Remainder, BasisPoints
  <1> DEFINE c == DefaultConfig
             a == "archive"  t == "transcriptionist"  p == "platform"
             L == Leftover(n, c)
             K(q) == Rank(n, c, q)
             R(q) == Remainder(n, c, q)
             x(q) == IF K(q) < L THEN 1 ELSE 0
             fa == (7 * m) \div 10  ft == (2 * m) \div 10
             ra == (7 * m) % 10  rt == (2 * m) % 10
  <1>1. c \in SplitConfig
    BY SharesAreConfigs DEF DefaultConfig, BasisPoints
  <1>2. /\ Split(n, c)[a] = 7 * k + fa + x(a)
        /\ Split(n, c)[t] = 2 * k + ft + x(t)
        /\ Split(n, c)[p] = k + x(p)
    <2>1. \A q \in Party : Split(n, c)[q] = FloorShare(n, c, q) + x(q)
      BY <1>1, ExtraIsOneOrNone
    <2>2. QED
      BY <1>0, <2>1 DEF Party
  <1>3. /\ K(a) \in 0 .. 2 /\ K(t) \in 0 .. 2 /\ K(p) \in 0 .. 2
        /\ K(a) # K(t) /\ K(a) # K(p) /\ K(t) # K(p)
    BY <1>1, RanksAreDistinct DEF Party
  <1>4. /\ R(a) >= R(t) => K(a) < K(t)
        /\ R(a) >= R(p) => K(a) < K(p)
        /\ R(t) >= R(p) => K(t) < K(p)
        /\ R(t) > R(a) => K(t) < K(a)
        /\ R(p) > R(a) => K(p) < K(a)
        /\ R(p) > R(t) => K(p) < K(t)
    <2>1. Priority(a) = 0 /\ Priority(t) = 1 /\ Priority(p) = 2
      BY DEF Priority
    <2>2. R(a) \in Nat /\ R(t) \in Nat /\ R(p) \in Nat
      BY <1>1, SharesOfTotal DEF Party
    <2>3. \A q, r \in Party : (R(q) > R(r) \/ (R(q) = R(r) /\ Priority(q) < Priority(r)))
                                => K(q) < K(r)
      BY <1>1, RanksAreDistinct DEF Precedes
    <2> HIDE DEF R, K
    <2>4. QED
      BY <2>1, <2>2, <2>3 DEF Party
  <1>5. R(a) = 1000 * ra /\ R(t) = 1000 * rt /\ R(p) = 1000 * m
    BY <1>0
  <1>6. L \in 0 .. 2 /\ 10000 * L = 1000 * ra + 1000 * rt + 1000 * m
    BY <1>1, <1>5, LeftoverBounded, SharesOfTotal DEF BasisPoints
  <1> DEFINE xa == x(a)  xt == x(t)  xp == x(p)  Ka == K(a)  Kt == K(t)  Kp == K(p)
  <1>7. /\ (xa = IF Ka < L THEN 1 ELSE 0) /\ (xt = IF Kt < L THEN 1 ELSE 0)
        /\ (xp = IF Kp < L THEN 1 ELSE 0)
    OBVIOUS
  <1>8. /\ Ka \in 0 .. 2 /\ Kt \in 0 .. 2 /\ Kp \in 0 .. 2
        /\ Ka # Kt /\ Ka # Kp /\ Kt # Kp
        /\ ra >= rt => Ka < Kt
        /\ ra >= m => Ka < Kp
        /\ rt >= m => Kt < Kp
        /\ rt > ra => Kt < Ka
        /\ m > ra => Kp < Ka
        /\ m > rt => Kp < Kt
    <2>1. ra \in Int /\ rt \in Int
      OBVIOUS
    <2> HIDE DEF K, ra, rt
    <2>2. QED
      BY <1>3, <1>4, <1>5, <2>1
  <1> HIDE DEF c, L, K, R, x, xa, xt, xp, Ka, Kt, Kp
  <1>9. /\ fa + xa = Tenth(m)["archive"]
        /\ ft + xt = Tenth(m)["transcriptionist"]
        /\ xp = Tenth(m)["platform"]
    <2>1. CASE m = 0 BY <1>6, <1>7, <1>8, <2>1 DEF Tenth
    <2>2. CASE m = 1 BY <1>6, <1>7, <1>8, <2>2 DEF Tenth
    <2>3. CASE m = 2 BY <1>6, <1>7, <1>8, <2>3 DEF Tenth
    <2>4. CASE m = 3 BY <1>6, <1>7, <1>8, <2>4 DEF Tenth
    <2>5. CASE m = 4 BY <1>6, <1>7, <1>8, <2>5 DEF Tenth
    <2>6. CASE m = 5 BY <1>6, <1>7, <1>8, <2>6 DEF Tenth
    <2>7. CASE m = 6 BY <1>6, <1>7, <1>8, <2>7 DEF Tenth
    <2>8. CASE m = 7 BY <1>6, <1>7, <1>8, <2>8 DEF Tenth
    <2>9. CASE m = 8 BY <1>6, <1>7, <1>8, <2>9 DEF Tenth
    <2>10. CASE m = 9 BY <1>6, <1>7, <1>8, <2>10 DEF Tenth
    <2>11. QED
      BY <2>1, <2>2, <2>3, <2>4, <2>5, <2>6, <2>7, <2>8, <2>9, <2>10
  <1>10. /\ xa \in Int /\ xt \in Int /\ xp \in Int /\ fa \in Int /\ ft \in Int
    BY <1>7
  <1> HIDE DEF fa, ft
  <1>11. QED
    BY <1>2, <1>9, <1>10 DEF xa, xt, xp, c

(* With the shipped configuration a dearer record never pays any party     *)
(* less (app/config.py).                                                   *)
THEOREM DearerPaysMore == Spec => DearerNeverPaysLess
  <1>1. ASSUME SweepInv, [Next]_vars, bps = DefaultConfig, NEW p \in Party
        PROVE  Split(total', bps')[p] >= Split(total, bps)[p]
    <2> DEFINE k == total \div 10
               m == total % 10
    <2>1. total \in Nat /\ k \in Nat /\ m \in 0 .. 9 /\ total = 10 * k + m
      BY <1>1 DEF SweepInv
    <2>2. bps' = bps /\ (total' = total \/ total' = total + 1)
      BY <1>1 DEF Next, OneMoreCent, vars
    <2>3. CASE total' = total
      <3>1. Split(total, bps)[p] \in Nat
        BY <1>1, SplitAddsUp DEF SweepInv
      <3>2. QED
        BY <2>2, <2>3, <3>1
    <2> HIDE DEF k, m
    <2>4. CASE total' = total + 1 /\ m < 9
      <3>1. total' \in Nat /\ m + 1 \in 0 .. 9 /\ total' = 10 * k + (m + 1)
        BY <2>1, <2>4
      <3>2. \A q \in Party : Tenth(m + 1)[q] >= Tenth(m)[q]
                              /\ Tenth(m + 1)[q] \in Nat /\ Tenth(m)[q] \in Nat
        BY <2>1, <2>4 DEF Tenth, Party
      <3>3. /\ Split(total', DefaultConfig)["archive"] = 7 * k + Tenth(m + 1)["archive"]
            /\ Split(total', DefaultConfig)["transcriptionist"] = 2 * k + Tenth(m + 1)["transcriptionist"]
            /\ Split(total', DefaultConfig)["platform"] = k + Tenth(m + 1)["platform"]
        BY <3>1, <2>1, DefaultSplit
      <3>4. /\ Split(total, DefaultConfig)["archive"] = 7 * k + Tenth(m)["archive"]
            /\ Split(total, DefaultConfig)["transcriptionist"] = 2 * k + Tenth(m)["transcriptionist"]
            /\ Split(total, DefaultConfig)["platform"] = k + Tenth(m)["platform"]
        BY <2>1, DefaultSplit
      <3>5. QED
        BY <1>1, <2>1, <2>2, <3>2, <3>3, <3>4 DEF Party
    <2>5. CASE total' = total + 1 /\ m = 9
      <3>1. total' \in Nat /\ k + 1 \in Nat /\ total' = 10 * (k + 1) + 0
        BY <2>1, <2>5
      <3>2. /\ Tenth(9)["archive"] = 6 /\ Tenth(9)["transcriptionist"] = 2 /\ Tenth(9)["platform"] = 1
            /\ Tenth(0)["archive"] = 0 /\ Tenth(0)["transcriptionist"] = 0 /\ Tenth(0)["platform"] = 0
        BY DEF Tenth
      <3>3. QED
        BY <1>1, <2>1, <2>2, <2>5, <3>1, <3>2, DefaultSplit DEF Party
    <2>6. QED
      BY <2>1, <2>2, <2>3, <2>4, <2>5
  <1>2. SweepInv /\ [Next]_vars =>
          [bps = DefaultConfig => \A p \in Party : Split(total', bps')[p] >= Split(total, bps)[p]]_vars
    BY <1>1
  <1>3. QED
    BY <1>2, SweepInvariance, PTL DEF Spec, DearerNeverPaysLess
=============================================================================
