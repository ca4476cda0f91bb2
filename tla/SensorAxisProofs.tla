-------------------------- MODULE SensorAxisProofs --------------------------
(***************************************************************************)
(* Proofs, for any sensors, weights, tolerances and readings, that a       *)
(* channel of a sensor-axis device is an AxisStream, that its listeners    *)
(* know the value it has checked, and that failures are reported in time.  *)
(* The arithmetic comes first: the mean of the sensors' values lies in     *)
(* their range.                                                            *)
(***************************************************************************)
EXTENDS SensorAxis, SequenceTheorems, WellFoundedInduction, TLAPS

-----------------------------------------------------------------------------
(* Induction over a set of naturals. *)

(* Every set of naturals that is not empty has a smallest member. *)
LEMMA SmallestMember ==
    ASSUME NEW T \in SUBSET Nat, T # {}
    PROVE  \E m \in T : \A k \in T : m <= k
<1>1. PICK m \in T : \A k \in T : <<k, m>> \notin OpToRel(<, Nat)
  BY WFMin, NatLessThanWellFounded, Zenon
<1>2. \A k \in T : ~(k < m)
  BY <1>1, Zenon DEF OpToRel
<1>3. QED
  BY <1>2

(* What holds at 0, and at the successor of each index where it holds,      *)
(* holds up to n.                                                           *)
LEMMA Climb ==
    ASSUME NEW n \in Nat, NEW S, 0 \in S, \A i \in 0..n - 1 : i \in S => i + 1 \in S
    PROVE  0..n \subseteq S
<1> SUFFICES ASSUME 0..n \ S # {} PROVE FALSE
  OBVIOUS
<1> DEFINE T == 0..n \ S
<1>1. PICK m \in T : \A k \in T : m <= k
  <2>1. T \in SUBSET Nat /\ T # {}
    OBVIOUS
  <2> HIDE DEF T
  <2>2. QED
    BY <2>1, SmallestMember
<1>2. m # 0 /\ m - 1 \in 0..n - 1
  BY <1>1
<1>3. QED
  BY <1>1, <1>2

-----------------------------------------------------------------------------
(* The loop of channel_update() over the sensors. *)

SensorCount == Len(Sensors)

IsSum(h, f, n) == h = [i \in 0..n |-> IF i = 0 THEN 0 ELSE f[Sensors[i]] + h[i - 1]]

(* Each sensor has its place, and each place its sensor. *)
LEMMA Places == SensorCount \in Nat \ {0} /\ \A i \in 1..SensorCount : Sensors[i] \in SensorSet
<1>1. Len(Sensors) \in Nat /\ Len(Sensors) # 0
  BY SensorsAssumption, EmptySeq
<1>2. QED
  BY <1>1 DEF SensorCount, SensorSet

(* The sums that the loop computes exist, and Total is the last. *)
LEMMA SumExists ==
    ASSUME NEW f \in [SensorSet -> Nat]
    PROVE  \E h \in [0..SensorCount -> Nat] :
             IsSum(h, f, SensorCount) /\ Total(f) = h[SensorCount]
<1> DEFINE S == {n \in Nat : n <= SensorCount => \E h \in [0..n -> Nat] : IsSum(h, f, n)}
<1>1. 0 \in S
  <2>1. [i \in 0..0 |-> 0] \in [0..0 -> Nat] /\ IsSum([i \in 0..0 |-> 0], f, 0)
    BY DEF IsSum
  <2>2. QED
    BY <2>1
<1>2. ASSUME NEW n \in 0..SensorCount - 1, n \in S PROVE n + 1 \in S
  <2>1. n \in Nat /\ n + 1 <= SensorCount
    BY Places
  <2>2. PICK h \in [0..n -> Nat] : IsSum(h, f, n)
    BY <1>2, <2>1, Places
  <2> DEFINE g == [i \in 0..n + 1 |-> IF i <= n THEN h[i] ELSE f[Sensors[n + 1]] + h[n]]
  <2>3. Sensors[n + 1] \in SensorSet
    BY <2>1, Places
  <2>4. g \in [0..n + 1 -> Nat]
    BY <2>1, <2>3
  <2>5. g = [i \in 0..n + 1 |-> IF i = 0 THEN 0 ELSE f[Sensors[i]] + g[i - 1]]
    <3>1. ASSUME NEW i \in 0..n + 1
          PROVE  g[i] = IF i = 0 THEN 0 ELSE f[Sensors[i]] + g[i - 1]
      <4>1. CASE i <= n
        <5>1. h[i] = IF i = 0 THEN 0 ELSE f[Sensors[i]] + h[i - 1]
          BY <2>2, <4>1 DEF IsSum
        <5>2. QED
          BY <2>1, <4>1, <5>1
      <4>2. CASE i = n + 1
        BY <2>1, <4>2
      <4>3. QED
        BY <2>1, <4>1, <4>2
    <3>2. QED
      BY <3>1
  <2> HIDE DEF g
  <2>6. QED
    <3>1. g \in [0..n + 1 -> Nat] /\ IsSum(g, f, n + 1) /\ n + 1 \in Nat
      BY <2>1, <2>4, <2>5 DEF IsSum
    <3>2. QED
      BY <3>1
<1>3. SensorCount \in S
  <2> HIDE DEF S
  <2>1. 0..SensorCount \subseteq S
    BY <1>1, <1>2, Climb, Places
  <2>2. QED
    BY <2>1, Places
<1>4. PICK h \in [0..SensorCount -> Nat] : IsSum(h, f, SensorCount)
  BY <1>3, Places
<1> DEFINE c == CHOOSE g : g = [i \in 0..SensorCount |->
                                  IF i = 0 THEN 0 ELSE f[Sensors[i]] + g[i - 1]]
<1>5. IsSum(c, f, SensorCount)
  BY <1>4, Zenon DEF IsSum
<1>6. Total(f) = c[SensorCount]
  BY Zenon DEF Total, SensorCount
<1> HIDE DEF c
<1>7. c \in [0..SensorCount -> Nat]
  <2> DEFINE R == {i \in 0..SensorCount : c[i] \in Nat}
  <2>1. c[0] = 0 /\ \A i \in 1..SensorCount : c[i] = f[Sensors[i]] + c[i - 1]
    BY <1>5, Places DEF IsSum
  <2>2. 0 \in R /\ \A i \in 0..SensorCount - 1 : i \in R => i + 1 \in R
    <3>1. 0 \in R
      BY <2>1, Places
    <3>2. ASSUME NEW i \in 0..SensorCount - 1, i \in R PROVE i + 1 \in R
      <4>1. i + 1 \in 1..SensorCount /\ (i + 1) - 1 = i
        BY Places
      <4>2. QED
        BY <2>1, <3>2, <4>1, Places
    <3>3. QED
      BY <3>1, <3>2
  <2>3. \A i \in 0..SensorCount : c[i] \in Nat
    <3> HIDE DEF R
    <3>1. 0..SensorCount \subseteq R
      BY <2>2, Climb, Places
    <3>2. QED
      BY <3>1 DEF R
  <2>4. c = [i \in 0..SensorCount |-> c[i]]
    BY <1>5, Zenon DEF IsSum
  <2>5. QED
    BY <2>3, <2>4
<1>8. QED
  BY <1>5, <1>6, <1>7

(* Totals are bounded as what they add up is, and positive where it is. *)
LEMMA TotalBounds ==
    ASSUME NEW f \in [SensorSet -> Nat], NEW g \in [SensorSet -> Nat], NEW k \in Nat,
           \A s \in SensorSet : f[s] <= k * g[s] /\ g[s] > 0
    PROVE  /\ Total(f) \in Nat /\ Total(g) \in Nat \ {0}
           /\ Total(f) <= k * Total(g)
<1>1. PICK F \in [0..SensorCount -> Nat] :
        IsSum(F, f, SensorCount) /\ Total(f) = F[SensorCount]
  BY SumExists
<1>2. PICK G \in [0..SensorCount -> Nat] :
        IsSum(G, g, SensorCount) /\ Total(g) = G[SensorCount]
  BY SumExists
<1>3. /\ F[0] = 0 /\ \A i \in 1..SensorCount : F[i] = f[Sensors[i]] + F[i - 1]
      /\ G[0] = 0 /\ \A i \in 1..SensorCount : G[i] = g[Sensors[i]] + G[i - 1]
  BY <1>1, <1>2, Places DEF IsSum
<1> DEFINE S == {i \in 0..SensorCount : F[i] <= k * G[i] /\ (i > 0 => G[i] > 0)}
<1>4. 0 \in S
  BY <1>3, Places
<1>5. ASSUME NEW i \in 0..SensorCount - 1, i \in S PROVE i + 1 \in S
  <2>1. i + 1 \in 1..SensorCount /\ (i + 1) - 1 = i /\ i \in 0..SensorCount
    BY Places
  <2>2. PICK s \in SensorSet : F[i + 1] = f[s] + F[i] /\ G[i + 1] = g[s] + G[i]
    BY <1>3, <2>1, Places
  <2>3. /\ f[s] \in Nat /\ g[s] \in Nat /\ F[i] \in Nat /\ G[i] \in Nat
        /\ f[s] <= k * g[s] /\ g[s] > 0 /\ F[i] <= k * G[i]
    BY <1>1, <1>2, <1>5, <2>1
  <2>4. k * (g[s] + G[i]) = k * g[s] + k * G[i]
    BY <2>3
  <2>5. F[i + 1] <= k * G[i + 1] /\ G[i + 1] > 0
    BY <2>2, <2>3, <2>4
  <2>6. QED
    BY <2>1, <2>5, Places
<1>6. SensorCount \in S
  <2> HIDE DEF S
  <2>1. 0..SensorCount \subseteq S
    BY <1>4, <1>5, Climb, Places
  <2>2. QED
    BY <2>1, Places
<1>7. QED
  BY <1>1, <1>2, <1>6, Places

-----------------------------------------------------------------------------
(* The arithmetic of C on numbers of one-millionth parts. *)

(* MIN and MAX. *)
LEMMA PairLeast ==
    ASSUME NEW x \in Int, NEW y \in Int
    PROVE  /\ Least({x, y}) = IF x <= y THEN x ELSE y
           /\ Greatest({x, y}) = IF x <= y THEN y ELSE x
<1>1. \E z \in {x, y} : \A w \in {x, y} : z <= w
  OBVIOUS
<1>2. Least({x, y}) \in {x, y} /\ \A w \in {x, y} : Least({x, y}) <= w
  BY <1>1, Zenon DEF Least
<1>3. \E z \in {x, y} : \A w \in {x, y} : w <= z
  OBVIOUS
<1>4. Greatest({x, y}) \in {x, y} /\ \A w \in {x, y} : w <= Greatest({x, y})
  BY <1>3, Zenon DEF Greatest
<1>5. QED
  BY <1>2, <1>4

(* A value is clamped to the range of the sensor. *)
LEMMA ClampType ==
    ASSUME NEW x \in Int, NEW m \in Nat
    PROVE  Clamp(x, 0, m) \in 0..m
<1> DEFINE l == Least({x, m})
<1>1. l \in Int /\ l <= m
  <2>1. l = IF x <= m THEN x ELSE m
    BY PairLeast
  <2>2. QED
    BY <2>1
<1>2. Clamp(x, 0, m) = Greatest({0, l})
  BY DEF Clamp
<1> HIDE DEF l
<1>3. Greatest({0, l}) = IF 0 <= l THEN l ELSE 0
  BY <1>1, PairLeast
<1>4. QED
  BY <1>1, <1>2, <1>3

(* Divisions of integers. *)
LEMMA QuotType ==
    ASSUME NEW n \in Int, NEW d \in Int \ {0}
    PROVE  /\ Quot(n, d) \in Int
           /\ n >= 0 /\ d > 0 => Quot(n, d) = n \div d /\ n \div d \in Nat
<1> DEFINE nn == IF n < 0 THEN -n ELSE n
           dd == IF d < 0 THEN -d ELSE d
<1>1. nn \in Nat /\ dd \in Nat \ {0}
  OBVIOUS
<1>2. nn \div dd \in Nat
  <2> HIDE DEF nn, dd
  <2>1. QED
    BY <1>1
<1>3. Quot(n, d) = IF (n < 0) = (d < 0) THEN nn \div dd ELSE -(nn \div dd)
  BY DEF Quot
<1>4. n >= 0 /\ d > 0 => nn = n /\ dd = d /\ (n < 0) = (d < 0)
  OBVIOUS
<1> HIDE DEF nn, dd
<1>5. QED
  BY <1>2, <1>3, <1>4

(* A division by anything but zero yields a number. *)
LEMMA RoundType ==
    ASSUME NEW n \in Int, NEW d \in Int \ {0}
    PROVE  DivRoundClosest(n, d) \in Int
<1>1. Quot(d, 2) \in Int
  BY QuotType
<1>2. Quot(n - Quot(d, 2), d) \in Int /\ Quot(n + Quot(d, 2), d) \in Int
  <2>1. n - Quot(d, 2) \in Int /\ n + Quot(d, 2) \in Int
    BY <1>1
  <2>2. QED
    BY <2>1, QuotType, Zenon
<1>3. QED
  BY <1>2 DEF DivRoundClosest

(* The quotient of a mean lies in the range of what was averaged. *)
LEMMA RoundMean ==
    ASSUME NEW n \in Nat, NEW d \in Nat \ {0}, NEW k \in Nat, n <= k * d
    PROVE  DivRoundClosest(n, d) \in 0..k
<1>1. Quot(d, 2) = d \div 2 /\ d \div 2 \in Nat /\ d \div 2 < d
  BY QuotType
<1>2. DivRoundClosest(n, d) = Quot(n + (d \div 2), d)
  BY <1>1 DEF DivRoundClosest
<1>3. n + (d \div 2) \in Nat /\ n + (d \div 2) < k * d + d /\ k * d = d * k
  BY <1>1
<1>4. Quot(n + (d \div 2), d) = (n + (d \div 2)) \div d
  <2>1. n + (d \div 2) \in Int /\ n + (d \div 2) >= 0 /\ d \in Int \ {0} /\ d > 0
    BY <1>1
  <2>2. QED
    BY <2>1, QuotType, Zenon
<1>5. (n + (d \div 2)) \div d \in 0..k
  <2> DEFINE m == n + (d \div 2)
  <2>1. m \in Nat /\ m < d * k + d
    BY <1>3
  <2> HIDE DEF m
  <2>2. m \div d \in Nat /\ m \div d <= k
    BY <2>1
  <2>3. QED
    BY <2>2 DEF m
<1>6. QED
  BY <1>2, <1>4, <1>5

(* The mean of values lies in their range. *)
LEMMA MeanType ==
    ASSUME NEW k \in Nat, NEW v \in [SensorSet -> 0..k]
    PROVE  Mean(v) \in 0..k
<1> DEFINE f == [s \in SensorSet |-> v[s] * Weights[s]]
<1>1. /\ Weights \in [SensorSet -> Nat]
      /\ \A s \in SensorSet : Weights[s] \in Nat /\ Weights[s] > 0
  BY ChannelAssumption, SMT
<1>2. ASSUME NEW s \in SensorSet PROVE f[s] \in Nat /\ f[s] <= k * Weights[s]
  <2>1. v[s] \in Nat /\ v[s] <= k /\ Weights[s] \in Nat
    BY <1>1
  <2>2. v[s] * Weights[s] \in Nat /\ v[s] * Weights[s] <= k * Weights[s]
    BY <2>1
  <2>3. QED
    BY <2>2
<1>3. f \in [SensorSet -> Nat]
  BY <1>2
<1>4. Mean(v) = DivRoundClosest(Total(f), Total(Weights))
  BY DEF Mean
<1> HIDE DEF f
<1>5. /\ Total(f) \in Nat /\ Total(Weights) \in Nat \ {0}
      /\ Total(f) <= k * Total(Weights)
  BY <1>1, <1>2, <1>3, TotalBounds
<1>6. QED
  BY <1>4, <1>5, RoundMean

(* The value of each sensor is calculated without a division by zero. *)
LEMMA NormalizedType ==
    ASSUME NEW s \in SensorSet, NEW reading \in Readings
    PROVE  Normalized(s, reading) \in Int
<1> DEFINE w == InMax[s] - InMin[s]
<1>1. /\ w \in Int /\ w \notin -499..499
      /\ (reading - InMin[s]) * 1000 \in Int
  BY ChannelAssumption, SMT
<1> HIDE DEF w
<1>2. DivRoundClosest(w, 1000) \in Int \ {0}
  BY <1>1, SMT DEF DivRoundClosest, Quot
<1>3. DivRoundClosest((reading - InMin[s]) * 1000, DivRoundClosest(w, 1000)) \in Int
  BY <1>1, <1>2, RoundType, SMT
<1>4. QED
  BY <1>3, SMT DEF Normalized, w

-----------------------------------------------------------------------------
(* The dead zone and the noise. *)

DeadzoneValue == IF DeadzoneMode = "edge" THEN 0 ELSE Whole \div 2

(* A value with a dead zone either is that of the zone or differs from it   *)
(* by no less than noise.                                                   *)
Zoned(x) == DeadzoneSize # 0 /\ x # DeadzoneValue => Distance(x, DeadzoneValue) >= Noise

(* The range is that of a number. *)
LEMMA WholeType == Whole \in Nat /\ Whole \div 2 \in 0..Whole
<1>1. Whole \in Nat
  BY SMT DEF Whole
<1>2. QED
  BY <1>1

(* Applying the dead zone yields such a value of the range. *)
LEMMA OutDeadzoneType ==
    ASSUME NEW x \in 0..Whole
    PROVE  OutDeadzone(x) \in 0..Whole /\ Zoned(OutDeadzone(x))
<1>1. /\ DeadzoneMode \in {"center", "edge"} /\ DeadzoneSize \in Nat /\ Noise \in Nat
      /\ DeadzoneSize = 0 \/ DeadzoneSize * 10000 >= Noise
  BY ChannelAssumption, SMT
<1>2. x \in Int /\ x >= 0 /\ Whole \div 2 \in 0..Whole /\ Whole \in Nat
  BY WholeType
<1>3. CASE DeadzoneSize = 0
  BY <1>3, SMT DEF OutDeadzone, Zoned
<1>4. CASE DeadzoneSize # 0 /\ DeadzoneMode = "edge"
  BY <1>1, <1>2, <1>4, SMT DEF OutDeadzone, Zoned, DeadzoneValue, Distance
<1>5. CASE DeadzoneSize # 0 /\ DeadzoneMode = "center"
  <2> DEFINE h == Whole \div 2
             size == DeadzoneSize * 10000
  <2>1. OutDeadzone(x) = IF x \in (h - size)..(h + size) THEN h ELSE x
    BY <1>5, SMT DEF OutDeadzone
  <2>2. h \in 0..Whole /\ h \in Int /\ size \in Nat /\ size >= Noise /\ DeadzoneValue = h
    BY <1>1, <1>2, <1>5, SMT DEF DeadzoneValue
  <2> HIDE DEF h, size
  <2>3. QED
    BY <1>1, <1>2, <2>1, <2>2, SMT DEF Zoned, Distance
<1>6. QED
  BY <1>1, <1>3, <1>4, <1>5, SMT

-----------------------------------------------------------------------------
(* The accumulated time of failures. *)

(* It grows with each failure up to the tolerance, and falls with each      *)
(* check that passes down to zero.                                          *)
LEMMA Time ==
    ASSUME NEW t \in 0..TimeTolerance
    PROVE  /\ Accumulated(t) \in t..TimeTolerance /\ Decayed(t) \in 0..t
           /\ \A u \in 0..t : Accumulated(u) <= Accumulated(t) /\ Decayed(u) <= Decayed(t)
<1>1. TimeTolerance \in Nat /\ PollPeriod \in Nat /\ TimeToleranceDecay \in Nat
  BY ChannelAssumption, SMT
<1>2. \A u \in 0..TimeTolerance :
        Accumulated(u) = IF u < TimeTolerance
                           THEN IF u + PollPeriod <= TimeTolerance
                                  THEN u + PollPeriod ELSE TimeTolerance
                           ELSE u
  BY <1>1, PairLeast DEF Accumulated
<1> DEFINE q == Quot(TimeTolerance * TimeToleranceDecay, 100)
<1>3. q \in Nat
  <2>1. TimeTolerance * TimeToleranceDecay \in Nat
    BY <1>1
  <2> HIDE DEF q
  <2>2. Quot(TimeTolerance * TimeToleranceDecay, 100) \in Nat
    BY <2>1, QuotType, SMT
  <2>3. QED
    BY <2>2 DEF q
<1>4. ASSUME NEW u \in 0..TimeTolerance
      PROVE  Decayed(u) = IF u - q <= 0 THEN 0 ELSE u - q
  <2>1. Decayed(u) = Greatest({u - q, 0})
    BY DEF Decayed
  <2> HIDE DEF q
  <2>2. u - q \in Int
    BY <1>1, <1>3
  <2>3. Greatest({u - q, 0}) = IF u - q <= 0 THEN 0 ELSE u - q
    BY <2>2, PairLeast
  <2>4. QED
    BY <2>1, <2>3
<1> HIDE DEF q
<1>5. QED
  BY <1>1, <1>2, <1>3, <1>4

-----------------------------------------------------------------------------
(* The invariant. *)

(* The channel remembers the value its listeners were told, which is one    *)
(* with the dead zone applied, as is the one to report.                     *)
Told ==
    /\ prevOut = told
    /\ told # InvalidOut => Zoned(told)
    /\ stage = "out" => error = "none" /\ ~failed /\ Zoned(out)

(* A failure that has lasted is reported, unless the report was refused. *)
Reported == accum >= TimeTolerance /\ ~refused => error # "none"

(* The accumulated time is at least the one that counts each period once,   *)
(* with the period that the update at hand adds or takes.                   *)
Lasting ==
    /\ failed => Accumulated(failedTime) <= accum /\ Reported
    /\ ~failed /\ stage # "out" => failedTime <= accum
    /\ stage = "out" => Decayed(failedTime) <= accum
    /\ stage = "sensors" /\ at = 1 => ~failed
    /\ stage = "sensors" /\ at = 1 /\ result = "failed" => Reported

AInv == TypeOK /\ Told /\ Lasting /\ ValueKnown

-----------------------------------------------------------------------------
(* What the calls of a step do. *)

ChannelErrors == {"none", "io", "nodev", "dev"}

(* The numbers that steps calculate with. *)
LEMMA Numbers ==
    /\ TimeTolerance \in Nat /\ Noise \in Nat /\ Whole \in Nat
    /\ InvalidOut \in Int /\ InvalidOut \notin 0..Whole
<1>1. TimeTolerance \in Nat /\ Noise \in Nat /\ InvalidOut \in Int \ (0..Whole)
  BY ChannelAssumption, SMT
<1>2. QED
  BY <1>1, WholeType

(* channel_error_update() with an error leaves a failure that has lasted    *)
(* reported, and what it reports is a new error.                            *)
LEMMA ErrorStep ==
    ASSUME TypeOK, prevOut = told, NEW e \in ChannelErrors \ {"none"}, NEW accepted \in BOOLEAN,
           ChannelError(e, accepted)
    PROVE  /\ error' \in ChannelErrors /\ refused' \in BOOLEAN
           /\ accum' \in 0..TimeTolerance /\ accum' = Accumulated(accum) /\ accum <= accum'
           /\ prevOut' = told'
           /\ Reported'
           /\ \/ error' = error /\ told' = told
              \/ error = "none" /\ error' # "none" /\ told' = InvalidOut
<1>1. accum \in 0..TimeTolerance /\ error \in ChannelErrors /\ refused \in BOOLEAN
  BY SMT DEF TypeOK, ChannelErrors
<1>2. /\ accum' = Accumulated(accum)
      /\ accum' \in 0..TimeTolerance /\ accum <= accum'
  BY <1>1, Time, Numbers DEF ChannelError
<1>3. CASE error = "none" /\ accum' >= TimeTolerance /\ accepted
  BY <1>2, <1>3, SMT DEF ChannelError, ChannelErrors, Reported
<1>4. CASE error = "none" /\ accum' >= TimeTolerance /\ ~accepted
  <2>1. accepted = FALSE
    BY <1>4
  <2>2. error' = error /\ prevOut' = prevOut /\ told' = told /\ refused' = TRUE
    BY <1>4, <2>1, Zenon DEF ChannelError
  <2>3. QED
    BY <1>1, <1>2, <2>2 DEF Reported
<1>5. CASE ~(error = "none" /\ accum' >= TimeTolerance)
  BY <1>1, <1>2, <1>5, SMT DEF ChannelError, ChannelErrors, Reported
<1>6. QED
  BY <1>3, <1>4, <1>5

(* channel_error_update() without one can only clear the error. *)
LEMMA PassStep ==
    ASSUME TypeOK, NEW accepted \in BOOLEAN, ChannelPass(accepted)
    PROVE  /\ error' = error \/ error' = "none"
           /\ error' \in ChannelErrors /\ refused' \in BOOLEAN
           /\ accum' \in 0..TimeTolerance /\ accum' = Decayed(accum)
           /\ prevOut' = prevOut /\ told' = told
<1>1. accum \in 0..TimeTolerance /\ error \in ChannelErrors /\ refused \in BOOLEAN
  BY SMT DEF TypeOK, ChannelErrors
<1>2. accum' = Decayed(accum) /\ accum' \in 0..TimeTolerance
  <2>1. Decayed(accum) \in 0..accum
    BY <1>1, Time
  <2>2. QED
    BY <1>1, <2>1, Numbers DEF ChannelPass
<1>3. refused' \in BOOLEAN
  BY <1>1, Zenon DEF ChannelPass
<1>4. error' = error \/ error' = "none"
  BY Zenon DEF ChannelPass
<1>5. prevOut' = prevOut /\ told' = told
  BY DEF ChannelPass
<1>6. QED
  BY <1>1, <1>2, <1>3, <1>4, <1>5 DEF ChannelErrors

(* The next sensor is not the first. *)
LEMMA NextSensorStep ==
    ASSUME TypeOK, stage = "sensors", NextSensor
    PROVE  /\ at' \in 1..Len(Sensors) /\ stage' \in {"sensors", "combine"}
           /\ ~(stage' = "sensors" /\ at' = 1)
<1>1. Len(Sensors) \in Nat \ {0} /\ at \in 1..Len(Sensors)
  BY Places, SMT DEF SensorCount, TypeOK
<1>2. CASE at < Len(Sensors)
  BY <1>1, <1>2, SMT DEF NextSensor
<1>3. CASE ~(at < Len(Sensors))
  BY <1>1, <1>3, SMT DEF NextSensor
<1>4. QED
  BY <1>2, <1>3

(* The end of an update leaves nothing to combine. *)
LEMMA FinishStep ==
    ASSUME TypeOK, NEW how \in {"failed", "waiting", "value"}, Finish(how)
    PROVE  /\ stage' = "sensors" /\ at' = 1 /\ at' \in 1..Len(Sensors) /\ result' = how
           /\ ~failed' /\ failed' \in BOOLEAN /\ vals' \in [SensorSet -> 0..Whole]
           /\ failedTime' \in 0..TimeTolerance
           /\ failedTime' = IF how = "failed" THEN Accumulated(failedTime)
                                             ELSE Decayed(failedTime)
<1>1. NoVals \in [SensorSet -> 0..Whole]
  BY Numbers DEF NoVals
<1>2. 1 \in 1..Len(Sensors)
  BY Places DEF SensorCount
<1>3. failedTime \in 0..TimeTolerance
  BY DEF TypeOK
<1>4. Accumulated(failedTime) \in 0..TimeTolerance /\ Decayed(failedTime) \in 0..TimeTolerance
  <2>1. /\ Accumulated(failedTime) \in failedTime..TimeTolerance
        /\ Decayed(failedTime) \in 0..failedTime
    BY <1>3, Time
  <2>2. QED
    BY <1>3, <2>1, Numbers
<1>5. QED
  BY <1>1, <1>2, <1>4 DEF Finish

-----------------------------------------------------------------------------
(* The invariant holds at first and is kept by each step. *)

(* A channel starts without a value and without an error. *)
LEMMA InitInv == Init => AInv
<1> SUFFICES ASSUME Init PROVE AInv
  OBVIOUS
<1>1. 1 \in 1..Len(Sensors) /\ NoVals \in [SensorSet -> 0..Whole]
  BY Places, Numbers DEF SensorCount, NoVals
<1>2. TypeOK
  <2>1. sensorError \in [SensorSet -> SensorErrors]
    BY SMT DEF Init, SensorErrors
  <2>2. ready \subseteq SensorSet
    BY SMT DEF Init
  <2>3. /\ error = "none" /\ prevOut = InvalidOut /\ told = InvalidOut /\ accum = 0
        /\ stage = "sensors" /\ at \in 1..Len(Sensors) /\ vals \in [SensorSet -> 0..Whole]
        /\ failed = FALSE /\ out = 0 /\ result = "none" /\ refused = FALSE /\ failedTime = 0
    BY <1>1, SMT DEF Init
  <2>4. failed \in BOOLEAN /\ refused \in BOOLEAN
    BY <2>3, Zenon
  <2>5. accum \in 0..TimeTolerance /\ failedTime \in 0..TimeTolerance /\ out \in 0..Whole
    BY <2>3, Numbers
  <2>6. QED
    BY <2>1, <2>2, <2>3, <2>4, <2>5 DEF TypeOK
<1>3. Told
  BY DEF Init, Told
<1>4. Lasting
  BY DEF Init, Lasting, Reported
<1>5. ValueKnown
  BY DEF Init, ValueKnown
<1>6. QED
  BY <1>2, <1>3, <1>4, <1>5 DEF AInv

(* A sensor that cannot be used tells the channel. *)
LEMMA FailsStep ==
    ASSUME AInv, stage = "sensors", NEW e \in {"nodev", "io"}, SensorFails(e),
           sensorError' \in [SensorSet -> SensorErrors]
    PROVE  AInv'
<1> USE DEF AInv
<1>1. PICK accepted \in BOOLEAN : ChannelError(e, accepted)
  BY DEF SensorFails
<1>2. /\ error' \in ChannelErrors /\ refused' \in BOOLEAN
      /\ accum' \in 0..TimeTolerance /\ accum' = Accumulated(accum) /\ accum <= accum'
      /\ prevOut' = told'
      /\ Reported'
      /\ \/ error' = error /\ told' = told
         \/ error = "none" /\ error' # "none" /\ told' = InvalidOut
  <2>1. e \in ChannelErrors \ {"none"} /\ TypeOK /\ prevOut = told
    BY DEF ChannelErrors, Told
  <2>2. QED
    BY <1>1, <2>1, ErrorStep, Zenon
<1>3. /\ at' \in 1..Len(Sensors) /\ stage' \in {"sensors", "combine"}
      /\ ~(stage' = "sensors" /\ at' = 1)
  BY NextSensorStep DEF SensorFails
<1>4. /\ failed' = TRUE /\ ready' = ready /\ vals' = vals /\ out' = out /\ result' = result
      /\ failedTime' = failedTime
  BY DEF SensorFails
<1>5. TypeOK'
  BY <1>2, <1>3, <1>4 DEF TypeOK, ChannelErrors
<1>6. Told'
  BY <1>2, <1>3, <1>4 DEF Told, Zoned
<1>7. Lasting'
  <2>1. Accumulated(failedTime) <= accum'
    <3>1. accum \in 0..TimeTolerance /\ failedTime \in 0..TimeTolerance /\ failed \in BOOLEAN
      BY DEF TypeOK
    <3>2. CASE failed
      <4>1. Accumulated(failedTime) <= accum
        BY <3>2 DEF Lasting
      <4>2. Accumulated(failedTime) \in failedTime..TimeTolerance
        BY <3>1, Time
      <4>3. QED
        BY <1>2, <3>1, <4>1, <4>2, Numbers
    <3>3. CASE ~failed
      <4>1. failedTime \in 0..accum
        BY <3>1, <3>3 DEF Lasting
      <4>2. Accumulated(failedTime) <= Accumulated(accum)
        BY <3>1, <4>1, Time
      <4>3. QED
        BY <1>2, <4>2
    <3>4. QED
      BY <3>1, <3>2, <3>3
  <2>2. Accumulated(failedTime)' = Accumulated(failedTime)
    BY <1>4 DEF Accumulated
  <2>3. QED
    BY <1>2, <1>3, <1>4, <2>1, <2>2 DEF Lasting
<1>8. ValueKnown'
  BY <1>3 DEF ValueKnown
<1>9. QED
  BY <1>5, <1>6, <1>7, <1>8

(* A sensor is read, with or without an error. *)
LEMMA GetStep ==
    ASSUME AInv, NEW s \in SensorSet, NEW e \in SensorErrors, NEW val \in Int,
           SensorGet(s, e, val)
    PROVE  AInv'
<1> USE DEF AInv
<1>1. stage = "sensors"
  BY DEF SensorGet
<1>2. sensorError' \in [SensorSet -> SensorErrors]
  <2>1. PICK accepted \in BOOLEAN : SensorError(s, e, accepted)
    BY DEF SensorGet
  <2>2. sensorError \in [SensorSet -> SensorErrors]
    BY DEF TypeOK
  <2>3. QED
    BY <2>1, <2>2 DEF SensorError
<1>3. CASE e = "none" /\ sensorError'[s] = "none"
  <2>1. /\ vals' = [vals EXCEPT ![s] = Clamp(val, 0, Whole)]
        /\ NextSensor
        /\ ready' = ready /\ error' = error /\ prevOut' = prevOut /\ accum' = accum
        /\ failed' = failed /\ out' = out /\ told' = told /\ result' = result
        /\ refused' = refused /\ failedTime' = failedTime
    BY <1>3, Zenon DEF SensorGet, channelVars
  <2>2. vals' \in [SensorSet -> 0..Whole]
    <3>1. Clamp(val, 0, Whole) \in 0..Whole
      BY ClampType, Numbers
    <3>2. vals \in [SensorSet -> 0..Whole]
      BY DEF TypeOK
    <3>3. QED
      BY <2>1, <3>1, <3>2
  <2>3. /\ at' \in 1..Len(Sensors) /\ stage' \in {"sensors", "combine"}
        /\ ~(stage' = "sensors" /\ at' = 1)
    BY <1>1, <2>1, NextSensorStep
  <2>4. TypeOK'
    BY <1>2, <2>1, <2>2, <2>3 DEF TypeOK
  <2>5. Told'
    BY <1>1, <2>1, <2>3 DEF Told, Zoned
  <2>6. Lasting'
    <3>1. Accumulated(failedTime)' = Accumulated(failedTime) /\ Reported' = Reported
      BY <2>1 DEF Accumulated, Reported
    <3>2. QED
      BY <1>1, <2>1, <2>3, <3>1 DEF Lasting
  <2>7. ValueKnown'
    BY <2>3 DEF ValueKnown
  <2>8. QED
    BY <2>4, <2>5, <2>6, <2>7
<1>4. CASE ~(e = "none" /\ sensorError'[s] = "none")
  <2>1. SensorFails("io")
    BY <1>4, Zenon DEF SensorGet
  <2>2. QED
    BY <1>1, <1>2, <2>1, FailsStep
<1>5. QED
  BY <1>3, <1>4

(* An update that a sensor has failed ends. *)
LEMMA SomeSensorFailedStep == ASSUME AInv, SomeSensorFailed PROVE AInv'
<1> USE DEF AInv
<1>1. Finish("failed")
  BY DEF SomeSensorFailed
<1>2. /\ stage' = "sensors" /\ at' = 1 /\ at' \in 1..Len(Sensors) /\ result' = "failed"
      /\ ~failed' /\ failed' \in BOOLEAN /\ vals' \in [SensorSet -> 0..Whole]
      /\ failedTime' \in 0..TimeTolerance
      /\ failedTime' = Accumulated(failedTime)
  BY <1>1, FinishStep
<1>3. /\ ready' = ready /\ sensorError' = sensorError /\ error' = error /\ prevOut' = prevOut
      /\ accum' = accum /\ out' = out /\ told' = told /\ refused' = refused
  BY DEF SomeSensorFailed, channelVars
<1>4. failed /\ stage = "combine"
  BY DEF SomeSensorFailed
<1>5. TypeOK'
  BY <1>2, <1>3 DEF TypeOK
<1>6. Told'
  BY <1>2, <1>3 DEF Told, Zoned
<1>7. Lasting'
  <2>1. Accumulated(failedTime) <= accum /\ Reported
    BY <1>4 DEF Lasting
  <2>2. Reported'
    BY <1>3, <2>1 DEF Reported
  <2>3. QED
    BY <1>2, <1>3, <2>1, <2>2 DEF Lasting
<1>8. ValueKnown'
  BY <1>2 DEF ValueKnown
<1>9. QED
  BY <1>5, <1>6, <1>7, <1>8

(* An update whose sensors deviate tells the channel, and ends. *)
LEMMA SensorsDeviateStep == ASSUME AInv, SensorsDeviate PROVE AInv'
<1> USE DEF AInv
<1>1. PICK accepted \in BOOLEAN : ChannelError("dev", accepted)
  BY DEF SensorsDeviate
<1>2. /\ error' \in ChannelErrors /\ refused' \in BOOLEAN
      /\ accum' \in 0..TimeTolerance /\ accum' = Accumulated(accum)
      /\ prevOut' = told'
      /\ Reported'
      /\ \/ error' = error /\ told' = told
         \/ error = "none" /\ error' # "none" /\ told' = InvalidOut
  <2>1. "dev" \in ChannelErrors \ {"none"} /\ TypeOK /\ prevOut = told
    BY DEF ChannelErrors, Told
  <2>2. QED
    BY <1>1, <2>1, ErrorStep, Zenon
<1>3. /\ stage' = "sensors" /\ at' = 1 /\ at' \in 1..Len(Sensors) /\ result' = "failed"
      /\ ~failed' /\ failed' \in BOOLEAN /\ vals' \in [SensorSet -> 0..Whole]
      /\ failedTime' \in 0..TimeTolerance
      /\ failedTime' = Accumulated(failedTime)
  <2>1. Finish("failed")
    BY DEF SensorsDeviate
  <2>2. QED
    BY <2>1, FinishStep
<1>4. /\ ready' = ready /\ sensorError' = sensorError /\ out' = out
      /\ ~failed /\ stage = "combine"
  BY DEF SensorsDeviate
<1>5. TypeOK'
  BY <1>2, <1>3, <1>4 DEF TypeOK, ChannelErrors
<1>6. Told'
  BY <1>2, <1>3 DEF Told, Zoned
<1>7. Lasting'
  <2>1. failedTime \in 0..accum /\ accum \in 0..TimeTolerance
    BY <1>4, Numbers DEF Lasting, TypeOK
  <2>2. Accumulated(failedTime) <= Accumulated(accum)
    BY <2>1, Time
  <2>3. QED
    BY <1>2, <1>3, <2>2 DEF Lasting
<1>8. ValueKnown'
  BY <1>3 DEF ValueKnown
<1>9. QED
  BY <1>5, <1>6, <1>7, <1>8

(* An update whose checks pass goes on to its value, or waits for the error *)
(* to be cleared.                                                           *)
LEMMA ChecksPassStep == ASSUME AInv, ChecksPass PROVE AInv'
<1> USE DEF AInv
<1>1. PICK accepted \in BOOLEAN : ChannelPass(accepted)
  BY DEF ChecksPass
<1>2. /\ error' = error \/ error' = "none"
      /\ error' \in ChannelErrors /\ refused' \in BOOLEAN
      /\ accum' \in 0..TimeTolerance /\ accum' = Decayed(accum)
      /\ prevOut' = prevOut /\ told' = told
  BY <1>1, PassStep
<1>3. /\ ready' = ready /\ sensorError' = sensorError
      /\ ~failed /\ stage = "combine"
  BY DEF ChecksPass
<1>4. Decayed(failedTime) <= accum'
  <2>1. failedTime \in 0..accum /\ accum \in 0..TimeTolerance
    BY <1>3, Numbers DEF Lasting, TypeOK
  <2>2. QED
    BY <1>2, <2>1, Time
<1>5. CASE error' = "none"
  <2>1. /\ out' = OutDeadzone(Mean(vals)) /\ stage' = "out"
        /\ at' = at /\ vals' = vals /\ failed' = failed /\ result' = result
        /\ failedTime' = failedTime
    BY <1>5, Zenon DEF ChecksPass
  <2>2. out' \in 0..Whole /\ Zoned(out')
    <3>1. Mean(vals) \in 0..Whole
      BY MeanType, Numbers DEF TypeOK
    <3>2. OutDeadzone(Mean(vals)) \in 0..Whole /\ Zoned(OutDeadzone(Mean(vals)))
      BY <3>1, OutDeadzoneType
    <3>3. QED
      BY <2>1, <3>2
  <2>3. TypeOK'
    BY <1>2, <1>3, <2>1, <2>2 DEF TypeOK, ChannelErrors
  <2>4. Told'
    BY <1>2, <1>3, <1>5, <2>1, <2>2 DEF Told, Zoned
  <2>5. Lasting'
    <3>1. Decayed(failedTime)' = Decayed(failedTime)
      BY <2>1 DEF Decayed
    <3>2. QED
      BY <1>3, <1>4, <2>1, <3>1 DEF Lasting
  <2>6. ValueKnown'
    BY <2>1 DEF ValueKnown
  <2>7. QED
    BY <2>3, <2>4, <2>5, <2>6
<1>6. CASE error' # "none"
  <2>1. Finish("waiting") /\ out' = out
    BY <1>6, Zenon DEF ChecksPass
  <2>2. /\ stage' = "sensors" /\ at' = 1 /\ at' \in 1..Len(Sensors) /\ result' = "waiting"
        /\ ~failed' /\ failed' \in BOOLEAN /\ vals' \in [SensorSet -> 0..Whole]
        /\ failedTime' \in 0..TimeTolerance
        /\ failedTime' = Decayed(failedTime)
    BY <2>1, FinishStep
  <2>3. TypeOK'
    BY <1>2, <1>3, <2>1, <2>2 DEF TypeOK, ChannelErrors
  <2>4. Told'
    BY <1>2, <2>2 DEF Told, Zoned
  <2>5. Lasting'
    BY <1>4, <2>2 DEF Lasting
  <2>6. ValueKnown'
    BY <2>2 DEF ValueKnown
  <2>7. QED
    BY <2>3, <2>4, <2>5, <2>6
<1>7. QED
  BY <1>5, <1>6

(* The value is reported, or the listeners know it within the noise. *)
LEMMA ReportValueStep == ASSUME AInv, ReportValue PROVE AInv'
<1> USE DEF AInv
<1>1. /\ stage' = "sensors" /\ at' = 1 /\ at' \in 1..Len(Sensors) /\ result' = "value"
      /\ ~failed' /\ failed' \in BOOLEAN /\ vals' \in [SensorSet -> 0..Whole]
      /\ failedTime' \in 0..TimeTolerance
      /\ failedTime' = Decayed(failedTime)
  <2>1. Finish("value")
    BY DEF ReportValue
  <2>2. QED
    BY <2>1, FinishStep
<1>2. /\ ready' = ready /\ sensorError' = sensorError /\ error' = error /\ accum' = accum
      /\ out' = out /\ stage = "out"
  BY DEF ReportValue
<1>3. /\ prevOut' = told' /\ refused' \in BOOLEAN
      /\ \/ IsNoise /\ told' = told
         \/ ~IsNoise /\ told' = out
         \/ refused' = TRUE /\ told' = told
  BY DEF ReportValue, Told
<1>4. Zoned(out) /\ out \in 0..Whole
  BY <1>2 DEF Told, TypeOK
<1>5. TypeOK'
  <2>1. told' = InvalidOut \/ told' \in 0..Whole
    BY <1>3, <1>4 DEF TypeOK
  <2>2. QED
    BY <1>1, <1>2, <1>3, <2>1 DEF TypeOK
<1>6. Told'
  <2>1. told' # InvalidOut => Zoned(told')
    BY <1>3, <1>4 DEF Told
  <2>2. QED
    BY <1>1, <1>3, <2>1 DEF Told, Zoned
<1>7. Lasting'
  BY <1>1, <1>2 DEF Lasting
<1>8. ValueKnown'
  <2>1. SUFFICES ASSUME ~refused'
        PROVE  /\ told' # InvalidOut
               /\ Distance(out, told') < Noise \/ out = told'
               /\ DeadzoneSize # 0 /\ out = DeadzoneValue => told' = out
    BY <1>2 DEF ValueKnown, DeadzoneValue
  <2>2. CASE IsNoise /\ told' = told
    <3>1. told # InvalidOut /\ Distance(out, told) < Noise /\ Zoned(told)
      BY <2>2 DEF IsNoise, Told
    <3>2. told \in Int /\ out \in Int /\ DeadzoneValue \in Int /\ Noise \in Int
      BY <1>4, <3>1, WholeType, Numbers DEF DeadzoneValue, TypeOK
    <3>3. DeadzoneSize # 0 /\ out = DeadzoneValue => told = out
      BY <3>1, <3>2 DEF Zoned, Distance
    <3>4. QED
      BY <2>2, <3>1, <3>3
  <2>3. CASE told' = out
    BY <1>4, <2>3, Numbers
  <2>4. QED
    BY <1>3, <2>1, <2>2, <2>3
<1>9. QED
  BY <1>5, <1>6, <1>7, <1>8

(* A range check finds one of the errors of a sensor. *)
LEMMA RangeErrorType ==
    ASSUME NEW s \in SensorSet, NEW val \in Int
    PROVE  RangeError(s, val) \in SensorErrors
  BY Zenon DEF RangeError, SensorErrors

(* Each step keeps the invariant. *)
LEMMA NextInv == AInv /\ [Next]_vars => AInv'
<1> SUFFICES ASSUME AInv, [Next]_vars PROVE AInv'
  OBVIOUS
<1>1. CASE SensorNotReady
  <2>1. stage = "sensors" /\ SensorFails("nodev") /\ sensorError' = sensorError
    BY <1>1 DEF SensorNotReady
  <2>2. sensorError' \in [SensorSet -> SensorErrors]
    BY <2>1 DEF AInv, TypeOK
  <2>3. QED
    BY <2>1, <2>2, FailsStep
<1>2. ASSUME NEW s \in SensorSet, SensorFault(s) PROVE AInv'
  <2>1. PICK e \in {"busy", "io"} : SensorGet(s, e, 0)
    BY <1>2 DEF SensorFault
  <2>2. e \in SensorErrors /\ 0 \in Int
    BY DEF SensorErrors
  <2>3. QED
    BY <2>1, <2>2, GetStep
<1>3. ASSUME NEW s \in SensorSet, NEW reading \in Readings, SensorReading(s, reading)
      PROVE  AInv'
  <2> DEFINE val == Normalized(s, reading)
  <2>1. SensorGet(s, RangeError(s, val), val)
    BY <1>3 DEF SensorReading
  <2>2. val \in Int
    BY NormalizedType
  <2> HIDE DEF val
  <2>3. RangeError(s, val) \in SensorErrors
    BY <2>2, RangeErrorType
  <2>4. QED
    BY <2>1, <2>2, <2>3, GetStep
<1>4. CASE SomeSensorFailed
  BY <1>4, SomeSensorFailedStep
<1>5. CASE SensorsDeviate
  BY <1>5, SensorsDeviateStep
<1>6. CASE ChecksPass
  BY <1>6, ChecksPassStep
<1>7. CASE ReportValue
  BY <1>7, ReportValueStep
<1>8. CASE UNCHANGED vars
  <2>1. TypeOK' /\ Told'
    BY <1>8 DEF AInv, TypeOK, Told, Zoned, vars, channelVars
  <2>2. Lasting' /\ ValueKnown'
    BY <1>8, Zenon DEF AInv, Lasting, Reported, ValueKnown, Accumulated, Decayed, vars, channelVars
  <2>3. QED
    BY <2>1, <2>2 DEF AInv
<1>9. QED
  BY <1>1, <1>2, <1>3, <1>4, <1>5, <1>6, <1>7, <1>8 DEF Next

(* The invariant always holds, and with it every variable has its type, for *)
(* any sensors, calibrations that leave them a travel, and tolerances.      *)
THEOREM Invariance == Spec => []AInv
  BY InitInv, NextInv, PTL DEF Spec

-----------------------------------------------------------------------------
(* The results. *)

(* What the listeners of a channel know of a checked value: it is within    *)
(* the noise, and exact where it is the dead zone's.                        *)
THEOREM ValueKnownHolds == Spec => []ValueKnown
<1>1. AInv => ValueKnown
  BY DEF AInv
<1>2. QED
  BY <1>1, Invariance, PTL

(* A failure that has lasted the tolerance is reported unless the report    *)
(* was refused: failures of several sensors, or of a sensor and of the      *)
(* deviation, never hide one another.                                       *)
THEOREM ReportedInTimeHolds == Spec => []ReportedInTime
<1>1. AInv => ReportedInTime
  <2> SUFFICES ASSUME AInv, stage = "sensors", at = 1, result = "failed",
                      failedTime >= TimeTolerance, ~refused
               PROVE  error # "none"
    BY DEF ReportedInTime
  <2>1. failedTime <= accum /\ Reported
    BY DEF AInv, Lasting
  <2>2. accum >= TimeTolerance
    BY <2>1, Numbers DEF AInv, TypeOK
  <2>3. QED
    BY <2>1, <2>2 DEF Reported
<1>2. QED
  BY <1>1, Invariance, PTL

(* The steps of a channel are those of the stream its listeners see. *)
LEMMA StreamStep == AInv /\ [Next]_vars => [Stream!Next]_(Stream!streamVars)
<1> SUFFICES ASSUME AInv, [Next]_vars
             PROVE  Stream!Next \/ ((error' # "none") = (error # "none") /\ told' = told)
  BY Zenon DEF Stream!streamVars
<1>a. TypeOK /\ prevOut = told
  BY DEF AInv, Told
<1>1. ASSUME NEW e \in ChannelErrors \ {"none"}, NEW accepted \in BOOLEAN,
             ChannelError(e, accepted)
      PROVE  Stream!Next \/ (error' = error /\ told' = told)
  <2>1. \/ error' = error /\ told' = told
        \/ error = "none" /\ error' # "none" /\ told' = InvalidOut
    BY <1>1, <1>a, ErrorStep, Zenon
  <2>2. QED
    BY <2>1, Zenon DEF Stream!Next, Stream!SetError
<1>2. ASSUME NEW e \in {"nodev", "io", "dev"}, SensorFails(e)
      PROVE  Stream!Next \/ (error' = error /\ told' = told)
  <2>1. PICK accepted \in BOOLEAN : ChannelError(e, accepted)
    BY <1>2 DEF SensorFails
  <2>2. e \in ChannelErrors \ {"none"}
    BY DEF ChannelErrors
  <2>3. QED
    BY <1>1, <2>1, <2>2
<1>3. ASSUME NEW s \in SensorSet, NEW e, NEW val, SensorGet(s, e, val)
      PROVE  Stream!Next \/ (error' = error /\ told' = told)
  <2>1. CASE SensorFails("io")
    BY <1>2, <2>1
  <2>2. CASE error' = error /\ told' = told
    BY <2>2
  <2>3. QED
    BY <1>3, <2>1, <2>2, Zenon DEF SensorGet, channelVars
<1>4. CASE SensorNotReady
  BY <1>2, <1>4 DEF SensorNotReady
<1>5. CASE \E s \in SensorSet : SensorFault(s) \/ \E reading \in Readings : SensorReading(s, reading)
  BY <1>3, <1>5, Zenon DEF SensorFault, SensorReading
<1>6. CASE SomeSensorFailed
  BY <1>6 DEF SomeSensorFailed, channelVars
<1>7. CASE SensorsDeviate
  <2>1. PICK accepted \in BOOLEAN : ChannelError("dev", accepted)
    BY <1>7 DEF SensorsDeviate
  <2>2. "dev" \in ChannelErrors \ {"none"}
    BY DEF ChannelErrors
  <2>3. QED
    BY <1>1, <2>1, <2>2
<1>8. CASE ChecksPass
  <2>1. PICK accepted \in BOOLEAN : ChannelPass(accepted)
    BY <1>8 DEF ChecksPass
  <2>2. (error' = error \/ error' = "none") /\ told' = told
    BY <1>a, <2>1, PassStep
  <2>3. QED
    BY <2>2, Zenon DEF Stream!Next, Stream!ClearError
<1>9. CASE ReportValue
  <2>1. stage = "out" /\ error' = error /\ (told' = told \/ told' = out)
    BY <1>9 DEF ReportValue
  <2>2. error = "none" /\ out \in 0..Whole
    BY <2>1 DEF AInv, Told, TypeOK
  <2>3. QED
    BY <2>1, <2>2, Zenon DEF Stream!Next, Stream!Output
<1>10. CASE UNCHANGED vars
  BY <1>10 DEF vars, channelVars
<1>11. QED
  BY <1>4, <1>5, <1>6, <1>7, <1>8, <1>9, <1>10, Zenon DEF Next

(* A channel implements an AxisStream: no value between an error and its    *)
(* clearance, errors set and cleared in turn, and no value known after one. *)
THEOREM StreamImplemented == Spec => ImplementsStream
<1>1. Init => Stream!Init
  BY DEF Init, Stream!Init
<1>2. QED
  BY <1>1, Invariance, StreamStep, PTL DEF Spec, ImplementsStream, Stream!Spec

=============================================================================
