------------------------- MODULE ChartLayoutProofs -------------------------
(* Lemmas about ChartLayout: what its axes make of values, and where its   *)
(* renderers put their marks, for any number of stacks, rows and values.   *)
EXTENDS ChartLayout, FiniteSetTheorems, SequenceTheorems, WellFoundedInduction, TLAPS

(* Induction, as a fact about sets.                                        *)
LEMMA SetInduction ==
    ASSUME NEW T, 0 \in T, \A n \in Nat : n \in T => n + 1 \in T
    PROVE  Nat \subseteq T
<1>1. SUFFICES ASSUME Nat \ T # {}
               PROVE  FALSE
  OBVIOUS
<1>2. \E n \in Nat \ T : \A k \in Nat \ T : ~(<<k, n>> \in OpToRel(<, Nat))
  BY <1>1, WFMin, NatLessThanWellFounded
<1>3. \A k, n \in Nat : k < n => <<k, n>> \in OpToRel(<, Nat)
  BY DEF OpToRel
<1>4. PICK n \in Nat \ T : \A k \in Nat \ T : ~(k < n)
  BY <1>2, <1>3, Zenon
<1>5. n # 0 /\ n - 1 \in Nat /\ n - 1 < n
  BY <1>4
<1>6. n - 1 \in T
  BY <1>4, <1>5
<1>7. QED
  BY <1>4, <1>5, <1>6

(* FirstOf: the start of a run is the earliest of its executions.          *)
LEMMA LeastNatural ==
    ASSUME NEW S, S \subseteq Nat, S # {}
    PROVE  Min(S) \in S /\ \A x \in S : Min(S) <= x
<1>1. \E n \in S : \A k \in S : ~(<<k, n>> \in OpToRel(<, Nat))
  BY WFMin, NatLessThanWellFounded
<1>2. \A k, n \in Nat : k < n => <<k, n>> \in OpToRel(<, Nat)
  BY DEF OpToRel
<1>3. PICK n \in S : \A k \in S : ~(k < n)
  BY <1>1, <1>2, Zenon
<1>4. \A k \in S : n <= k
  BY <1>3
<1>5. QED
  BY <1>4 DEF Min

LEMMA GreatestNatural ==
    ASSUME NEW S, NEW bound \in Nat, S \subseteq 0 .. bound, S # {}
    PROVE  Max(S) \in S /\ \A x \in S : x <= Max(S)
<1> DEFINE T == {n \in Nat : \A x \in S : x <= n}
<1>1. T \subseteq Nat /\ bound \in T
  OBVIOUS
<1>2. Min(T) \in T /\ \A n \in T : Min(T) <= n
  BY <1>1, LeastNatural
<1> DEFINE m == Min(T)
<1>3. m \in Nat /\ (\A x \in S : x <= m) /\ \A n \in Nat : (\A x \in S : x <= n) => m <= n
  BY <1>2
<1> HIDE DEF m, T
<1>4. m \in S
  <2>1. SUFFICES ASSUME m \notin S
                 PROVE  FALSE
    OBVIOUS
  <2>2. (\A x \in S : x \in Nat /\ x < m) /\ \E x : x \in S
    <3>1. ASSUME NEW x \in S
          PROVE  x \in Nat /\ x < m
      <4>1. x \in Nat /\ x <= m /\ x # m
        BY <1>3, <2>1
      <4>2. QED
        BY <1>3, <4>1
    <3>2. QED
      BY <3>1
  <2>3. m - 1 \in Nat /\ \A x \in S : x <= m - 1
    BY <1>3, <2>2
  <2>4. QED
    BY <1>3, <2>3
<1>5. QED
  BY <1>3, <1>4 DEF Max

----------------------------------------------------------------------------
(* Quotients.                                                              *)
LEMMA DivSteady ==
    ASSUME NEW a \in Int, NEW b \in Int, NEW d \in Nat \ {0}, a <= b
    PROVE  a \div d \in Int /\ b \div d \in Int /\ a \div d <= b \div d
BY SMT

LEMMA DivWithin ==
    ASSUME NEW a \in Nat, NEW d \in Nat \ {0}, NEW m \in Nat, a <= d
    PROVE  (a * m) \div d \in 0 .. m
BY SMT

LEMMA CeilDivIs ==
    ASSUME NEW a \in Nat, NEW b \in Nat \ {0}
    PROVE  LET c == CeilDiv(a, b)
           IN  c \in Nat /\ a <= c * b /\ (c - 1) * b < a
<1> DEFINE c == CeilDiv(a, b)
<1>1. c \in Nat
  BY SMT DEF CeilDiv
<1>2. b * c <= a + b - 1 /\ a + b - 1 < b * c + b
  BY SMT DEF CeilDiv
<1> HIDE DEF c
<1>3. c * b = b * c /\ (c - 1) * b = b * c - b
  BY <1>1
<1>4. b * c \in Nat
  BY <1>1
<1>5. QED
  BY <1>1, <1>2, <1>3, <1>4 DEF c

LEMMA DivShift ==
    ASSUME NEW a \in Int, NEW b \in Int, NEW d \in Nat \ {0}, NEW k \in Nat, a + k * d <= b
    PROVE  a \div d + k <= b \div d
<1> DEFINE q == a \div d
           r == b \div d
<1>1. q \in Int /\ d * q <= a /\ a < d * q + d
  BY SMT
<1>2. r \in Int /\ d * r <= b /\ b < d * r + d
  BY SMT
<1> HIDE DEF q, r
<1>3. SUFFICES ASSUME r <= q + k - 1
               PROVE  FALSE
  BY <1>1, <1>2 DEF q, r
<1>4. d * r <= d * (q + k - 1)
  BY <1>1, <1>2, <1>3
<1>5. d * (q + k - 1) = d * q + k * d - d
  BY <1>1
<1>6. d * q \in Int /\ k * d \in Int /\ d * r \in Int
  BY <1>1, <1>2
<1>7. QED
  BY <1>1, <1>2, <1>4, <1>5, <1>6

----------------------------------------------------------------------------
(* Powers of ten.                                                          *)
LEMMA Powers ==
    /\ 10^0 = 1 /\ 10^1 = 10 /\ 10^2 = 100 /\ 10^3 = 1000 /\ 10^4 = 10000 /\ 10^5 = 100000
    /\ 10^6 = 1000000 /\ 10^7 = 10000000 /\ 10^8 = 100000000 /\ 10^9 = 1000000000
BY SMT

LEMMA PowersAre ==
    ASSUME NEW e \in 0 .. 8
    PROVE  10^e \in Nat \ {0} /\ 10^(e + 1) = 10 * 10^e
<1>1. CASE e = 0
  <2>1. e + 1 = 1
    BY <1>1
  <2>2. 10^e = 10^0 /\ 10^(e + 1) = 10^1
    BY <1>1, <2>1, Zenon
  <2>3. QED
    BY <2>2, Powers, SMT
<1>2. CASE e = 1
  <2>1. e + 1 = 2
    BY <1>2
  <2>2. 10^e = 10^1 /\ 10^(e + 1) = 10^2
    BY <1>2, <2>1, Zenon
  <2>3. QED
    BY <2>2, Powers, SMT
<1>3. CASE e = 2
  <2>1. e + 1 = 3
    BY <1>3
  <2>2. 10^e = 10^2 /\ 10^(e + 1) = 10^3
    BY <1>3, <2>1, Zenon
  <2>3. QED
    BY <2>2, Powers, SMT
<1>4. CASE e = 3
  <2>1. e + 1 = 4
    BY <1>4
  <2>2. 10^e = 10^3 /\ 10^(e + 1) = 10^4
    BY <1>4, <2>1, Zenon
  <2>3. QED
    BY <2>2, Powers, SMT
<1>5. CASE e = 4
  <2>1. e + 1 = 5
    BY <1>5
  <2>2. 10^e = 10^4 /\ 10^(e + 1) = 10^5
    BY <1>5, <2>1, Zenon
  <2>3. QED
    BY <2>2, Powers, SMT
<1>6. CASE e = 5
  <2>1. e + 1 = 6
    BY <1>6
  <2>2. 10^e = 10^5 /\ 10^(e + 1) = 10^6
    BY <1>6, <2>1, Zenon
  <2>3. QED
    BY <2>2, Powers, SMT
<1>7. CASE e = 6
  <2>1. e + 1 = 7
    BY <1>7
  <2>2. 10^e = 10^6 /\ 10^(e + 1) = 10^7
    BY <1>7, <2>1, Zenon
  <2>3. QED
    BY <2>2, Powers, SMT
<1>8. CASE e = 7
  <2>1. e + 1 = 8
    BY <1>8
  <2>2. 10^e = 10^7 /\ 10^(e + 1) = 10^8
    BY <1>8, <2>1, Zenon
  <2>3. QED
    BY <2>2, Powers, SMT
<1>9. CASE e = 8
  <2>1. e + 1 = 9
    BY <1>9
  <2>2. 10^e = 10^8 /\ 10^(e + 1) = 10^9
    BY <1>9, <2>1, Zenon
  <2>3. QED
    BY <2>2, Powers, SMT
<1>10. QED
  BY <1>1, <1>2, <1>3, <1>4, <1>5, <1>6, <1>7, <1>8, <1>9

LEMMA PowersSteady ==
    ASSUME NEW e \in 0 .. 9, NEW f \in 0 .. 9, e < f
    PROVE  10^e \in Nat \ {0} /\ 10^f \in Nat \ {0} /\ 10 * 10^e <= 10^f
<1> DEFINE T == {n \in Nat : n < 9 - e => 10^(e + 1 + n) \in Nat /\ 10 * 10^e <= 10^(e + 1 + n)}
<1>0. e \in 0 .. 8
  OBVIOUS
<1>1. 10^e \in Nat \ {0} /\ 10^(e + 1) = 10 * 10^e
  BY <1>0, PowersAre
<1>2. 0 \in T
  BY <1>1
<1>3. ASSUME NEW n \in Nat, n \in T
      PROVE  n + 1 \in T
  <2>1. SUFFICES ASSUME n + 1 < 9 - e
                 PROVE  10^(e + 1 + (n + 1)) \in Nat /\ 10 * 10^e <= 10^(e + 1 + (n + 1))
    OBVIOUS
  <2> DEFINE g == e + 1 + n
  <2>2. g \in 0 .. 8 /\ e + 1 + (n + 1) = g + 1
    BY <2>1
  <2>3. 10^g \in Nat /\ 10 * 10^e <= 10^g
    BY <1>3, <2>1
  <2> HIDE DEF g
  <2>4. 10^(g + 1) = 10 * 10^g
    BY <2>2, PowersAre
  <2>5. QED
    BY <1>1, <2>2, <2>3, <2>4
<1> HIDE DEF T
<1>4. Nat \subseteq T
  BY <1>2, <1>3, SetInduction
<1>5. f - e - 1 \in T /\ e + 1 + (f - e - 1) = f
  BY <1>4
<1>6. 10^f \in Nat /\ 10 * 10^e <= 10^f
  BY <1>5 DEF T
<1>7. QED
  BY <1>1, <1>6

LEMMA HighestIs ==
    /\ Highest \in Nat \ {0} /\ Highest \div 10 \in Nat /\ Highest \div 10 + 2 < Highest
    /\ 10 * Highest < 10^9 * 6 /\ Highest < 10^9 * 1 /\ 100 * (Highest \div 10) < 10^9 * 8
    /\ 100 < 10^9 * 8 /\ ClipAt \in 1 .. Highest /\ 100 <= Highest /\ 10000 <= Highest
<1>1. Highest \in Nat \ {0} /\ Highest \div 10 \in Nat /\ Highest \div 10 + 2 < Highest
  BY SMT DEF Highest
<1>2. 10 * Highest < 10^9 * 6 /\ Highest < 10^9 * 1
  BY Powers, SMT DEF Highest
<1>3. 100 * (Highest \div 10) < 10^9 * 8 /\ 100 < 10^9 * 8
  BY Powers, SMT DEF Highest
<1>4. ClipAt \in Nat /\ 1 <= ClipAt /\ ClipAt <= Highest
  BY SMT DEF Highest, ClipAt
<1>5. 100 <= Highest /\ 10000 <= Highest
  BY SMT DEF Highest
<1>6. QED
  BY <1>1, <1>2, <1>3, <1>4, <1>5

(* FloorLog finds the decade of whatever its nine decades cover.           *)
LEMMA FloorLogIs ==
    ASSUME NEW num \in Nat, NEW den \in Nat \ {0}, den <= num, num < 10^9 * den
    PROVE  LET e == FloorLog(num, den)
           IN  e \in 0 .. 8 /\ 10^e * den <= num /\ num < 10 * (10^e * den)
<1> DEFINE Covers(e) == 10^e * den <= num /\ num \div 10 < 10^e * den
<1>1. \E e \in 0 .. 8 : Covers(e)
  <2>1. num < 10 * den => Covers(0)
    BY Powers, SMT
  <2>2. (10 * den <= num /\ num < 100 * den) => Covers(1)
    BY Powers, SMT
  <2>3. (100 * den <= num /\ num < 1000 * den) => Covers(2)
    BY Powers, SMT
  <2>4. (1000 * den <= num /\ num < 10000 * den) => Covers(3)
    BY Powers, SMT
  <2>5. (10000 * den <= num /\ num < 100000 * den) => Covers(4)
    BY Powers, SMT
  <2>6. (100000 * den <= num /\ num < 1000000 * den) => Covers(5)
    BY Powers, SMT
  <2>7. (1000000 * den <= num /\ num < 10000000 * den) => Covers(6)
    BY Powers, SMT
  <2>8. (10000000 * den <= num /\ num < 100000000 * den) => Covers(7)
    BY Powers, SMT
  <2>9. 100000000 * den <= num => Covers(8)
    BY Powers, SMT
  <2> HIDE DEF Covers
  <2>10. QED
    BY <2>1, <2>2, <2>3, <2>4, <2>5, <2>6, <2>7, <2>8, <2>9, SMT
<1> DEFINE e == FloorLog(num, den)
<1>2. e \in 0 .. 8 /\ Covers(e)
  BY <1>1, Zenon DEF FloorLog
<1> HIDE DEF e
<1>3. 10^e \in Nat
  BY <1>2, PowersAre
<1>4. 10^e * den \in Nat
  BY <1>3
<1>5. QED
  BY <1>2, <1>4 DEF e

(* nice_step() rounds up, to two and a half times at most.                 *)
LEMMA NiceStepIs ==
    ASSUME NEW num \in Nat, NEW den \in Nat \ {0}, den <= num, num < 10^9 * den
    PROVE  LET step == NiceStep(num, den)
           IN  step \in Nat \ {0} /\ num <= step * den /\ 2 * (step * den) <= 5 * num
<1> DEFINE e == FloorLog(num, den)
           unit == 10^e
           step == NiceStep(num, den)
<1>1. e \in 0 .. 8 /\ unit * den <= num /\ num < 10 * (unit * den)
  BY FloorLogIs
<1>2. unit \in Nat \ {0}
  BY <1>1, PowersAre
<1>3. step = unit * (IF num <= unit * den THEN 1
                     ELSE IF num <= 2 * unit * den THEN 2
                     ELSE IF num <= 5 * unit * den THEN 5 ELSE 10)
  BY DEF NiceStep
<1> HIDE DEF unit, e, step
<1> DEFINE full == unit * den
<1>4. full \in Nat /\ 2 * unit * den = 2 * full /\ 5 * unit * den = 5 * full
  BY <1>2
<1>5. /\ (unit * 1) * den = full /\ (unit * 2) * den = 2 * full
      /\ (unit * 5) * den = 5 * full /\ (unit * 10) * den = 10 * full
  BY <1>2
<1>6. full <= num /\ num < 10 * full
  BY <1>1
<1> HIDE DEF full
<1>7. CASE num <= full
  <2>1. step = unit * 1
    BY <1>3, <1>7 DEF full
  <2>2. QED
    BY <1>2, <1>4, <1>5, <1>6, <1>7, <2>1 DEF step
<1>8. CASE full < num /\ num <= 2 * full
  <2>1. step = unit * 2
    BY <1>3, <1>4, <1>8 DEF full
  <2>2. QED
    BY <1>2, <1>4, <1>5, <1>6, <1>8, <2>1 DEF step
<1>9. CASE 2 * full < num /\ num <= 5 * full
  <2>1. step = unit * 5
    BY <1>3, <1>4, <1>9 DEF full
  <2>2. QED
    BY <1>2, <1>4, <1>5, <1>6, <1>9, <2>1 DEF step
<1>10. CASE 5 * full < num
  <2>1. step = unit * 10
    BY <1>3, <1>4, <1>10 DEF full
  <2>2. QED
    BY <1>2, <1>4, <1>5, <1>6, <1>10, <2>1 DEF step
<1>11. QED
  BY <1>4, <1>7, <1>8, <1>9, <1>10

----------------------------------------------------------------------------
(* Linear axes.                                                            *)
LEMMA LinearAxisIs ==
    ASSUME NEW max \in 0 .. Highest
    PROVE  LET axis == LinearAxis(max)
           IN  /\ axis.mode = "linear"
               /\ axis.upper \in Nat \ {0} /\ 10 * max <= axis.upper
               /\ Ticks(axis) \in 4 .. 7
<1>1. CASE max = 0
  <2>1. LinearAxis(max) = [mode |-> "linear", step |-> 200, upper |-> 1000]
    BY <1>1 DEF LinearAxis
  <2>2. Ticks(LinearAxis(max)) = 1000 \div 200 + 1
    BY <2>1 DEF Ticks
  <2>3. QED
    BY <1>1, <2>1, <2>2, SMT
<1>2. CASE max # 0
  <2> DEFINE step == NiceStep(10 * max, 6)
             steps == CeilDiv(10 * max, step)
  <2>1. max \in Nat /\ 10 * max \in Nat /\ 6 <= 10 * max /\ 10 * max < 10^9 * 6
    BY <1>2, HighestIs
  <2>2. step \in Nat \ {0} /\ 10 * max <= step * 6 /\ 2 * (step * 6) <= 5 * (10 * max)
    <3>1. 6 \in Nat \ {0}
      OBVIOUS
    <3>2. QED
      BY <2>1, <3>1, NiceStepIs
  <2>3. steps \in Nat /\ 10 * max <= steps * step /\ (steps - 1) * step < 10 * max
    BY <2>1, <2>2, CeilDivIs
  <2>4. LinearAxis(max) = [mode |-> "linear", step |-> step, upper |-> steps * step]
    BY <1>2 DEF LinearAxis
  <2> HIDE DEF step, steps
  <2>5. steps \in 3 .. 6
    <3>1. steps <= 6
      <4>1. SUFFICES ASSUME steps >= 7
                     PROVE  FALSE
        BY <2>3
      <4>2. 6 * step <= (steps - 1) * step
        BY <2>2, <2>3, <4>1
      <4>3. QED
        BY <2>1, <2>2, <2>3, <4>2
    <3>2. steps >= 3
      <4>1. SUFFICES ASSUME steps <= 2
                     PROVE  FALSE
        BY <2>3
      <4>2. steps * step <= 2 * step
        BY <2>2, <2>3, <4>1
      <4>3. QED
        BY <2>1, <2>2, <2>3, <4>2
    <3>3. QED
      BY <2>3, <3>1, <3>2
  <2>6. steps * step \in Nat \ {0} /\ (steps * step) \div step = steps
    BY <2>2, <2>5
  <2>7. Ticks(LinearAxis(max)) = steps + 1
    BY <2>4, <2>6 DEF Ticks
  <2>8. QED
    BY <2>3, <2>4, <2>5, <2>6, <2>7
<1>3. QED
  BY <1>1, <1>2

LEMMA TwoMax ==
    ASSUME NEW a \in Nat, NEW b \in Nat
    PROVE  Max({a, b}) \in {a, b} /\ a <= Max({a, b}) /\ b <= Max({a, b})
<1>1. \E x \in {a, b} : \A y \in {a, b} : x >= y
  OBVIOUS
<1>2. QED
  BY <1>1 DEF Max

LEMMA TimeAxisIs ==
    ASSUME NEW seconds, seconds \subseteq 0 .. Highest \div 10, seconds # {}
    PROVE  LET axis == TimeAxis(seconds)
           IN  /\ axis.mode = "linear" /\ axis.upper \in Nat \ {0}
               /\ \A s \in seconds : 100 * s <= axis.upper
<1> DEFINE last == 100 * Max(seconds)
           step == NiceStep(Max({last, 100}), 8)
           top == CeilDiv(last, step) * step
<1>1. Max(seconds) \in seconds /\ \A s \in seconds : s <= Max(seconds)
  <2> DEFINE bound == Highest \div 10
  <2>1. bound \in Nat /\ seconds \subseteq 0 .. bound
    BY HighestIs
  <2> HIDE DEF bound
  <2>2. QED
    BY <2>1, GreatestNatural
<1>2. Max(seconds) \in 0 .. Highest \div 10
  BY <1>1
<1>3. last \in Nat /\ (\A s \in seconds : 100 * s <= last) /\ last <= 100 * (Highest \div 10)
  BY <1>1, <1>2, HighestIs
<1>4. Max({last, 100}) \in {last, 100} /\ last <= Max({last, 100}) /\ 100 <= Max({last, 100})
  BY <1>3, TwoMax
<1>5. step \in Nat \ {0}
  <2> DEFINE num == Max({last, 100})
  <2>1. num \in Nat /\ 100 <= num /\ num < 10^9 * 8
    BY <1>3, <1>4, HighestIs
  <2> HIDE DEF num
  <2>2. 8 \in Nat \ {0} /\ 8 <= num
    BY <2>1
  <2>3. NiceStep(num, 8) \in Nat \ {0}
    BY <2>1, <2>2, NiceStepIs
  <2>4. QED
    BY <2>3 DEF num
<1>6. TimeAxis(seconds) = [mode |-> "linear", step |-> step, upper |-> Max({step, top})]
  BY DEF TimeAxis
<1> HIDE DEF step, last
<1>7. top \in Nat /\ last <= top
  <2> DEFINE steps == CeilDiv(last, step)
  <2>1. steps \in Nat /\ last <= steps * step
    BY <1>3, <1>5, CeilDivIs
  <2>2. top = steps * step
    OBVIOUS
  <2> HIDE DEF steps, top
  <2>3. QED
    BY <1>5, <2>1, <2>2
<1> HIDE DEF top
<1>8. Max({step, top}) \in {step, top} /\ step <= Max({step, top}) /\ top <= Max({step, top})
  BY <1>5, <1>7, TwoMax
<1> DEFINE upper == Max({step, top})
<1>9. upper \in Nat \ {0} /\ last <= upper
  BY <1>3, <1>5, <1>7, <1>8
<1>10. TimeAxis(seconds).mode = "linear" /\ TimeAxis(seconds).upper = upper
  BY <1>6
<1> HIDE DEF upper
<1>11. \A s \in seconds : 100 * s <= upper
  <2>1. ASSUME NEW s \in seconds
        PROVE  100 * s <= upper
    <3>1. s \in Nat /\ 100 * s <= last
      BY <1>3, HighestIs
    <3>2. QED
      BY <1>3, <1>9, <3>1
  <2>2. QED
    BY <2>1
<1>12. QED
  BY <1>9, <1>10, <1>11

----------------------------------------------------------------------------
(* Logarithmic axes.                                                       *)
Decade(v) == FloorLog(v, 1)

LEMMA DecadeIs ==
    ASSUME NEW v \in 1 .. Highest
    PROVE  /\ Decade(v) \in 0 .. 8 /\ 10^Decade(v) \in Nat \ {0}
           /\ 10^Decade(v) <= v /\ v < 10 * 10^Decade(v)
<1>1. v \in Nat /\ 1 \in Nat \ {0} /\ 1 <= v /\ v < 10^9 * 1
  BY HighestIs
<1> DEFINE e == FloorLog(v, 1)
<1>2. e \in 0 .. 8 /\ 10^e * 1 <= v /\ v < 10 * (10^e * 1)
  BY <1>1, FloorLogIs
<1>3. 10^e \in Nat \ {0}
  BY <1>2, PowersAre
<1>4. 10^e * 1 = 10^e
  BY <1>3
<1>5. QED
  BY <1>2, <1>3, <1>4 DEF Decade

LEMMA DecadesSteady ==
    ASSUME NEW v \in 1 .. Highest, NEW w \in 1 .. Highest, v <= w
    PROVE  Decade(v) <= Decade(w)
<1>1. /\ Decade(v) \in 0 .. 8 /\ 10^Decade(v) \in Nat \ {0} /\ 10^Decade(v) <= v
      /\ Decade(w) \in 0 .. 8 /\ 10^Decade(w) \in Nat \ {0} /\ w < 10 * 10^Decade(w)
  BY DecadeIs
<1>2. SUFFICES ASSUME Decade(w) < Decade(v)
               PROVE  FALSE
  BY <1>1
<1>3. 10 * 10^Decade(w) <= 10^Decade(v)
  <2>1. \A e, f \in 0 .. 9 : e < f => 10 * 10^e <= 10^f
    BY PowersSteady
  <2>2. Decade(w) \in 0 .. 9 /\ Decade(v) \in 0 .. 9
    BY <1>1
  <2>3. QED
    BY <1>2, <2>1, <2>2, Zenon
<1>4. v \in Nat /\ w \in Nat
  BY HighestIs
<1>5. QED
  BY <1>1, <1>3, <1>4

(* What is known of the bounds of an axis over values.                     *)
Spans(axis, values) ==
    /\ axis.mode = "logarithmic"
    /\ axis.lower \in Int /\ axis.upper \in Int
    /\ axis.upper - axis.lower \in 1 .. 10
    /\ axis.gap = (IF 0 \in values THEN 80 ELSE 0)
    /\ \A v \in values \ {0} :
        /\ axis.lower <= Decade(v)
        /\ Decade(v) < axis.upper \/ (Decade(v) = axis.upper /\ v = 10^Decade(v))

LEMMA LogAxisSpans ==
    ASSUME NEW values, values \subseteq 0 .. Highest, values \ {0} # {}, NEW decades \in {0, 1}
    PROVE  Spans(LogAxis(values, decades), values)
<1> DEFINE positive == values \ {0}
           lower == Decade(Min(positive)) - decades
           top == CeilLog(Max(positive))
           upper == IF top <= lower THEN lower + 1 ELSE top
<1>1. positive \subseteq 1 .. Highest /\ positive \subseteq 0 .. Highest /\ positive \subseteq Nat
  BY HighestIs
<1>2. Min(positive) \in positive /\ \A v \in positive : Min(positive) <= v
  BY <1>1, LeastNatural
<1>3. Max(positive) \in positive /\ \A v \in positive : v <= Max(positive)
  <2>1. positive # {} /\ Highest \in Nat
    BY HighestIs
  <2> HIDE DEF positive
  <2>2. QED
    BY <1>1, <2>1, GreatestNatural, Zenon
<1>4. LogAxis(values, decades) =
          [mode |-> "logarithmic", lower |-> lower, upper |-> upper, gap |-> IF 0 \in values THEN 80 ELSE 0]
  BY DEF LogAxis, Decade
<1> DEFINE least == Min(positive)
           most == Max(positive)
<1>5. /\ least \in 1 .. Highest /\ most \in 1 .. Highest
      /\ \A v \in positive : v \in 1 .. Highest /\ least <= v /\ v <= most
  BY <1>1, <1>2, <1>3
<1> HIDE DEF least, most
<1>6. /\ Decade(least) \in 0 .. 8 /\ Decade(most) \in 0 .. 8
      /\ \A v \in positive : /\ Decade(v) \in 0 .. 8 /\ Decade(least) <= Decade(v)
                             /\ Decade(v) <= Decade(most)
  BY <1>5, DecadeIs, DecadesSteady
<1>7. top = IF most = 10^Decade(most) THEN Decade(most) ELSE Decade(most) + 1
  BY DEF CeilLog, Decade, most
<1>8. lower = Decade(least) - decades
  BY DEF least
<1> HIDE DEF top, lower
<1>9. lower \in -1 .. 8 /\ top \in 0 .. 9 /\ upper \in Int /\ upper - lower \in 1 .. 10
  BY <1>6, <1>7, <1>8
<1>10. ASSUME NEW v \in positive
       PROVE  lower <= Decade(v) /\ (Decade(v) < upper \/ (Decade(v) = upper /\ v = 10^Decade(v)))
  <2>1. lower <= Decade(v)
    BY <1>6, <1>8, <1>9
  <2>2. CASE Decade(v) < top
    BY <1>6, <1>9, <2>1, <2>2
  <2>3. CASE ~(Decade(v) < top)
    <3>1. Decade(v) = Decade(most) /\ top = Decade(most) /\ most = 10^Decade(most)
      BY <1>6, <1>7, <2>3
    <3>2. v = 10^Decade(v)
      <4>1. 10^Decade(v) <= v /\ v <= most /\ v \in Nat /\ most \in Nat
        BY <1>5, DecadeIs, HighestIs
      <4>2. QED
        BY <3>1, <4>1
    <3>3. top <= upper
      BY <1>9
    <3>4. QED
      BY <1>6, <1>9, <2>1, <3>1, <3>2, <3>3
  <2>4. QED
    BY <2>1, <2>2, <2>3
<1> HIDE DEF upper, positive
<1>11. QED
  BY <1>4, <1>9, <1>10 DEF Spans, positive

(* The distance of a value from the lower end, in thousandths of a decade. *)
Part(v) == ((v - 10^Decade(v)) * Resolution) \div (9 * 10^Decade(v))
Climb(axis, v) == (Decade(v) - axis.lower) * Resolution + Part(v)

LEMMA PartIs ==
    ASSUME NEW v \in 1 .. Highest
    PROVE  Part(v) \in 0 .. 999 /\ (v = 10^Decade(v) => Part(v) = 0)
<1> DEFINE p == 10^Decade(v)
           a == (v - p) * Resolution
           d == 9 * p
<1>1. p \in Nat \ {0} /\ p <= v /\ v < 10 * p /\ v \in Nat
  BY DecadeIs, HighestIs
<1>2. Part(v) = a \div d
  BY DEF Part
<1> HIDE DEF p
<1>3. a \in Nat /\ d \in Nat \ {0} /\ 0 <= a /\ a + 1 * d <= 1000 * d + d - 1
  BY <1>1 DEF Resolution
<1>4. v = p => a = 0
  BY <1>1 DEF Resolution
<1> HIDE DEF a, d
<1>5. a \div d \in Nat /\ a \div d <= 999
  <2>1. d * (a \div d) <= a /\ a \div d \in Int /\ a < d * (a \div d) + d
    BY <1>3
  <2> DEFINE q == a \div d
  <2>2. q \in Int /\ d * q <= a /\ a < d * q + d
    BY <2>1
  <2> HIDE DEF q
  <2>3. q >= 0
    <3>1. SUFFICES ASSUME q <= -1
                   PROVE  FALSE
      BY <2>2
    <3>2. d * q <= -d
      BY <1>3, <2>2, <3>1
    <3>3. QED
      BY <1>3, <2>2, <3>2
  <2>4. q <= 999
    <3>1. SUFFICES ASSUME q >= 1000
                   PROVE  FALSE
      BY <2>2
    <3>2. 1000 * d <= d * q
      BY <1>3, <2>2, <3>1
    <3>3. QED
      BY <1>3, <2>2, <3>2
  <2>5. QED
    BY <2>2, <2>3, <2>4 DEF q
<1>6. a = 0 => a \div d = 0
  BY <1>3
<1>7. QED
  BY <1>2, <1>4, <1>5, <1>6 DEF p

LEMMA ClimbWithin ==
    ASSUME NEW values, values \subseteq 0 .. Highest, NEW axis, Spans(axis, values),
           NEW v \in values \ {0}
    PROVE  Climb(axis, v) \in 0 .. Resolution * (axis.upper - axis.lower)
<1>1. v \in 1 .. Highest
  BY HighestIs
<1>2. Part(v) \in 0 .. 999 /\ (v = 10^Decade(v) => Part(v) = 0) /\ Decade(v) \in 0 .. 8
  BY <1>1, PartIs, DecadeIs
<1>3. /\ axis.lower \in Int /\ axis.upper \in Int /\ axis.lower <= Decade(v)
      /\ Decade(v) < axis.upper \/ (Decade(v) = axis.upper /\ v = 10^Decade(v))
  BY DEF Spans
<1>4. Climb(axis, v) = (Decade(v) - axis.lower) * 1000 + Part(v)
  BY DEF Climb, Resolution
<1> DEFINE l == axis.lower
           u == axis.upper
           m == Decade(v)
           x == Part(v)
<1>5. /\ l \in Int /\ u \in Int /\ m \in Int /\ x \in 0 .. 999 /\ l <= m
      /\ m < u \/ (m = u /\ x = 0)
  BY <1>2, <1>3
<1> HIDE DEF l, u, m, x
<1>6. (m - l) * 1000 + x \in 0 .. 1000 * (u - l)
  <2>1. CASE m < u
    BY <1>5, <2>1
  <2>2. CASE m = u /\ x = 0
    BY <1>5, <2>2
  <2>3. QED
    BY <1>5, <2>1, <2>2
<1>7. QED
  BY <1>4, <1>6 DEF l, u, m, x, Resolution

(* The larger value is no lower, and twice the value at least a twentieth  *)
(* of a decade higher.                                                     *)
LEMMA ClimbSteady ==
    ASSUME NEW axis, axis.lower \in Int, NEW v \in 1 .. Highest, NEW w \in 1 .. Highest, v <= w
    PROVE  /\ Climb(axis, v) \in Int /\ Climb(axis, v) <= Climb(axis, w)
           /\ 2 * v <= w => Climb(axis, v) + 50 <= Climb(axis, w)
<1> DEFINE p == 10^Decade(v)
           q == 10^Decade(w)
           m == Decade(v)
           n == Decade(w)
           l == axis.lower
           x == Part(v)
           y == Part(w)
<1>1. /\ v \in Nat /\ p \in Nat \ {0} /\ p <= v /\ v < 10 * p /\ m \in 0 .. 8
      /\ w \in Nat /\ q \in Nat \ {0} /\ q <= w /\ w < 10 * q /\ n \in 0 .. 8
      /\ m <= n
  BY DecadeIs, DecadesSteady, HighestIs
<1>2. x \in 0 .. 999 /\ y \in 0 .. 999
  BY PartIs
<1>3. /\ x = ((v - p) * 1000) \div (9 * p)
      /\ y = ((w - q) * 1000) \div (9 * q)
  BY DEF Part, Resolution
<1>4. /\ Climb(axis, v) = (m - l) * 1000 + x /\ Climb(axis, w) = (n - l) * 1000 + y
      /\ l \in Int
  BY DEF Climb, Resolution
<1>5. m = n => p = q
  OBVIOUS
<1>6. n = m + 1 => q = 10 * p
  BY <1>1, PowersAre
<1> HIDE DEF p, q, m, n, l, x, y
<1>11. SUFFICES /\ m * 1000 + x <= n * 1000 + y
                /\ 2 * v <= w => m * 1000 + x + 50 <= n * 1000 + y
  BY <1>1, <1>2, <1>4
<1>7. CASE m = n
  <2>1. /\ (v - p) * 1000 \in Int /\ (w - p) * 1000 \in Int /\ 9 * p \in Nat \ {0}
        /\ (v - p) * 1000 <= (w - p) * 1000
        /\ 2 * v <= w => (v - p) * 1000 + 111 * (9 * p) <= (w - p) * 1000
    BY <1>1, <1>5, <1>7
  <2>2. x <= y /\ (2 * v <= w => x + 111 <= y)
    <3>1. x = ((v - p) * 1000) \div (9 * p) /\ y = ((w - p) * 1000) \div (9 * p)
      BY <1>3, <1>5, <1>7
    <3> DEFINE a == (v - p) * 1000
               b == (w - p) * 1000
               d == 9 * p
    <3> HIDE DEF a, b, d
    <3>2. a \in Int /\ b \in Int /\ d \in Nat \ {0} /\ a <= b /\ (2 * v <= w => a + 111 * d <= b)
      BY <2>1 DEF a, b, d
    <3>3. a \div d <= b \div d
      BY <3>2, DivSteady
    <3>4. 2 * v <= w => a \div d + 111 <= b \div d
      BY <3>2, DivShift
    <3>5. QED
      BY <3>1, <3>3, <3>4 DEF a, b, d
  <2>3. QED
    BY <1>1, <1>2, <1>7, <2>2
<1>8. CASE n = m + 1
  <2>1. CASE v < 9 * p
    <3> DEFINE a == (v - p) * 1000
               d == 9 * p
    <3>1. a \in Int /\ d \in Nat \ {0} /\ a + 50 * d <= 1000 * d
      BY <1>1, <2>1
    <3> HIDE DEF a, d
    <3>2. (1000 * d) \div d = 1000 /\ 1000 * d \in Int
      BY <3>1
    <3>3. a \div d + 50 <= 1000
      BY <3>1, <3>2, DivShift
    <3>4. x + 50 <= 1000
      BY <1>3, <3>3 DEF a, d
    <3>5. QED
      BY <1>1, <1>2, <1>8, <3>4
  <2>2. CASE 9 * p <= v
    <3>1. CASE 2 * v <= w
      <4> DEFINE a == 50 * (9 * q)
                 b == (w - q) * 1000
                 d == 9 * q
      <4>1. a \in Int /\ b \in Int /\ d \in Nat \ {0} /\ a <= b
        BY <1>1, <1>6, <1>8, <2>2, <3>1
      <4>2. a = 50 * d
        OBVIOUS
      <4> HIDE DEF a, b, d
      <4>3. (50 * d) \div d = 50
        BY <4>1
      <4>4. a \div d <= b \div d
        BY <4>1, DivSteady
      <4>5. 50 <= y
        BY <1>3, <4>2, <4>3, <4>4 DEF b, d
      <4>6. QED
        BY <1>1, <1>2, <1>8, <4>5
    <3>2. CASE ~(2 * v <= w)
      BY <1>1, <1>2, <1>8, <3>2
    <3>3. QED
      BY <3>1, <3>2
  <2>3. QED
    BY <1>1, <2>1, <2>2
<1>9. CASE n >= m + 2
  BY <1>1, <1>2, <1>9
<1>10. QED
  BY <1>1, <1>7, <1>8, <1>9

----------------------------------------------------------------------------
(* Where an axis puts values.                                              *)

(* In order within its thousand steps, on a logarithmic axis twice the     *)
(* value four of them further on, and with a number of ticks.              *)
Reads(axis, values) ==
    /\ axis.mode \in {"linear", "logarithmic", "empty"}
    /\ \A v \in values : Position(axis, v) \in 0 .. Resolution
    /\ \A v, w \in values : v <= w => Position(axis, v) <= Position(axis, w)
    /\ axis.mode = "linear" =>
        /\ Ticks(axis) \in 4 .. 7
        /\ \A v \in values : v # 0 /\ ~PassesFor(axis, 0, v) => 40 <= Position(axis, v)
    /\ axis.mode = "empty" => values \subseteq {0}
    /\ axis.mode = "logarithmic" =>
        /\ 2 <= Ticks(axis)
        /\ \A v \in values : v # 0 /\ 0 \in values => 80 <= Position(axis, v)
        /\ \A v, w \in values : (v < w /\ 2 * v <= w) => Position(axis, v) + 4 <= Position(axis, w)

LEMMA LinearPosition ==
    ASSUME NEW axis, axis.mode = "linear", axis.upper \in Nat \ {0},
           NEW v \in Nat, NEW w \in Nat, v <= w, 10 * w <= axis.upper
    PROVE  Position(axis, v) \in 0 .. Resolution /\ Position(axis, v) <= Position(axis, w)
<1> DEFINE a == 10 * v
           b == 10 * w
           d == axis.upper
<1>1. a \in Nat /\ b \in Nat /\ a <= b /\ a <= d /\ 1000 \in Nat
  OBVIOUS
<1>2. Position(axis, v) = (a * 1000) \div d /\ Position(axis, w) = (b * 1000) \div d
  BY DEF Position, Resolution
<1> HIDE DEF a, b, d
<1>3. d \in Nat \ {0}
  BY DEF d
<1>4. (a * 1000) \div d \in 0 .. 1000
  BY <1>1, <1>3, DivWithin
<1>5. a * 1000 \in Int /\ b * 1000 \in Int /\ a * 1000 <= b * 1000
  BY <1>1
<1>6. (a * 1000) \div d <= (b * 1000) \div d
  BY <1>3, <1>5, DivSteady
<1>7. QED
  BY <1>2, <1>4, <1>6 DEF Resolution

(* What no bar for zero passes for is a twenty-fifth of the axis or more.  *)
LEMMA NotSmall ==
    ASSUME NEW axis, axis.mode = "linear", axis.upper \in Nat \ {0},
           NEW v \in Nat, v # 0, 10 * v <= axis.upper, ~PassesFor(axis, 0, v)
    PROVE  40 <= Position(axis, v)
<1> DEFINE d == axis.upper
<1>1. d \in Nat \ {0} /\ 25 * (10 * v) >= d
  BY DEF PassesFor
<1>2. Position(axis, v) = ((10 * v) * 1000) \div d
  BY DEF Position, Resolution
<1> HIDE DEF d
<1>3. ((10 * v) * 1000) \div d >= (40 * d) \div d
  <2>1. 40 * d <= (10 * v) * 1000 /\ 40 * d \in Int /\ (10 * v) * 1000 \in Int
    BY <1>1
  <2>2. QED
    BY <1>1, <2>1, DivSteady
<1>4. (40 * d) \div d = 40
  BY <1>1
<1>5. ((10 * v) * 1000) \div d \in Int
  BY <1>1
<1>6. QED
  BY <1>2, <1>3, <1>4, <1>5

LEMMA LinearReads ==
    ASSUME NEW max \in 0 .. Highest
    PROVE  Reads(LinearAxis(max), 0 .. max)
<1> DEFINE axis == LinearAxis(max)
<1>1. axis.mode = "linear" /\ axis.upper \in Nat \ {0} /\ 10 * max <= axis.upper /\ Ticks(axis) \in 4 .. 7
  BY LinearAxisIs
<1>2. max \in Nat
  BY HighestIs
<1> HIDE DEF axis
<1>3. ASSUME NEW v \in 0 .. max, NEW w \in 0 .. max, v <= w
      PROVE  Position(axis, v) \in 0 .. Resolution /\ Position(axis, v) <= Position(axis, w)
  <2>1. v \in Nat /\ w \in Nat /\ 10 * w <= axis.upper
    BY <1>1, <1>2
  <2>2. QED
    BY <1>1, <1>3, <2>1, LinearPosition
<1>4. \A v \in 0 .. max : Position(axis, v) \in 0 .. Resolution
  <2>1. \A v \in 0 .. max : v <= v
    BY <1>2
  <2>2. QED
    BY <1>3, <2>1, Zenon
<1>5. \A v, w \in 0 .. max : v <= w => Position(axis, v) <= Position(axis, w)
  BY <1>3, Zenon
<1>6. axis.mode \in {"linear", "logarithmic", "empty"} /\ axis.mode # "logarithmic" /\ axis.mode # "empty"
  BY <1>1
<1>7. ASSUME NEW v \in 0 .. max, v # 0, ~PassesFor(axis, 0, v)
      PROVE  40 <= Position(axis, v)
  <2>1. v \in Nat /\ 10 * v <= axis.upper
    BY <1>1, <1>2
  <2>2. QED
    BY <1>1, <1>7, <2>1, NotSmall
<1>8. Reads(axis, 0 .. max)
  BY <1>1, <1>4, <1>5, <1>6, <1>7, Zenon DEF Reads
<1>9. QED
  BY <1>8 DEF axis

LEMMA LogPosition ==
    ASSUME NEW values, values \subseteq 0 .. Highest, NEW axis, Spans(axis, values),
           NEW v \in values, NEW w \in values, v <= w
    PROVE  /\ Position(axis, v) \in 0 .. Resolution /\ Position(axis, v) <= Position(axis, w)
           /\ v # 0 /\ 0 \in values => 80 <= Position(axis, v)
           /\ (v < w /\ 2 * v <= w) => Position(axis, v) + 4 <= Position(axis, w)
<1> DEFINE D == axis.upper - axis.lower
           g == axis.gap
<1>1. /\ axis.mode = "logarithmic" /\ D \in 1 .. 10 /\ axis.lower \in Int /\ g \in {0, 80}
      /\ g = (IF 0 \in values THEN 80 ELSE 0)
  BY DEF Spans
<1>2. ASSUME NEW u \in values, u # 0
      PROVE  /\ u \in 1 .. Highest
             /\ Climb(axis, u) \in 0 .. Resolution * D
             /\ LogPart(axis, u) = Climb(axis, u) \div D
             /\ LogPart(axis, u) \in 0 .. Resolution
             /\ Position(axis, u) = g + ((Resolution - g) * LogPart(axis, u)) \div Resolution
             /\ Position(axis, u) \in g .. Resolution
  <2>1. u \in 1 .. Highest
    BY <1>2, HighestIs
  <2>2. Climb(axis, u) \in 0 .. Resolution * D
    <3>1. u \in values \ {0}
      BY <1>2
    <3>2. QED
      BY <3>1, ClimbWithin, Zenon
  <2>3. LogPart(axis, u) = Climb(axis, u) \div D
    BY DEF LogPart, Climb, Part, Decade
  <2>4. LogPart(axis, u) \in 0 .. Resolution
    <3> DEFINE c == Climb(axis, u)
    <3>1. c \in 0 .. 1000 * D
      BY <2>2 DEF Resolution
    <3> HIDE DEF c, D
    <3>2. 0 \in Int /\ c \in Int /\ 1000 * D \in Int /\ D \in Nat \ {0} /\ 0 <= c /\ c <= 1000 * D
      BY <1>1, <3>1
    <3>3. 0 \div D <= c \div D /\ c \div D <= (1000 * D) \div D /\ c \div D \in Int
      BY <3>2, DivSteady
    <3>4. 0 \div D = 0 /\ (1000 * D) \div D = 1000
      BY <3>2
    <3>5. QED
      BY <2>3, <3>3, <3>4 DEF c, Resolution
  <2>5. Position(axis, u) = g + ((Resolution - g) * LogPart(axis, u)) \div Resolution
    BY <1>1, <1>2 DEF Position
  <2>6. Position(axis, u) \in g .. Resolution
    <3> DEFINE x == LogPart(axis, u)
    <3>1. x \in 0 .. 1000 /\ g \in {0, 80}
      BY <1>1, <2>4 DEF Resolution
    <3> HIDE DEF x, g
    <3>2. g + ((1000 - g) * x) \div 1000 \in g .. 1000
      <4>1. CASE g = 0
        BY <3>1, <4>1
      <4>2. CASE g = 80
        BY <3>1, <4>2
      <4>3. QED
        BY <3>1, <4>1, <4>2
    <3>3. QED
      BY <2>5, <3>2 DEF x, g, Resolution
  <2> HIDE DEF D, g
  <2>7. QED
    BY <2>1, <2>2, <2>3, <2>4, <2>5, <2>6, Zenon
<1>3. CASE v = 0
  <2>1. Position(axis, v) = 0 /\ g = 80
    BY <1>1, <1>3 DEF Position
  <2>2. w # 0 => Position(axis, w) \in 80 .. Resolution
    <3>1. w # 0 => Position(axis, w) \in g .. Resolution
      BY <1>2, Zenon
    <3> HIDE DEF g
    <3>2. QED
      BY <2>1, <3>1
  <2>3. w = 0 => Position(axis, w) = 0
    BY <1>3, <2>1
  <2>4. QED
    BY <1>3, <2>1, <2>2, <2>3 DEF Resolution
<1>4. CASE v # 0
  <2>1. w # 0 /\ v \in 1 .. Highest /\ w \in 1 .. Highest
    BY <1>2, <1>4, HighestIs
  <2>2. /\ Climb(axis, v) \in Int /\ Climb(axis, w) \in Int /\ Climb(axis, v) <= Climb(axis, w)
        /\ 2 * v <= w => Climb(axis, v) + 50 <= Climb(axis, w)
    BY <1>1, <2>1, ClimbSteady, HighestIs
  <2>3. LogPart(axis, v) <= LogPart(axis, w) /\ (2 * v <= w => LogPart(axis, v) + 5 <= LogPart(axis, w))
    <3> DEFINE a == Climb(axis, v)
               b == Climb(axis, w)
    <3>1. a \in Int /\ b \in Int /\ D \in Nat \ {0} /\ a <= b /\ (2 * v <= w => a + 5 * D <= b)
      BY <1>1, <2>2
    <3>2. LogPart(axis, v) = a \div D /\ LogPart(axis, w) = b \div D
      BY <1>2, <1>4, <2>1
    <3> HIDE DEF a, b, D
    <3>3. a \div D <= b \div D
      BY <3>1, DivSteady
    <3>4. 2 * v <= w => a \div D + 5 <= b \div D
      BY <3>1, DivShift
    <3>5. QED
      BY <3>2, <3>3, <3>4
  <2> DEFINE x == LogPart(axis, v)
             y == LogPart(axis, w)
  <2>4. /\ x \in 0 .. Resolution /\ y \in 0 .. Resolution
        /\ Position(axis, v) = g + ((Resolution - g) * x) \div Resolution /\ Position(axis, v) \in g .. Resolution
        /\ Position(axis, w) = g + ((Resolution - g) * y) \div Resolution /\ Position(axis, w) \in g .. Resolution
    BY <1>2, <1>4, <2>1
  <2> HIDE DEF x, y, g
  <2>5. (x <= y => Position(axis, v) <= Position(axis, w))
        /\ (x + 5 <= y => Position(axis, v) + 4 <= Position(axis, w))
    BY <1>1, <2>4 DEF Resolution
  <2>6. QED
    BY <1>1, <2>3, <2>4, <2>5 DEF x, y, g, Resolution
<1>5. QED
  BY <1>3, <1>4

LEMMA LogReads ==
    ASSUME NEW values, values \subseteq 0 .. Highest, values \ {0} # {}, NEW decades \in {0, 1}
    PROVE  Reads(LogAxis(values, decades), values)
<1> DEFINE axis == LogAxis(values, decades)
<1>1. Spans(axis, values)
  BY LogAxisSpans
<1> HIDE DEF axis
<1>2. axis.mode = "logarithmic" /\ axis.gap \in {0, 80} /\ axis.upper - axis.lower \in 1 .. 10
  BY <1>1 DEF Spans
<1>3. 2 <= Ticks(axis)
  BY <1>2 DEF Ticks
<1>4. ASSUME NEW v \in values, NEW w \in values, v <= w
      PROVE  /\ Position(axis, v) \in 0 .. Resolution /\ Position(axis, v) <= Position(axis, w)
             /\ v # 0 /\ 0 \in values => 80 <= Position(axis, v)
             /\ (v < w /\ 2 * v <= w) => Position(axis, v) + 4 <= Position(axis, w)
  BY <1>1, <1>4, LogPosition, Zenon
<1>5. \A v, w \in values : v <= v /\ (v < w => v <= w)
  BY HighestIs
<1>6. axis.mode \in {"linear", "logarithmic", "empty"} /\ axis.mode # "linear" /\ axis.mode # "empty"
  BY <1>2
<1>7. Reads(axis, values)
  BY <1>3, <1>4, <1>5, <1>6, Zenon DEF Reads
<1>8. QED
  BY <1>7 DEF axis

(* value_axis(), on either scale.                                          *)
LEMMA ValueAxisReads ==
    ASSUME NEW values, values \subseteq 0 .. Highest, values # {},
           NEW mode \in {"linear", "logarithmic"}, NEW decades \in {0, 1}
    PROVE  /\ Reads(ValueAxis(values, mode, decades), values)
           /\ ValueAxis(values, mode, decades).mode \in {mode, "empty"}
           /\ ValueAxis(values, mode, decades).mode = "empty" => values = {0}
<1>0. Highest \in Nat
  BY HighestIs
<1>1. CASE mode = "linear"
  <2>1. Max(values) \in values /\ \A v \in values : v <= Max(values)
    BY <1>0, GreatestNatural, Zenon
  <2> DEFINE max == Max(values)
  <2>2. max \in 0 .. Highest /\ values \subseteq 0 .. max
    <3>1. max \in 0 .. Highest /\ \A v \in values : v \in 0 .. Highest /\ v <= max
      BY <2>1
    <3> HIDE DEF max
    <3>2. ASSUME NEW v \in values
          PROVE  v \in 0 .. max
      <4>1. v \in 0 .. Highest /\ v <= max
        BY <3>1
      <4>2. QED
        BY <1>0, <3>1, <4>1
    <3>3. QED
      BY <3>1, <3>2
  <2>3. ValueAxis(values, mode, decades) = LinearAxis(max)
    BY <1>1 DEF ValueAxis
  <2> HIDE DEF max
  <2>4. Reads(LinearAxis(max), 0 .. max) /\ LinearAxis(max).mode = "linear"
    BY <2>2, LinearReads, LinearAxisIs
  <2>5. Reads(LinearAxis(max), values)
    <3>1. \A v \in values : v \in 0 .. max
      BY <2>2
    <3> DEFINE axis == LinearAxis(max)
    <3>2. axis.mode # "logarithmic" /\ axis.mode # "empty" /\ Reads(axis, 0 .. max)
      BY <2>4
    <3> HIDE DEF axis
    <3>3. Reads(axis, values)
      BY <3>1, <3>2, Zenon DEF Reads
    <3>4. QED
      BY <3>3 DEF axis
  <2>6. QED
    BY <1>1, <2>3, <2>4, <2>5
<1>2. CASE mode # "linear" /\ values = {0}
  <2>1. ValueAxis(values, mode, decades) = [mode |-> "empty"]
    BY <1>2 DEF ValueAxis
  <2> DEFINE axis == ValueAxis(values, mode, decades)
  <2>2. axis.mode = "empty"
    BY <2>1
  <2> HIDE DEF axis
  <2>3. \A v \in values : Position(axis, v) = 0
    BY <2>2 DEF Position
  <2>4. Reads(axis, values)
    <3>1. /\ \A v \in values : Position(axis, v) \in 0 .. Resolution
          /\ \A v, w \in values : Position(axis, v) <= Position(axis, w)
      BY <2>3 DEF Resolution
    <3>2. axis.mode \in {"linear", "logarithmic", "empty"}
          /\ axis.mode # "linear" /\ axis.mode # "logarithmic" /\ values \subseteq {0}
      BY <1>2, <2>2
    <3>3. QED
      BY <3>1, <3>2, Zenon DEF Reads
  <2>5. QED
    BY <1>2, <2>2, <2>4 DEF axis
<1>3. CASE mode # "linear" /\ values # {0}
  <2>1. values \ {0} # {}
    BY <1>3
  <2>2. ValueAxis(values, mode, decades) = LogAxis(values, decades)
    BY <1>3 DEF ValueAxis
  <2>3. Reads(LogAxis(values, decades), values)
    BY <2>1, LogReads
  <2>4. LogAxis(values, decades).mode = "logarithmic"
    BY DEF LogAxis
  <2>5. QED
    BY <1>3, <2>2, <2>3, <2>4
<1>4. QED
  BY <1>1, <1>2, <1>3

LEMMA AxisModes ==
    /\ \A max : LinearAxis(max).mode = "linear"
    /\ \A v, mode, decades : ValueAxis(v, mode, decades).mode \in {"linear", "logarithmic", "empty"}
<1>1. ASSUME NEW max
      PROVE  LinearAxis(max).mode = "linear"
  <2>1. CASE max = 0
    BY <2>1 DEF LinearAxis
  <2>2. CASE max # 0
    BY <2>2 DEF LinearAxis
  <2>3. QED
    BY <2>1, <2>2
<1>2. ASSUME NEW v, NEW mode, NEW decades
      PROVE  ValueAxis(v, mode, decades).mode \in {"linear", "logarithmic", "empty"}
  <2>1. LogAxis(v, decades).mode = "logarithmic"
    BY DEF LogAxis
  <2>2. CASE mode = "linear"
    BY <1>1, <2>2 DEF ValueAxis
  <2>3. CASE mode # "linear"
    BY <2>1, <2>3 DEF ValueAxis
  <2>4. QED
    BY <2>2, <2>3
<1>3. QED
  BY <1>1, <1>2

----------------------------------------------------------------------------
(* Sums over sets and sequences, as the folds of the library take them.    *)

(* The recursive function inside a fold: one element, then the rest.       *)
Adds(S, pick, item, h) ==
    h = [s \in SUBSET S |-> IF s = {} THEN 0 ELSE item[pick[s]] + h[s \ {pick[s]}]]

Picks(S, pick) == \A s \in SUBSET S : s # {} => pick[s] \in s

LEMMA Smaller ==
    ASSUME NEW S, IsFiniteSet(S), NEW pick, Picks(S, pick), NEW s \in SUBSET S
    PROVE  /\ Cardinality(s) \in Nat /\ Cardinality(s) <= Cardinality(S)
           /\ s = {} <=> Cardinality(s) = 0
           /\ s # {} => /\ pick[s] \in s /\ s \ {pick[s]} \in SUBSET S
                        /\ Cardinality(s \ {pick[s]}) = Cardinality(s) - 1
<1>1. IsFiniteSet(s) /\ Cardinality(s) <= Cardinality(S)
  BY FS_Subset
<1>2. Cardinality(s) \in Nat /\ (s = {} <=> Cardinality(s) = 0)
  BY <1>1, FS_CardinalityType, FS_EmptySet
<1>3. s # {} => pick[s] \in s
  BY DEF Picks
<1>4. s # {} => Cardinality(s \ {pick[s]}) = Cardinality(s) - 1
  BY <1>1, <1>3, FS_RemoveElement
<1>5. QED
  BY <1>1, <1>2, <1>3, <1>4

LEMMA AddsExists ==
    ASSUME NEW S, IsFiniteSet(S), NEW pick, Picks(S, pick), NEW item
    PROVE  \E h : Adds(S, pick, item, h)
<1> DEFINE Rule(h, s) == h[s] = IF s = {} THEN 0 ELSE item[pick[s]] + h[s \ {pick[s]}]
           T == {n \in Nat : \E h : \A s \in SUBSET S : Cardinality(s) <= n => Rule(h, s)}
<1>1. 0 \in T
  <2> DEFINE h == [s \in SUBSET S |-> 0]
  <2>1. ASSUME NEW s \in SUBSET S, Cardinality(s) <= 0
        PROVE  Rule(h, s)
    <3>1. s = {}
      <4>1. Cardinality(s) \in Nat /\ (s = {} <=> Cardinality(s) = 0)
        BY Smaller
      <4>2. QED
        BY <2>1, <4>1
    <3>2. QED
      BY <3>1
  <2>2. QED
    BY <2>1
<1>2. ASSUME NEW n \in Nat, n \in T
      PROVE  n + 1 \in T
  <2>1. PICK h : \A s \in SUBSET S : Cardinality(s) <= n => Rule(h, s)
    BY <1>2
  <2> DEFINE more(s) == item[pick[s]] + h[s \ {pick[s]}]
             g == [s \in SUBSET S |-> IF Cardinality(s) = n + 1 THEN more(s) ELSE h[s]]
  <2>2. ASSUME NEW s \in SUBSET S, Cardinality(s) <= n + 1
        PROVE  Rule(g, s)
    <3>1. CASE s = {}
      <4>1. Cardinality(s) = 0
        BY <3>1, Smaller
      <4>2. g[s] = h[s] /\ Cardinality(s) <= n
        BY <4>1
      <4>3. QED
        BY <2>1, <3>1, <4>2
    <3>2. CASE s # {}
      <4> DEFINE rest == s \ {pick[s]}
      <4>1. rest \in SUBSET S /\ Cardinality(rest) = Cardinality(s) - 1 /\ Cardinality(s) \in Nat
        BY <3>2, Smaller
      <4>2. g[rest] = h[rest]
        <5>1. Cardinality(rest) # n + 1
          BY <2>2, <4>1
        <5>2. QED
          BY <4>1, <5>1
      <4>3. g[s] = more(s)
        <5>1. CASE Cardinality(s) = n + 1
          BY <5>1
        <5>2. CASE Cardinality(s) # n + 1
          <6>1. Cardinality(s) <= n
            BY <2>2, <4>1, <5>2
          <6>2. h[s] = more(s)
            BY <2>1, <3>2, <6>1
          <6>3. g[s] = h[s]
            BY <5>2
          <6>4. QED
            BY <6>2, <6>3
        <5>3. QED
          BY <5>1, <5>2
      <4> HIDE DEF g
      <4>4. QED
        BY <3>2, <4>2, <4>3
    <3>3. QED
      BY <3>1, <3>2
  <2> HIDE DEF g, Rule
  <2>3. \A s \in SUBSET S : Cardinality(s) <= n + 1 => Rule(g, s)
    BY <2>2
  <2>4. QED
    BY <2>3
<1> HIDE DEF T
<1>3. Nat \subseteq T
  BY <1>1, <1>2, SetInduction
<1>4. Cardinality(S) \in T
  BY <1>3, FS_CardinalityType
<1>5. PICK h : \A s \in SUBSET S : Cardinality(s) <= Cardinality(S) => Rule(h, s)
  BY <1>4 DEF T
<1>6. \A s \in SUBSET S : Rule(h, s)
  BY <1>5, Smaller
<1> DEFINE g == [s \in SUBSET S |-> h[s]]
<1>7. ASSUME NEW s \in SUBSET S
      PROVE  g[s] = IF s = {} THEN 0 ELSE item[pick[s]] + g[s \ {pick[s]}]
  <2>1. g[s] = h[s] /\ (s # {} => g[s \ {pick[s]}] = h[s \ {pick[s]}])
    BY Smaller
  <2> HIDE DEF g
  <2>2. QED
    BY <1>6, <2>1
<1>8. g = [s \in SUBSET S |-> g[s]]
  OBVIOUS
<1> HIDE DEF g
<1>9. Adds(S, pick, item, g)
  BY <1>7, <1>8 DEF Adds
<1>10. QED
  BY <1>9

(* A set is added up in the order CHOOSE gives.                            *)
Choice(S) == [s \in SUBSET S |-> CHOOSE x \in s : TRUE]

IsSum(S, f, h) ==
    h = [s \in SUBSET S |-> IF s = {} THEN 0
                            ELSE f[CHOOSE x \in s : TRUE] + h[s \ {CHOOSE x \in s : TRUE}]]

LEMMA SumIsFold ==
    ASSUME NEW S, IsFiniteSet(S), NEW f
    PROVE  /\ Picks(S, Choice(S))
           /\ \E h : Adds(S, Choice(S), f, h) /\ SumOf(f, S) = h[S]
<1>1. Picks(S, Choice(S))
  BY DEF Picks, Choice
<1>2. ASSUME NEW h
      PROVE  IsSum(S, f, h) <=> Adds(S, Choice(S), f, h)
  <2>1. \A s \in SUBSET S : Choice(S)[s] = CHOOSE x \in s : TRUE
    BY DEF Choice
  <2>2. [s \in SUBSET S |-> IF s = {} THEN 0
                            ELSE f[CHOOSE x \in s : TRUE] + h[s \ {CHOOSE x \in s : TRUE}]]
      = [s \in SUBSET S |-> IF s = {} THEN 0 ELSE f[Choice(S)[s]] + h[s \ {Choice(S)[s]}]]
    BY <2>1
  <2>3. QED
    BY <2>2 DEF IsSum, Adds
<1> DEFINE h == CHOOSE h : IsSum(S, f, h)
<1>3. IsSum(S, f, h)
  <2>1. \E g : Adds(S, Choice(S), f, g)
    BY <1>1, AddsExists
  <2>2. \E g : IsSum(S, f, g)
    BY <1>2, <2>1
  <2>3. QED
    BY <2>2
<1>4. SumOf(f, S) = h[S]
  BY DEF SumOf, FoldSet, MapThenFoldSet, IsSum
<1>5. QED
  BY <1>1, <1>2, <1>3, <1>4

LEMMA SumWithin ==
    ASSUME NEW S, IsFiniteSet(S), NEW f, NEW bound \in Nat, \A x \in S : f[x] \in 0 .. bound
    PROVE  SumOf(f, S) \in 0 .. Cardinality(S) * bound
<1>1. PICK h : Picks(S, Choice(S)) /\ Adds(S, Choice(S), f, h) /\ SumOf(f, S) = h[S]
  BY SumIsFold
<1> DEFINE T == {n \in Nat : \A s \in SUBSET S : Cardinality(s) = n => h[s] \in 0 .. n * bound}
<1>2. 0 \in T
  <2>1. ASSUME NEW s \in SUBSET S, Cardinality(s) = 0
        PROVE  h[s] = 0
    <3>1. s = {}
      BY <1>1, <2>1, Smaller
    <3>2. QED
      BY <1>1, <3>1 DEF Adds
  <2>2. \A s \in SUBSET S : Cardinality(s) = 0 => h[s] \in 0 .. 0 * bound
    BY <2>1
  <2>3. QED
    BY <2>2
<1>3. ASSUME NEW n \in Nat, n \in T
      PROVE  n + 1 \in T
  <2>1. ASSUME NEW s \in SUBSET S, Cardinality(s) = n + 1
        PROVE  h[s] \in 0 .. (n + 1) * bound
    <3> DEFINE x == Choice(S)[s]
               rest == s \ {x}
    <3>1. s # {} /\ x \in s /\ rest \in SUBSET S /\ Cardinality(rest) = n
      <4>1. s # {}
        BY <1>1, <2>1, Smaller
      <4>2. x \in s /\ rest \in SUBSET S /\ Cardinality(rest) = Cardinality(s) - 1
        BY <1>1, <4>1, Smaller
      <4>3. QED
        BY <2>1, <4>1, <4>2
    <3>2. h[s] = f[x] + h[rest]
      BY <1>1, <3>1 DEF Adds
    <3>3. h[rest] \in 0 .. n * bound /\ f[x] \in 0 .. bound
      BY <1>3, <3>1
    <3> HIDE DEF rest, x
    <3> DEFINE y == n * bound
    <3>4. y \in Nat /\ (n + 1) * bound = y + bound
      OBVIOUS
    <3>5. h[rest] \in 0 .. y
      BY <3>3
    <3> HIDE DEF y
    <3>6. f[x] + h[rest] \in 0 .. y + bound
      BY <3>3, <3>4, <3>5
    <3>7. QED
      BY <3>2, <3>4, <3>6
  <2>2. QED
    BY <2>1
<1> HIDE DEF T
<1>4. Nat \subseteq T
  BY <1>2, <1>3, SetInduction
<1>5. Cardinality(S) \in T
  BY <1>4, FS_CardinalityType
<1>6. h[S] \in 0 .. Cardinality(S) * bound
  BY <1>5 DEF T
<1>7. QED
  BY <1>1, <1>6

(* A sum of what is in proportion to something, or to one.                 *)
LEMMA SumInProportion ==
    ASSUME NEW S, IsFiniteSet(S), NEW f, NEW g, NEW bound \in Nat,
           \A x \in S : f[x] \in Nat /\ g[x] \in Nat /\ f[x] <= bound * g[x] + bound
    PROVE  /\ SumOf(f, S) \in Nat /\ SumOf(g, S) \in Nat
           /\ SumOf(f, S) <= bound * SumOf(g, S) + Cardinality(S) * bound
<1>1. PICK h : Picks(S, Choice(S)) /\ Adds(S, Choice(S), f, h) /\ SumOf(f, S) = h[S]
  BY SumIsFold
<1>2. PICK k : Adds(S, Choice(S), g, k) /\ SumOf(g, S) = k[S]
  BY SumIsFold
<1> DEFINE Right(s, n) == h[s] \in Nat /\ k[s] \in Nat /\ h[s] <= bound * k[s] + n * bound
           T == {n \in Nat : \A s \in SUBSET S : Cardinality(s) = n => Right(s, n)}
<1>3. 0 \in T
  <2>1. ASSUME NEW s \in SUBSET S, Cardinality(s) = 0
        PROVE  h[s] = 0 /\ k[s] = 0
    <3>1. s = {}
      BY <1>1, <2>1, Smaller
    <3>2. QED
      BY <1>1, <1>2, <3>1 DEF Adds
  <2>2. ASSUME NEW s \in SUBSET S, Cardinality(s) = 0
        PROVE  Right(s, 0)
    <3>1. h[s] = 0 /\ k[s] = 0
      BY <2>1, <2>2
    <3>2. bound * 0 = 0 /\ 0 * bound = 0
      OBVIOUS
    <3>3. QED
      BY <3>1, <3>2
  <2> HIDE DEF Right
  <2>3. QED
    BY <2>2
<1>4. ASSUME NEW n \in Nat, n \in T
      PROVE  n + 1 \in T
  <2>1. ASSUME NEW s \in SUBSET S, Cardinality(s) = n + 1
        PROVE  Right(s, n + 1)
    <3> DEFINE x == Choice(S)[s]
               rest == s \ {x}
    <3>1. s # {} /\ x \in s /\ rest \in SUBSET S /\ Cardinality(rest) = n
      <4>1. s # {}
        BY <1>1, <2>1, Smaller
      <4>2. x \in s /\ rest \in SUBSET S /\ Cardinality(rest) = Cardinality(s) - 1
        BY <1>1, <4>1, Smaller
      <4>3. QED
        BY <2>1, <4>1, <4>2
    <3>2. h[s] = f[x] + h[rest] /\ k[s] = g[x] + k[rest]
      BY <1>1, <1>2, <3>1 DEF Adds
    <3>3. Right(rest, n) /\ f[x] \in Nat /\ g[x] \in Nat /\ f[x] <= bound * g[x] + bound
      BY <1>4, <3>1
    <3> HIDE DEF rest, x
    <3> DEFINE a == bound * g[x]
               b == bound * k[rest]
               c == n * bound
    <3>4. /\ a \in Nat /\ b \in Nat /\ c \in Nat
          /\ bound * (g[x] + k[rest]) = a + b /\ (n + 1) * bound = c + bound
      BY <3>3
    <3>5. h[rest] \in Nat /\ k[rest] \in Nat /\ h[rest] <= b + c /\ f[x] <= a + bound
      BY <3>3
    <3> HIDE DEF a, b, c
    <3>6. f[x] + h[rest] <= (a + b) + (c + bound)
      BY <3>3, <3>4, <3>5
    <3>7. QED
      BY <3>2, <3>3, <3>4, <3>5, <3>6
  <2> HIDE DEF Right
  <2>2. QED
    BY <2>1
<1> HIDE DEF T
<1>5. Nat \subseteq T
  BY <1>3, <1>4, SetInduction
<1>6. Cardinality(S) \in T
  BY <1>5, FS_CardinalityType
<1>7. Right(S, Cardinality(S))
  BY <1>6 DEF T
<1>8. QED
  BY <1>1, <1>2, <1>7

(* The blocks of a TLS chart are added up from the last to the first.      *)
Lowest(labels) == [s \in SUBSET DOMAIN labels |-> Max(s)]
BlockOf(form, labels) == [i \in DOMAIN labels |-> TlsBlock(form, labels[i])]

IsStack(form, labels, h) ==
    h = [s \in SUBSET DOMAIN labels |->
            IF s = {} THEN 0 ELSE TlsBlock(form, labels[Max(s)]) + h[s \ {Max(s)}]]

LEMMA LastIs ==
    ASSUME NEW k \in Nat
    PROVE  Max(1 .. k + 1) = k + 1 /\ (1 .. k + 1) \ {k + 1} = 1 .. k
<1>1. k + 1 \in Nat /\ 1 .. k + 1 \subseteq 0 .. k + 1 /\ 1 .. k + 1 # {} /\ k + 1 \in 1 .. k + 1
  OBVIOUS
<1>2. Max(1 .. k + 1) \in 1 .. k + 1 /\ \A x \in 1 .. k + 1 : x <= Max(1 .. k + 1)
  BY <1>1, GreatestNatural, Zenon
<1>3. Max(1 .. k + 1) = k + 1
  BY <1>1, <1>2
<1>4. QED
  BY <1>3

LEMMA BlocksFold ==
    ASSUME NEW labels \in Seq(Nat), NEW form
    PROVE  /\ \E h : /\ Adds(DOMAIN labels, Lowest(labels), BlockOf(form, labels), h)
                    /\ TlsBlocks(form, labels) = h[DOMAIN labels]
<1> DEFINE D == DOMAIN labels
<1>1. D = 1 .. Len(labels) /\ Len(labels) \in Nat
  BY LenProperties
<1>2. IsFiniteSet(D)
  BY <1>1, FS_Interval
<1>3. ASSUME NEW s \in SUBSET D, s # {}
      PROVE  Max(s) \in s
  <2>1. s \subseteq 0 .. Len(labels)
    BY <1>1
  <2> HIDE DEF D
  <2>2. QED
    BY <1>1, <1>3, <2>1, GreatestNatural, Zenon
<1>4. Picks(D, Lowest(labels))
  BY <1>3 DEF Picks, Lowest
<1>5. ASSUME NEW h
      PROVE  IsStack(form, labels, h) <=> Adds(D, Lowest(labels), BlockOf(form, labels), h)
  <2>1. \A s \in SUBSET D : Lowest(labels)[s] = Max(s)
    BY DEF Lowest
  <2>2. \A i \in D : BlockOf(form, labels)[i] = TlsBlock(form, labels[i])
    BY DEF BlockOf
  <2>3. ASSUME NEW s \in SUBSET D, s # {}
        PROVE  BlockOf(form, labels)[Lowest(labels)[s]] = TlsBlock(form, labels[Max(s)])
    BY <1>3, <2>1, <2>2, <2>3
  <2> HIDE DEF D
  <2>4. [s \in SUBSET D |-> IF s = {} THEN 0 ELSE TlsBlock(form, labels[Max(s)]) + h[s \ {Max(s)}]]
        = [s \in SUBSET D |-> IF s = {} THEN 0
                              ELSE BlockOf(form, labels)[Lowest(labels)[s]] + h[s \ {Lowest(labels)[s]}]]
    BY <2>1, <2>3
  <2>5. QED
    BY <2>4 DEF IsStack, Adds, D
<1> DEFINE h == CHOOSE h : IsStack(form, labels, h)
<1>6. IsStack(form, labels, h)
  <2>1. \E g : Adds(D, Lowest(labels), BlockOf(form, labels), g)
    BY <1>2, <1>4, AddsExists
  <2>2. \E g : IsStack(form, labels, g)
    BY <1>5, <2>1
  <2>3. QED
    BY <2>2
<1>7. TlsBlocks(form, labels) = h[DOMAIN labels]
  BY DEF TlsBlocks, FoldLeft, MapThenFoldSet, IsStack
<1>8. QED
  BY <1>5, <1>6, <1>7

(* The sum over the first k blocks, of a list that may be longer.          *)
LEMMA BlocksSteps ==
    ASSUME NEW labels \in Seq(Nat), NEW form, NEW h,
           Adds(DOMAIN labels, Lowest(labels), BlockOf(form, labels), h)
    PROVE  /\ h[1 .. 0] = 0
           /\ \A k \in Nat : k < Len(labels) =>
                h[1 .. k + 1] = TlsBlock(form, labels[k + 1]) + h[1 .. k]
<1>1. DOMAIN labels = 1 .. Len(labels) /\ Len(labels) \in Nat
  BY LenProperties
<1>2. h[1 .. 0] = 0
  <2>1. 1 .. 0 = {} /\ {} \in SUBSET DOMAIN labels
    OBVIOUS
  <2>2. h[{}] = 0
    BY <2>1 DEF Adds
  <2>3. QED
    BY <2>1, <2>2
<1>3. ASSUME NEW k \in Nat, k < Len(labels)
      PROVE  h[1 .. k + 1] = TlsBlock(form, labels[k + 1]) + h[1 .. k]
  <2> DEFINE s == 1 .. k + 1
  <2>1. s \in SUBSET DOMAIN labels /\ s # {} /\ k + 1 \in DOMAIN labels
    <3> DEFINE n == Len(labels)
    <3>1. n \in Nat /\ k + 1 <= n
      BY <1>1, <1>3
    <3> HIDE DEF n
    <3>2. 1 .. k + 1 \subseteq 1 .. n /\ k + 1 \in 1 .. n /\ k + 1 \in 1 .. k + 1
      BY <3>1
    <3>3. QED
      BY <1>1, <3>2 DEF n
  <2>2. Lowest(labels)[s] = k + 1 /\ s \ {k + 1} = 1 .. k
    BY <2>1, LastIs DEF Lowest
  <2>3. BlockOf(form, labels)[k + 1] = TlsBlock(form, labels[k + 1])
    BY <2>1 DEF BlockOf
  <2> HIDE DEF s
  <2>4. h[s] = BlockOf(form, labels)[Lowest(labels)[s]] + h[s \ {Lowest(labels)[s]}]
    BY <2>1 DEF Adds
  <2>5. QED
    BY <2>2, <2>3, <2>4 DEF s
<1>4. QED
  BY <1>2, <1>3

LEMMA BlockIs ==
    ASSUME NEW form, NEW lines \in Nat
    PROVE  /\ TlsRowHeight(form) \in {32, 48} /\ TlsHeader(lines) \in Nat
           /\ form = "completion" => TlsRowHeight(form) = 48
           /\ TlsBlock(form, lines) = TlsHeader(lines) + 4 * TlsRowHeight(form) + 12
           /\ TlsBlock(form, lines) \in Nat
<1>1. TlsRowHeight(form) \in {32, 48} /\ (form = "completion" => TlsRowHeight(form) = 48)
  BY DEF TlsRowHeight
<1>2. TlsHeader(lines) \in Nat
  BY DEF TlsHeader
<1>3. QED
  BY <1>1, <1>2 DEF TlsBlock

(* Block by block, each begins where the one before it ends.               *)
LEMMA TlsHeights ==
    ASSUME NEW labels \in Seq(Nat), NEW form
    PROVE  LET H(k) == TlsBlocks(form, SubSeq(labels, 1, k))
           IN  /\ \A k \in 0 .. Len(labels) : H(k) \in Nat
               /\ \A k \in Nat : k < Len(labels) => H(k + 1) = H(k) + TlsBlock(form, labels[k + 1])
               /\ H(Len(labels)) = TlsBlocks(form, labels)
<1> DEFINE n == Len(labels)
           H(k) == TlsBlocks(form, SubSeq(labels, 1, k))
<1>1. n \in Nat /\ \A i \in 1 .. n : labels[i] \in Nat
  BY LenProperties, ElementOfSeq
<1>2. PICK h : /\ Adds(DOMAIN labels, Lowest(labels), BlockOf(form, labels), h)
               /\ TlsBlocks(form, labels) = h[DOMAIN labels]
  BY BlocksFold
<1>3. /\ h[1 .. 0] = 0
      /\ \A k \in Nat : k < n => h[1 .. k + 1] = TlsBlock(form, labels[k + 1]) + h[1 .. k]
  BY <1>2, BlocksSteps
<1>4. ASSUME NEW m \in 0 .. n
      PROVE  H(m) = h[1 .. m] /\ h[1 .. m] \in Nat
  <2> DEFINE part == SubSeq(labels, 1, m)
  <2>1. /\ part \in Seq(Nat) /\ Len(part) = m
        /\ \A i \in 1 .. m : part[i] = labels[i]
    <3>1. m \in Nat /\ m <= n
      BY <1>1
    <3>2. QED
      BY <1>1, <3>1
  <2> HIDE DEF part
  <2>2. PICK g : /\ Adds(DOMAIN part, Lowest(part), BlockOf(form, part), g)
                 /\ TlsBlocks(form, part) = g[DOMAIN part]
    BY <2>1, BlocksFold
  <2>3. /\ g[1 .. 0] = 0
        /\ \A k \in Nat : k < m => g[1 .. k + 1] = TlsBlock(form, part[k + 1]) + g[1 .. k]
    <3>1. /\ g[1 .. 0] = 0
          /\ \A k \in Nat : k < Len(part) => g[1 .. k + 1] = TlsBlock(form, part[k + 1]) + g[1 .. k]
      <4>1. part \in Seq(Nat) /\ Adds(DOMAIN part, Lowest(part), BlockOf(form, part), g)
        BY <2>1, <2>2
      <4>2. ASSUME NEW l \in Seq(Nat), NEW a, Adds(DOMAIN l, Lowest(l), BlockOf(form, l), a)
            PROVE  /\ a[1 .. 0] = 0
                   /\ \A k \in Nat : k < Len(l) => a[1 .. k + 1] = TlsBlock(form, l[k + 1]) + a[1 .. k]
        BY <4>2, BlocksSteps
      <4> HIDE DEF H
      <4>3. QED
        BY <4>1, <4>2
    <3>2. QED
      BY <2>1, <3>1
  <2> DEFINE T == {k \in Nat : k <= m => g[1 .. k] = h[1 .. k] /\ h[1 .. k] \in Nat}
  <2>4. 0 \in T
    BY <1>3, <2>3
  <2>5. ASSUME NEW k \in Nat, k \in T
        PROVE  k + 1 \in T
    <3>1. SUFFICES ASSUME k + 1 <= m
                   PROVE  g[1 .. k + 1] = h[1 .. k + 1] /\ h[1 .. k + 1] \in Nat
      OBVIOUS
    <3>2. k < m /\ k < n /\ k + 1 \in 1 .. m /\ k + 1 \in 1 .. n /\ k <= m
      BY <1>1, <3>1
    <3>3. g[1 .. k] = h[1 .. k] /\ h[1 .. k] \in Nat
      BY <2>5, <3>2
    <3>4. /\ g[1 .. k + 1] = TlsBlock(form, part[k + 1]) + g[1 .. k]
          /\ h[1 .. k + 1] = TlsBlock(form, labels[k + 1]) + h[1 .. k]
      BY <1>3, <2>3, <3>2
    <3>5. part[k + 1] = labels[k + 1] /\ TlsBlock(form, labels[k + 1]) \in Nat
      BY <1>1, <2>1, <3>2, BlockIs
    <3>6. QED
      BY <3>3, <3>4, <3>5
  <2> HIDE DEF T
  <2>6. Nat \subseteq T
    BY <2>4, <2>5, SetInduction
  <2>7. m \in T /\ m <= m
    BY <1>1, <2>6
  <2>8. g[1 .. m] = h[1 .. m] /\ h[1 .. m] \in Nat
    BY <2>7 DEF T
  <2>9. DOMAIN part = 1 .. m
    BY <2>1, LenProperties
  <2>10. QED
    BY <2>2, <2>8, <2>9 DEF part
<1>5. SubSeq(labels, 1, n) = labels
  <2>1. DOMAIN labels = 1 .. n
    BY LenProperties
  <2>2. QED
    BY <1>1, <2>1
<1>6. ASSUME NEW k \in Nat, k < n
      PROVE  H(k + 1) = H(k) + TlsBlock(form, labels[k + 1])
  <2>1. k \in 0 .. n /\ k + 1 \in 0 .. n /\ k + 1 \in 1 .. n
    BY <1>1, <1>6
  <2>2. H(k + 1) = h[1 .. k + 1] /\ H(k) = h[1 .. k] /\ H(k) \in Nat
    BY <1>4, <2>1
  <2>3. h[1 .. k + 1] = TlsBlock(form, labels[k + 1]) + h[1 .. k]
    BY <1>3, <1>6
  <2>4. TlsBlock(form, labels[k + 1]) \in Nat
    BY <1>1, <2>1, BlockIs
  <2> HIDE DEF H
  <2>5. QED
    BY <2>2, <2>3, <2>4
<1>7. \A k \in 0 .. n : H(k) \in Nat
  BY <1>4
<1>8. QED
  BY <1>5, <1>6, <1>7

----------------------------------------------------------------------------
(* Pixels.                                                                 *)

(* A length in proportion to a position, and one that counts from the top. *)
LEMMA StretchOne ==
    ASSUME NEW w \in Nat, Resolution <= 4 * w, NEW x \in 0 .. Resolution, NEW y \in 0 .. Resolution
    PROVE  LET a == (x * w) \div Resolution
               b == (y * w) \div Resolution
           IN  a \in 0 .. w /\ (x <= y => a <= b) /\ (x + 4 <= y => a < b)
<1> DEFINE m == x * w
           n == y * w
<1>1. m \in Nat /\ n \in Nat /\ 1000 \in Nat \ {0} /\ x \in Nat /\ y \in Nat /\ x <= 1000 /\ 1000 <= 4 * w
  BY DEF Resolution
<1>2. (x * w) \div 1000 \in 0 .. w
  BY <1>1, DivWithin
<1>3. x <= y => m <= n
  BY <1>1
<1>4. x + 4 <= y => m + 1 * 1000 <= n
  <2>1. SUFFICES ASSUME x + 4 <= y
                 PROVE  m + 1000 <= n
    BY <1>1
  <2>2. (x + 4) * w <= n
    BY <1>1, <2>1
  <2>3. (x + 4) * w = m + 4 * w
    BY <1>1
  <2> HIDE DEF m, n
  <2>4. QED
    BY <1>1, <2>2, <2>3
<1> HIDE DEF m, n
<1>5. x <= y => m \div 1000 <= n \div 1000
  BY <1>1, <1>3, DivSteady
<1>6. x + 4 <= y => m \div 1000 + 1 <= n \div 1000
  BY <1>1, <1>4, DivShift
<1>7. m \div 1000 \in Int /\ n \div 1000 \in Int
  BY <1>1
<1>8. QED
  BY <1>2, <1>5, <1>6, <1>7 DEF m, n, Resolution

LEMMA Stretch ==
    ASSUME NEW w \in Nat, Resolution <= 4 * w, NEW x \in 0 .. Resolution, NEW y \in 0 .. Resolution
    PROVE  LET a == (x * w) \div Resolution
               b == (y * w) \div Resolution
               c == ((Resolution - x) * w) \div Resolution
               d == ((Resolution - y) * w) \div Resolution
           IN  /\ a \in 0 .. w /\ (x <= y => a <= b) /\ (x + 4 <= y => a < b)
               /\ c \in 0 .. w /\ (x <= y => d <= c) /\ (x + 4 <= y => d < c)
<1> DEFINE u == Resolution - x
           v == Resolution - y
           a == (x * w) \div Resolution
           b == (y * w) \div Resolution
           c == (u * w) \div Resolution
           d == (v * w) \div Resolution
<1>1. a \in 0 .. w /\ (x <= y => a <= b) /\ (x + 4 <= y => a < b)
  BY StretchOne
<1>2. /\ u \in 0 .. Resolution /\ v \in 0 .. Resolution
      /\ (x <= y => v <= u) /\ (x + 4 <= y => v + 4 <= u)
  BY DEF Resolution
<1> HIDE DEF u, v
<1>3. c \in 0 .. w /\ (v <= u => d <= c) /\ (v + 4 <= u => d < c)
  <2>1. c \in 0 .. w
    BY <1>2, StretchOne
  <2>2. (v <= u => d <= c) /\ (v + 4 <= u => d < c)
    BY <1>2, StretchOne
  <2>3. QED
    BY <2>1, <2>2
<1> HIDE DEF a, b, c, d
<1>4. /\ c \in 0 .. w /\ (x <= y => d <= c) /\ (x + 4 <= y => d < c)
  BY <1>2, <1>3
<1>5. QED
  BY <1>1, <1>4 DEF u, v, a, b, c, d

LEMMA AlongIs ==
    ASSUME NEW axis, NEW V, Reads(axis, V), NEW left \in Nat, NEW w \in Nat, Resolution <= 4 * w,
           NEW x \in V, NEW y \in V
    PROVE  /\ Along(axis, x, left, w) \in left .. left + w
           /\ x <= y => Along(axis, x, left, w) <= Along(axis, y, left, w)
           /\ (axis.mode = "logarithmic" /\ x < y /\ 2 * x <= y) =>
                Along(axis, x, left, w) < Along(axis, y, left, w)
<1> DEFINE p == Position(axis, x)
           q == Position(axis, y)
           a == (p * w) \div Resolution
           b == (q * w) \div Resolution
<1>1. /\ p \in 0 .. Resolution /\ q \in 0 .. Resolution
      /\ x <= y => p <= q
      /\ (axis.mode = "logarithmic" /\ x < y /\ 2 * x <= y) => p + 4 <= q
  BY Zenon DEF Reads
<1> HIDE DEF p, q
<1>2. a \in 0 .. w /\ b \in 0 .. w /\ (p <= q => a <= b) /\ (p + 4 <= q => a < b)
  <2>1. a \in 0 .. w /\ (p <= q => a <= b) /\ (p + 4 <= q => a < b)
    BY <1>1, StretchOne
  <2>2. b \in 0 .. w
    BY <1>1, StretchOne
  <2>3. QED
    BY <2>1, <2>2
<1>3. Along(axis, x, left, w) = left + a /\ Along(axis, y, left, w) = left + b
  BY DEF Along, p, q
<1> HIDE DEF a, b
<1>4. QED
  BY <1>1, <1>2, <1>3

(* What is drawn on a page is measured from the zero of its axis, along or *)
(* up the plot, a dot by its centre, and comes out as a function of the    *)
(* value.                                                                  *)
Length(upright, ranges, d) ==
    IF upright THEN d[1].box.y2 - d[2].box.y1
    ELSE IF ranges THEN (d[2].box.x1 + d[2].box.x2) \div 2 - d[1].box.x1
    ELSE d[2].box.x2 - d[1].box.x1

Measures(page, axis, upright, ranges, V, R) ==
    /\ page.axis = axis
    /\ \A d \in Drawings(page) : d[2].value \in V /\ Length(upright, ranges, d) = R[d[2].value]

(* Such a function tells the larger value: all but a stub that stands for  *)
(* zero and passes for a little, or on a chart of ranges what is off the   *)
(* scale.                                                                  *)
Tells(axis, V, R, stub, ranges) ==
    /\ \A v, w \in V : (v <= w /\ ~(stub /\ PassesFor(axis, v, w))) => R[v] <= R[w]
    /\ axis.mode = "linear" => Ticks(axis) \in 4 .. 7
    /\ axis.mode = "logarithmic" =>
        /\ 2 <= Ticks(axis)
        /\ \A v, w \in V : (v < w /\ 2 * v <= w /\ (ranges => w <= ClipAt)) => R[v] < R[w]

(* Pages that are read together, all on one axis.                          *)
Reading(pages, upright, stub, ranges) ==
    \E axis, V, R : /\ V \subseteq Nat
                    /\ \A page \in pages : Measures(page, axis, upright, ranges, V, R)
                    /\ Tells(axis, V, R, stub, ranges)

Clear(pages, upright, stub, ranges) ==
    (\A page \in pages : Tidy(page, ranges)) /\ Reading(pages, upright, stub, ranges)

LEMMA ReadingOne ==
    ASSUME NEW page, NEW axis, NEW V, NEW R, NEW upright, NEW stub, NEW ranges,
           V \subseteq Nat, Measures(page, axis, upright, ranges, V, R), Tells(axis, V, R, stub, ranges)
    PROVE  Reading({page}, upright, stub, ranges)
<1>1. \A p \in {page} : Measures(p, axis, upright, ranges, V, R)
  OBVIOUS
<1>2. QED
  BY <1>1, Zenon DEF Reading

LEMMA ClearOne ==
    ASSUME NEW page, NEW axis, NEW V, NEW R, NEW upright, NEW stub, NEW ranges,
           Tidy(page, ranges), V \subseteq Nat, Measures(page, axis, upright, ranges, V, R),
           Tells(axis, V, R, stub, ranges)
    PROVE  Clear({page}, upright, stub, ranges)
<1>1. \A p \in {page} : Tidy(p, ranges)
  OBVIOUS
<1>2. Reading({page}, upright, stub, ranges)
  BY ReadingOne
<1>3. QED
  BY <1>1, <1>2, Zenon DEF Clear

(* A page with one plot, nothing outside of it and nothing over another.   *)
Roomy(box, width, height, marks, ranges) ==
    /\ Within(box, Box(0, width, 0, height))
    /\ \A m \in marks : Within(m.box, Room(box, Spill(ranges)))
    /\ \A m, n \in marks : m.of # n.of => ~Overlap(m.box, n.box)

SheetOf(page, axis, box, marks, ranges) ==
    /\ Tidy(page, ranges) /\ page.axis = axis
    /\ UNION {plot.marks : plot \in page.plots} = marks
    /\ \A d \in Drawings(page) : d[1].box = box /\ d[2] \in marks

LEMMA SheetIs ==
    ASSUME NEW name, NEW width, NEW height, NEW axis, NEW box, NEW marks, NEW ranges,
           Roomy(box, width, height, marks, ranges)
    PROVE  SheetOf(Sheet(name, width, height, axis, box, marks), axis, box, marks, ranges)
<1> DEFINE page == Sheet(name, width, height, axis, box, marks)
           plot == Plot(box, marks)
<1>0. /\ Within(box, Box(0, width, 0, height))
      /\ \A m \in marks : Within(m.box, Room(box, Spill(ranges)))
      /\ \A m, n \in marks : m.of # n.of => ~Overlap(m.box, n.box)
  BY Zenon DEF Roomy
<1>1. page.axis = axis /\ page.plots = {plot} /\ page.width = width /\ page.height = height
  BY DEF Sheet, Page
<1>2. plot.box = box /\ plot.marks = marks
  BY DEF Plot
<1> HIDE DEF page, plot
<1>3. UNION {pl.marks : pl \in page.plots} = marks
  BY <1>1, <1>2
<1>4. ASSUME NEW d \in Drawings(page)
      PROVE  d[1] = plot /\ d[2] \in marks /\ d = <<plot, d[2]>>
  BY <1>1, <1>2 DEF Drawings
<1>5. ASSUME NEW d \in Drawings(page), NEW e \in Drawings(page)
      PROVE  /\ Within(d[2].box, Room(d[1].box, Spill(ranges)))
             /\ d[2].of # e[2].of => ~Overlap(d[2].box, e[2].box)
  <2>1. d[1].box = box /\ d[2] \in marks /\ e[2] \in marks
    BY <1>2, <1>4
  <2>2. QED
    BY <1>0, <2>1, Zenon
<1>6. Tidy(page, ranges)
  <2>1. ASSUME NEW pl \in page.plots
        PROVE  /\ Within(pl.box, Box(0, page.width, 0, page.height))
               /\ \A other \in page.plots \ {pl} : ~Overlap(pl.box, other.box)
    BY <1>0, <1>1, <1>2
  <2>2. QED
    BY <1>5, <2>1, Zenon DEF Tidy
<1>7. \A d \in Drawings(page) : d[1].box = box /\ d[2] \in marks
  BY <1>2, <1>4
<1>8. QED
  BY <1>1, <1>3, <1>6, <1>7, Zenon DEF page, SheetOf

LEMMA SheetHolds ==
    ASSUME NEW name, NEW width, NEW height, NEW axis, NEW box, NEW marks
    PROVE  LET page == Sheet(name, width, height, axis, box, marks)
           IN  page.axis = axis /\ \A d \in Drawings(page) : d[1].box = box /\ d[2] \in marks
<1> DEFINE page == Sheet(name, width, height, axis, box, marks)
           plot == Plot(box, marks)
<1>1. page.axis = axis /\ page.plots = {plot}
  BY DEF Sheet, Page
<1>2. plot.box = box /\ plot.marks = marks
  BY DEF Plot
<1> HIDE DEF page, plot
<1>3. ASSUME NEW d \in Drawings(page)
      PROVE  d[1].box = box /\ d[2] \in marks
  BY <1>1, <1>2 DEF Drawings
<1>4. QED
  BY <1>1, <1>3 DEF page

(* Nothing spills over but dots.                                           *)
LEMMA RoomIs ==
    ASSUME NEW box, box.x1 \in Int, box.x2 \in Int, NEW b, Within(b, box)
    PROVE  Within(b, Room(box, Spill(FALSE)))
<1> DEFINE room == Room(box, Spill(FALSE))
           left == box.x1 - 0
           right == box.x2 + 0
<1>1. room = [x1 |-> left, x2 |-> right, y1 |-> box.y1, y2 |-> box.y2]
  BY DEF Room, Spill, Box
<1>2. left = box.x1 /\ right = box.x2
  OBVIOUS
<1> HIDE DEF room, left, right
<1>3. room.x1 = box.x1 /\ room.x2 = box.x2 /\ room.y1 = box.y1 /\ room.y2 = box.y2
  BY <1>1, <1>2
<1>4. Within(b, room)
  BY <1>2, <1>3, Zenon DEF Within
<1>5. QED
  BY <1>4 DEF room

LEMMA PlainSheet ==
    ASSUME NEW name, NEW width, NEW height, NEW axis, NEW box, NEW marks,
           Within(box, Box(0, width, 0, height)), box.x1 \in Int, box.x2 \in Int,
           \A m \in marks : Within(m.box, box),
           \A m, n \in marks : m # n => ~Overlap(m.box, n.box)
    PROVE  SheetOf(Sheet(name, width, height, axis, box, marks), axis, box, marks, FALSE)
<1>1. \A m \in marks : Within(m.box, Room(box, Spill(FALSE)))
  BY RoomIs
<1>2. \A m, n \in marks : m.of # n.of => ~Overlap(m.box, n.box)
  OBVIOUS
<1>3. Roomy(box, width, height, marks, FALSE)
  BY <1>1, <1>2, Zenon DEF Roomy
<1>4. QED
  BY <1>3, SheetIs, Zenon

----------------------------------------------------------------------------
(* Timelines.                                                              *)
Upward(axis, V, h) == [v \in V |-> h - ((Resolution - Position(axis, v)) * h) \div Resolution]

LEMMA UpwardTells ==
    ASSUME NEW axis, NEW V, Reads(axis, V), NEW h \in Nat, Resolution <= 4 * h
    PROVE  Tells(axis, V, Upward(axis, V, h), FALSE, FALSE)
<1> DEFINE R == Upward(axis, V, h)
<1>1. ASSUME NEW x \in V, NEW y \in V
      PROVE  /\ x <= y => R[x] <= R[y]
             /\ (axis.mode = "logarithmic" /\ x < y /\ 2 * x <= y) => R[x] < R[y]
  <2> DEFINE p == Position(axis, x)
             q == Position(axis, y)
             c == ((Resolution - p) * h) \div Resolution
             d == ((Resolution - q) * h) \div Resolution
  <2>1. /\ p \in 0 .. Resolution /\ q \in 0 .. Resolution
        /\ x <= y => p <= q
        /\ (axis.mode = "logarithmic" /\ x < y /\ 2 * x <= y) => p + 4 <= q
    BY Zenon DEF Reads
  <2>2. R[x] = h - c /\ R[y] = h - d
    BY DEF Upward
  <2> HIDE DEF p, q, R
  <2>3. c \in 0 .. h /\ (p <= q => d <= c) /\ (p + 4 <= q => d < c)
    BY <2>1, Stretch
  <2>4. d \in 0 .. h
    BY <2>1, Stretch
  <2> HIDE DEF c, d
  <2>5. QED
    BY <2>1, <2>2, <2>3, <2>4
<1> HIDE DEF R
<1>2. (axis.mode = "linear" => Ticks(axis) \in 4 .. 7) /\ (axis.mode = "logarithmic" => 2 <= Ticks(axis))
  BY Zenon DEF Reads
<1>3. Tells(axis, V, R, FALSE, FALSE)
  BY <1>1, <1>2, Zenon DEF Tells
<1>4. QED
  BY <1>3 DEF R

InTime(q, times) == q.second \in Nat /\ 100 * q.second <= times.upper

(* A plot of points over its axes, and a mark in it.                       *)
Plotting(times, axis, V, left, width, top, height) ==
    /\ times.mode = "linear" /\ times.upper \in Nat \ {0}
    /\ Reads(axis, V)
    /\ left \in Nat /\ width \in Nat /\ top \in Nat /\ height \in Nat
    /\ Resolution <= 4 * width /\ Resolution <= 4 * height

Plotted(m, axis, V, left, width, top, height) ==
    /\ m.value \in V
    /\ Within(m.box, Box(left, left + width, top, top + height))
    /\ m.box.x1 \in Int /\ m.box.x2 = m.box.x1
    /\ (top + height) - m.box.y1 = Upward(axis, V, height)[m.value]

LEMMA PointIs ==
    ASSUME NEW times, NEW axis, NEW V, NEW left, NEW width, NEW top, NEW height,
           Plotting(times, axis, V, left, width, top, height),
           NEW q, InTime(q, times), PointValue(q) \in V
    PROVE  Plotted(PointMark(q, times, axis, left, width, top, height), axis, V, left, width, top, height)
<1> DEFINE p == Position(times, 10 * q.second)
           x == left + (p * width) \div Resolution
           u == Position(axis, PointValue(q))
           y == top + ((Resolution - u) * height) \div Resolution
<1>0. /\ times.mode = "linear" /\ times.upper \in Nat \ {0} /\ Reads(axis, V)
      /\ left \in Nat /\ width \in Nat /\ top \in Nat /\ height \in Nat
      /\ Resolution <= 4 * width /\ Resolution <= 4 * height
  BY DEF Plotting
<1>1. p \in 0 .. Resolution
  <2> DEFINE v == 10 * q.second
  <2>1. v \in Nat /\ v <= v /\ 10 * v <= times.upper
    BY <1>0 DEF InTime
  <2> HIDE DEF v
  <2>2. Position(times, v) \in 0 .. Resolution
    BY <1>0, <2>1, LinearPosition
  <2>3. QED
    BY <2>2 DEF v
<1>2. u \in 0 .. Resolution
  BY <1>0, Zenon DEF Reads
<1>3. PointMark(q, times, axis, left, width, top, height)
          = Mark(<<q.repeat, q.segment, q.second>>, PointValue(q), Box(x, x, y, y))
  BY DEF PointMark, Along
<1>4. Upward(axis, V, height)[PointValue(q)] = height - ((Resolution - u) * height) \div Resolution
  BY DEF Upward
<1> HIDE DEF p, u
<1>5. (p * width) \div Resolution \in 0 .. width
  BY <1>0, <1>1, StretchOne
<1>6. ((Resolution - u) * height) \div Resolution \in 0 .. height
  BY <1>0, <1>2, Stretch
<1> DEFINE c == ((Resolution - u) * height) \div Resolution
<1>7. y = top + c /\ c \in 0 .. height
  BY <1>0, <1>6
<1>8. x \in left .. left + width /\ y \in top .. top + height
  BY <1>0, <1>5, <1>7
<1> DEFINE m == PointMark(q, times, axis, left, width, top, height)
<1>9. m.value = PointValue(q) /\ m.box = [x1 |-> x, x2 |-> x, y1 |-> y, y2 |-> y]
  BY <1>3 DEF Mark, Box
<1>10. (top + height) - y = height - c
  BY <1>0, <1>7
<1>11. Box(left, left + width, top, top + height)
          = [x1 |-> left, x2 |-> left + width, y1 |-> top, y2 |-> top + height]
  BY DEF Box
<1> HIDE DEF x, y, m
<1>12. Within(m.box, Box(left, left + width, top, top + height))
  BY <1>0, <1>8, <1>9, <1>11 DEF Within
<1>13. /\ m.value \in V /\ m.box.x1 \in Int /\ m.box.x2 = m.box.x1
       /\ (top + height) - m.box.y1 = Upward(axis, V, height)[m.value]
  BY <1>0, <1>4, <1>8, <1>9, <1>10
<1>14. QED
  BY <1>12, <1>13, Zenon DEF m, Plotted

(* Marks without a width cover nothing.                                    *)
LEMMA PointsApart ==
    ASSUME NEW a, NEW b, a.x1 \in Int, b.x1 \in Int, a.x2 = a.x1, b.x2 = b.x1
    PROVE  ~Overlap(a, b)
BY DEF Overlap

PointsFit(points) ==
    /\ points # {}
    /\ \A q \in points : q.second \in 0 .. Highest \div 10 /\ PointValue(q) \in 0 .. Highest

LEMMA PointsRead ==
    ASSUME NEW points, PointsFit(points), NEW mode \in {"linear", "logarithmic"}
    PROVE  LET V == {PointValue(q) : q \in points}
               times == TimeAxis({q.second : q \in points})
           IN  /\ V \subseteq 0 .. Highest /\ V # {}
               /\ Reads(ValueAxis(V, mode, 0), V)
               /\ times.mode = "linear" /\ times.upper \in Nat \ {0}
               /\ \A q \in points : InTime(q, times)
<1> DEFINE V == {PointValue(q) : q \in points}
           S == {q.second : q \in points}
           times == TimeAxis(S)
<1>1. V \subseteq 0 .. Highest /\ V # {} /\ S \subseteq 0 .. Highest \div 10 /\ S # {}
  BY Zenon DEF PointsFit
<1>2. \A q \in points : q.second \in S /\ q.second \in 0 .. Highest \div 10
  BY DEF PointsFit
<1> HIDE DEF V, S
<1>3. Reads(ValueAxis(V, mode, 0), V)
  BY <1>1, ValueAxisReads
<1>4. times.mode = "linear" /\ times.upper \in Nat \ {0} /\ \A x \in S : 100 * x <= times.upper
  BY <1>1, TimeAxisIs
<1>5. \A q \in points : InTime(q, times)
  BY <1>2, <1>4 DEF InTime
<1>6. QED
  BY <1>1, <1>3, <1>4, <1>5 DEF V, S

LEMMA PointsPlotted ==
    ASSUME NEW points, NEW times, NEW axis, NEW V, NEW left, NEW width, NEW top, NEW height,
           Plotting(times, axis, V, left, width, top, height),
           \A q \in points : InTime(q, times) /\ PointValue(q) \in V
    PROVE  \A m \in {PointMark(q, times, axis, left, width, top, height) : q \in points} :
                Plotted(m, axis, V, left, width, top, height)
BY PointIs

LEMMA PlottedApart ==
    ASSUME NEW m, NEW n, NEW axis, NEW V, NEW left, NEW width, NEW height, NEW top, NEW other,
           Plotted(m, axis, V, left, width, top, height),
           Plotted(n, axis, V, left, width, other, height)
    PROVE  ~Overlap(m.box, n.box)
BY PointsApart DEF Plotted

LEMMA TimeSeriesIs ==
    ASSUME NEW points, PointsFit(points), NEW mode \in {"linear", "logarithmic"}
    PROVE  Clear({TimeSeries(points, mode)}, TRUE, FALSE, FALSE)
<1> DEFINE V == {PointValue(q) : q \in points}
           times == TimeAxis({q.second : q \in points})
           axis == ValueAxis(V, mode, 0)
           left == 105
           width == 1660
           top == 92
           height == 416
           box == Box(left, left + width, top, top + height)
           marks == {PointMark(q, times, axis, left, width, top, height) : q \in points}
           page == TimeSeries(points, mode)
           R == Upward(axis, V, height)
<1>1. page = Sheet("timeline", 1800, 620, axis, box, marks)
  BY DEF TimeSeries
<1>2. /\ V \subseteq 0 .. Highest /\ Reads(axis, V)
      /\ times.mode = "linear" /\ times.upper \in Nat \ {0}
      /\ \A q \in points : InTime(q, times)
  BY PointsRead
<1>3. V \subseteq Nat /\ \A q \in points : PointValue(q) \in V
  BY <1>2, HighestIs
<1>4. /\ left \in Nat /\ width \in Nat /\ top \in Nat /\ height \in Nat
      /\ Resolution <= 4 * width /\ Resolution <= 4 * height
  BY DEF Resolution
<1>5. Within(box, Box(0, 1800, 0, 620)) /\ box.y2 = top + height
  BY DEF Within, Box
<1>0. box.x1 \in Int /\ box.x2 \in Int
  BY DEF Box
<1> HIDE DEF V, times, axis, page, left, width, top, height
<1>6. /\ \A m \in marks : /\ Within(m.box, box) /\ m.value \in V
                           /\ (top + height) - m.box.y1 = R[m.value]
      /\ \A m, n \in marks : m # n => ~Overlap(m.box, n.box)
  <2>1. \A q \in points : InTime(q, times) /\ PointValue(q) \in V
    BY <1>2, <1>3
  <2>2. Plotting(times, axis, V, left, width, top, height)
    BY <1>2, <1>4, Zenon DEF Plotting
  <2>3. \A m \in marks : Plotted(m, axis, V, left, width, top, height)
    BY <2>1, <2>2, PointsPlotted
  <2> HIDE DEF marks
  <2>4. \A m, n \in marks : m # n => ~Overlap(m.box, n.box)
    BY <2>3, PlottedApart
  <2>5. QED
    BY <2>3, <2>4, Zenon DEF Plotted
<1> HIDE DEF marks, box
<1>7. /\ Tidy(page, FALSE) /\ page.axis = axis
      /\ \A d \in Drawings(page) : d[1].box = box /\ d[2] \in marks
  <2> DEFINE w == 1800
             h == 620
  <2>1. page = Sheet("timeline", w, h, axis, box, marks) /\ Within(box, Box(0, w, 0, h))
    BY <1>1, <1>5
  <2> HIDE DEF w, h, R, V
  <2>2. \A m \in marks : Within(m.box, box)
    BY <1>6
  <2>3. \A m, n \in marks : m # n => ~Overlap(m.box, n.box)
    BY <1>6
  <2>4. SheetOf(page, axis, box, marks, FALSE)
    BY <1>0, <2>1, <2>2, <2>3, PlainSheet
  <2>5. QED
    BY <2>4, Zenon DEF SheetOf
<1>8. Tells(axis, V, R, FALSE, FALSE)
  BY <1>2, <1>4, UpwardTells
<1> HIDE DEF R
<1>9. Measures(page, axis, TRUE, FALSE, V, R)
  <2>1. ASSUME NEW d \in Drawings(page)
        PROVE  d[2].value \in V /\ Length(TRUE, FALSE, d) = R[d[2].value]
    <3>1. d[1].box.y2 = top + height /\ d[2] \in marks
      BY <1>5, <1>7
    <3>2. Length(TRUE, FALSE, d) = d[1].box.y2 - d[2].box.y1
      BY DEF Length
    <3>3. d[2].value \in V /\ (top + height) - d[2].box.y1 = R[d[2].value]
      BY <1>6, <3>1
    <3> HIDE DEF Length
    <3>4. Length(TRUE, FALSE, d) = (top + height) - d[2].box.y1
      BY <3>1, <3>2, Zenon
    <3>5. QED
      BY <3>3, <3>4, Zenon
  <2>2. QED
    BY <1>7, <2>1, Zenon DEF Measures
<1>10. QED
  BY <1>3, <1>7, <1>8, <1>9, ClearOne DEF page

(* The panels of a race: one below the other, each with its own points.    *)
LEMMA SmallMultiplesIs ==
    ASSUME NEW points, PointsFit(points), SmallMultiples(points) # None
    PROVE  Clear({SmallMultiples(points)}, TRUE, FALSE, FALSE)
<1> DEFINE V == {PointValue(q) : q \in points}
           times == TimeAxis({q.second : q \in points})
           axis == LinearAxis(Max(V))
           left == 105
           width == 1660
           height == 285
           top(r) == 105 + r * (285 + 55)
           own(r) == {q \in points : q.repeat = r}
           box(r) == Box(left, left + width, top(r), top(r) + height)
           marks(r) == {PointMark(q, times, axis, left, width, top(r), height) : q \in own(r)}
           page == SmallMultiples(points)
           R == Upward(axis, V, height)
<1>1. /\ page.axis = axis /\ page.width = 1800 /\ page.height = 1145
      /\ page.plots = {Plot(box(r), marks(r)) : r \in Repeats}
  <2>1. page = Page("race", 1800, 105 + 75 + 3 * 285 + 2 * 55, axis, Panels(points, times, axis))
    BY DEF SmallMultiples
  <2>2. Panels(points, times, axis) = {Plot(box(r), marks(r)) : r \in Repeats}
    BY DEF Panels
  <2> HIDE DEF axis, box, marks, times
  <2>3. QED
    BY <2>1, <2>2 DEF Page
<1>2. /\ V \subseteq 0 .. Highest /\ Reads(axis, V)
      /\ times.mode = "linear" /\ times.upper \in Nat \ {0}
      /\ \A q \in points : InTime(q, times)
  <2>1. "linear" \in {"linear", "logarithmic"}
    OBVIOUS
  <2>2. axis = ValueAxis(V, "linear", 0)
    BY DEF ValueAxis
  <2> HIDE DEF axis
  <2>3. QED
    BY <2>1, <2>2, PointsRead
<1>3. V \subseteq Nat /\ \A q \in points : PointValue(q) \in V
  BY <1>2, HighestIs
<1>4. /\ left \in Nat /\ width \in Nat /\ height \in Nat
      /\ Resolution <= 4 * width /\ Resolution <= 4 * height
  BY DEF Resolution
<1>5. ASSUME NEW r \in Repeats
      PROVE  /\ top(r) \in Nat
             /\ Within(box(r), Box(0, 1800, 0, 1145)) /\ box(r).y2 = top(r) + height
             /\ box(r).x1 \in Int /\ box(r).x2 \in Int
             /\ \A o \in Repeats : r # o => ~Overlap(box(r), box(o))
  BY DEF Within, Box, Overlap, Repeats
<1> HIDE DEF V, times, axis, page, left, width, top, height
<1>6. ASSUME NEW r \in Repeats
      PROVE  \A m \in marks(r) : /\ Within(m.box, box(r)) /\ m.value \in V
                                  /\ (top(r) + height) - m.box.y1 = R[m.value]
                                  /\ Plotted(m, axis, V, left, width, top(r), height)
  <2>1. \A q \in own(r) : InTime(q, times) /\ PointValue(q) \in V
    BY <1>2, <1>3
  <2> HIDE DEF R
  <2> DEFINE start == top(r)
             some == own(r)
  <2>2. start \in Nat
    BY <1>5
  <2> HIDE DEF start, some
  <2>3. \A q \in some : InTime(q, times) /\ PointValue(q) \in V
    BY <2>1 DEF some
  <2>4. Plotting(times, axis, V, left, width, start, height)
    BY <1>2, <1>4, <2>2, Zenon DEF Plotting
  <2>5. \A m \in {PointMark(q, times, axis, left, width, start, height) : q \in some} :
            Plotted(m, axis, V, left, width, start, height)
    BY <2>3, <2>4, PointsPlotted
  <2>6. \A m \in marks(r) : Plotted(m, axis, V, left, width, top(r), height)
    BY <2>5 DEF start, some
  <2> HIDE DEF marks
  <2>7. QED
    BY <2>6, Zenon DEF Plotted, R
<1> HIDE DEF marks, box, R
<1>7. ASSUME NEW d \in Drawings(page)
      PROVE  \E r \in Repeats : /\ d[1].box = box(r) /\ d[2] \in marks(r)
  <2>1. PICK plot \in page.plots : d \in {<<plot, mark>> : mark \in plot.marks}
    BY DEF Drawings
  <2>2. d[1] = plot /\ d[2] \in plot.marks
    BY <2>1
  <2>3. PICK r \in Repeats : plot = Plot(box(r), marks(r))
    BY <1>1
  <2>4. QED
    BY <2>2, <2>3 DEF Plot
<1>8. ASSUME NEW plot \in page.plots
      PROVE  /\ Within(plot.box, Box(0, page.width, 0, page.height))
             /\ \A other \in page.plots \ {plot} : ~Overlap(plot.box, other.box)
  <2>1. PICK r \in Repeats : plot = Plot(box(r), marks(r))
    BY <1>1
  <2>2. ASSUME NEW other \in page.plots \ {plot}
        PROVE  ~Overlap(plot.box, other.box)
    <3>1. PICK o \in Repeats : other = Plot(box(o), marks(o))
      BY <1>1
    <3>2. r # o /\ plot.box = box(r) /\ other.box = box(o)
      BY <2>1, <3>1 DEF Plot
    <3>3. QED
      BY <1>5, <3>2
  <2>3. plot.box = box(r)
    BY <2>1 DEF Plot
  <2>4. QED
    BY <1>1, <1>5, <2>2, <2>3
<1>9. ASSUME NEW d \in Drawings(page)
      PROVE  /\ Within(d[2].box, Room(d[1].box, Spill(FALSE))) /\ d[2].value \in V /\ Length(TRUE, FALSE, d) = R[d[2].value]
             /\ \E r : Plotted(d[2], axis, V, left, width, top(r), height)
  <2>1. PICK r \in Repeats : d[1].box = box(r) /\ d[2] \in marks(r)
    BY <1>7
  <2>2. /\ Within(d[2].box, box(r)) /\ d[2].value \in V
        /\ (top(r) + height) - d[2].box.y1 = R[d[2].value]
        /\ Plotted(d[2], axis, V, left, width, top(r), height)
    BY <1>6, <2>1
  <2>3. box(r).y2 = top(r) + height
    BY <1>5
  <2>4. Length(TRUE, FALSE, d) = d[1].box.y2 - d[2].box.y1
    BY DEF Length
  <2> HIDE DEF top
  <2>5. Length(TRUE, FALSE, d) = (top(r) + height) - d[2].box.y1
    BY <2>1, <2>3, <2>4, Zenon
  <2> HIDE DEF R, V
  <2>6. Within(d[2].box, Room(d[1].box, Spill(FALSE)))
    <3> DEFINE inner == d[2].box
               outer == box(r)
    <3>1. Within(inner, outer) /\ outer.x1 \in Int /\ outer.x2 \in Int
      BY <1>5, <2>2
    <3> HIDE DEF inner, outer
    <3>2. Within(inner, Room(outer, Spill(FALSE)))
      BY <3>1, RoomIs
    <3>3. QED
      BY <2>1, <3>2, Zenon DEF inner, outer
  <2>7. QED
    BY <2>1, <2>2, <2>5, <2>6, Zenon
<1>10. ASSUME NEW d \in Drawings(page), NEW e \in Drawings(page)
       PROVE  /\ Within(d[2].box, Room(d[1].box, Spill(FALSE)))
              /\ d[2].of # e[2].of => ~Overlap(d[2].box, e[2].box)
  <2> HIDE DEF top
  <2>1. ~Overlap(d[2].box, e[2].box)
    BY <1>9, PlottedApart
  <2>2. QED
    BY <1>9, <2>1
<1>11. Tidy(page, FALSE)
  BY <1>8, <1>10, Zenon DEF Tidy
<1>12. Measures(page, axis, TRUE, FALSE, V, R)
  <2>1. page.axis = axis
    BY <1>1
  <2>2. QED
    BY <1>9, <2>1, Zenon DEF Measures
<1>13. Tells(axis, V, R, FALSE, FALSE)
  BY <1>2, <1>4, UpwardTells DEF R
<1>14. QED
  BY <1>3, <1>11, <1>12, <1>13, ClearOne DEF page

(* A workload, on the axis of its kind.                                    *)
Level(family, v) == (278 * (WorkloadMaximum[family] - v)) \div WorkloadMaximum[family]
Levels == 0 .. 278

LEMMA LevelIs ==
    ASSUME NEW family \in {"baseline", "linear", "race"}, NEW v \in Nat, NEW w \in Nat
    PROVE  /\ Level(family, v) \in Int /\ Level(family, w) \in Int
           /\ v <= w => Level(family, w) <= Level(family, v)
           /\ Level(family, v) \in Levels <=> v <= WorkloadMaximum[family]
<1> DEFINE M == WorkloadMaximum[family]
<1>1. M \in {3200, 6000}
  BY DEF WorkloadMaximum
<1> HIDE DEF M
<1> DEFINE a == (278 * (M - v)) \div M
           b == (278 * (M - w)) \div M
<1>2. a \in Int /\ b \in Int /\ (v <= w => b <= a) /\ (a \in 0 .. 278 <=> v <= M)
  <2>1. CASE M = 3200
    BY <2>1
  <2>2. CASE M = 6000
    BY <2>2
  <2>3. QED
    BY <1>1, <2>1, <2>2
<1>3. QED
  BY <1>2 DEF M, Level, Levels

WorkloadFits(family, points) ==
    /\ family \in {"baseline", "linear", "race"} /\ points # {}
    /\ \A p \in points : p.time \in 0 .. Highest /\ p.value \in 0 .. Highest
    /\ Workload(family, points) # None

(* What is no larger than the axis lies in the plot, and only that.        *)
ShowsUpTo(page, max) ==
    \A d \in Drawings(page) : Within(d[2].box, d[1].box) <=> d[2].value <= max

LEMMA WorkloadIs ==
    ASSUME NEW family, NEW points, WorkloadFits(family, points)
    PROVE  /\ Reading({Workload(family, points)}, TRUE, FALSE, FALSE)
           /\ ShowsUpTo(Workload(family, points), WorkloadMaximum[family])
<1>0. /\ family \in {"baseline", "linear", "race"} /\ points # {}
      /\ \A p \in points : p.time \in 0 .. Highest /\ p.value \in 0 .. Highest
      /\ Workload(family, points) # None
  BY DEF WorkloadFits
<1> USE <1>0
<1> DEFINE M == WorkloadMaximum[family]
           V == {p.value : p \in points}
           S == {p.time : p \in points}
           first == Min(S)
           span == Max(S) - first
           x(t) == 92 + ((t - first) * 1680) \div span
           y(v) == 76 + Level(family, v)
           axis == [mode |-> "linear", upper |-> M, step |-> WorkloadTick[family]]
           box == Box(92, 1772, 76, 354)
           mark(p) == Mark(<<p.execution, p.time>>, p.value, Box(x(p.time), x(p.time), y(p.value), y(p.value)))
           marks == {mark(p) : p \in points}
           page == Workload(family, points)
           R == [v \in V |-> 354 - y(v)]
<1>1. page = Sheet("workload", 1800, 500, axis, box, marks) /\ span # 0
  BY DEF Workload, Level
<1>2. M \in {3200, 6000} /\ M \in Nat /\ (M = 3200 => axis.step = 500) /\ (M = 6000 => axis.step = 1000)
  BY DEF WorkloadMaximum, WorkloadTick
<1>3. V \subseteq Nat
  BY HighestIs
<1>4. Ticks(axis) \in 4 .. 7
  <2>1. axis.mode = "linear" /\ axis.upper = M
    OBVIOUS
  <2> HIDE DEF axis
  <2>2. Ticks(axis) = M \div axis.step + 1
    BY <2>1 DEF Ticks
  <2> HIDE DEF M
  <2>3. QED
    BY <1>2, <2>2
<1>5. /\ S # {} /\ first \in Nat /\ span \in Nat \ {0}
      /\ \A t \in S : t \in Nat /\ t - first \in Nat /\ t - first <= span
  <2>1. S \subseteq 0 .. Highest /\ S \subseteq Nat /\ S # {} /\ Highest \in Nat
    BY HighestIs
  <2> HIDE DEF S
  <2>2. Min(S) \in S /\ \A t \in S : Min(S) <= t
    BY <2>1, LeastNatural
  <2>3. Max(S) \in S /\ \A t \in S : t <= Max(S)
    BY <2>1, GreatestNatural
  <2>4. Min(S) \in Nat /\ Max(S) \in Nat /\ Min(S) <= Max(S)
    BY <2>1, <2>2, <2>3
  <2>5. QED
    BY <1>1, <2>1, <2>2, <2>3, <2>4
<1>6. ASSUME NEW p \in points
      PROVE  x(p.time) \in 92 .. 1772
  <2> DEFINE t == p.time
  <2>1. t \in S
    OBVIOUS
  <2> HIDE DEF t, S
  <2> DEFINE a == t - first
             b == span
  <2>2. a \in Nat /\ b \in Nat \ {0} /\ a <= b
    BY <1>5, <2>1
  <2> HIDE DEF a, b
  <2>3. (a * 1680) \div b \in 0 .. 1680
    BY <2>2, DivWithin
  <2> DEFINE c == (a * 1680) \div b
  <2>4. x(p.time) = 92 + c
    BY DEF a, b, t
  <2>5. c \in 0 .. 1680
    BY <2>3
  <2> HIDE DEF c, x
  <2>6. QED
    BY <2>4, <2>5
<1>7. ASSUME NEW v \in V, NEW w \in V
      PROVE  /\ y(v) \in Int /\ y(w) \in Int /\ (v <= w => y(w) <= y(v))
             /\ y(v) \in 76 .. 354 <=> v <= M
  <2>1. v \in Nat /\ w \in Nat
    BY <1>3
  <2> DEFINE c == Level(family, v)
             d == Level(family, w)
  <2> HIDE DEF V
  <2>2. c \in Int /\ d \in Int /\ (v <= w => d <= c) /\ (c \in Levels <=> v <= M)
    BY <2>1, LevelIs
  <2>3. y(v) = 76 + c /\ y(w) = 76 + d
    OBVIOUS
  <2> HIDE DEF c, d, y, M
  <2>4. QED
    BY <2>2, <2>3 DEF Levels
<1> HIDE DEF M, x, y, S, first, span, axis, page
<1>8. ASSUME NEW m \in marks
      PROVE  /\ m.value \in V /\ 354 - m.box.y1 = R[m.value]
             /\ Within(m.box, box) <=> m.value <= M
  <2>1. PICK p \in points : m = mark(p)
    OBVIOUS
  <2> DEFINE a == x(p.time)
             b == y(p.value)
  <2>2. p.value \in V /\ a \in 92 .. 1772 /\ b \in Int /\ R[p.value] = 354 - b
        /\ (b \in 76 .. 354 <=> p.value <= M)
    BY <1>6, <1>7
  <2> HIDE DEF a, b, R
  <2>3. m.value = p.value /\ m.box = [x1 |-> a, x2 |-> a, y1 |-> b, y2 |-> b]
    BY <2>1 DEF Mark, Box, a, b
  <2>4. Within(m.box, box) <=> b \in 76 .. 354
    BY <2>2, <2>3 DEF Within, Box
  <2>5. QED
    BY <2>2, <2>3, <2>4
<1> HIDE DEF marks
<1>9. box.y2 = 354
  BY DEF Box
<1> HIDE DEF box
<1>10. /\ page.axis = axis
       /\ \A d \in Drawings(page) : d[1].box = box /\ d[2] \in marks
  <2> DEFINE w == 1800
             h == 500
  <2>1. page = Sheet("workload", w, h, axis, box, marks)
    BY <1>1
  <2> HIDE DEF w, h, R, V
  <2>2. QED
    BY <2>1, SheetHolds
<1>11. ShowsUpTo(page, M)
  <2> HIDE DEF R, V
  <2>1. \A d \in Drawings(page) : Within(d[2].box, d[1].box) <=> d[2].value <= M
    BY <1>8, <1>10
  <2>2. QED
    BY <2>1, Zenon DEF ShowsUpTo
<1>12. Measures(page, axis, TRUE, FALSE, V, R)
  <2>1. ASSUME NEW d \in Drawings(page)
        PROVE  d[2].value \in V /\ Length(TRUE, FALSE, d) = R[d[2].value]
    <3>1. d[1].box.y2 = 354 /\ d[2] \in marks
      BY <1>9, <1>10
    <3> HIDE DEF R, V
    <3>2. d[2].value \in V /\ 354 - d[2].box.y1 = R[d[2].value]
      BY <1>8, <3>1
    <3>3. QED
      BY <3>1, <3>2 DEF Length
  <2> HIDE DEF R, V
  <2>2. QED
    BY <1>10, <2>1, Zenon DEF Measures
<1>13. Tells(axis, V, R, FALSE, FALSE)
  <2>1. ASSUME NEW v \in V, NEW w \in V, v <= w
        PROVE  R[v] <= R[w]
    <3> DEFINE a == y(v)
               b == y(w)
    <3>1. R[v] = 354 - a /\ R[w] = 354 - b
      OBVIOUS
    <3>2. a \in Int /\ b \in Int /\ b <= a
      BY <1>7, <2>1
    <3> HIDE DEF R, V, a, b
    <3>3. QED
      BY <3>1, <3>2
  <2>2. axis.mode = "linear"
    BY DEF axis
  <2> HIDE DEF R, V
  <2>3. QED
    BY <1>4, <2>1, <2>2 DEF Tells
<1> HIDE DEF R, V
<1>14. Reading({page}, TRUE, FALSE, FALSE)
  BY <1>3, <1>12, <1>13, ReadingOne
<1>15. QED
  BY <1>11, <1>14 DEF page, M

----------------------------------------------------------------------------
(* Bars and ranges.                                                        *)
Flat(m, box, V, R) ==
    /\ m.value \in V
    /\ Within(m.box, box)
    /\ m.box.x2 - box.x1 = R[m.value]

MarksOf(page) == UNION {plot.marks : plot \in page.plots}
PartOf(keys, p) == {k \in keys : k[1] = p}

(* The values of some marks are those at some keys.                        *)
StandFor(marks, values, J) == {m.value : m \in marks} = {values[j] : j \in J}

Fits(box, width, height, marks, V, R) ==
    /\ Within(box, Box(0, width, 0, height)) /\ box.x1 \in Int /\ box.x2 \in Int
    /\ \A m \in marks : Flat(m, box, V, R)
    /\ \A m, n \in marks : m # n => ~Overlap(m.box, n.box)

Laid(page, axis, marks, ranges, V, R) ==
    Tidy(page, ranges) /\ Measures(page, axis, FALSE, ranges, V, R) /\ MarksOf(page) = marks

LEMMA FlatSheet ==
    ASSUME NEW name, NEW width, NEW height, NEW axis, NEW box, NEW marks, NEW V, NEW R,
           Fits(box, width, height, marks, V, R)
    PROVE  Laid(Sheet(name, width, height, axis, box, marks), axis, marks, FALSE, V, R)
<1> DEFINE page == Sheet(name, width, height, axis, box, marks)
<1>1. /\ \A m \in marks : Within(m.box, box) /\ Flat(m, box, V, R)
      /\ Within(box, Box(0, width, 0, height)) /\ box.x1 \in Int /\ box.x2 \in Int
      /\ \A m, n \in marks : m # n => ~Overlap(m.box, n.box)
  BY Zenon DEF Fits, Flat
<1>2. /\ Tidy(page, FALSE) /\ page.axis = axis
      /\ UNION {plot.marks : plot \in page.plots} = marks
      /\ \A d \in Drawings(page) : d[1].box = box /\ d[2] \in marks
  <2>1. SheetOf(page, axis, box, marks, FALSE)
    BY <1>1, PlainSheet
  <2>2. QED
    BY <2>1, Zenon DEF SheetOf
<1> HIDE DEF page
<1>3. ASSUME NEW d \in Drawings(page)
      PROVE  d[2].value \in V /\ Length(FALSE, FALSE, d) = R[d[2].value]
  <2>1. d[1].box = box /\ Flat(d[2], box, V, R)
    BY <1>1, <1>2
  <2>2. Length(FALSE, FALSE, d) = d[2].box.x2 - d[1].box.x1
    BY DEF Length
  <2>3. QED
    BY <2>1, <2>2, Zenon DEF Flat
<1>4. Measures(page, axis, FALSE, FALSE, V, R)
  BY <1>2, <1>3, Zenon DEF Measures
<1>5. QED
  BY <1>2, <1>4, Zenon DEF page, MarksOf, Laid

LEMMA RowsApart ==
    ASSUME NEW a, NEW b, a.y1 \in Int, a.y2 \in Int, b.y1 \in Int, b.y2 \in Int,
           a.y2 <= b.y1 \/ b.y2 <= a.y1
    PROVE  ~Overlap(a, b)
BY DEF Overlap

LEMMA PlaceIs ==
    ASSUME NEW n \in Nat, NEW seq, DOMAIN seq = 1 .. n, NEW x \in ToSet(seq)
    PROVE  Place(seq, x) \in 0 .. n - 1 /\ seq[Place(seq, x) + 1] = x
<1>1. \E i \in DOMAIN seq : seq[i] = x
  BY DEF ToSet
<1> DEFINE i == CHOOSE i \in DOMAIN seq : seq[i] = x
<1>2. i \in DOMAIN seq /\ seq[i] = x
  BY <1>1
<1>3. Place(seq, x) = i - 1
  BY DEF Place
<1> HIDE DEF i
<1>4. QED
  BY <1>2, <1>3

LEMMA StatisticPlace ==
    ASSUME NEW x \in {Statistics[i] : i \in 1 .. 4}
    PROVE  Place(Statistics, x) \in 0 .. 3 /\ Statistics[Place(Statistics, x) + 1] = x
<1>1. DOMAIN Statistics = 1 .. 4
  BY DEF Statistics
<1>2. x \in ToSet(Statistics)
  BY <1>1 DEF ToSet
<1> DEFINE n == 4
<1>3. n \in Nat /\ DOMAIN Statistics = 1 .. n /\ n - 1 = 3
  BY <1>1
<1> HIDE DEF n
<1>4. Place(Statistics, x) \in 0 .. n - 1 /\ Statistics[Place(Statistics, x) + 1] = x
  BY <1>2, <1>3, PlaceIs
<1>5. QED
  BY <1>3, <1>4

(* Where a bar lies: in its section, in the row of its stack and repeat.   *)
BarTop(n, s, i, r) == 155 + 36 + s * (25 + n * 3 * 20 + 12) + 25 + (i * 3 + r) * 20
BarBottom(n) == 155 + (36 + 4 * (25 + n * 3 * 20) + 3 * 12)

LEMMA BarTops ==
    ASSUME NEW n \in Nat, NEW s \in 0 .. 3, NEW i \in 0 .. n - 1, NEW r \in Repeats,
           NEW t \in 0 .. 3, NEW j \in 0 .. n - 1, NEW q \in Repeats
    PROVE  LET top == BarTop(n, s, i, r)
               other == BarTop(n, t, j, q)
           IN  /\ top \in Nat /\ 155 <= top /\ top + 15 <= BarBottom(n)
               /\ (s # t \/ i # j \/ r # q) => (top + 15 <= other \/ other + 15 <= top)
<1> DEFINE c == 37 + 60 * n
           a == i * 3 + r
           b == j * 3 + q
           top == BarTop(n, s, i, r)
           other == BarTop(n, t, j, q)
<1>1. /\ a \in Nat /\ b \in Nat /\ 20 * a + 20 <= 60 * n /\ 20 * b + 20 <= 60 * n
      /\ (i # j \/ r # q) => a # b
  BY DEF Repeats
<1>2. 25 + n * 3 * 20 + 12 = c /\ c \in Nat /\ BarBottom(n) = 179 + 4 * c
  BY DEF BarBottom
<1>3. top = 216 + s * c + 20 * a /\ other = 216 + t * c + 20 * b
  BY <1>1, <1>2 DEF BarTop
<1> HIDE DEF a, b, top, other
<1>4. /\ s * c \in {0, c, 2 * c, 3 * c} /\ t * c \in {0, c, 2 * c, 3 * c}
      /\ s < t => s * c + c <= t * c
      /\ t < s => t * c + c <= s * c
      /\ s = t => s * c = t * c
  <2>1. s \in {0, 1, 2, 3} /\ t \in {0, 1, 2, 3}
    OBVIOUS
  <2> HIDE DEF c
  <2>2. QED
    BY <1>2, <2>1
<1> DEFINE u == s * c
           v == t * c
<1>5. /\ u \in {0, c, 2 * c, 3 * c} /\ v \in {0, c, 2 * c, 3 * c}
      /\ (s < t => u + c <= v) /\ (t < s => v + c <= u) /\ (s = t => u = v)
      /\ top = 216 + u + 20 * a /\ other = 216 + v + 20 * b
  BY <1>3, <1>4
<1> HIDE DEF u, v
<1>6. top \in Nat /\ other \in Nat /\ 155 <= top /\ top + 15 <= BarBottom(n)
  BY <1>1, <1>2, <1>5
<1>7. ASSUME s # t \/ i # j \/ r # q
      PROVE  top + 15 <= other \/ other + 15 <= top
  <2>1. CASE s < t
    BY <1>1, <1>2, <1>5, <2>1
  <2>2. CASE t < s
    BY <1>1, <1>2, <1>5, <2>2
  <2>3. CASE s = t
    BY <1>1, <1>2, <1>5, <1>7, <2>3
  <2>4. QED
    BY <2>1, <2>2, <2>3
<1>8. QED
  BY <1>6, <1>7 DEF top, other

BarWidth(axis, v) == IF v = 0 THEN 52 ELSE (Position(axis, v) * 1410) \div Resolution
BarReach(axis, V) == [v \in V |-> 320 + BarWidth(axis, v)]
BarWidths == 0 .. 1410

LEMMA BarWidthIs ==
    ASSUME NEW axis, NEW V, V \subseteq Nat, Reads(axis, V), NEW v \in V, NEW w \in V
    PROVE  /\ BarWidth(axis, v) \in BarWidths
           /\ (v <= w /\ ~PassesFor(axis, v, w)) => BarWidth(axis, v) <= BarWidth(axis, w)
           /\ (axis.mode = "logarithmic" /\ v < w /\ 2 * v <= w) => BarWidth(axis, v) < BarWidth(axis, w)
<1> DEFINE p == Position(axis, v)
           q == Position(axis, w)
           a == (p * 1410) \div Resolution
           b == (q * 1410) \div Resolution
<1>1. /\ p \in 0 .. Resolution /\ q \in 0 .. Resolution
      /\ v <= w => p <= q
      /\ (axis.mode = "logarithmic" /\ v < w /\ 2 * v <= w) => p + 4 <= q
  BY Zenon DEF Reads
<1>2. (axis.mode = "logarithmic" /\ v = 0 /\ w # 0) => 80 <= q
  BY Zenon DEF Reads
<1>a. (v = 0 /\ w # 0 /\ ~PassesFor(axis, v, w)) => 40 <= q
  <2>1. SUFFICES ASSUME v = 0, w # 0, ~PassesFor(axis, 0, w)
                 PROVE  40 <= q
    BY Zenon
  <2>2. CASE axis.mode = "linear"
    BY <2>1, <2>2, Zenon DEF Reads
  <2>3. CASE axis.mode = "logarithmic"
    BY <1>1, <1>2, <2>1, <2>3
  <2>4. CASE axis.mode = "empty"
    <3>1. V \subseteq {0}
      BY <2>4, Zenon DEF Reads
    <3>2. QED
      BY <2>1, <3>1
  <2>5. QED
    BY <2>2, <2>3, <2>4, Zenon DEF Reads
<1> HIDE DEF p, q
<1>3. 1410 \in Nat /\ Resolution <= 4 * 1410
  BY DEF Resolution
<1>4. a \in 0 .. 1410 /\ (p <= q => a <= b) /\ (p + 4 <= q => a < b)
  <2> DEFINE g == 1410
             c == (p * g) \div Resolution
             d == (q * g) \div Resolution
  <2>1. g \in Nat /\ Resolution <= 4 * g
    BY <1>3
  <2> HIDE DEF g
  <2>2. c \in 0 .. g /\ (p <= q => c <= d) /\ (p + 4 <= q => c < d)
    BY <1>1, <2>1, StretchOne
  <2>3. QED
    BY <2>2 DEF g
<1>5. (80 <= q => 112 <= b) /\ (40 <= q => 56 <= b)
  BY <1>1 DEF Resolution
<1>6. b \in Int
  BY <1>1 DEF Resolution
<1>7. /\ BarWidth(axis, v) = IF v = 0 THEN 52 ELSE a
      /\ BarWidth(axis, w) = IF w = 0 THEN 52 ELSE b
  BY DEF BarWidth, p, q
<1> HIDE DEF a, b
<1>8. v \in Nat /\ w \in Nat
  OBVIOUS
<1>9. QED
  BY <1>1, <1>2, <1>a, <1>4, <1>5, <1>6, <1>7, <1>8 DEF BarWidths

LEMMA BarsTell ==
    ASSUME NEW axis, NEW V, V \subseteq Nat, Reads(axis, V)
    PROVE  Tells(axis, V, BarReach(axis, V), TRUE, FALSE)
<1> DEFINE R == BarReach(axis, V)
<1>1. ASSUME NEW v \in V, NEW w \in V
      PROVE  /\ (v <= w /\ ~PassesFor(axis, v, w)) => R[v] <= R[w]
             /\ (axis.mode = "logarithmic" /\ v < w /\ 2 * v <= w) => R[v] < R[w]
  <2> DEFINE a == BarWidth(axis, v)
             b == BarWidth(axis, w)
  <2>1. R[v] = 320 + a /\ R[w] = 320 + b
    BY DEF BarReach
  <2>2. /\ a \in BarWidths /\ b \in BarWidths
        /\ (v <= w /\ ~PassesFor(axis, v, w)) => a <= b
        /\ (axis.mode = "logarithmic" /\ v < w /\ 2 * v <= w) => a < b
    BY BarWidthIs
  <2> HIDE DEF a, b, R
  <2>3. QED
    BY <2>1, <2>2 DEF BarWidths
<1> HIDE DEF R
<1>2. (axis.mode = "linear" => Ticks(axis) \in 4 .. 7) /\ (axis.mode = "logarithmic" => 2 <= Ticks(axis))
  BY Zenon DEF Reads
<1>3. Tells(axis, V, R, TRUE, FALSE)
  BY <1>1, <1>2, Zenon DEF Tells
<1>4. QED
  BY <1>3 DEF R

BarKeys(P, stacks) == P \X {Statistics[i] : i \in 1 .. 4} \X ToSet(stacks) \X Repeats
BarSpot(stacks, k) == BarTop(Len(stacks), Place(Statistics, k[2]), Place(stacks, k[3]), k[4])

LEMMA BarSpots ==
    ASSUME NEW P, NEW S, NEW stacks \in Seq(S), NEW k \in BarKeys(P, stacks), NEW l \in BarKeys(P, stacks)
    PROVE  LET top == BarSpot(stacks, k)
               other == BarSpot(stacks, l)
           IN  /\ top \in Nat /\ 155 <= top /\ top + 15 <= BarBottom(Len(stacks))
               /\ (k # l /\ k[1] = l[1]) => (top + 15 <= other \/ other + 15 <= top)
<1>1. /\ k[2] \in {Statistics[i] : i \in 1 .. 4} /\ k[3] \in ToSet(stacks) /\ k[4] \in Repeats
      /\ l[2] \in {Statistics[i] : i \in 1 .. 4} /\ l[3] \in ToSet(stacks) /\ l[4] \in Repeats
      /\ (k # l /\ k[1] = l[1]) => (k[2] # l[2] \/ k[3] # l[3] \/ k[4] # l[4])
  BY DEF BarKeys
<1> DEFINE n == Len(stacks)
           s == Place(Statistics, k[2])
           t == Place(Statistics, l[2])
           i == Place(stacks, k[3])
           j == Place(stacks, l[3])
<1>2. n \in Nat /\ DOMAIN stacks = 1 .. n
  BY LenProperties
<1>3. s \in 0 .. 3 /\ t \in 0 .. 3 /\ (k[2] # l[2] => s # t)
  BY <1>1, StatisticPlace
<1>4. i \in 0 .. n - 1 /\ j \in 0 .. n - 1 /\ (k[3] # l[3] => i # j)
  BY <1>1, <1>2, PlaceIs
<1>5. BarSpot(stacks, k) = BarTop(n, s, i, k[4]) /\ BarSpot(stacks, l) = BarTop(n, t, j, l[4])
  BY DEF BarSpot
<1> DEFINE r == k[4]
           q == l[4]
<1>6. r \in Repeats /\ q \in Repeats /\ ((k # l /\ k[1] = l[1]) => (s # t \/ i # j \/ r # q))
  BY <1>1, <1>3, <1>4
<1>7. BarSpot(stacks, k) = BarTop(n, s, i, r) /\ BarSpot(stacks, l) = BarTop(n, t, j, q)
  BY <1>5
<1> HIDE DEF n, s, t, i, j, r, q
<1> DEFINE top == BarTop(n, s, i, r)
           other == BarTop(n, t, j, q)
<1>8. /\ top \in Nat /\ 155 <= top /\ top + 15 <= BarBottom(n)
      /\ (s # t \/ i # j \/ r # q) => (top + 15 <= other \/ other + 15 <= top)
  BY <1>2, <1>3, <1>4, <1>6, BarTops
<1>9. QED
  BY <1>6, <1>7, <1>8 DEF n

(* All profiles of a workload are read together.                           *)
BarsFit(P, S, stacks, values, mode) ==
    /\ stacks \in Seq(S) /\ mode \in {"linear", "logarithmic"}
    /\ DOMAIN values = BarKeys(P, stacks) /\ BarKeys(P, stacks) # {}
    /\ \A k \in BarKeys(P, stacks) : values[k] \in 0 .. Highest

BarsDrawn(P, stacks, values, mode) ==
    /\ Clear({Bars(p, stacks, values, mode) : p \in P}, FALSE, TRUE, FALSE)
    /\ \A p \in P : StandFor(MarksOf(Bars(p, stacks, values, mode)), values,
                             PartOf(BarKeys(P, stacks), p))

LEMMA BarsAre ==
    ASSUME NEW P, NEW S, NEW stacks, NEW values, NEW mode, BarsFit(P, S, stacks, values, mode)
    PROVE  BarsDrawn(P, stacks, values, mode)
<1>0. /\ stacks \in Seq(S) /\ mode \in {"linear", "logarithmic"}
      /\ DOMAIN values = BarKeys(P, stacks) /\ BarKeys(P, stacks) # {}
      /\ \A k \in BarKeys(P, stacks) : values[k] \in 0 .. Highest
  BY Zenon DEF BarsFit
<1> USE <1>0
<1> DEFINE n == Len(stacks)
           keys == BarKeys(P, stacks)
           V == {values[k] : k \in keys}
           decades == IF mode = "logarithmic" THEN 1 ELSE 0
           axis == ValueAxis(V, mode, decades)
           top(k) == BarSpot(stacks, k)
           box == Box(30, 1770, 155, BarBottom(n))
           mark(k) == Mark(k, values[k], Box(350, 350 + BarWidth(axis, values[k]), top(k), top(k) + 15))
           own(p) == {k \in keys : k[1] = p}
           marks(p) == {mark(k) : k \in own(p)}
           height == 155 + 55 + (36 + 4 * (25 + n * 3 * 20) + 3 * 12)
           page(p) == Bars(p, stacks, values, mode)
           R == BarReach(axis, V)
<1>1. ASSUME NEW p
      PROVE  page(p) = Sheet(p, 1800, height, axis, box, marks(p))
  BY DEF Bars, BarSpot, BarTop, BarBottom, BarWidth
<1>2. V \subseteq 0 .. Highest /\ V # {} /\ V \subseteq Nat
  BY HighestIs
<1>3. Reads(axis, V)
  <2>1. decades \in {0, 1}
    OBVIOUS
  <2> HIDE DEF decades, V
  <2>2. QED
    BY <1>2, <2>1, ValueAxisReads
<1>4. Tells(axis, V, R, TRUE, FALSE)
  <2> HIDE DEF axis, V
  <2>1. QED
    BY <1>2, <1>3, BarsTell
<1>5. n \in Nat
  BY LenProperties
<1>6. ASSUME NEW k \in keys
      PROVE  /\ values[k] \in V /\ BarWidth(axis, values[k]) \in BarWidths
             /\ R[values[k]] = 320 + BarWidth(axis, values[k])
             /\ top(k) \in Nat /\ 155 <= top(k) /\ top(k) + 15 <= BarBottom(n)
  <2>1. values[k] \in V
    OBVIOUS
  <2> DEFINE v == values[k]
  <2> HIDE DEF axis, V
  <2>2. BarWidth(axis, v) \in BarWidths
    <3> HIDE DEF v
    <3>1. v \in V
      BY <2>1 DEF v
    <3>2. QED
      BY <1>2, <1>3, <3>1, BarWidthIs
  <2>3. R[v] = 320 + BarWidth(axis, v)
    BY <2>1 DEF BarReach
  <2>4. top(k) \in Nat /\ 155 <= top(k) /\ top(k) + 15 <= BarBottom(n)
    BY BarSpots
  <2>5. QED
    BY <2>1, <2>2, <2>3, <2>4
<1>7. Within(box, Box(0, 1800, 0, height))
  BY <1>5 DEF Within, Box, BarBottom
<1>a. box.x1 \in Int /\ box.x2 \in Int
  BY DEF Box
<1>8. ASSUME NEW k \in keys, NEW l \in keys, k # l, k[1] = l[1]
      PROVE  top(k) + 15 <= top(l) \/ top(l) + 15 <= top(k)
  BY <1>8, BarSpots
<1> HIDE DEF n, keys, V, axis, top, R, page
<1>9. ASSUME NEW k \in keys
      PROVE  /\ Flat(mark(k), box, V, R)
             /\ mark(k).value = values[k] /\ mark(k).box.y1 = top(k) /\ mark(k).box.y2 = top(k) + 15
  <2> DEFINE w == BarWidth(axis, values[k])
             t == top(k)
  <2>1. /\ w \in 0 .. 1410 /\ t \in Nat /\ 155 <= t /\ t + 15 <= BarBottom(n)
        /\ values[k] \in V /\ R[values[k]] = 320 + w
    BY <1>6 DEF BarWidths
  <2>2. mark(k) = [of |-> k, value |-> values[k],
                   box |-> [x1 |-> 350, x2 |-> 350 + w, y1 |-> t, y2 |-> t + 15]]
    BY DEF Mark, Box
  <2>3. box.x1 = 30 /\ box.x2 = 1770 /\ box.y1 = 155 /\ box.y2 = BarBottom(n) /\ BarBottom(n) \in Nat
    BY <1>5 DEF Box, BarBottom
  <2> HIDE DEF w, t, mark, box
  <2>4. /\ mark(k).value = values[k] /\ mark(k).box.x1 = 350 /\ mark(k).box.x2 = 350 + w
        /\ mark(k).box.y1 = t /\ mark(k).box.y2 = t + 15
    BY <2>2
  <2>5. Within(mark(k).box, box)
    BY <2>1, <2>3, <2>4 DEF Within
  <2>6. mark(k).box.x2 - box.x1 = 320 + w
    BY <2>1, <2>3, <2>4
  <2>7. QED
    BY <2>1, <2>4, <2>5, <2>6 DEF Flat, t
<1> HIDE DEF mark, box, height
<1>10. ASSUME NEW p, NEW a \in marks(p), NEW b \in marks(p), a # b
       PROVE  ~Overlap(a.box, b.box)
  <2>1. PICK k \in own(p) : a = mark(k)
    OBVIOUS
  <2>2. PICK l \in own(p) : b = mark(l)
    OBVIOUS
  <2>3. k \in keys /\ l \in keys /\ k # l /\ k[1] = l[1]
    BY <1>10, <2>1, <2>2
  <2> DEFINE c == a.box
             d == b.box
             s == top(k)
             t == top(l)
  <2>4. s \in Nat /\ t \in Nat /\ (s + 15 <= t \/ t + 15 <= s)
    BY <1>6, <1>8, <2>3
  <2>5. c.y1 = s /\ c.y2 = s + 15 /\ d.y1 = t /\ d.y2 = t + 15
    BY <1>9, <2>1, <2>2, <2>3
  <2> HIDE DEF c, d, s, t
  <2>6. ~Overlap(c, d)
    BY <2>4, <2>5, RowsApart
  <2>7. QED
    BY <2>6 DEF c, d
<1>11. ASSUME NEW p \in P
       PROVE  /\ Tidy(page(p), FALSE) /\ Measures(page(p), axis, FALSE, FALSE, V, R)
              /\ {m.value : m \in MarksOf(page(p))} = {values[k] : k \in own(p)}
  <2> DEFINE w == 1800
             some == marks(p)
  <2>1. page(p) = Sheet(p, w, height, axis, box, some) /\ Within(box, Box(0, w, 0, height))
    BY <1>1, <1>7
  <2>2. /\ \A m \in some : Flat(m, box, V, R)
        /\ \A a, b \in some : a # b => ~Overlap(a.box, b.box)
    BY <1>9, <1>10
  <2>3. {m.value : m \in some} = {values[k] : k \in own(p)}
    BY <1>9
  <2> HIDE DEF w, some
  <2>4. Fits(box, w, height, some, V, R)
    BY <1>a, <2>1, <2>2, Zenon DEF Fits
  <2>5. Laid(page(p), axis, some, FALSE, V, R)
    BY <2>1, <2>4, FlatSheet
  <2>6. QED
    BY <2>3, <2>5 DEF Laid
<1>12. Clear({page(p) : p \in P}, FALSE, TRUE, FALSE)
  <2>1. \A q \in {page(p) : p \in P} : Tidy(q, FALSE) /\ Measures(q, axis, FALSE, FALSE, V, R)
    BY <1>11
  <2>2. QED
    BY <1>2, <1>4, <2>1, Zenon DEF Clear, Reading
<1>13. /\ Clear({Bars(p, stacks, values, mode) : p \in P}, FALSE, TRUE, FALSE)
       /\ \A p \in P : {m.value : m \in MarksOf(Bars(p, stacks, values, mode))}
                          = {values[k] : k \in {k \in BarKeys(P, stacks) : k[1] = p}}
  BY <1>11, <1>12 DEF page, keys
<1>14. QED
  BY <1>13, Zenon DEF BarsDrawn, StandFor, PartOf

----------------------------------------------------------------------------
(* Bars one below the other: from L to X, at T and h high.                 *)
Rows(K, values, L, X, T, h, box, V, R) ==
    /\ h \in Nat /\ box.x1 \in Int /\ box.x2 \in Int
    /\ \A k \in K :
        /\ values[k] \in V
        /\ L[k] \in Int /\ X[k] \in Int /\ T[k] \in Int
        /\ box.x1 <= L[k] /\ L[k] <= X[k] /\ X[k] <= box.x2
        /\ box.y1 <= T[k] /\ T[k] + h <= box.y2
        /\ X[k] - box.x1 = R[values[k]]
    /\ \A k, l \in K : k # l => (T[k] + h <= T[l] \/ T[l] + h <= T[k])

MadeOf(marks, K, values, L, X, T, h) ==
    \A m \in marks : \E k \in K : m = Mark(k, values[k], Box(L[k], X[k], T[k], T[k] + h))

LEMMA RowsFit ==
    ASSUME NEW K, NEW values, NEW L, NEW X, NEW T, NEW h, NEW box, NEW V, NEW R, NEW marks,
           Rows(K, values, L, X, T, h, box, V, R), MadeOf(marks, K, values, L, X, T, h),
           NEW width, NEW height, Within(box, Box(0, width, 0, height))
    PROVE  Fits(box, width, height, marks, V, R)
<1>0. \A m \in marks : \E k \in K : m = Mark(k, values[k], Box(L[k], X[k], T[k], T[k] + h))
  BY DEF MadeOf
<1>1. ASSUME NEW m \in marks, NEW k \in K, m = Mark(k, values[k], Box(L[k], X[k], T[k], T[k] + h))
      PROVE  /\ m.value = values[k] /\ m.box.x1 = L[k] /\ m.box.x2 = X[k]
             /\ m.box.y1 = T[k] /\ m.box.y2 = T[k] + h
  BY <1>1 DEF Mark, Box
<1>2. ASSUME NEW m \in marks
      PROVE  Flat(m, box, V, R)
  <2>1. PICK k \in K : m = Mark(k, values[k], Box(L[k], X[k], T[k], T[k] + h))
    BY <1>0
  <2>2. /\ m.value = values[k] /\ m.box.x1 = L[k] /\ m.box.x2 = X[k]
        /\ m.box.y1 = T[k] /\ m.box.y2 = T[k] + h
    BY <1>1, <2>1
  <2>3. /\ values[k] \in V /\ h \in Nat /\ T[k] \in Int
        /\ box.x1 <= L[k] /\ L[k] <= X[k] /\ X[k] <= box.x2
        /\ box.y1 <= T[k] /\ T[k] + h <= box.y2
        /\ X[k] - box.x1 = R[values[k]]
    BY Zenon DEF Rows
  <2>4. T[k] <= T[k] + h
    BY <2>3
  <2>5. Within(m.box, box)
    BY <2>2, <2>3, <2>4, Zenon DEF Within
  <2>6. m.value \in V /\ m.box.x2 - box.x1 = R[m.value]
    BY <2>2, <2>3, Zenon
  <2>7. QED
    BY <2>5, <2>6, Zenon DEF Flat
<1>3. ASSUME NEW m \in marks, NEW n \in marks, m # n
      PROVE  ~Overlap(m.box, n.box)
  <2>1. PICK k \in K : m = Mark(k, values[k], Box(L[k], X[k], T[k], T[k] + h))
    BY <1>0
  <2>2. PICK l \in K : n = Mark(l, values[l], Box(L[l], X[l], T[l], T[l] + h))
    BY <1>0
  <2> DEFINE a == m.box
             b == n.box
             s == T[k]
             t == T[l]
  <2>3. k # l
    BY <1>3, <2>1, <2>2
  <2>4. h \in Nat /\ s \in Int /\ t \in Int /\ (s + h <= t \/ t + h <= s)
    BY <2>3, Zenon DEF Rows
  <2>5. a.y1 = s /\ a.y2 = s + h /\ b.y1 = t /\ b.y2 = t + h
    BY <1>1, <2>1, <2>2
  <2> HIDE DEF a, b, s, t
  <2>6. ~Overlap(a, b)
    BY <2>4, <2>5, RowsApart
  <2>7. QED
    BY <2>6 DEF a, b
<1>4. box.x1 \in Int /\ box.x2 \in Int
  BY Zenon DEF Rows
<1>5. QED
  BY <1>2, <1>3, <1>4, Zenon DEF Fits

(* How far a bar on an axis reaches from the edge of its plot.             *)
Onward(axis, V, left, w, from) == [v \in V |-> Along(axis, v, left, w) - from]

LEMMA OnwardTells ==
    ASSUME NEW axis, NEW V, Reads(axis, V), NEW left \in Nat, NEW w \in Nat, Resolution <= 4 * w,
           NEW from \in Nat
    PROVE  Tells(axis, V, Onward(axis, V, left, w, from), FALSE, FALSE)
<1> DEFINE R == Onward(axis, V, left, w, from)
<1>1. ASSUME NEW x \in V, NEW y \in V
      PROVE  /\ x <= y => R[x] <= R[y]
             /\ (axis.mode = "logarithmic" /\ x < y /\ 2 * x <= y) => R[x] < R[y]
  <2> DEFINE a == Along(axis, x, left, w)
             b == Along(axis, y, left, w)
  <2>1. /\ a \in left .. left + w
        /\ x <= y => a <= b
        /\ (axis.mode = "logarithmic" /\ x < y /\ 2 * x <= y) => a < b
    BY AlongIs
  <2>2. b \in left .. left + w
    BY AlongIs
  <2>3. R[x] = a - from /\ R[y] = b - from
    BY DEF Onward
  <2> HIDE DEF a, b, R
  <2>4. QED
    BY <2>1, <2>2, <2>3
<1> HIDE DEF R
<1>2. (axis.mode = "linear" => Ticks(axis) \in 4 .. 7) /\ (axis.mode = "logarithmic" => 2 <= Ticks(axis))
  BY Zenon DEF Reads
<1>3. Tells(axis, V, R, FALSE, FALSE)
  BY <1>1, <1>2, Zenon DEF Tells
<1>4. QED
  BY <1>3 DEF R

(* Failure rates, where zero is a stroke.                                  *)
FailureEnd(axis, v) == IF v = 0 THEN 352 ELSE Along(axis, v, 350, 1410)
FailureStart(v) == IF v = 0 THEN 348 ELSE 350
FailureEnds == 348 .. 1760
FailureStarts == 348 .. 350
FailureReach(axis, V) == [v \in V |-> FailureEnd(axis, v) - 30]

LEMMA FailureEndIs ==
    ASSUME NEW axis, NEW V, V \subseteq Nat, Reads(axis, V), NEW v \in V, NEW w \in V
    PROVE  /\ FailureEnd(axis, v) \in FailureEnds /\ FailureStart(v) \in FailureStarts
           /\ FailureStart(v) <= FailureEnd(axis, v)
           /\ (axis.mode = "linear" /\ v <= w /\ ~PassesFor(axis, v, w))
                => FailureEnd(axis, v) <= FailureEnd(axis, w)
<1> DEFINE left == 350
           width == 1410
           a == Along(axis, v, left, width)
           b == Along(axis, w, left, width)
<1>1. left \in Nat /\ width \in Nat /\ Resolution <= 4 * width
  BY DEF Resolution
<1>2. FailureEnd(axis, v) = (IF v = 0 THEN 352 ELSE a) /\ FailureEnd(axis, w) = (IF w = 0 THEN 352 ELSE b)
  BY DEF FailureEnd
<1>a. (axis.mode = "linear" /\ v = 0 /\ w # 0 /\ ~PassesFor(axis, v, w)) => 406 <= b
  <2>1. SUFFICES ASSUME axis.mode = "linear", v = 0, w # 0, ~PassesFor(axis, 0, w)
                 PROVE  406 <= b
    BY Zenon
  <2> DEFINE q == Position(axis, w)
  <2>2. 40 <= q /\ q \in 0 .. Resolution
    BY <2>1, Zenon DEF Reads
  <2>3. b = 350 + (q * 1410) \div Resolution
    BY DEF Along
  <2> HIDE DEF b, q
  <2>4. QED
    BY <2>2, <2>3 DEF Resolution
<1> HIDE DEF left, width
<1>3. a \in left .. left + width /\ (v <= w => a <= b)
  BY <1>1, AlongIs
<1>4. b \in left .. left + width
  BY <1>1, AlongIs
<1> HIDE DEF a, b
<1>5. v \in Nat /\ w \in Nat
  OBVIOUS
<1>6. QED
  BY <1>2, <1>a, <1>3, <1>4, <1>5 DEF FailureStart, FailureEnds, FailureStarts, left, width

LEMMA FailuresTell ==
    ASSUME NEW axis, axis.mode = "linear", NEW V, V \subseteq Nat, Reads(axis, V)
    PROVE  Tells(axis, V, FailureReach(axis, V), TRUE, FALSE)
<1> DEFINE R == FailureReach(axis, V)
<1>1. ASSUME NEW v \in V, NEW w \in V, v <= w, ~PassesFor(axis, v, w)
      PROVE  R[v] <= R[w]
  <2> DEFINE a == FailureEnd(axis, v)
             b == FailureEnd(axis, w)
  <2>1. R[v] = a - 30 /\ R[w] = b - 30
    BY DEF FailureReach
  <2>2. a \in FailureEnds /\ b \in FailureEnds /\ a <= b
    <3>1. a \in FailureEnds /\ a <= b
      BY <1>1, FailureEndIs
    <3>2. b \in FailureEnds
      BY FailureEndIs
    <3>3. QED
      BY <3>1, <3>2
  <2> HIDE DEF a, b, R
  <2>3. QED
    BY <2>1, <2>2 DEF FailureEnds
<1> HIDE DEF R
<1>2. Ticks(axis) \in 4 .. 7
  BY Zenon DEF Reads
<1>3. axis.mode # "logarithmic"
  OBVIOUS
<1>4. Tells(axis, V, R, TRUE, FALSE)
  BY <1>1, <1>2, <1>3, Zenon DEF Tells
<1>5. QED
  BY <1>4 DEF R

FailureKeys(P, stacks) == P \X ToSet(stacks) \X Repeats
FailureTop(stacks, k) == 150 + 38 + (Place(stacks, k[2]) * 3 + k[3]) * 24

LEMMA FailureTops ==
    ASSUME NEW P, NEW S, NEW stacks \in Seq(S),
           NEW k \in FailureKeys(P, stacks), NEW l \in FailureKeys(P, stacks)
    PROVE  /\ FailureTop(stacks, k) \in Nat /\ 150 <= FailureTop(stacks, k)
           /\ FailureTop(stacks, k) + 18 <= 150 + (38 + Len(stacks) * 3 * 24)
           /\ (k # l /\ k[1] = l[1]) => \/ FailureTop(stacks, k) + 18 <= FailureTop(stacks, l)
                                        \/ FailureTop(stacks, l) + 18 <= FailureTop(stacks, k)
<1> DEFINE n == Len(stacks)
           i == Place(stacks, k[2])
           j == Place(stacks, l[2])
           r == k[3]
           q == l[3]
<1>1. /\ k[2] \in ToSet(stacks) /\ l[2] \in ToSet(stacks) /\ r \in Repeats /\ q \in Repeats
      /\ (k # l /\ k[1] = l[1]) => (k[2] # l[2] \/ r # q)
  BY DEF FailureKeys
<1>2. n \in Nat /\ DOMAIN stacks = 1 .. n
  BY LenProperties
<1>3. i \in 0 .. n - 1 /\ j \in 0 .. n - 1 /\ (k[2] # l[2] => i # j)
  BY <1>1, <1>2, PlaceIs
<1>4. /\ FailureTop(stacks, k) = 150 + 38 + (i * 3 + r) * 24
      /\ FailureTop(stacks, l) = 150 + 38 + (j * 3 + q) * 24
  BY DEF FailureTop
<1> HIDE DEF n, i, j, r, q
<1>5. (k # l /\ k[1] = l[1]) => (i # j \/ r # q)
  BY <1>1, <1>3
<1>6. QED
  BY <1>1, <1>2, <1>3, <1>4, <1>5 DEF Repeats, n

FailureBarsFit(P, S, stacks, rates) ==
    /\ stacks \in Seq(S) /\ ToSet(stacks) # {}
    /\ DOMAIN rates = FailureKeys(P, stacks)
    /\ \A k \in FailureKeys(P, stacks) : rates[k] \in 0 .. Highest

LEMMA FailureBarsAre ==
    ASSUME NEW P, NEW S, NEW stacks, NEW rates, FailureBarsFit(P, S, stacks, rates), NEW p \in P
    PROVE  Clear({FailureBars(p, stacks, rates)}, FALSE, TRUE, FALSE)
<1>0. /\ stacks \in Seq(S) /\ ToSet(stacks) # {}
      /\ DOMAIN rates = FailureKeys(P, stacks)
      /\ \A k \in FailureKeys(P, stacks) : rates[k] \in 0 .. Highest
  BY Zenon DEF FailureBarsFit
<1> USE <1>0
<1> DEFINE n == Len(stacks)
           keys == {k \in FailureKeys(P, stacks) : k[1] = p}
           V == {rates[k] : k \in keys}
           axis == LinearAxis(Max(V))
           T == [k \in keys |-> FailureTop(stacks, k)]
           L == [k \in keys |-> FailureStart(rates[k])]
           X == [k \in keys |-> FailureEnd(axis, rates[k])]
           box == Box(30, 1770, 150, 150 + (38 + n * 3 * 24))
           marks == {Mark(k, rates[k],
                          IF rates[k] = 0 THEN Box(348, 352, FailureTop(stacks, k), FailureTop(stacks, k) + 18)
                          ELSE Box(350, Along(axis, rates[k], 350, 1410),
                                   FailureTop(stacks, k), FailureTop(stacks, k) + 18)) : k \in keys}
           height == 150 + (38 + n * 3 * 24) + 55
           page == FailureBars(p, stacks, rates)
           R == FailureReach(axis, V)
<1>1. page = Sheet(p, 1800, height, axis, box, marks)
  BY DEF FailureBars, FailureTop
<1>2. V \subseteq 0 .. Highest /\ V # {} /\ V \subseteq Nat
  <2>1. PICK x \in ToSet(stacks) : TRUE
    OBVIOUS
  <2>2. <<p, x, 0>> \in keys
    BY DEF FailureKeys, Repeats
  <2>3. QED
    BY <2>2, HighestIs
<1>3. Reads(axis, V) /\ axis.mode = "linear"
  <2> HIDE DEF V
  <2>1. axis = ValueAxis(V, "linear", 0)
    BY DEF ValueAxis
  <2> HIDE DEF axis
  <2>2. "linear" \in {"linear", "logarithmic"} /\ 0 \in {0, 1}
    OBVIOUS
  <2>3. Reads(axis, V)
    BY <1>2, <2>1, <2>2, ValueAxisReads
  <2>4. axis.mode = "linear"
    BY AxisModes DEF axis
  <2>5. QED
    BY <2>3, <2>4
<1>4. n \in Nat
  BY LenProperties
<1>5. \A k \in keys : k \in FailureKeys(P, stacks) /\ k[1] = p /\ rates[k] \in V
  OBVIOUS
<1>6. ASSUME NEW k \in keys
      PROVE  /\ L[k] = FailureStart(rates[k]) /\ X[k] = FailureEnd(axis, rates[k]) /\ T[k] = FailureTop(stacks, k)
             /\ R[rates[k]] = FailureEnd(axis, rates[k]) - 30
  BY DEF FailureReach
<1>7. box.x1 = 30 /\ box.x2 = 1770 /\ box.y1 = 150 /\ box.y2 = 150 + (38 + n * 3 * 24)
  BY DEF Box
<1> HIDE DEF keys, V, axis, T, L, X, R, box
<1>8. ASSUME NEW k \in keys
      PROVE  /\ rates[k] \in V
             /\ L[k] \in Int /\ X[k] \in Int /\ T[k] \in Int
             /\ box.x1 <= L[k] /\ L[k] <= X[k] /\ X[k] <= box.x2
             /\ box.y1 <= T[k] /\ T[k] + 18 <= box.y2
             /\ X[k] - box.x1 = R[rates[k]]
  <2> DEFINE v == rates[k]
             a == FailureStart(v)
             b == FailureEnd(axis, v)
             t == FailureTop(stacks, k)
  <2>1. v \in V
    BY <1>5
  <2>2. b \in 348 .. 1760 /\ a \in 348 .. 350 /\ a <= b
    <3> HIDE DEF v
    <3>1. b \in FailureEnds /\ a \in FailureStarts /\ a <= b
      BY <1>2, <1>3, <2>1, FailureEndIs
    <3>2. QED
      BY <3>1 DEF FailureEnds, FailureStarts
  <2>3. t \in Nat /\ 150 <= t /\ t + 18 <= 150 + (38 + n * 3 * 24)
    BY <1>5, FailureTops
  <2>4. L[k] = a /\ X[k] = b /\ T[k] = t /\ R[v] = b - 30
    BY <1>6
  <2> HIDE DEF a, b, t, v, n
  <2>5. v \in V /\ X[k] - box.x1 = R[v]
    BY <1>7, <2>1, <2>2, <2>4
  <2>6. QED
    BY <1>4, <1>7, <2>2, <2>3, <2>4, <2>5 DEF v
<1>9. ASSUME NEW k \in keys, NEW l \in keys, k # l
      PROVE  T[k] + 18 <= T[l] \/ T[l] + 18 <= T[k]
  BY <1>5, <1>6, <1>9, FailureTops
<1> DEFINE h == 18
<1>10. Rows(keys, rates, L, X, T, h, box, V, R)
  <2>1. /\ h \in Nat /\ box.x1 \in Int /\ box.x2 \in Int
        /\ \A k \in keys :
              /\ rates[k] \in V
              /\ L[k] \in Int /\ X[k] \in Int /\ T[k] \in Int
              /\ box.x1 <= L[k] /\ L[k] <= X[k] /\ X[k] <= box.x2
              /\ box.y1 <= T[k] /\ T[k] + h <= box.y2
              /\ X[k] - box.x1 = R[rates[k]]
        /\ \A k, l \in keys : k # l => (T[k] + h <= T[l] \/ T[l] + h <= T[k])
    BY <1>7, <1>8, <1>9
  <2> HIDE DEF h
  <2>2. QED
    BY <2>1, Zenon DEF Rows
<1>11. MadeOf(marks, keys, rates, L, X, T, h)
  BY <1>6 DEF FailureStart, FailureEnd, MadeOf
<1>12. Within(box, Box(0, 1800, 0, height))
  <2> DEFINE w == 1800
  <2>1. n \in Nat /\ height = 243 + n * 72 /\ box.y2 = 188 + n * 72
    BY <1>4, <1>7
  <2> HIDE DEF height
  <2>2. QED
    BY <1>7, <2>1 DEF Within, Box
<1> DEFINE w == 1800
<1>13. page = Sheet(p, w, height, axis, box, marks) /\ Within(box, Box(0, w, 0, height))
  BY <1>1, <1>12
<1> HIDE DEF marks, page, height, w, h
<1>14. Fits(box, w, height, marks, V, R)
  BY <1>10, <1>11, <1>13, RowsFit
<1>15. Laid(page, axis, marks, FALSE, V, R)
  BY <1>13, <1>14, FlatSheet
<1>16. Tells(axis, V, R, TRUE, FALSE)
  BY <1>2, <1>3, FailuresTell DEF R
<1>17. QED
  <2>1. Tidy(page, FALSE) /\ Measures(page, axis, FALSE, FALSE, V, R)
    BY <1>15, Zenon DEF Laid
  <2>2. Clear({page}, FALSE, TRUE, FALSE)
    BY <1>2, <1>16, <2>1, ClearOne, Zenon
  <2>3. QED
    BY <2>2 DEF page

LEMMA OnwardIs ==
    ASSUME NEW axis, NEW V, Reads(axis, V), NEW left \in Nat, NEW w \in Nat, Resolution <= 4 * w,
           NEW v \in V
    PROVE  /\ Along(axis, v, left, w) \in left .. left + w
           /\ Onward(axis, V, left, w, left)[v] = Along(axis, v, left, w) - left
<1>1. Along(axis, v, left, w) \in left .. left + w
  BY AlongIs
<1>2. QED
  BY <1>1 DEF Onward

LEMMA LinearAxisReads ==
    ASSUME NEW V, V \subseteq 0 .. Highest, V # {}
    PROVE  Reads(LinearAxis(Max(V)), V) /\ V \subseteq Nat
<1>1. LinearAxis(Max(V)) = ValueAxis(V, "linear", 0)
  BY DEF ValueAxis
<1>2. "linear" \in {"linear", "logarithmic"} /\ 0 \in {0, 1}
  OBVIOUS
<1>3. Reads(ValueAxis(V, "linear", 0), V)
  BY <1>2, ValueAxisReads
<1>4. QED
  BY <1>1, <1>3, HighestIs

(* Completion times, all profiles on the axis of them all.                 *)
CompletionKeys(P, rows) == P \X (0 .. rows - 1) \X Repeats
CompletionTop(k) == 125 + k[2] * 48 + 4 + k[3] * 13

LEMMA CompletionTops ==
    ASSUME NEW P, NEW rows \in Nat, NEW k \in CompletionKeys(P, rows), NEW l \in CompletionKeys(P, rows)
    PROVE  /\ CompletionTop(k) \in Nat /\ 125 <= CompletionTop(k)
           /\ CompletionTop(k) + 9 <= 125 + rows * 48
           /\ (k # l /\ k[1] = l[1]) => \/ CompletionTop(k) + 9 <= CompletionTop(l)
                                        \/ CompletionTop(l) + 9 <= CompletionTop(k)
<1> DEFINE i == k[2]
           j == l[2]
           r == k[3]
           q == l[3]
<1>1. /\ i \in 0 .. rows - 1 /\ j \in 0 .. rows - 1 /\ r \in Repeats /\ q \in Repeats
      /\ (k # l /\ k[1] = l[1]) => (i # j \/ r # q)
  BY DEF CompletionKeys
<1>2. CompletionTop(k) = 125 + i * 48 + 4 + r * 13 /\ CompletionTop(l) = 125 + j * 48 + 4 + q * 13
  BY DEF CompletionTop
<1> HIDE DEF i, j, r, q
<1>3. QED
  BY <1>1, <1>2 DEF Repeats

CompletionsFit(P, rows, seconds, V) ==
    /\ rows \in Nat /\ DOMAIN seconds = CompletionKeys(P, rows)
    /\ V = {seconds[k] : k \in CompletionKeys(P, rows)} /\ V \subseteq 0 .. Highest /\ V # {}

CompletionsDrawn(P, rows, seconds, V) ==
    /\ Clear({CompletionBars(p, rows, seconds, V) : p \in P}, FALSE, FALSE, FALSE)
    /\ \A p \in P : StandFor(MarksOf(CompletionBars(p, rows, seconds, V)), seconds,
                             PartOf(CompletionKeys(P, rows), p))

LEMMA CompletionBarsAre ==
    ASSUME NEW P, NEW rows, NEW seconds, NEW V, CompletionsFit(P, rows, seconds, V)
    PROVE  CompletionsDrawn(P, rows, seconds, V)
<1>0. /\ rows \in Nat /\ DOMAIN seconds = CompletionKeys(P, rows)
      /\ V = {seconds[k] : k \in CompletionKeys(P, rows)} /\ V \subseteq 0 .. Highest /\ V # {}
  BY Zenon DEF CompletionsFit
<1> USE <1>0
<1> DEFINE axis == LinearAxis(Max(V))
           keys(p) == {k \in CompletionKeys(P, rows) : k[1] = p}
           left == 320
           width == 1230
           box == Box(320, 1550, 125, 125 + rows * 48)
           height == 125 + 55 + rows * 48
           mark(k) == Mark(k, seconds[k], Box(320, Along(axis, seconds[k], 320, 1230),
                                              CompletionTop(k), CompletionTop(k) + 9))
           marks(p) == {mark(k) : k \in keys(p)}
           page(p) == CompletionBars(p, rows, seconds, V)
           R == Onward(axis, V, left, width, left)
<1>1. ASSUME NEW p
      PROVE  page(p) = Sheet(p, 1900, height, axis, box, marks(p))
  <2>1. ~\E k \in keys(p) : seconds[k] \notin V
    OBVIOUS
  <2>2. QED
    BY <2>1 DEF CompletionBars, CompletionTop
<1>2. Reads(axis, V) /\ V \subseteq Nat
  BY LinearAxisReads
<1>3. left \in Nat /\ width \in Nat /\ Resolution <= 4 * width
  BY DEF Resolution
<1>4. box.x1 = 320 /\ box.x2 = 1550 /\ box.y1 = 125 /\ box.y2 = 125 + rows * 48
  BY DEF Box
<1>5. Within(box, Box(0, 1900, 0, height))
  BY <1>4 DEF Within, Box
<1> HIDE DEF axis
<1>6. ASSUME NEW p \in P
      PROVE  /\ Laid(page(p), axis, marks(p), FALSE, V, R)
             /\ {m.value : m \in marks(p)} = {seconds[k] : k \in keys(p)}
  <2> DEFINE L == [k \in keys(p) |-> 320]
             X == [k \in keys(p) |-> Along(axis, seconds[k], 320, 1230)]
             T == [k \in keys(p) |-> CompletionTop(k)]
             h == 9
             w == 1900
             some == marks(p)
             own == keys(p)
  <2>1. ASSUME NEW k \in own
        PROVE  /\ k \in CompletionKeys(P, rows) /\ k[1] = p
               /\ L[k] = 320 /\ X[k] = Along(axis, seconds[k], left, width) /\ T[k] = CompletionTop(k)
               /\ seconds[k] \in V
    <3>1. k \in CompletionKeys(P, rows) /\ k[1] = p
      OBVIOUS
    <3>2. seconds[k] \in V
      BY <3>1
    <3>3. L[k] = 320 /\ X[k] = Along(axis, seconds[k], left, width) /\ T[k] = CompletionTop(k)
      OBVIOUS
    <3>4. QED
      BY <3>1, <3>2, <3>3
  <2>2. MadeOf(some, own, seconds, L, X, T, h)
    <3>1. ASSUME NEW m \in some
          PROVE  \E k \in own : m = Mark(k, seconds[k], Box(L[k], X[k], T[k], T[k] + h))
      <4>1. PICK k \in own : m = mark(k)
        OBVIOUS
      <4>2. L[k] = 320 /\ X[k] = Along(axis, seconds[k], 320, 1230) /\ T[k] = CompletionTop(k)
        BY <2>1
      <4> HIDE DEF own, L, X, T
      <4>3. m = Mark(k, seconds[k], Box(L[k], X[k], T[k], T[k] + h))
        BY <4>1, <4>2
      <4>4. QED
        BY <4>3
    <3>2. QED
      BY <3>1, Zenon DEF MadeOf
  <2>3. page(p) = Sheet(p, w, height, axis, box, some) /\ Within(box, Box(0, w, 0, height))
    BY <1>1, <1>5
  <2>4. {m.value : m \in some} = {seconds[k] : k \in own}
    <3>1. \A k \in own : mark(k).value = seconds[k]
      BY DEF Mark
    <3> HIDE DEF mark, keys
    <3>2. QED
      BY <3>1
  <2> HIDE DEF own, L, X, T, box, R, some
  <2>5. ASSUME NEW k \in own
        PROVE  /\ seconds[k] \in V
               /\ L[k] \in Int /\ X[k] \in Int /\ T[k] \in Int
               /\ box.x1 <= L[k] /\ L[k] <= X[k] /\ X[k] <= box.x2
               /\ box.y1 <= T[k] /\ T[k] + h <= box.y2
               /\ X[k] - box.x1 = R[seconds[k]]
    <3> DEFINE v == seconds[k]
               a == Along(axis, v, left, width)
               t == CompletionTop(k)
    <3>1. v \in V
      BY <2>1
    <3>2. a \in left .. left + width /\ R[v] = a - left
      <4> HIDE DEF v, left, width
      <4>1. QED
        BY <1>2, <1>3, <3>1, OnwardIs DEF R
    <3>3. t \in Nat /\ 125 <= t /\ t + 9 <= 125 + rows * 48
      BY <2>1, CompletionTops
    <3>4. L[k] = 320 /\ X[k] = a /\ T[k] = t
      BY <2>1
    <3> HIDE DEF a, t, v
    <3>5. QED
      BY <1>4, <3>1, <3>2, <3>3, <3>4 DEF v
  <2>6. ASSUME NEW k \in own, NEW l \in own, k # l
        PROVE  T[k] + h <= T[l] \/ T[l] + h <= T[k]
    BY <2>1, <2>6, CompletionTops
  <2>7. h \in Nat /\ box.x1 \in Int /\ box.x2 \in Int
    BY <1>4
  <2> HIDE DEF h, w, page, height
  <2>8. Rows(own, seconds, L, X, T, h, box, V, R)
    BY <2>5, <2>6, <2>7, Zenon DEF Rows
  <2>9. Fits(box, w, height, some, V, R)
    BY <2>2, <2>3, <2>8, RowsFit
  <2>10. Laid(page(p), axis, some, FALSE, V, R)
    BY <2>3, <2>9, FlatSheet
  <2>11. QED
    BY <2>4, <2>10 DEF own, some
<1> HIDE DEF left, width
<1>7. Tells(axis, V, R, FALSE, FALSE)
  BY <1>2, <1>3, OnwardTells
<1> HIDE DEF marks, page, R
<1>8. Clear({page(p) : p \in P}, FALSE, FALSE, FALSE)
  <2>1. \A q \in {page(p) : p \in P} : Tidy(q, FALSE) /\ Measures(q, axis, FALSE, FALSE, V, R)
    BY <1>6 DEF Laid
  <2>2. QED
    BY <1>2, <1>7, <2>1, Zenon DEF Clear, Reading
<1>9. \A p \in P : {m.value : m \in MarksOf(page(p))} = {seconds[k] : k \in keys(p)}
  BY <1>6 DEF Laid
<1>10. /\ Clear({CompletionBars(p, rows, seconds, V) : p \in P}, FALSE, FALSE, FALSE)
       /\ \A p \in P : {m.value : m \in MarksOf(CompletionBars(p, rows, seconds, V))}
                          = {seconds[k] : k \in {k \in CompletionKeys(P, rows) : k[1] = p}}
  BY <1>8, <1>9 DEF page
<1>11. QED
  BY <1>10, Zenon DEF CompletionsDrawn, StandFor, PartOf

----------------------------------------------------------------------------
(* Ranges, where what is off the scale ends with it.                       *)
RangeReach(axis, V, left, w) == [v \in V |-> Along(axis, Clip(v), left, w) - left]

(* An axis for the clipped values.                                         *)
Scaled(axis, W, V, left, w) ==
    /\ Reads(axis, W) /\ V \subseteq Nat /\ \A v \in V : Clip(v) \in W
    /\ left \in Nat /\ w \in Nat /\ Resolution <= 4 * w

LEMMA ClipIs ==
    ASSUME NEW v \in Nat, NEW w \in Nat
    PROVE  Clip(v) \in Nat /\ (v <= w => Clip(v) <= Clip(w)) /\ (v <= ClipAt => Clip(v) = v) /\ Clip(v) <= ClipAt
BY DEF Clip, ClipAt

LEMMA RangeReaches ==
    ASSUME NEW axis, NEW W, NEW V, NEW left, NEW w, Scaled(axis, W, V, left, w), NEW x \in V, NEW y \in V
    PROVE  LET a == Along(axis, Clip(x), left, w)
               b == Along(axis, Clip(y), left, w)
           IN  /\ a \in left .. left + w /\ left \in Nat /\ w \in Nat
               /\ RangeReach(axis, V, left, w)[x] = a - left
               /\ x <= y => a <= b
               /\ (axis.mode = "logarithmic" /\ x < y /\ 2 * x <= y /\ y <= ClipAt) => a < b
<1> DEFINE c == Clip(x)
           d == Clip(y)
           a == Along(axis, c, left, w)
           b == Along(axis, d, left, w)
<1>1. /\ Reads(axis, W) /\ x \in Nat /\ y \in Nat /\ c \in W /\ d \in W
      /\ left \in Nat /\ w \in Nat /\ Resolution <= 4 * w
  BY DEF Scaled
<1>2. x <= y => c <= d
  BY <1>1, ClipIs
<1>3. (x < y /\ 2 * x <= y /\ y <= ClipAt) => (c < d /\ 2 * c <= d)
  <2>1. SUFFICES ASSUME x < y, y <= ClipAt
                 PROVE  c = x /\ d = y
    OBVIOUS
  <2>2. x <= ClipAt
    BY <1>1, <2>1 DEF ClipAt
  <2>3. QED
    BY <1>1, <2>1, <2>2, ClipIs
<1>4. RangeReach(axis, V, left, w)[x] = a - left
  BY DEF RangeReach
<1> HIDE DEF c, d
<1>5. /\ a \in left .. left + w
      /\ c <= d => a <= b
      /\ (axis.mode = "logarithmic" /\ c < d /\ 2 * c <= d) => a < b
  BY <1>1, AlongIs
<1> HIDE DEF a, b
<1>6. QED
  BY <1>1, <1>2, <1>3, <1>4, <1>5 DEF a, b, c, d

LEMMA RangesTell ==
    ASSUME NEW axis, NEW W, NEW V, NEW left, NEW w, Scaled(axis, W, V, left, w)
    PROVE  Tells(axis, V, RangeReach(axis, V, left, w), FALSE, TRUE)
<1> DEFINE R == RangeReach(axis, V, left, w)
<1>1. ASSUME NEW x \in V, NEW y \in V
      PROVE  /\ x <= y => R[x] <= R[y]
             /\ (axis.mode = "logarithmic" /\ x < y /\ 2 * x <= y /\ y <= ClipAt) => R[x] < R[y]
  <2> DEFINE a == Along(axis, Clip(x), left, w)
             b == Along(axis, Clip(y), left, w)
  <2>1. /\ a \in left .. left + w /\ left \in Nat /\ w \in Nat /\ R[x] = a - left
        /\ x <= y => a <= b
        /\ (axis.mode = "logarithmic" /\ x < y /\ 2 * x <= y /\ y <= ClipAt) => a < b
    BY RangeReaches
  <2>2. b \in left .. left + w /\ R[y] = b - left
    BY RangeReaches
  <2> HIDE DEF a, b, R
  <2>3. QED
    BY <2>1, <2>2
<1> HIDE DEF R
<1>2. (axis.mode = "linear" => Ticks(axis) \in 4 .. 7) /\ (axis.mode = "logarithmic" => 2 <= Ticks(axis))
  BY Zenon DEF Scaled, Reads
<1>3. Tells(axis, V, R, FALSE, TRUE)
  BY <1>1, <1>2, Zenon DEF Tells
<1>4. QED
  BY <1>3 DEF R

(* The rows of a chart of ranges: y runs through the middle of each.       *)
RangeRows(K, values, Y, box, V, left, w) ==
    /\ box.x1 = left /\ box.x2 = left + w /\ box.y1 \in Int /\ box.y2 \in Int
    /\ \A k \in K :
        /\ \A s \in Pooled : values[<<k, s>>] \in V
        /\ Y[k] \in Int /\ box.y1 + 6 <= Y[k] /\ Y[k] + 6 <= box.y2
    /\ \A k, l \in K : k # l => (Y[k] + 12 <= Y[l] \/ Y[l] + 12 <= Y[k])

RangesOf(marks, K, axis, values, left, w, Y) ==
    marks = UNION {RangeMarks(axis, values, k, left, w, Y[k]) : k \in K}

(* A dot in a row at y, whose centre is where its value is.                *)
Dotted(m, k, y, box, V, R) ==
    /\ m.of = k /\ m.value \in V
    /\ y \in Int /\ m.box.y1 \in Int /\ m.box.y2 \in Int
    /\ y - 6 <= m.box.y1 /\ m.box.y2 <= y + 6
    /\ Within(m.box, Room(box, Spill(TRUE)))
    /\ (m.box.x1 + m.box.x2) \div 2 - box.x1 = R[m.value]

LEMMA DotIs ==
    ASSUME NEW axis, NEW W, NEW V, NEW left, NEW w, Scaled(axis, W, V, left, w),
           NEW K, NEW values, NEW Y, NEW box, RangeRows(K, values, Y, box, V, left, w),
           NEW k \in K, NEW m \in RangeMarks(axis, values, k, left, w, Y[k])
    PROVE  Dotted(m, k, Y[k], box, V, RangeReach(axis, V, left, w))
<1>1. PICK s \in Pooled :
          m = Mark(k, values[<<k, s>>], Dot(Along(axis, Clip(values[<<k, s>>]), left, w), Y[k], DotRadius(s)))
  BY DEF RangeMarks
<1> DEFINE v == values[<<k, s>>]
           a == Along(axis, Clip(v), left, w)
           y == Y[k]
           r == DotRadius(s)
           R == RangeReach(axis, V, left, w)
           room == Room(box, Spill(TRUE))
<1>2. /\ v \in V /\ y \in Int /\ box.y1 + 6 <= y /\ y + 6 <= box.y2
      /\ box.x1 = left /\ box.x2 = left + w /\ box.y1 \in Int /\ box.y2 \in Int
  BY Zenon DEF RangeRows
<1>3. r \in {5, 6}
  BY DEF DotRadius
<1>4. m.of = k /\ m.value = v /\ m.box = [x1 |-> a - r, x2 |-> a + r, y1 |-> y - r, y2 |-> y + r]
  BY <1>1 DEF Mark, Dot, Box
<1>5. room = [x1 |-> box.x1 - 6, x2 |-> box.x2 + 6, y1 |-> box.y1, y2 |-> box.y2]
  BY DEF Room, Spill, DotRadius, Box
<1> HIDE DEF v
<1>6. /\ a \in left .. left + w /\ left \in Nat /\ w \in Nat
      /\ R[v] = a - left
  BY <1>2, RangeReaches
<1> HIDE DEF a, y, r, R, room
<1>7. m.box.x1 = a - r /\ m.box.x2 = a + r /\ m.box.y1 = y - r /\ m.box.y2 = y + r
  BY <1>4
<1>8. room.x1 = left - 6 /\ room.x2 = (left + w) + 6 /\ room.y1 = box.y1 /\ room.y2 = box.y2
  BY <1>2, <1>5
<1>9. Within(m.box, room)
  <2>1. /\ room.x1 <= m.box.x1 /\ m.box.x1 <= m.box.x2 /\ m.box.x2 <= room.x2
        /\ room.y1 <= m.box.y1 /\ m.box.y1 <= m.box.y2 /\ m.box.y2 <= room.y2
    BY <1>2, <1>3, <1>6, <1>7, <1>8
  <2>2. QED
    BY <2>1, Zenon DEF Within
<1>10. (m.box.x1 + m.box.x2) \div 2 - box.x1 = R[m.value]
  <2>1. (a - r) + (a + r) = 2 * a /\ (2 * a) \div 2 = a
    BY <1>3, <1>6
  <2>2. (m.box.x1 + m.box.x2) \div 2 = a
    BY <1>7, <2>1
  <2>3. QED
    BY <1>2, <1>4, <1>6, <2>2
<1>11. /\ m.value \in V /\ m.box.y1 \in Int /\ m.box.y2 \in Int
       /\ y - 6 <= m.box.y1 /\ m.box.y2 <= y + 6
  BY <1>2, <1>3, <1>4, <1>7
<1>12. Dotted(m, k, y, box, V, R)
  BY <1>2, <1>4, <1>9, <1>10, <1>11, Zenon DEF Dotted, room
<1>13. QED
  BY <1>12 DEF y, R

LEMMA DotsApart ==
    ASSUME NEW m, NEW n, NEW k, NEW l, NEW s, NEW t, NEW box, NEW V, NEW R,
           Dotted(m, k, s, box, V, R), Dotted(n, l, t, box, V, R), s + 12 <= t \/ t + 12 <= s
    PROVE  ~Overlap(m.box, n.box)
<1> DEFINE a == m.box
           b == n.box
<1>1. /\ s \in Int /\ a.y1 \in Int /\ a.y2 \in Int /\ s - 6 <= a.y1 /\ a.y2 <= s + 6
      /\ t \in Int /\ b.y1 \in Int /\ b.y2 \in Int /\ t - 6 <= b.y1 /\ b.y2 <= t + 6
  BY Zenon DEF Dotted
<1> HIDE DEF a, b
<1>2. a.y2 <= b.y1 \/ b.y2 <= a.y1
  BY <1>1
<1>3. ~Overlap(a, b)
  BY <1>1, <1>2, RowsApart
<1>4. QED
  BY <1>3 DEF a, b

LEMMA RangesLaid ==
    ASSUME NEW axis, NEW W, NEW V, NEW left, NEW w, Scaled(axis, W, V, left, w),
           NEW K, NEW values, NEW Y, NEW box, RangeRows(K, values, Y, box, V, left, w),
           NEW marks, RangesOf(marks, K, axis, values, left, w, Y),
           NEW name, NEW width, NEW height, Within(box, Box(0, width, 0, height))
    PROVE  Laid(Sheet(name, width, height, axis, box, marks), axis, marks, TRUE, V,
                RangeReach(axis, V, left, w))
<1> DEFINE R == RangeReach(axis, V, left, w)
           of(k) == RangeMarks(axis, values, k, left, w, Y[k])
           page == Sheet(name, width, height, axis, box, marks)
<1>1. ASSUME NEW m \in marks
      PROVE  \E k \in K : Dotted(m, k, Y[k], box, V, R)
  <2>1. PICK k \in K : m \in of(k)
    BY DEF RangesOf
  <2>2. Dotted(m, k, Y[k], box, V, R)
    BY <2>1, DotIs
  <2>3. QED
    BY <2>2
<1> HIDE DEF R
<1>2. ASSUME NEW m \in marks, NEW n \in marks, m.of # n.of
      PROVE  ~Overlap(m.box, n.box)
  <2>1. PICK k \in K : Dotted(m, k, Y[k], box, V, R)
    BY <1>1
  <2>2. PICK l \in K : Dotted(n, l, Y[l], box, V, R)
    BY <1>1
  <2>3. k # l
    BY <1>2, <2>1, <2>2, Zenon DEF Dotted
  <2>4. Y[k] + 12 <= Y[l] \/ Y[l] + 12 <= Y[k]
    BY <2>3, Zenon DEF RangeRows
  <2>5. QED
    BY <2>1, <2>2, <2>4, DotsApart
<1>3. Roomy(box, width, height, marks, TRUE)
  BY <1>1, <1>2, Zenon DEF Dotted, Roomy
<1>4. SheetOf(page, axis, box, marks, TRUE)
  BY <1>3, SheetIs, Zenon
<1>5. /\ Tidy(page, TRUE) /\ page.axis = axis /\ MarksOf(page) = marks
      /\ \A d \in Drawings(page) : d[1].box = box /\ d[2] \in marks
  BY <1>4, Zenon DEF SheetOf, MarksOf
<1> HIDE DEF page
<1>6. ASSUME NEW d \in Drawings(page)
      PROVE  d[2].value \in V /\ Length(FALSE, TRUE, d) = R[d[2].value]
  <2>1. d[1].box = box /\ d[2] \in marks
    BY <1>5
  <2>2. PICK k \in K : Dotted(d[2], k, Y[k], box, V, R)
    BY <1>1, <2>1
  <2>3. Length(FALSE, TRUE, d) = (d[2].box.x1 + d[2].box.x2) \div 2 - d[1].box.x1
    BY DEF Length
  <2>4. QED
    BY <2>1, <2>2, <2>3, Zenon DEF Dotted
<1>7. Measures(page, axis, FALSE, TRUE, V, R)
  BY <1>5, <1>6, Zenon DEF Measures
<1>8. QED
  BY <1>5, <1>7, Zenon DEF page, R, Laid

(* What the marks of some rows stand for.                                  *)
LEMMA RangeValues ==
    ASSUME NEW K, NEW axis, NEW values, NEW left, NEW w, NEW Y,
           NEW marks, RangesOf(marks, K, axis, values, left, w, Y)
    PROVE  StandFor(marks, values, K \X Pooled)
<1> DEFINE of(k) == RangeMarks(axis, values, k, left, w, Y[k])
<1>0. marks = UNION {of(k) : k \in K}
  BY Zenon DEF RangesOf
<1>1. ASSUME NEW k \in K
      PROVE  /\ \A m \in of(k) : \E s \in Pooled : m.value = values[<<k, s>>]
             /\ \A s \in Pooled : \E m \in of(k) : m.value = values[<<k, s>>]
  <2> DEFINE dot(s) == Dot(Along(axis, Clip(values[<<k, s>>]), left, w), Y[k], DotRadius(s))
             mark(s) == Mark(k, values[<<k, s>>], dot(s))
  <2>1. \A s : mark(s).value = values[<<k, s>>]
    BY DEF Mark
  <2>2. of(k) = {mark(s) : s \in Pooled}
    BY DEF RangeMarks
  <2> HIDE DEF of, dot, mark
  <2>3. QED
    BY <2>1, <2>2
<1> HIDE DEF of
<1>2. ASSUME NEW m \in marks
      PROVE  \E j \in K \X Pooled : m.value = values[j]
  <2>1. PICK k \in K : m \in of(k)
    BY <1>0
  <2>2. PICK s \in Pooled : m.value = values[<<k, s>>]
    BY <1>1, <2>1
  <2>3. <<k, s>> \in K \X Pooled
    OBVIOUS
  <2>4. QED
    BY <2>2, <2>3
<1>3. ASSUME NEW j \in K \X Pooled
      PROVE  \E m \in marks : m.value = values[j]
  <2>1. PICK k \in K, s \in Pooled : j = <<k, s>>
    OBVIOUS
  <2>2. PICK m \in of(k) : m.value = values[<<k, s>>]
    BY <1>1
  <2>3. QED
    BY <1>0, <2>1, <2>2
<1>4. {m.value : m \in marks} = {values[j] : j \in K \X Pooled}
  BY <1>2, <1>3
<1>5. QED
  BY <1>4, Zenon DEF StandFor

ShowsOn(axis, W, V) == Reads(axis, W) /\ V \subseteq Nat /\ \A v \in V : Clip(v) \in W

LEMMA PercentileAxisReads ==
    ASSUME NEW keys, NEW values, NEW V, V = {values[k] : k \in keys \X Pooled},
           V \subseteq 0 .. Highest, NEW mode \in {"linear", "logarithmic"}
    PROVE  \E W : ShowsOn(PercentileAxis(values, keys, mode), W, V)
<1> DEFINE W == {Clip(values[k]) : k \in keys \X Pooled} \cup {ClipAt}
                \cup (IF mode = "logarithmic" THEN {100} ELSE {})
<1>1. V \subseteq Nat /\ \A v \in V : Clip(v) \in 0 .. Highest /\ Clip(v) \in W
  <2>1. ASSUME NEW v \in V
        PROVE  v \in Nat /\ Clip(v) \in 0 .. Highest /\ Clip(v) \in W
    <3>1. v \in 0 .. Highest /\ Highest \in Nat
      BY HighestIs
    <3>2. Clip(v) \in 0 .. Highest
      BY <3>1 DEF Clip, ClipAt
    <3>3. QED
      BY <3>1, <3>2
  <2>2. QED
    BY <2>1
<1>2. W \subseteq 0 .. Highest /\ W # {}
  <2>1. \A k \in keys \X Pooled : Clip(values[k]) \in 0 .. Highest
    BY <1>1
  <2>2. ClipAt \in 0 .. Highest /\ 100 \in 0 .. Highest
    BY HighestIs
  <2>3. QED
    BY <2>1, <2>2
<1>3. PercentileAxis(values, keys, mode) = ValueAxis(W, mode, 0)
  BY DEF PercentileAxis
<1> HIDE DEF W
<1>4. 0 \in {0, 1}
  OBVIOUS
<1>5. Reads(ValueAxis(W, mode, 0), W)
  BY <1>2, <1>4, ValueAxisReads
<1>6. QED
  BY <1>1, <1>3, <1>5, Zenon DEF ShowsOn

ScenarioFits(rows, values, mode) ==
    /\ rows \in Nat /\ mode \in {"linear", "logarithmic"}
    /\ \A k \in (0 .. rows - 1) \X Pooled : values[k] \in 0 .. Highest
    /\ ScenarioRanges(rows, values, mode) # None

ScenarioDrawn(rows, values, mode) ==
    /\ Clear({ScenarioRanges(rows, values, mode)}, FALSE, FALSE, TRUE)
    /\ StandFor(MarksOf(ScenarioRanges(rows, values, mode)), values, (0 .. rows - 1) \X Pooled)

LEMMA ScenarioRangesAre ==
    ASSUME NEW rows, NEW values, NEW mode, ScenarioFits(rows, values, mode)
    PROVE  ScenarioDrawn(rows, values, mode)
<1>0. /\ rows \in Nat /\ mode \in {"linear", "logarithmic"}
      /\ \A k \in (0 .. rows - 1) \X Pooled : values[k] \in 0 .. Highest
      /\ ScenarioRanges(rows, values, mode) # None
  BY Zenon DEF ScenarioFits
<1> USE <1>0
<1> DEFINE K == 0 .. rows - 1
           V == {values[k] : k \in K \X Pooled}
           axis == PercentileAxis(values, K, mode)
           Y == [k \in K |-> 125 + 46 + k * 36 + 18]
           left == 320
           width == 1380
           box == Box(320, 1700, 125 + 46, 125 + 46 + rows * 36)
           height == 125 + 55 + 46 + rows * 36
           marks == UNION {RangeMarks(axis, values, k, left, width, Y[k]) : k \in K}
           page == ScenarioRanges(rows, values, mode)
           R == RangeReach(axis, V, left, width)
<1>1. ASSUME NEW k \in K
      PROVE  InOrder(values, k)
  BY DEF ScenarioRanges
<1>2. page = Sheet("scenario", 2200, height, axis, box, marks)
  <2> DEFINE of(k) == RangeMarks(axis, values, k, 320, 1380, 125 + 46 + k * 36 + 18)
  <2>1. page = Sheet("scenario", 2200, height, axis, box, UNION {of(k) : k \in K})
    BY <1>1 DEF ScenarioRanges
  <2>2. \A k \in K : RangeMarks(axis, values, k, left, width, Y[k]) = of(k)
    OBVIOUS
  <2> HIDE DEF of, axis, K, Y, left, width
  <2>3. marks = UNION {of(k) : k \in K}
    BY <2>2
  <2> HIDE DEF marks
  <2>4. QED
    BY <2>1, <2>3
<1>3. V \subseteq 0 .. Highest
  OBVIOUS
<1>4. PICK W : ShowsOn(axis, W, V)
  <2>1. \A some : (some = {values[k] : k \in K \X Pooled} /\ some \subseteq 0 .. Highest)
                     => \E W : ShowsOn(axis, W, some)
    <3> HIDE DEF K, V
    <3>1. QED
      BY PercentileAxisReads, Zenon
  <2>2. QED
    BY <1>3, <2>1
<1>5. Scaled(axis, W, V, left, width)
  <2>1. left \in Nat /\ width \in Nat /\ Resolution <= 4 * width
    BY DEF Resolution
  <2> HIDE DEF axis, V, left, width
  <2>2. QED
    BY <1>4, <2>1, Zenon DEF Scaled, ShowsOn
<1>6. box.x1 = left /\ box.x2 = left + width /\ box.y1 = 171 /\ box.y2 = 171 + rows * 36
  BY DEF Box
<1>7. ASSUME NEW k \in K
      PROVE  /\ Y[k] = 189 + k * 36 /\ k \in Nat /\ k <= rows - 1
             /\ \A t \in Pooled : values[<<k, t>>] \in V
  OBVIOUS
<1>8. Within(box, Box(0, 2200, 0, height))
  BY <1>6 DEF Within, Box
<1> HIDE DEF K, V, axis, Y, left, width, box, marks, page, R
<1>9. RangeRows(K, values, Y, box, V, left, width)
  <2>1. ASSUME NEW k \in K
        PROVE  /\ \A t \in Pooled : values[<<k, t>>] \in V
               /\ Y[k] \in Int /\ box.y1 + 6 <= Y[k] /\ Y[k] + 6 <= box.y2
    <3>1. Y[k] \in Int /\ box.y1 + 6 <= Y[k] /\ Y[k] + 6 <= box.y2
      BY <1>6, <1>7
    <3>2. QED
      BY <1>7, <3>1
  <2>2. ASSUME NEW k \in K, NEW l \in K, k # l
        PROVE  Y[k] + 12 <= Y[l] \/ Y[l] + 12 <= Y[k]
    BY <1>7, <2>2
  <2>3. box.y1 \in Int /\ box.y2 \in Int
    BY <1>6
  <2>4. box.x1 = left /\ box.x2 = left + width
    BY <1>6
  <2>5. QED
    BY <2>1, <2>2, <2>3, <2>4, Zenon DEF RangeRows
<1>10. RangesOf(marks, K, axis, values, left, width, Y)
  BY Zenon DEF RangesOf, marks
<1> DEFINE w == 2200
<1>11. page = Sheet("scenario", w, height, axis, box, marks) /\ Within(box, Box(0, w, 0, height))
  BY <1>2, <1>8
<1> HIDE DEF w, height
<1>13. Laid(page, axis, marks, TRUE, V, R)
  BY <1>5, <1>9, <1>10, <1>11, RangesLaid DEF R
<1>14. Tells(axis, V, R, FALSE, TRUE)
  BY <1>5, RangesTell DEF R
<1>15. {m.value : m \in MarksOf(page)} = {values[j] : j \in K \X Pooled}
  <2>1. {m.value : m \in marks} = {values[j] : j \in K \X Pooled}
    <3>1. StandFor(marks, values, K \X Pooled)
      BY <1>10, RangeValues, Zenon
    <3>2. QED
      BY <3>1, Zenon DEF StandFor
  <2>2. MarksOf(page) = marks
    BY <1>13, Zenon DEF Laid
  <2>3. QED
    BY <2>1, <2>2
<1>16. Clear({page}, FALSE, FALSE, TRUE)
  <2>1. Tidy(page, TRUE) /\ Measures(page, axis, FALSE, TRUE, V, R) /\ V \subseteq Nat
    BY <1>4, <1>13, Zenon DEF Laid, ShowsOn
  <2>2. QED
    BY <1>14, <2>1, ClearOne, Zenon
<1>17. /\ Clear({ScenarioRanges(rows, values, mode)}, FALSE, FALSE, TRUE)
       /\ {m.value : m \in MarksOf(ScenarioRanges(rows, values, mode))}
             = {values[j] : j \in (0 .. rows - 1) \X Pooled}
  BY <1>15, <1>16 DEF page, K
<1>18. QED
  BY <1>17, Zenon DEF ScenarioDrawn, StandFor

----------------------------------------------------------------------------
(* TLS charts: rows in blocks, whose heights depend on the labels.          *)
LEMMA TlsGrow ==
    ASSUME NEW labels \in Seq(Nat), NEW form, NEW i \in 0 .. Len(labels), NEW j \in 0 .. Len(labels),
           i <= j
    PROVE  TlsBlocks(form, SubSeq(labels, 1, i)) <= TlsBlocks(form, SubSeq(labels, 1, j))
<1> DEFINE n == Len(labels)
           H(k) == TlsBlocks(form, SubSeq(labels, 1, k))
           T == {m \in Nat : \A k \in 0 .. n : k + m <= n => H(k) <= H(k + m)}
<1>1. n \in Nat /\ \A k \in 1 .. n : labels[k] \in Nat
  BY LenProperties, ElementOfSeq
<1>2. /\ \A k \in 0 .. n : H(k) \in Nat
      /\ \A k \in Nat : k < n => H(k + 1) = H(k) + TlsBlock(form, labels[k + 1])
  BY TlsHeights
<1>3. \A k \in Nat : k < n => TlsBlock(form, labels[k + 1]) \in Nat
  <2>1. ASSUME NEW k \in Nat, k < n
        PROVE  labels[k + 1] \in Nat
    BY <1>1, <2>1
  <2>2. QED
    BY <2>1, BlockIs
<1> HIDE DEF H, n
<1>4. 0 \in T
  <2>1. \A k \in 0 .. n : k + 0 = k /\ H(k) <= H(k)
    BY <1>1, <1>2
  <2>2. QED
    BY <2>1
<1>5. ASSUME NEW m \in Nat, m \in T
      PROVE  m + 1 \in T
  <2>1. ASSUME NEW k \in 0 .. n, k + (m + 1) <= n
        PROVE  H(k) <= H(k + (m + 1))
    <3>1. k + m \in 0 .. n /\ k + m < n /\ (k + m) + 1 \in 0 .. n /\ (k + m) + 1 = k + (m + 1)
      BY <1>1, <2>1
    <3>2. H(k) <= H(k + m)
      BY <1>5, <3>1
    <3>3. H((k + m) + 1) = H(k + m) + TlsBlock(form, labels[(k + m) + 1])
      BY <1>2, <3>1
    <3>4. TlsBlock(form, labels[(k + m) + 1]) \in Nat
      BY <1>3, <3>1
    <3>5. H(k) \in Nat /\ H(k + m) \in Nat
      BY <1>2, <3>1
    <3> DEFINE a == H(k)
               b == H(k + m)
               c == TlsBlock(form, labels[(k + m) + 1])
    <3>6. a <= b + c
      <4>1. a \in Nat /\ b \in Nat /\ c \in Nat /\ a <= b
        BY <3>2, <3>4, <3>5
      <4> HIDE DEF a, b, c
      <4>2. QED
        BY <4>1
    <3>7. QED
      BY <3>1, <3>3, <3>6
  <2>2. QED
    BY <2>1
<1>6. Nat \subseteq T
  BY <1>4, <1>5, SetInduction
<1> HIDE DEF T
<1>7. j - i \in T /\ i + (j - i) = j /\ i \in 0 .. n /\ j <= n
  <2>1. j - i \in Nat /\ i + (j - i) = j /\ i \in 0 .. n /\ j <= n
    BY <1>1 DEF n
  <2>2. QED
    BY <1>6, <2>1
<1> USE DEF T
<1>8. H(i) <= H(j)
  BY <1>7
<1>9. QED
  BY <1>8 DEF H

LEMMA TlsRowsIn ==
    ASSUME NEW x \in Nat, NEW y \in Nat, NEW rh \in {32, 48}, NEW r \in {0, 1, 2, 3}, NEW q \in {0, 1, 2, 3}
    PROVE  LET t(s) == 166 + x + y + s * rh
           IN  /\ t(r) \in Nat /\ 166 + x <= t(r) /\ t(r) + rh <= 166 + (x + y + 4 * rh + 12)
               /\ r < q => t(r) + rh <= t(q)
<1>1. CASE rh = 32
  BY <1>1
<1>2. CASE rh = 48
  BY <1>2
<1>3. QED
  BY <1>1, <1>2

LEMMA TlsTops ==
    ASSUME NEW labels \in Seq(Nat), NEW form,
           NEW k \in 0 .. 4 * Len(labels) - 1, NEW l \in 0 .. 4 * Len(labels) - 1
    PROVE  /\ TlsRowTop(form, labels, k) \in Nat /\ 166 <= TlsRowTop(form, labels, k)
           /\ TlsRowTop(form, labels, k) + TlsRowHeight(form) <= 166 + TlsBlocks(form, labels)
           /\ k < l => TlsRowTop(form, labels, k) + TlsRowHeight(form) <= TlsRowTop(form, labels, l)
<1> DEFINE n == Len(labels)
           H(m) == TlsBlocks(form, SubSeq(labels, 1, m))
           rh == TlsRowHeight(form)
           i == k \div 4
           a == k % 4
           j == l \div 4
           b == l % 4
           header(m) == TlsHeader(labels[m + 1])
<1>0. /\ TlsRowTop(form, labels, k) = 120 + 46 + H(i) + header(i) + a * rh
      /\ TlsRowTop(form, labels, l) = 120 + 46 + H(j) + header(j) + b * rh
  BY Zenon DEF TlsRowTop
<1>1. n \in Nat /\ \A m \in 1 .. n : labels[m] \in Nat
  BY LenProperties, ElementOfSeq
<1>2. /\ i \in Nat /\ i < n /\ a \in {0, 1, 2, 3} /\ j \in Nat /\ j < n /\ b \in {0, 1, 2, 3}
      /\ k = 4 * i + a /\ l = 4 * j + b
  BY <1>1
<1>3. /\ \A m \in 0 .. n : H(m) \in Nat
      /\ \A m \in Nat : m < n => H(m + 1) = H(m) + TlsBlock(form, labels[m + 1])
      /\ H(n) = TlsBlocks(form, labels)
  BY TlsHeights
<1>4. ASSUME NEW m \in Nat, m < n
      PROVE  header(m) \in Nat /\ rh \in {32, 48} /\ H(m) \in Nat /\ H(m + 1) \in Nat
             /\ H(m + 1) = H(m) + header(m) + 4 * rh + 12
  <2>1. labels[m + 1] \in Nat /\ m \in 0 .. n /\ m + 1 \in 0 .. n
    BY <1>1, <1>4
  <2>2. header(m) \in Nat /\ rh \in {32, 48} /\ TlsBlock(form, labels[m + 1]) = header(m) + 4 * rh + 12
    BY <2>1, BlockIs
  <2>3. H(m) \in Nat /\ H(m + 1) \in Nat /\ H(m + 1) = H(m) + TlsBlock(form, labels[m + 1])
    BY <1>3, <1>4, <2>1
  <2> HIDE DEF header, rh, H
  <2>4. QED
    BY <2>2, <2>3
<1>5. \A p, q \in 0 .. n : p <= q => H(p) <= H(q)
  BY TlsGrow
<1> HIDE DEF n, H, rh, i, a, j, b, header
<1> DEFINE x == H(i)
           y == header(i)
           u == H(j)
           v == header(j)
           end == H(i + 1)
           s == TlsRowTop(form, labels, k)
           t == TlsRowTop(form, labels, l)
<1>6. /\ x \in Nat /\ y \in Nat /\ rh \in {32, 48} /\ end \in Nat /\ end = x + y + 4 * rh + 12
      /\ u \in Nat /\ v \in Nat
  <2>1. i \in Nat /\ i < n /\ j \in Nat /\ j < n
    BY <1>2
  <2>2. QED
    BY <1>4, <2>1
<1>7. end <= H(n) /\ H(n) \in Nat
  <2>1. i + 1 \in 0 .. n /\ n \in 0 .. n /\ i + 1 <= n
    BY <1>1, <1>2
  <2>2. QED
    BY <1>3, <1>5, <2>1
<1>8. (i < j => end <= u) /\ (i = j => (x = u /\ y = v))
  <2>1. i + 1 \in 0 .. n /\ j \in 0 .. n /\ (i < j => i + 1 <= j)
    BY <1>1, <1>2
  <2>2. QED
    BY <1>5, <2>1
<1>9. s = 120 + 46 + x + y + a * rh /\ t = 120 + 46 + u + v + b * rh
  BY <1>0
<1>10. a \in {0, 1, 2, 3} /\ b \in {0, 1, 2, 3} /\ (k < l => (i < j \/ (i = j /\ a < b)))
  BY <1>2
<1> DEFINE full == H(n)
<1> HIDE DEF x, y, u, v, end, s, t, full
<1>11. /\ s \in Nat /\ 166 + x <= s /\ s + rh <= 166 + end
       /\ a < b => s + rh <= 166 + x + y + b * rh
  <2>1. s = 166 + x + y + a * rh
    BY <1>6, <1>9
  <2>2. QED
    BY <1>6, <1>10, <2>1, TlsRowsIn
<1>12. t \in Nat /\ 166 + u <= t /\ t = 166 + u + v + b * rh
  <2>1. t = 166 + u + v + b * rh
    BY <1>6, <1>9
  <2>2. QED
    BY <1>6, <1>10, <2>1, TlsRowsIn
<1>13. s + rh <= 166 + full /\ 166 <= s
  BY <1>6, <1>7, <1>11 DEF full
<1>14. ASSUME k < l
       PROVE  s + rh <= t
  <2>1. CASE i < j
    BY <1>6, <1>8, <1>11, <1>12, <2>1
  <2>2. CASE i = j /\ a < b
    BY <1>8, <1>11, <1>12, <2>2
  <2>3. QED
    BY <1>10, <1>14, <2>1, <2>2
<1>15. full = TlsBlocks(form, labels)
  BY <1>3 DEF full
<1>16. QED
  BY <1>11, <1>13, <1>14, <1>15 DEF s, t, rh

TlsRangesFit(name, labels, K, values, all, mode) ==
    /\ labels \in Seq(Nat) /\ K \subseteq 0 .. 4 * Len(labels) - 1
    /\ mode \in {"linear", "logarithmic"} /\ \A k \in K \X Pooled : values[k] \in 0 .. Highest
    /\ TlsChart(name, "percentiles", labels, K, values, all, mode) # None

TlsRangesDrawn(name, labels, K, values, all, mode) ==
    /\ Clear({TlsChart(name, "percentiles", labels, K, values, all, mode)}, FALSE, FALSE, TRUE)
    /\ StandFor(MarksOf(TlsChart(name, "percentiles", labels, K, values, all, mode)), values,
                K \X Pooled)

LEMMA TlsRangesAre ==
    ASSUME NEW name, NEW labels, NEW K, NEW values, NEW all, NEW mode,
           TlsRangesFit(name, labels, K, values, all, mode)
    PROVE  TlsRangesDrawn(name, labels, K, values, all, mode)
<1>a. /\ labels \in Seq(Nat) /\ K \subseteq 0 .. 4 * Len(labels) - 1
      /\ mode \in {"linear", "logarithmic"} /\ \A k \in K \X Pooled : values[k] \in 0 .. Highest
      /\ TlsChart(name, "percentiles", labels, K, values, all, mode) # None
  BY Zenon DEF TlsRangesFit
<1> USE <1>a
<1> DEFINE form == "percentiles"
           V == {values[k] : k \in K \X Pooled}
           axis == PercentileAxis(values, K, mode)
           Y == [k \in K |-> TlsRowTop(form, labels, k) + TlsRowHeight(form) \div 2]
           left == 310
           width == 1170
           body == TlsBlocks(form, labels)
           box == Box(310, 1480, 166, 166 + body)
           height == 120 + 46 + body + 75
           marks == UNION {RangeMarks(axis, values, k, left, width, Y[k]) : k \in K}
           page == TlsChart(name, form, labels, K, values, all, mode)
           R == RangeReach(axis, V, left, width)
<1>0. TlsRowHeight(form) = 32 /\ body \in Nat
  <2>1. Len(labels) \in Nat
    BY LenProperties
  <2>2. body \in Nat
    BY <2>1, TlsHeights
  <2>3. QED
    BY <2>2 DEF TlsRowHeight
<1>1. ASSUME NEW k \in K
      PROVE  InOrder(values, k)
  BY DEF TlsChart
<1>2. page = Sheet(name, 1900, height, axis, box, marks)
  <2> DEFINE of(k) == TlsMarks(form, labels, axis, values, k)
  <2>1. page = Sheet(name, 1900, height, axis, box, UNION {of(k) : k \in K})
    BY <1>1 DEF TlsChart
  <2>2. \A k \in K : RangeMarks(axis, values, k, left, width, Y[k]) = of(k)
    BY DEF TlsMarks
  <2> HIDE DEF of, axis, Y, left, width
  <2>3. marks = UNION {of(k) : k \in K}
    BY <2>2
  <2> HIDE DEF marks
  <2>4. QED
    BY <2>1, <2>3
<1>3. V \subseteq 0 .. Highest
  OBVIOUS
<1>4. PICK W : ShowsOn(axis, W, V)
  <2>1. \A some : (some = {values[k] : k \in K \X Pooled} /\ some \subseteq 0 .. Highest)
                     => \E W : ShowsOn(axis, W, some)
    <3> HIDE DEF V
    <3>1. QED
      BY PercentileAxisReads, Zenon
  <2>2. QED
    BY <1>3, <2>1
<1>5. Scaled(axis, W, V, left, width)
  <2>1. left \in Nat /\ width \in Nat /\ Resolution <= 4 * width
    BY DEF Resolution
  <2> HIDE DEF axis, V, left, width
  <2>2. QED
    BY <1>4, <2>1, Zenon DEF Scaled, ShowsOn
<1>6. box.x1 = left /\ box.x2 = left + width /\ box.y1 = 166 /\ box.y2 = 166 + body
  BY DEF Box
<1>7. ASSUME NEW k \in K
      PROVE  /\ Y[k] = TlsRowTop(form, labels, k) + 16
             /\ \A t \in Pooled : values[<<k, t>>] \in V
  <2>1. 32 \div 2 = 16
    OBVIOUS
  <2> HIDE DEF body
  <2>2. Y[k] = TlsRowTop(form, labels, k) + 16
    BY <1>0, <2>1
  <2>3. QED
    BY <2>2
<1>8. Within(box, Box(0, 1900, 0, height))
  <2> HIDE DEF body
  <2>1. QED
    BY <1>0, <1>6 DEF Within, Box
<1> HIDE DEF V, axis, Y, left, width, box, marks, page, R, body
<1> DEFINE top(k) == TlsRowTop(form, labels, k)
<1>9. ASSUME NEW k \in K
       PROVE  top(k) \in Nat /\ 166 <= top(k) /\ top(k) + 32 <= 166 + body
  <2>1. k \in 0 .. 4 * Len(labels) - 1
    OBVIOUS
  <2>2. QED
    BY <1>0, <2>1, TlsTops DEF body
<1>10. ASSUME NEW k \in K, NEW l \in K, k # l
       PROVE  top(k) + 32 <= top(l) \/ top(l) + 32 <= top(k)
  <2>1. k \in 0 .. 4 * Len(labels) - 1 /\ l \in 0 .. 4 * Len(labels) - 1 /\ Len(labels) \in Nat
    BY LenProperties
  <2>2. k < l \/ l < k
    BY <1>10, <2>1
  <2>3. QED
    BY <1>0, <2>1, <2>2, TlsTops
<1> HIDE DEF top
<1>11. \A k \in K : Y[k] = top(k) + 16
  BY <1>7 DEF top
<1>12. RangeRows(K, values, Y, box, V, left, width)
  <2>1. ASSUME NEW k \in K
        PROVE  /\ \A t \in Pooled : values[<<k, t>>] \in V
               /\ Y[k] \in Int /\ box.y1 + 6 <= Y[k] /\ Y[k] + 6 <= box.y2
    <3>1. Y[k] \in Int /\ box.y1 + 6 <= Y[k] /\ Y[k] + 6 <= box.y2
      BY <1>0, <1>6, <1>9, <1>11
    <3>2. QED
      BY <1>7, <3>1
  <2>2. ASSUME NEW k \in K, NEW l \in K, k # l
        PROVE  Y[k] + 12 <= Y[l] \/ Y[l] + 12 <= Y[k]
    <3> DEFINE x == top(k)
               y == top(l)
    <3>1. x \in Nat /\ y \in Nat /\ (x + 32 <= y \/ y + 32 <= x)
      BY <1>9, <1>10, <2>2
    <3>2. Y[k] = x + 16 /\ Y[l] = y + 16
      BY <1>11
    <3> HIDE DEF x, y
    <3>3. QED
      BY <3>1, <3>2
  <2>3. box.y1 \in Int /\ box.y2 \in Int
    BY <1>0, <1>6
  <2>4. box.x1 = left /\ box.x2 = left + width
    BY <1>6
  <2>5. QED
    BY <2>1, <2>2, <2>3, <2>4, Zenon DEF RangeRows
<1>13. RangesOf(marks, K, axis, values, left, width, Y)
  BY Zenon DEF RangesOf, marks
<1> DEFINE w == 1900
<1>14. page = Sheet(name, w, height, axis, box, marks) /\ Within(box, Box(0, w, 0, height))
  BY <1>2, <1>8
<1> HIDE DEF w, height
<1>16. Laid(page, axis, marks, TRUE, V, R)
  BY <1>5, <1>12, <1>13, <1>14, RangesLaid DEF R
<1>17. Tells(axis, V, R, FALSE, TRUE)
  BY <1>5, RangesTell DEF R
<1>18. {m.value : m \in MarksOf(page)} = {values[j] : j \in K \X Pooled}
  <2>1. {m.value : m \in marks} = {values[j] : j \in K \X Pooled}
    <3>1. StandFor(marks, values, K \X Pooled)
      BY <1>13, RangeValues, Zenon
    <3>2. QED
      BY <3>1, Zenon DEF StandFor
  <2>2. MarksOf(page) = marks
    BY <1>16, Zenon DEF Laid
  <2>3. QED
    BY <2>1, <2>2
<1>19. Clear({page}, FALSE, FALSE, TRUE)
  <2>1. Tidy(page, TRUE) /\ Measures(page, axis, FALSE, TRUE, V, R) /\ V \subseteq Nat
    BY <1>4, <1>16, Zenon DEF Laid, ShowsOn
  <2>2. QED
    BY <1>17, <2>1, ClearOne, Zenon
<1>20. /\ Clear({TlsChart(name, "percentiles", labels, K, values, all, mode)}, FALSE, FALSE, TRUE)
       /\ {m.value : m \in MarksOf(TlsChart(name, "percentiles", labels, K, values, all, mode))}
             = {values[j] : j \in K \X Pooled}
  BY <1>18, <1>19 DEF page
<1>21. QED
  BY <1>20, Zenon DEF TlsRangesDrawn, StandFor

(* The other TLS charts: bars in the rows, three of them or one.           *)
TlsParts(form) == IF form = "completion" THEN Repeats ELSE {"bytes"}
TlsBarHeight(form) == IF form = "completion" THEN 9 ELSE 14
TlsBarFrom(form, part) == IF form = "completion" THEN 5 + part * 13 ELSE 9
TlsBarTop(form, labels, k) == TlsRowTop(form, labels, k[1]) + TlsBarFrom(form, k[2])

LEMMA TlsBarFits ==
    ASSUME NEW form \in {"completion", "bytes"}, NEW r \in TlsParts(form)
    PROVE  /\ TlsBarHeight(form) \in Nat /\ TlsBarFrom(form, r) \in Nat
           /\ TlsBarFrom(form, r) + TlsBarHeight(form) <= TlsRowHeight(form) /\ TlsRowHeight(form) \in Nat
           /\ \A q \in TlsParts(form) : r # q =>
                \/ TlsBarFrom(form, r) + TlsBarHeight(form) <= TlsBarFrom(form, q)
                \/ TlsBarFrom(form, q) + TlsBarHeight(form) <= TlsBarFrom(form, r)
BY DEF TlsParts, TlsBarHeight, TlsBarFrom, TlsRowHeight, Repeats

LEMMA TlsBarTops ==
    ASSUME NEW form \in {"completion", "bytes"}, NEW labels \in Seq(Nat),
           NEW k \in (0 .. 4 * Len(labels) - 1) \X TlsParts(form),
           NEW l \in (0 .. 4 * Len(labels) - 1) \X TlsParts(form)
    PROVE  /\ TlsBarHeight(form) \in Nat
           /\ TlsBarTop(form, labels, k) \in Nat /\ 166 <= TlsBarTop(form, labels, k)
           /\ TlsBarTop(form, labels, k) + TlsBarHeight(form) <= 166 + TlsBlocks(form, labels)
           /\ k # l => \/ TlsBarTop(form, labels, k) + TlsBarHeight(form) <= TlsBarTop(form, labels, l)
                       \/ TlsBarTop(form, labels, l) + TlsBarHeight(form) <= TlsBarTop(form, labels, k)
<1> DEFINE i == k[1]
           r == k[2]
           j == l[1]
           q == l[2]
           s == TlsRowTop(form, labels, i)
           t == TlsRowTop(form, labels, j)
           rh == TlsRowHeight(form)
           h == TlsBarHeight(form)
           a == TlsBarFrom(form, r)
           b == TlsBarFrom(form, q)
           end == TlsBlocks(form, labels)
<1>1. /\ i \in 0 .. 4 * Len(labels) - 1 /\ j \in 0 .. 4 * Len(labels) - 1 /\ Len(labels) \in Nat
      /\ r \in TlsParts(form) /\ q \in TlsParts(form) /\ (k # l => (i # j \/ r # q))
  <2>1. Len(labels) \in Nat
    BY LenProperties
  <2>2. /\ i \in 0 .. 4 * Len(labels) - 1 /\ j \in 0 .. 4 * Len(labels) - 1
        /\ r \in TlsParts(form) /\ q \in TlsParts(form) /\ k = <<i, r>> /\ l = <<j, q>>
    OBVIOUS
  <2> HIDE DEF i, j, r, q
  <2>3. QED
    BY <2>1, <2>2
<1>2. TlsBarTop(form, labels, k) = s + a /\ TlsBarTop(form, labels, l) = t + b
  BY DEF TlsBarTop
<1> HIDE DEF i, j, r, q
<1>3. /\ h \in Nat /\ a \in Nat /\ b \in Nat /\ rh \in Nat /\ a + h <= rh /\ b + h <= rh
      /\ r # q => (a + h <= b \/ b + h <= a)
  BY <1>1, TlsBarFits
<1>4. end \in Nat
  <2>1. TlsBlocks(form, labels) \in Nat
    BY <1>1, TlsHeights
  <2>2. QED
    BY <2>1
<1>5. /\ s \in Nat /\ t \in Nat /\ 166 <= s /\ s + rh <= 166 + end
      /\ (i < j => s + rh <= t) /\ (j < i => t + rh <= s) /\ (i = j => s = t)
  BY <1>1, TlsTops
<1>6. i < j \/ j < i \/ i = j
  BY <1>1
<1> HIDE DEF s, t, a, b, h, rh, end
<1>7. s + a \in Nat /\ 166 <= s + a /\ (s + a) + h <= 166 + end
  BY <1>3, <1>4, <1>5
<1>8. ASSUME i # j \/ r # q
      PROVE  (s + a) + h <= t + b \/ (t + b) + h <= s + a
  BY <1>3, <1>5, <1>6, <1>8
<1>9. QED
  BY <1>1, <1>2, <1>3, <1>7, <1>8 DEF h, end

TlsBar(form, labels, axis, values, k) ==
    Mark(k, values[k], Box(310, Along(axis, values[k], 310, 1170),
                           TlsBarTop(form, labels, k), TlsBarTop(form, labels, k) + TlsBarHeight(form)))

TlsBars(some, form, labels, axis, values, row) ==
    some = {TlsBar(form, labels, axis, values, <<row, r>>) : r \in TlsParts(form)}

LEMMA TlsMarksAre ==
    ASSUME NEW form \in {"completion", "bytes"}, NEW labels, NEW axis, NEW values, NEW row,
           TlsRowTop(form, labels, row) \in Nat
    PROVE  TlsBars(TlsMarks(form, labels, axis, values, row), form, labels, axis, values, row)
<1> DEFINE top == TlsRowTop(form, labels, row)
           x(v) == Along(axis, v, 310, 1170)
           bar(r, y, z) == Mark(<<row, r>>, values[<<row, r>>], Box(310, x(values[<<row, r>>]), y, z))
           from(r) == top + TlsBarFrom(form, r)
           h == TlsBarHeight(form)
           some == {TlsBar(form, labels, axis, values, <<row, r>>) : r \in TlsParts(form)}
<1>0. SUFFICES TlsMarks(form, labels, axis, values, row) = some
  BY Zenon DEF TlsBars
<1>1. \A r : TlsBar(form, labels, axis, values, <<row, r>>) = bar(r, from(r), from(r) + h)
  BY DEF TlsBar, TlsBarTop
<1>2. CASE form = "completion"
  <2>1. TlsMarks(form, labels, axis, values, row)
           = {bar(r, top + 5 + r * 13, top + 5 + r * 13 + 9) : r \in Repeats}
    BY <1>2 DEF TlsMarks
  <2>2. TlsParts(form) = Repeats /\ \A r \in Repeats : TlsBarFrom(form, r) = 5 + r * 13
    BY <1>2 DEF TlsParts, TlsBarFrom
  <2>3. ASSUME NEW r \in Repeats
        PROVE  top + 5 + r * 13 = from(r) /\ top + 5 + r * 13 + 9 = from(r) + h
    <3>1. top \in Nat /\ h = 9 /\ TlsBarFrom(form, r) = 5 + r * 13
      BY <1>2, <2>2 DEF TlsBarHeight
    <3> HIDE DEF top, h
    <3>2. from(r) = top + (5 + r * 13)
      BY <3>1
    <3> HIDE DEF from
    <3>3. QED
      BY <3>1, <3>2 DEF Repeats
  <2>4. some = {TlsBar(form, labels, axis, values, <<row, r>>) : r \in Repeats}
    BY <2>2
  <2> HIDE DEF x, top, from, h, some
  <2> DEFINE own(r) == bar(r, top + 5 + r * 13, top + 5 + r * 13 + 9)
  <2>5. \A r \in Repeats : own(r) = TlsBar(form, labels, axis, values, <<row, r>>)
    BY <1>1, <2>3
  <2>6. TlsMarks(form, labels, axis, values, row) = {own(r) : r \in Repeats}
    BY <2>1
  <2> HIDE DEF own
  <2>7. QED
    BY <2>4, <2>5, <2>6
<1>3. CASE form = "bytes"
  <2> DEFINE middle == top + TlsRowHeight(form) \div 2
             b == "bytes"
  <2>1. TlsMarks(form, labels, axis, values, row) = {bar(b, middle - 7, middle + 7)}
    BY <1>3 DEF TlsMarks
  <2>2. TlsParts(form) = {b} /\ h = 14 /\ TlsBarFrom(form, b) = 9
    BY <1>3 DEF TlsParts, TlsBarHeight, TlsBarFrom
  <2>3. middle - 7 = from(b) /\ middle + 7 = from(b) + h
    <3>1. top \in Nat /\ TlsRowHeight(form) = 32
      BY <1>3 DEF TlsRowHeight
    <3> HIDE DEF top, h, b
    <3>2. middle = top + 16 /\ from(b) = top + 9
      BY <2>2, <3>1
    <3> HIDE DEF middle, from
    <3>3. QED
      BY <2>2, <3>1, <3>2
  <2>4. some = {TlsBar(form, labels, axis, values, <<row, b>>)}
    BY <2>2
  <2> HIDE DEF x, top, middle, from, h, some, b
  <2>5. bar(b, middle - 7, middle + 7) = TlsBar(form, labels, axis, values, <<row, b>>)
    BY <1>1, <2>3
  <2>6. QED
    BY <2>1, <2>4, <2>5
<1>4. QED
  BY <1>2, <1>3

(* Pages on one axis, a value for each row and part of theirs.             *)
TlsBarsFit(P, form, labels, S, own, V) ==
    /\ form \in {"completion", "bytes"} /\ labels \in Seq(Nat)
    /\ S \subseteq 0 .. 4 * Len(labels) - 1 /\ V \subseteq 0 .. Highest /\ V # {}
    /\ \A p \in P : \A k \in S \X TlsParts(form) : own[p][k] \in V

TlsBarsDrawn(P, form, labels, S, own, V, mode) ==
    /\ Clear({TlsChart(p, form, labels, S, own[p], V, mode) : p \in P}, FALSE, FALSE, FALSE)
    /\ \A p \in P : StandFor(MarksOf(TlsChart(p, form, labels, S, own[p], V, mode)),
                             own[p], S \X TlsParts(form))

LEMMA TlsBarsAre ==
    ASSUME NEW P, NEW form, NEW labels, NEW S, NEW own, NEW V, NEW mode,
           TlsBarsFit(P, form, labels, S, own, V)
    PROVE  TlsBarsDrawn(P, form, labels, S, own, V, mode)
<1>0. /\ form \in {"completion", "bytes"} /\ labels \in Seq(Nat)
      /\ S \subseteq 0 .. 4 * Len(labels) - 1 /\ V \subseteq 0 .. Highest /\ V # {}
      /\ \A p \in P : \A k \in S \X TlsParts(form) : own[p][k] \in V
  BY Zenon DEF TlsBarsFit
<1> USE <1>0
<1> DEFINE axis == LinearAxis(Max(V))
           K == S \X TlsParts(form)
           left == 310
           width == 1170
           body == TlsBlocks(form, labels)
           box == Box(310, 1480, 166, 166 + body)
           height == 120 + 46 + body + 75
           marks(p) == UNION {TlsMarks(form, labels, axis, own[p], k) : k \in S}
           page(p) == TlsChart(p, form, labels, S, own[p], V, mode)
           h == TlsBarHeight(form)
           R == Onward(axis, V, left, width, left)
<1>1. ASSUME NEW p \in P
      PROVE  page(p) = Sheet(p, 1900, height, axis, box, marks(p))
  <2>1. form = "completion" => ~\E k \in S \X Repeats : own[p][k] \notin V
    BY DEF TlsParts
  <2>2. form # "percentiles"
    OBVIOUS
  <2>3. QED
    BY <2>1, <2>2 DEF TlsChart
<1>2. Reads(axis, V) /\ V \subseteq Nat
  BY LinearAxisReads
<1>3. left \in Nat /\ width \in Nat /\ Resolution <= 4 * width
  BY DEF Resolution
<1>4. body \in Nat /\ box.x1 = 310 /\ box.x2 = 1480 /\ box.y1 = 166 /\ box.y2 = 166 + body
  <2>1. Len(labels) \in Nat
    BY LenProperties
  <2>2. body \in Nat
    BY <2>1, TlsHeights
  <2>3. QED
    BY <2>2 DEF Box
<1>5. Within(box, Box(0, 1900, 0, height))
  <2> HIDE DEF body
  <2>1. QED
    BY <1>4 DEF Within, Box
<1> HIDE DEF axis
<1>6. ASSUME NEW k \in K, NEW l \in K
      PROVE  /\ h \in Nat /\ TlsBarTop(form, labels, k) \in Nat /\ 166 <= TlsBarTop(form, labels, k)
             /\ TlsBarTop(form, labels, k) + h <= 166 + body
             /\ k # l => \/ TlsBarTop(form, labels, k) + h <= TlsBarTop(form, labels, l)
                         \/ TlsBarTop(form, labels, l) + h <= TlsBarTop(form, labels, k)
  <2>1. /\ k \in (0 .. 4 * Len(labels) - 1) \X TlsParts(form)
        /\ l \in (0 .. 4 * Len(labels) - 1) \X TlsParts(form)
    OBVIOUS
  <2>2. QED
    BY <2>1, TlsBarTops
<1>7. ASSUME NEW p \in P
      PROVE  marks(p) = {TlsBar(form, labels, axis, own[p], k) : k \in K}
  <2> DEFINE values == own[p]
             of(k) == TlsMarks(form, labels, axis, values, k)
             bar(k) == TlsBar(form, labels, axis, values, k)
             all == UNION {of(k) : k \in S}
             parts == TlsParts(form)
  <2>1. ASSUME NEW k \in S
        PROVE  of(k) = {bar(<<k, r>>) : r \in parts}
    <3>1. k \in 0 .. 4 * Len(labels) - 1
      OBVIOUS
    <3>2. TlsRowTop(form, labels, k) \in Nat
      BY <3>1, TlsTops
    <3>3. TlsBars(of(k), form, labels, axis, values, k)
      BY <3>2, TlsMarksAre, Zenon
    <3>4. QED
      BY <3>3, Zenon DEF TlsBars
  <2>2. marks(p) = all /\ K = S \X parts
    OBVIOUS
  <2> HIDE DEF values, of, bar, parts, marks, K
  <2>3. all = {bar(k) : k \in S \X parts}
    <3>1. ASSUME NEW m \in all
          PROVE  \E k \in S \X parts : m = bar(k)
      <4>1. PICK row \in S : m \in of(row)
        OBVIOUS
      <4>2. PICK r \in parts : m = bar(<<row, r>>)
        BY <2>1, <4>1
      <4>3. QED
        BY <4>2
    <3>2. ASSUME NEW k \in S \X parts
          PROVE  bar(k) \in all
      <4>1. k[1] \in S /\ k[2] \in parts /\ k = <<k[1], k[2]>>
        OBVIOUS
      <4>2. bar(k) \in of(k[1])
        BY <2>1, <4>1
      <4>3. QED
        BY <4>1, <4>2
    <3> HIDE DEF all
    <3>3. QED
      BY <3>1, <3>2
  <2>4. marks(p) = {bar(k) : k \in K}
    BY <2>2, <2>3
  <2>5. QED
    BY <2>4 DEF bar, values
<1>8. ASSUME NEW p \in P
      PROVE  Laid(page(p), axis, marks(p), FALSE, V, R) /\ StandFor(marks(p), own[p], K)
  <2> DEFINE values == own[p]
             L == [k \in K |-> 310]
             X == [k \in K |-> Along(axis, values[k], 310, 1170)]
             T == [k \in K |-> TlsBarTop(form, labels, k)]
             w == 1900
             some == marks(p)
             mark(k) == TlsBar(form, labels, axis, values, k)
  <2>1. ASSUME NEW k \in K
        PROVE  /\ L[k] = 310 /\ X[k] = Along(axis, values[k], left, width)
               /\ T[k] = TlsBarTop(form, labels, k) /\ values[k] \in V
    OBVIOUS
  <2>2. some = {mark(k) : k \in K}
    BY <1>7
  <2>3. page(p) = Sheet(p, w, height, axis, box, some) /\ Within(box, Box(0, w, 0, height))
    BY <1>1, <1>5
  <2> HIDE DEF some, K, L, X, T, w, page, height, box, values
  <2>4. ASSUME NEW k \in K
        PROVE  mark(k) = Mark(k, values[k], Box(L[k], X[k], T[k], T[k] + h)) /\ mark(k).value = values[k]
    <3>1. L[k] = 310 /\ X[k] = Along(axis, values[k], 310, 1170) /\ T[k] = TlsBarTop(form, labels, k)
      BY <2>1
    <3>2. mark(k) = Mark(k, values[k], Box(310, Along(axis, values[k], 310, 1170),
                                           TlsBarTop(form, labels, k), TlsBarTop(form, labels, k) + h))
      BY DEF TlsBar
    <3> HIDE DEF mark, h
    <3>3. mark(k) = Mark(k, values[k], Box(L[k], X[k], T[k], T[k] + h))
      BY <3>1, <3>2
    <3>4. QED
      BY <3>3 DEF Mark
  <2> HIDE DEF h, mark
  <2>5. MadeOf(some, K, values, L, X, T, h)
    <3>1. ASSUME NEW m \in some
          PROVE  \E k \in K : m = Mark(k, values[k], Box(L[k], X[k], T[k], T[k] + h))
      BY <2>2, <2>4
    <3>2. QED
      BY <3>1, Zenon DEF MadeOf
  <2>6. StandFor(some, values, K)
    <3>1. {m.value : m \in some} = {values[k] : k \in K}
      BY <2>2, <2>4
    <3>2. QED
      BY <3>1, Zenon DEF StandFor
  <2>7. ASSUME NEW k \in K
        PROVE  /\ values[k] \in V
               /\ L[k] \in Int /\ X[k] \in Int /\ T[k] \in Int
               /\ box.x1 <= L[k] /\ L[k] <= X[k] /\ X[k] <= box.x2
               /\ box.y1 <= T[k] /\ T[k] + h <= box.y2
               /\ X[k] - box.x1 = R[values[k]]
    <3> DEFINE v == values[k]
               a == Along(axis, v, left, width)
               t == TlsBarTop(form, labels, k)
    <3>1. v \in V
      BY <2>1
    <3>2. a \in left .. left + width /\ R[v] = a - left
      <4> HIDE DEF v, left, width
      <4>1. QED
        BY <1>2, <1>3, <3>1, OnwardIs DEF R
    <3>3. t \in Nat /\ 166 <= t /\ t + h <= 166 + body /\ h \in Nat
      BY <1>6
    <3>4. L[k] = 310 /\ X[k] = a /\ T[k] = t
      BY <2>1
    <3>5. body \in Nat /\ box.x1 = 310 /\ box.x2 = 1480 /\ box.y1 = 166 /\ box.y2 = 166 + body
      BY <1>4 DEF box
    <3> HIDE DEF a, t, v, body, R
    <3>6. QED
      BY <3>1, <3>2, <3>3, <3>4, <3>5 DEF v
  <2>8. ASSUME NEW k \in K, NEW l \in K, k # l
        PROVE  T[k] + h <= T[l] \/ T[l] + h <= T[k]
    BY <1>6, <2>1, <2>8
  <2>9. h \in Nat /\ box.x1 \in Int /\ box.x2 \in Int
    BY <1>4 DEF h, TlsBarHeight, box
  <2> HIDE DEF R
  <2>10. Rows(K, values, L, X, T, h, box, V, R)
    BY <2>7, <2>8, <2>9, Zenon DEF Rows
  <2>11. Fits(box, w, height, some, V, R)
    BY <2>3, <2>5, <2>10, RowsFit
  <2>12. Laid(page(p), axis, some, FALSE, V, R)
    BY <2>3, <2>11, FlatSheet
  <2>13. QED
    BY <2>6, <2>12 DEF values, some
<1> HIDE DEF left, width
<1>9. Tells(axis, V, R, FALSE, FALSE)
  BY <1>2, <1>3, OnwardTells
<1> HIDE DEF marks, page, R
<1>10. Clear({page(p) : p \in P}, FALSE, FALSE, FALSE)
  <2>1. \A q \in {page(p) : p \in P} : Tidy(q, FALSE) /\ Measures(q, axis, FALSE, FALSE, V, R)
    BY <1>8 DEF Laid
  <2>2. QED
    BY <1>2, <1>9, <2>1, Zenon DEF Clear, Reading
<1>11. \A p \in P : StandFor(MarksOf(page(p)), own[p], K)
  BY <1>8 DEF Laid
<1>12. /\ Clear({TlsChart(p, form, labels, S, own[p], V, mode) : p \in P}, FALSE, FALSE, FALSE)
       /\ \A p \in P : StandFor(MarksOf(TlsChart(p, form, labels, S, own[p], V, mode)),
                                own[p], S \X TlsParts(form))
  BY <1>10, <1>11 DEF page
<1>13. QED
  BY <1>12, Zenon DEF TlsBarsDrawn

----------------------------------------------------------------------------
(* Pages.                                                                  *)
Proper(page) == page.axis.mode \in {"linear", "logarithmic", "empty"} /\ page.plots # {}

LEMMA ProperPage ==
    ASSUME NEW name, NEW width, NEW height, NEW axis, NEW plots,
           axis.mode \in {"linear", "logarithmic", "empty"}, plots # {}
    PROVE  Proper(Page(name, width, height, axis, plots))
BY DEF Proper, Page

LEMMA ProperSheet ==
    ASSUME NEW name, NEW width, NEW height, NEW box, NEW marks
    PROVE  /\ \A max : Proper(Sheet(name, width, height, LinearAxis(max), box, marks))
           /\ \A v, mode, decades :
                Proper(Sheet(name, width, height, ValueAxis(v, mode, decades), box, marks))
           /\ \A upper, step :
                Proper(Sheet(name, width, height, [mode |-> "linear", upper |-> upper, step |-> step],
                             box, marks))
<1>1. {Plot(box, marks)} # {}
  OBVIOUS
<1>2. ASSUME NEW axis, axis.mode \in {"linear", "logarithmic", "empty"}
      PROVE  Proper(Sheet(name, width, height, axis, box, marks))
  BY <1>1, <1>2, ProperPage DEF Sheet
<1>3. QED
  BY <1>2, AxisModes

(* Each renderer refuses, or returns a page with a plot.                   *)
LEMMA ChartsProper ==
    /\ \A points, mode : Proper(TimeSeries(points, mode))
    /\ \A points : SmallMultiples(points) = None \/ Proper(SmallMultiples(points))
    /\ \A p, stacks, v, mode : Proper(Bars(p, stacks, v, mode))
    /\ \A p, stacks, v : Proper(FailureBars(p, stacks, v))
    /\ \A n, v, mode : ScenarioRanges(n, v, mode) = None \/ Proper(ScenarioRanges(n, v, mode))
    /\ \A p, n, v, all : CompletionBars(p, n, v, all) = None \/ Proper(CompletionBars(p, n, v, all))
    /\ \A n, form, l, some, v, all, mode :
            TlsChart(n, form, l, some, v, all, mode) = None \/ Proper(TlsChart(n, form, l, some, v, all, mode))
    /\ \A family, points : Workload(family, points) = None \/ Proper(Workload(family, points))
<1>1. ASSUME NEW points, NEW mode
      PROVE  Proper(TimeSeries(points, mode))
  BY ProperSheet DEF TimeSeries
<1>2. ASSUME NEW points
      PROVE  SmallMultiples(points) = None \/ Proper(SmallMultiples(points))
  <2>1. ASSUME NEW times, NEW axis
        PROVE  Panels(points, times, axis) # {}
    <3> DEFINE top(r) == 105 + r * (285 + 55)
               panel(r) == Plot(Box(105, 1765, top(r), top(r) + 285),
                                {PointMark(q, times, axis, 105, 1660, top(r), 285) :
                                    q \in {q \in points : q.repeat = r}})
    <3>1. Panels(points, times, axis) = {panel(r) : r \in Repeats}
      BY DEF Panels
    <3> HIDE DEF panel
    <3>2. panel(0) \in {panel(r) : r \in Repeats}
      BY DEF Repeats
    <3>3. QED
      BY <3>1, <3>2
  <2>2. QED
    BY <2>1, ProperPage, AxisModes DEF SmallMultiples
<1>3. ASSUME NEW p, NEW stacks, NEW v, NEW mode
      PROVE  Proper(Bars(p, stacks, v, mode))
  BY ProperSheet DEF Bars
<1>4. ASSUME NEW p, NEW stacks, NEW v
      PROVE  Proper(FailureBars(p, stacks, v))
  BY ProperSheet DEF FailureBars
<1>5. ASSUME NEW n, NEW v, NEW mode
      PROVE  ScenarioRanges(n, v, mode) = None \/ Proper(ScenarioRanges(n, v, mode))
  BY ProperSheet DEF ScenarioRanges, PercentileAxis
<1>6. ASSUME NEW p, NEW n, NEW v, NEW all
      PROVE  CompletionBars(p, n, v, all) = None \/ Proper(CompletionBars(p, n, v, all))
  BY ProperSheet DEF CompletionBars
<1>7. ASSUME NEW n, NEW form, NEW l, NEW some, NEW v, NEW all, NEW mode
      PROVE  \/ TlsChart(n, form, l, some, v, all, mode) = None
             \/ Proper(TlsChart(n, form, l, some, v, all, mode))
  <2>1. CASE form = "percentiles"
    BY <2>1, ProperSheet DEF TlsChart, PercentileAxis
  <2>2. CASE form # "percentiles"
    BY <2>2, ProperSheet DEF TlsChart
  <2>3. QED
    BY <2>1, <2>2
<1>8. ASSUME NEW family, NEW points
      PROVE  Workload(family, points) = None \/ Proper(Workload(family, points))
  BY ProperSheet DEF Workload
<1>9. QED
  BY <1>1, <1>2, <1>3, <1>4, <1>5, <1>6, <1>7, <1>8

=============================================================================
