------------------------- MODULE BenchRunnerProofs -------------------------
(* Theorems about BenchRunner for any matrices, targets and deployments.   *)
(* What FlattenSeq makes of blocks of any number and length comes first,   *)
(* then which executions the plan has; what the loop does to files and     *)
(* evidence needs nothing of the plan but that it is there.                *)
EXTENDS BenchRunner, SequenceTheorems, WellFoundedInduction, TLAPS

----------------------------------------------------------------------------
(* Flattening: every place of every block appears once, in order.          *)

(* Element k of the flattened sequence is the one at place at[k] of block  *)
(* of[k], and flat holds the first n blocks.                               *)
Flattens(flat, blocks, n, of, at) ==
    /\ of \in [DOMAIN flat -> 1 .. n]
    /\ \A k \in DOMAIN flat :
        /\ at[k] \in 1 .. Len(blocks[of[k]])
        /\ flat[k] = blocks[of[k]][at[k]]
    /\ \A j, k \in DOMAIN flat : j < k => of[j] < of[k] \/ (of[j] = of[k] /\ at[j] < at[k])
    /\ \A i \in 1 .. n : \A p \in 1 .. Len(blocks[i]) :
        \E k \in DOMAIN flat : of[k] = i /\ at[k] = p

----------------------------------------------------------------------------
(* Induction, as a fact about sets.                                        *)
LEMMA SetInduction ==
    ASSUME NEW T, 0 \in T, \A n \in Nat : n \in T => n + 1 \in T
    PROVE  Nat \subseteq T
<1>1. SUFFICES ASSUME Nat \ T # {}
               PROVE  FALSE
  OBVIOUS
<1>2. \E n \in Nat \ T : \A k \in Nat \ T : ~(<<k, n>> \in OpToRel(<, Nat))
  BY <1>1, WFMin, NatLessThanWellFounded
<1>3. \A k, n \in Nat : k < n => <<k, n>> \in OpToRel(<, Nat)
  BY DEF OpToRel
<1>4. PICK n \in Nat \ T : \A k \in Nat \ T : ~(k < n)
  BY <1>2, <1>3, Zenon
<1>5. n # 0 /\ n - 1 \in Nat /\ n - 1 < n
  BY <1>4
<1>6. n - 1 \in T
  BY <1>4, <1>5
<1>7. QED
  BY <1>4, <1>5, <1>6

----------------------------------------------------------------------------
(* The recursive function inside FlattenSeq, over the first n blocks.      *)
Joined(s, t) == s \o t

IsFolded(blocks, n, f) ==
    f = [i \in 1 .. n |-> IF i = 1 THEN blocks[i] ELSE Joined(f[i - 1], blocks[i])]

LEMMA FoldExists ==
    ASSUME NEW blocks
    PROVE  \A n \in Nat : \E f : IsFolded(blocks, n, f)
<1> DEFINE T == {n \in Nat : \E f : IsFolded(blocks, n, f)}
<1>1. 0 \in T
  <2>1. IsFolded(blocks, 0, <<>>)
    BY DEF IsFolded
  <2>2. QED
    BY <2>1
<1>2. ASSUME NEW n \in Nat, n \in T
      PROVE  n + 1 \in T
  <2>1. PICK f : IsFolded(blocks, n, f)
    BY <1>2
  <2> DEFINE last == IF n + 1 = 1 THEN blocks[n + 1] ELSE Joined(f[n], blocks[n + 1])
             g == [i \in 1 .. n + 1 |-> IF i = n + 1 THEN last ELSE f[i]]
  <2>2. ASSUME NEW i \in 1 .. n + 1
        PROVE  g[i] = IF i = 1 THEN blocks[i] ELSE Joined(g[i - 1], blocks[i])
    <3>1. CASE i = n + 1
      <4>1. g[i] = last /\ (i # 1 => g[i - 1] = f[n])
        BY <3>1
      <4>2. QED
        BY <3>1, <4>1
    <3>2. CASE i # n + 1
      <4>1. i \in 1 .. n /\ (i # 1 => i - 1 \in 1 .. n)
        BY <3>2
      <4>2. g[i] = f[i] /\ (i # 1 => g[i - 1] = f[i - 1])
        BY <3>2, <4>1
      <4>3. f[i] = IF i = 1 THEN blocks[i] ELSE Joined(f[i - 1], blocks[i])
        BY <2>1, <4>1 DEF IsFolded
      <4>4. QED
        BY <4>2, <4>3
    <3>3. QED
      BY <3>1, <3>2
  <2>3. IsFolded(blocks, n + 1, g)
    <3> HIDE DEF last
    <3>1. g = [i \in 1 .. n + 1 |-> g[i]]
      OBVIOUS
    <3> HIDE DEF g
    <3>2. QED
      BY <2>2, <3>1 DEF IsFolded
  <2>4. QED
    BY <2>3
<1> HIDE DEF T
<1>3. Nat \subseteq T
  BY <1>1, <1>2, SetInduction
<1>4. QED
  BY <1>3 DEF T

LEMMA FlattenSeqIsFold ==
    ASSUME NEW blocks, Len(blocks) \in Nat, Len(blocks) # 0
    PROVE  \E f : IsFolded(blocks, Len(blocks), f) /\ FlattenSeq(blocks) = f[Len(blocks)]
<1> DEFINE f == CHOOSE f : IsFolded(blocks, Len(blocks), f)
<1>1. IsFolded(blocks, Len(blocks), f)
  BY FoldExists
<1>2. FlattenSeq(blocks) = f[Len(blocks)]
  BY DEF FlattenSeq, IsFolded, Joined
<1>3. QED
  BY <1>1, <1>2

----------------------------------------------------------------------------
(* One block more at the end.                                              *)
LEMMA OneBlockMore ==
    ASSUME NEW S, NEW blocks, NEW n \in Nat, NEW flat \in Seq(S), NEW of, NEW at,
           Flattens(flat, blocks, n, of, at), blocks[n + 1] \in Seq(S)
    PROVE  /\ flat \o blocks[n + 1] \in Seq(S)
           /\ \E of2, at2 : Flattens(flat \o blocks[n + 1], blocks, n + 1, of2, at2)
<1> DEFINE block == blocks[n + 1]
           more == flat \o block
           all == 1 .. Len(flat) + Len(block)
           of2 == [k \in all |-> IF k <= Len(flat) THEN of[k] ELSE n + 1]
           at2 == [k \in all |-> IF k <= Len(flat) THEN at[k] ELSE k - Len(flat)]
<1>1. /\ Len(flat) \in Nat /\ Len(block) \in Nat
      /\ DOMAIN flat = 1 .. Len(flat)
  BY LenProperties
<1>2. /\ more \in Seq(S)
      /\ DOMAIN more = all
      /\ \A k \in all : more[k] = IF k <= Len(flat) THEN flat[k] ELSE block[k - Len(flat)]
  BY <1>1, ConcatProperties, LenProperties
<1>3. /\ \A k \in 1 .. Len(flat) :
            /\ of[k] \in 1 .. n
            /\ at[k] \in 1 .. Len(blocks[of[k]])
            /\ flat[k] = blocks[of[k]][at[k]]
      /\ \A j, k \in 1 .. Len(flat) :
            j < k => of[j] < of[k] \/ (of[j] = of[k] /\ at[j] < at[k])
      /\ \A i \in 1 .. n : \A p \in 1 .. Len(blocks[i]) :
            \E k \in 1 .. Len(flat) : of[k] = i /\ at[k] = p
  <2>1. of \in [1 .. Len(flat) -> 1 .. n]
    BY <1>1 DEF Flattens
  <2>2. \A k \in 1 .. Len(flat) : at[k] \in 1 .. Len(blocks[of[k]])
    BY <1>1 DEF Flattens
  <2>3. \A k \in 1 .. Len(flat) : flat[k] = blocks[of[k]][at[k]]
    BY <1>1 DEF Flattens
  <2>4. \A j, k \in 1 .. Len(flat) :
            j < k => of[j] < of[k] \/ (of[j] = of[k] /\ at[j] < at[k])
    BY <1>1 DEF Flattens
  <2>5. ASSUME NEW i \in 1 .. n, NEW p \in 1 .. Len(blocks[i])
        PROVE  \E k \in 1 .. Len(flat) : of[k] = i /\ at[k] = p
    <3>1. \E k \in DOMAIN flat : of[k] = i /\ at[k] = p
      BY Zenon DEF Flattens
    <3>2. QED
      BY <1>1, <3>1, Zenon
  <2>6. \A k \in 1 .. Len(flat) : of[k] \in 1 .. n
    BY <2>1
  <2>7. QED
    BY <2>2, <2>3, <2>4, <2>5, <2>6
<1>4. ASSUME NEW k \in 1 .. Len(flat)
      PROVE  k \in all /\ of2[k] = of[k] /\ at2[k] = at[k] /\ more[k] = flat[k]
  BY <1>1, <1>2
<1>5. ASSUME NEW p \in 1 .. Len(block)
      PROVE  /\ Len(flat) + p \in all
             /\ of2[Len(flat) + p] = n + 1 /\ at2[Len(flat) + p] = p
             /\ more[Len(flat) + p] = block[p]
  <2>1. /\ Len(flat) + p \in all
        /\ ~(Len(flat) + p <= Len(flat)) /\ Len(flat) + p - Len(flat) = p
    BY <1>1
  <2>2. QED
    BY <1>2, <2>1
<1>6. ASSUME NEW k \in all
      PROVE  k \in 1 .. Len(flat) \/ \E p \in 1 .. Len(block) : k = Len(flat) + p
  <2>1. CASE k > Len(flat)
    <3>1. k - Len(flat) \in 1 .. Len(block) /\ k = Len(flat) + (k - Len(flat))
      BY <1>1, <2>1
    <3>2. QED
      BY <3>1
  <2>2. QED
    BY <1>1, <2>1
<1>7. of2 = [k \in all |-> of2[k]] /\ DOMAIN of2 = all
  OBVIOUS
<1> HIDE DEF of2, at2, more
<1> DEFINE Comes(k) == /\ of2[k] \in 1 .. n + 1
                       /\ at2[k] \in 1 .. Len(blocks[of2[k]])
                       /\ more[k] = blocks[of2[k]][at2[k]]
           Before(j, k) == of2[j] < of2[k] \/ (of2[j] = of2[k] /\ at2[j] < at2[k])
<1>8. ASSUME NEW k \in all
      PROVE  Comes(k)
  <2>1. CASE k \in 1 .. Len(flat)
    <3>1. of2[k] \in 1 .. n + 1
      BY <1>3, <1>4, <2>1
    <3>2. at2[k] \in 1 .. Len(blocks[of2[k]])
      BY <1>3, <1>4, <2>1
    <3>3. more[k] = blocks[of2[k]][at2[k]]
      BY <1>3, <1>4, <2>1
    <3>4. QED
      BY <3>1, <3>2, <3>3
  <2>2. ASSUME NEW p \in 1 .. Len(block), k = Len(flat) + p
        PROVE  Comes(k)
    <3>1. of2[k] \in 1 .. n + 1
      BY <1>5, <2>2
    <3>2. at2[k] \in 1 .. Len(blocks[of2[k]])
      BY <1>5, <2>2
    <3>3. more[k] = blocks[of2[k]][at2[k]]
      BY <1>5, <2>2
    <3>4. QED
      BY <3>1, <3>2, <3>3
  <2>3. QED
    BY <1>6, <2>1, <2>2
<1>9. ASSUME NEW j \in all, NEW k \in all, j < k
      PROVE  Before(j, k)
  <2>1. CASE k \in 1 .. Len(flat)
    <3>1. j \in 1 .. Len(flat)
      BY <1>1, <1>9, <2>1
    <3>2. QED
      BY <1>3, <1>4, <1>9, <2>1, <3>1
  <2>2. ASSUME NEW p \in 1 .. Len(block), k = Len(flat) + p, j \in 1 .. Len(flat)
        PROVE  Before(j, k)
    <3>1. of2[j] \in 1 .. n /\ of2[k] = n + 1
      BY <1>3, <1>4, <1>5, <2>2
    <3>2. QED
      BY <3>1
  <2>3. ASSUME NEW p \in 1 .. Len(block), NEW q \in 1 .. Len(block),
               k = Len(flat) + p, j = Len(flat) + q
        PROVE  Before(j, k)
    <3>1. q < p
      BY <1>1, <1>9, <2>3
    <3>2. of2[j] = n + 1 /\ at2[j] = q /\ of2[k] = n + 1 /\ at2[k] = p
      BY <1>5, <2>3
    <3>3. QED
      BY <3>1, <3>2
  <2>4. QED
    BY <1>6, <2>1, <2>2, <2>3
<1>10. ASSUME NEW i \in 1 .. n + 1, NEW p \in 1 .. Len(blocks[i])
       PROVE  \E k \in all : of2[k] = i /\ at2[k] = p
  <2>1. CASE i = n + 1
    BY <1>5, <2>1
  <2>2. CASE i \in 1 .. n
    <3>1. PICK k \in 1 .. Len(flat) : of[k] = i /\ at[k] = p
      BY <1>3, <2>2
    <3>2. QED
      BY <1>4, <3>1
  <2>3. QED
    BY <2>1, <2>2
<1>11. Flattens(more, blocks, n + 1, of2, at2)
  <2>1. of2 \in [all -> 1 .. n + 1]
    BY <1>7, <1>8
  <2> HIDE DEF all, block
  <2>2. QED
    BY <1>2, <1>8, <1>9, <1>10, <2>1 DEF Flattens
<1>12. QED
  BY <1>2, <1>11 DEF more

(* FlattenSeq of blocks over S is a sequence over S with every place of    *)
(* every block once, in order.                                             *)
THEOREM FlattenSeqFlattens ==
    ASSUME NEW S, NEW blocks \in Seq(Seq(S))
    PROVE  /\ FlattenSeq(blocks) \in Seq(S)
           /\ \E of, at : Flattens(FlattenSeq(blocks), blocks, Len(blocks), of, at)
<1>1. Len(blocks) \in Nat /\ \A i \in 1 .. Len(blocks) : blocks[i] \in Seq(S)
  BY LenProperties, ElementOfSeq
<1>2. CASE Len(blocks) = 0
  <2>1. FlattenSeq(blocks) = blocks /\ blocks = <<>>
    BY <1>2, EmptySeq DEF FlattenSeq
  <2>2. Flattens(<<>>, blocks, 0, <<>>, <<>>)
    BY DEF Flattens
  <2>3. QED
    BY <1>2, <2>1, <2>2, EmptySeq
<1>3. CASE Len(blocks) # 0
  <2>1. PICK f : IsFolded(blocks, Len(blocks), f) /\ FlattenSeq(blocks) = f[Len(blocks)]
    BY <1>1, <1>3, FlattenSeqIsFold
  <2>2. \A i \in 1 .. Len(blocks) :
            f[i] = IF i = 1 THEN blocks[i] ELSE Joined(f[i - 1], blocks[i])
    BY <2>1 DEF IsFolded
  <2>3. f[1] = blocks[1]
    BY <1>1, <1>3, <2>2
  <2>4. ASSUME NEW n \in Nat, n + 1 \in 1 .. Len(blocks), n # 0
        PROVE  f[n + 1] = Joined(f[n], blocks[n + 1])
    <3>1. n + 1 - 1 = n /\ n + 1 # 1
      BY <2>4
    <3>2. f[n + 1] = Joined(f[n + 1 - 1], blocks[n + 1])
      BY <2>2, <2>4, <3>1
    <3>3. QED
      BY <3>1, <3>2
  <2> DEFINE Right(i) == f[i] \in Seq(S) /\ \E of, at : Flattens(f[i], blocks, i, of, at)
             T == {n \in Nat : n # 0 /\ n <= Len(blocks) => Right(n)}
  <2>5. 0 \in T
    OBVIOUS
  <2>6. ASSUME 1 <= Len(blocks)
        PROVE  Right(1)
    <3>1. f[1] = blocks[1] /\ blocks[1] \in Seq(S)
      BY <1>1, <2>3, <2>6
    <3> DEFINE of == [k \in 1 .. Len(blocks[1]) |-> 1]
               at == [k \in 1 .. Len(blocks[1]) |-> k]
    <3>2. DOMAIN blocks[1] = 1 .. Len(blocks[1]) /\ Len(blocks[1]) \in Nat
      BY <3>1, LenProperties
    <3>3. /\ of \in [1 .. Len(blocks[1]) -> 1 .. 1]
          /\ \A k \in 1 .. Len(blocks[1]) : of[k] = 1 /\ at[k] = k
      OBVIOUS
    <3> HIDE DEF of, at
    <3>4. /\ \A i \in 1 .. 1 : i = 1
          /\ \A j, k \in 1 .. Len(blocks[1]) : j < k => at[j] < at[k]
      BY <3>3
    <3>5. Flattens(blocks[1], blocks, 1, of, at)
      BY <3>2, <3>3, <3>4 DEF Flattens
    <3>6. QED
      BY <3>1, <3>5
  <2>7. ASSUME NEW n \in Nat, n \in T
        PROVE  n + 1 \in T
    <3>1. SUFFICES ASSUME n + 1 <= Len(blocks), n # 0
                   PROVE  Right(n + 1)
      BY <2>6
    <3>2. /\ Right(n) /\ f[n + 1] = Joined(f[n], blocks[n + 1]) /\ blocks[n + 1] \in Seq(S)
      BY <1>1, <2>4, <2>7, <3>1
    <3>3. PICK of, at : Flattens(f[n], blocks, n, of, at)
      BY <3>2
    <3>4. /\ f[n] \o blocks[n + 1] \in Seq(S)
          /\ \E of2, at2 : Flattens(f[n] \o blocks[n + 1], blocks, n + 1, of2, at2)
      BY <3>2, <3>3, OneBlockMore
    <3>5. QED
      BY <3>2, <3>4 DEF Joined
  <2> HIDE DEF T
  <2>8. Nat \subseteq T
    BY <2>5, <2>7, SetInduction
  <2>9. Len(blocks) \in T
    BY <1>1, <2>8
  <2>10. QED
    BY <1>1, <1>3, <2>1, <2>9 DEF T
<1>4. QED
  BY <1>2, <1>3

----------------------------------------------------------------------------
(* The plan.                                                               *)

Executions(m) ==
    [combination : Combinations(m), profile : Profiles(m), repeat : 0 .. m.repeats]

(* The order of the plan: by combination, repeat and profile.              *)
Precedes(e, f) ==
    \/ e.combination < f.combination
    \/ e.combination = f.combination /\ e.repeat < f.repeat
    \/ e.combination = f.combination /\ e.repeat = f.repeat /\ e.profile < f.profile

Apart(W, V) == \A e \in W, f \in V : Precedes(e, f)

(* list has the executions of W, each once, in order.                      *)
Lists(list, W) ==
    /\ list \in Seq(W)
    /\ \A j, k \in DOMAIN list : j < k => Precedes(list[j], list[k])
    /\ \A e \in W : \E k \in DOMAIN list : list[k] = e

LEMMA MakeSeq ==
    ASSUME NEW S, NEW n \in Nat, NEW f \in [1 .. n -> S]
    PROVE  f \in Seq(S) /\ Len(f) = n
OBVIOUS

(* A list after a list of what comes before.                               *)
LEMMA ListsConcat ==
    ASSUME NEW W, NEW V, NEW s, NEW t, Lists(s, W), Lists(t, V), Apart(W, V)
    PROVE  Lists(s \o t, W \cup V)
<1>1. s \in Seq(W \cup V) /\ t \in Seq(W \cup V) /\ Len(s) \in Nat /\ Len(t) \in Nat
  <2>1. /\ s \in [1 .. Len(s) -> W] /\ t \in [1 .. Len(t) -> V]
        /\ Len(s) \in Nat /\ Len(t) \in Nat
    BY LenProperties DEF Lists
  <2>2. s \in [1 .. Len(s) -> W \cup V] /\ t \in [1 .. Len(t) -> W \cup V]
    BY <2>1
  <2>3. QED
    BY <2>1, <2>2, MakeSeq
<1>2. /\ s \o t \in Seq(W \cup V)
      /\ DOMAIN (s \o t) = 1 .. Len(s) + Len(t)
      /\ \A k \in 1 .. Len(s) + Len(t) :
            (s \o t)[k] = IF k <= Len(s) THEN s[k] ELSE t[k - Len(s)]
  BY <1>1, ConcatProperties, LenProperties
<1>3. /\ DOMAIN s = 1 .. Len(s) /\ DOMAIN t = 1 .. Len(t)
      /\ \A k \in 1 .. Len(s) : s[k] \in W
      /\ \A k \in 1 .. Len(t) : t[k] \in V
  BY LenProperties, ElementOfSeq DEF Lists
<1>4. ASSUME NEW j \in 1 .. Len(s) + Len(t), NEW k \in 1 .. Len(s) + Len(t), j < k
      PROVE  Precedes((s \o t)[j], (s \o t)[k])
  <2>1. CASE k <= Len(s)
    <3>1. j \in 1 .. Len(s) /\ k \in 1 .. Len(s)
      BY <1>1, <1>4, <2>1
    <3>2. (s \o t)[j] = s[j] /\ (s \o t)[k] = s[k]
      BY <1>2, <3>1
    <3>3. QED
      BY <1>3, <1>4, <3>1, <3>2 DEF Lists
  <2>2. CASE j <= Len(s) /\ ~(k <= Len(s))
    <3>1. j \in 1 .. Len(s) /\ k - Len(s) \in 1 .. Len(t)
      BY <1>1, <2>2
    <3>2. (s \o t)[j] = s[j] /\ (s \o t)[k] = t[k - Len(s)]
      BY <1>2, <2>2
    <3>3. s[j] \in W /\ t[k - Len(s)] \in V
      BY <1>3, <3>1
    <3>4. QED
      BY <3>2, <3>3 DEF Apart
  <2>3. CASE ~(j <= Len(s)) /\ ~(k <= Len(s))
    <3>1. j - Len(s) \in 1 .. Len(t) /\ k - Len(s) \in 1 .. Len(t) /\ j - Len(s) < k - Len(s)
      BY <1>1, <1>4, <2>3
    <3>2. (s \o t)[j] = t[j - Len(s)] /\ (s \o t)[k] = t[k - Len(s)]
      BY <1>2, <2>3
    <3>3. Precedes(t[j - Len(s)], t[k - Len(s)])
      BY <1>3, <3>1 DEF Lists
    <3>4. QED
      BY <3>2, <3>3
  <2>4. QED
    BY <1>1, <1>4, <2>1, <2>2, <2>3
<1>5. ASSUME NEW e \in W \cup V
      PROVE  \E k \in 1 .. Len(s) + Len(t) : (s \o t)[k] = e
  <2>1. CASE e \in W
    <3>1. PICK k \in 1 .. Len(s) : s[k] = e
      BY <1>3, <2>1 DEF Lists
    <3>2. k \in 1 .. Len(s) + Len(t) /\ (s \o t)[k] = e
      BY <1>1, <1>2, <3>1
    <3>3. QED
      BY <3>2
  <2>2. CASE e \in V
    <3>1. PICK k \in 1 .. Len(t) : t[k] = e
      BY <1>3, <2>2 DEF Lists
    <3>2. /\ Len(s) + k \in 1 .. Len(s) + Len(t) /\ ~(Len(s) + k <= Len(s))
          /\ Len(s) + k - Len(s) = k
      BY <1>1, <3>1
    <3>3. (s \o t)[Len(s) + k] = e
      BY <1>2, <3>1, <3>2
    <3>4. QED
      BY <3>2, <3>3
  <2>3. QED
    BY <2>1, <2>2
<1>6. QED
  BY <1>2, <1>4, <1>5 DEF Lists

(* Lists one after the other.                                              *)
LEMMA ListsFlatten ==
    ASSUME NEW n \in Nat, NEW blocks, NEW W, DOMAIN blocks = 1 .. n,
           blocks = [i \in 1 .. n |-> blocks[i]],
           \A i \in 1 .. n : Lists(blocks[i], W[i]),
           \A i, j \in 1 .. n : i < j => Apart(W[i], W[j])
    PROVE  Lists(FlattenSeq(blocks), UNION {W[i] : i \in 1 .. n})
<1> DEFINE S == UNION {W[i] : i \in 1 .. n}
           flat == FlattenSeq(blocks)
<1>1. ASSUME NEW i \in 1 .. n
      PROVE  /\ blocks[i] \in Seq(S) /\ DOMAIN blocks[i] = 1 .. Len(blocks[i])
             /\ \A p \in 1 .. Len(blocks[i]) : blocks[i][p] \in W[i]
  <2>1. blocks[i] \in Seq(W[i])
    BY DEF Lists
  <2>2. /\ blocks[i] \in [1 .. Len(blocks[i]) -> W[i]] /\ Len(blocks[i]) \in Nat
        /\ DOMAIN blocks[i] = 1 .. Len(blocks[i])
    BY <2>1, LenProperties
  <2>3. W[i] \subseteq S
    OBVIOUS
  <2>4. blocks[i] \in [1 .. Len(blocks[i]) -> S]
    BY <2>2, <2>3
  <2>5. QED
    BY <2>2, <2>4, MakeSeq
<1> HIDE DEF S
<1>2. blocks \in Seq(Seq(S)) /\ Len(blocks) = n
  <2>1. blocks \in [1 .. n -> Seq(S)]
    BY <1>1
  <2>2. QED
    BY <2>1, MakeSeq
<1>3. /\ flat \in Seq(S)
      /\ \E of, at : Flattens(flat, blocks, n, of, at)
  BY <1>2, FlattenSeqFlattens
<1> HIDE DEF flat
<1>4. PICK of, at : Flattens(flat, blocks, n, of, at)
  BY <1>3
<1>5. ASSUME NEW k \in DOMAIN flat
      PROVE  of[k] \in 1 .. n /\ at[k] \in 1 .. Len(blocks[of[k]])
  <2>1. of[k] \in 1 .. n
    BY <1>4 DEF Flattens
  <2>2. at[k] \in 1 .. Len(blocks[of[k]])
    BY <1>4 DEF Flattens
  <2>3. QED
    BY <2>1, <2>2
<1>6. ASSUME NEW k \in DOMAIN flat
      PROVE  flat[k] = blocks[of[k]][at[k]]
  BY <1>4 DEF Flattens
<1>7. ASSUME NEW j \in DOMAIN flat, NEW k \in DOMAIN flat, j < k
      PROVE  Precedes(flat[j], flat[k])
  <2> DEFINE a == of[j]
             b == of[k]
             p == at[j]
             q == at[k]
  <2>1. a < b \/ (a = b /\ p < q)
    BY <1>4, <1>7 DEF Flattens
  <2>2. /\ a \in 1 .. n /\ p \in 1 .. Len(blocks[a]) /\ flat[j] = blocks[a][p]
        /\ b \in 1 .. n /\ q \in 1 .. Len(blocks[b]) /\ flat[k] = blocks[b][q]
    BY <1>5, <1>6
  <2> HIDE DEF a, b, p, q
  <2>3. CASE a < b
    <3>1. Apart(W[a], W[b]) /\ blocks[a][p] \in W[a] /\ blocks[b][q] \in W[b]
      BY <1>1, <2>2, <2>3
    <3>2. QED
      BY <2>2, <3>1 DEF Apart
  <2>4. CASE a = b /\ p < q
    <3>1. p \in DOMAIN blocks[a] /\ q \in DOMAIN blocks[a]
      BY <1>1, <2>2, <2>4
    <3>2. Lists(blocks[a], W[a])
      BY <2>2
    <3>3. Precedes(blocks[a][p], blocks[a][q])
      BY <2>4, <3>1, <3>2 DEF Lists
    <3>4. QED
      BY <2>2, <2>4, <3>3
  <2>5. QED
    BY <2>1, <2>3, <2>4
<1>8. ASSUME NEW e \in S
      PROVE  \E k \in DOMAIN flat : flat[k] = e
  <2>1. PICK i \in 1 .. n : e \in W[i]
    BY DEF S
  <2>2. Lists(blocks[i], W[i])
    OBVIOUS
  <2>3. PICK p \in DOMAIN blocks[i] : blocks[i][p] = e
    BY <2>1, <2>2 DEF Lists
  <2>4. p \in 1 .. Len(blocks[i])
    BY <1>1
  <2>5. PICK k \in DOMAIN flat : of[k] = i /\ at[k] = p
    <3>1. \A h \in 1 .. n : \A r \in 1 .. Len(blocks[h]) :
            \E k \in DOMAIN flat : of[k] = h /\ at[k] = r
      BY <1>4, Zenon DEF Flattens
    <3>2. QED
      BY <2>4, <3>1, Zenon
  <2>6. flat[k] = e
    BY <1>6, <2>3, <2>5
  <2>7. QED
    BY <2>6
<1>9. Lists(flat, S)
  BY <1>3, <1>7, <1>8 DEF Lists
<1>10. QED
  BY <1>9 DEF flat, S

----------------------------------------------------------------------------
WarmupsWanted(m, c) ==
    {[combination |-> c, profile |-> p, repeat |-> 0] :
        p \in {q \in Profiles(m) : m.warmup /\ ~m.profiles[q].race}}

MeasuredWanted(m, c) ==
    {[combination |-> c, profile |-> p, repeat |-> r] : p \in Profiles(m), r \in 1 .. m.repeats}

Wanted(m) ==
    UNION {WarmupsWanted(m, c) \cup MeasuredWanted(m, c) : c \in Combinations(m)}

LEMMA MatrixShape ==
    ASSUME NEW m \in Matrices
    PROVE  /\ Len(m.combinations) \in Nat /\ Combinations(m) = 1 .. Len(m.combinations)
           /\ Len(m.profiles) \in Nat /\ Profiles(m) = 1 .. Len(m.profiles)
           /\ m.repeats \in Nat \ {0}
BY MatricesAssumption, LenProperties DEF Combinations, Profiles

LEMMA WarmupsListed ==
    ASSUME NEW m \in Matrices, NEW c \in Combinations(m)
    PROVE  Lists(Warmups(m, c), WarmupsWanted(m, c))
<1> DEFINE n == Len(m.profiles)
           due(p) == m.warmup /\ ~m.profiles[p].race
           warmup(p) == [combination |-> c, profile |-> p, repeat |-> 0]
           blocks == [p \in 1 .. n |-> IF due(p) THEN <<warmup(p)>> ELSE <<>>]
           W == [p \in 1 .. n |-> IF due(p) THEN {warmup(p)} ELSE {}]
<1>1. n \in Nat /\ Profiles(m) = 1 .. n
  BY MatrixShape
<1>2. ASSUME NEW p \in 1 .. n
      PROVE  Lists(blocks[p], W[p])
  <2>1. CASE due(p)
    <3>1. blocks[p] = <<warmup(p)>> /\ W[p] = {warmup(p)}
      BY <2>1
    <3> HIDE DEF warmup
    <3>2. Lists(<<warmup(p)>>, {warmup(p)})
      BY DEF Lists
    <3> HIDE DEF blocks, W
    <3>3. QED
      BY <3>1, <3>2
  <2>2. CASE ~due(p)
    <3>1. blocks[p] = <<>> /\ W[p] = {}
      BY <2>2
    <3>2. Lists(<<>>, {})
      BY DEF Lists
    <3>3. QED
      BY <3>1, <3>2
  <2>3. QED
    BY <2>1, <2>2
<1>3. ASSUME NEW p \in 1 .. n, NEW q \in 1 .. n, p < q
      PROVE  Apart(W[p], W[q])
  BY <1>3 DEF Apart, Precedes
<1>4. Warmups(m, c) = FlattenSeq(blocks)
  BY <1>1 DEF Warmups
<1>5. UNION {W[p] : p \in 1 .. n} = WarmupsWanted(m, c)
  BY <1>1 DEF WarmupsWanted
<1>6. DOMAIN blocks = 1 .. n /\ blocks = [p \in 1 .. n |-> blocks[p]]
  OBVIOUS
<1> HIDE DEF n, blocks, W
<1>7. Lists(FlattenSeq(blocks), UNION {W[p] : p \in 1 .. n})
  BY <1>1, <1>2, <1>3, <1>6, ListsFlatten
<1>8. QED
  BY <1>4, <1>5, <1>7

LEMMA MeasuredListed ==
    ASSUME NEW m \in Matrices, NEW c \in Combinations(m)
    PROVE  Lists(Measured(m, c), MeasuredWanted(m, c))
<1> DEFINE n == Len(m.profiles)
           last == m.repeats
           measured(p, r) == [combination |-> c, profile |-> p, repeat |-> r]
           blocks == [r \in 1 .. last |-> [p \in 1 .. n |-> measured(p, r)]]
           W == [r \in 1 .. last |-> {measured(p, r) : p \in 1 .. n}]
<1>1. n \in Nat /\ Profiles(m) = 1 .. n /\ last \in Nat
  BY MatrixShape
<1>2. ASSUME NEW r \in 1 .. last
      PROVE  Lists(blocks[r], W[r])
  <2>1. /\ DOMAIN blocks[r] = 1 .. n
        /\ \A p \in 1 .. n : blocks[r][p] = measured(p, r)
        /\ W[r] = {measured(p, r) : p \in 1 .. n}
    OBVIOUS
  <2>2. blocks[r] \in [1 .. n -> W[r]]
    OBVIOUS
  <2>3. blocks[r] \in Seq(W[r])
    BY <1>1, <2>2, MakeSeq
  <2>4. \A p, q \in 1 .. n : p < q => Precedes(measured(p, r), measured(q, r))
    BY DEF Precedes
  <2> HIDE DEF blocks, W, measured
  <2>5. \A p, q \in DOMAIN blocks[r] : p < q => Precedes(blocks[r][p], blocks[r][q])
    BY <2>1, <2>4
  <2>6. \A e \in W[r] : \E p \in DOMAIN blocks[r] : blocks[r][p] = e
    BY <2>1
  <2>7. QED
    BY <2>3, <2>5, <2>6 DEF Lists
<1>3. ASSUME NEW r \in 1 .. last, NEW s \in 1 .. last, r < s
      PROVE  Apart(W[r], W[s])
  BY <1>3 DEF Apart, Precedes
<1>4. Measured(m, c) = FlattenSeq(blocks)
  BY <1>1 DEF Measured
<1>5. UNION {W[r] : r \in 1 .. last} = MeasuredWanted(m, c)
  <2>1. \A e : e \in MeasuredWanted(m, c) <=>
                \E r \in 1 .. last, p \in 1 .. n : e = measured(p, r)
    BY <1>1 DEF MeasuredWanted
  <2>2. \A e : e \in UNION {W[r] : r \in 1 .. last} <=>
                \E r \in 1 .. last, p \in 1 .. n : e = measured(p, r)
    <3>1. \A r \in 1 .. last : W[r] = {measured(p, r) : p \in 1 .. n}
      OBVIOUS
    <3> HIDE DEF W, measured, last
    <3>2. QED
      BY <3>1, Zenon
  <2>3. QED
    BY <2>1, <2>2
<1>6. DOMAIN blocks = 1 .. last /\ blocks = [r \in 1 .. last |-> blocks[r]]
  OBVIOUS
<1> HIDE DEF n, last, blocks, W
<1>7. Lists(FlattenSeq(blocks), UNION {W[r] : r \in 1 .. last})
  BY <1>1, <1>2, <1>3, <1>6, ListsFlatten
<1>8. QED
  BY <1>4, <1>5, <1>7

(* The whole plan.                                                         *)
LEMMA PlanListed ==
    ASSUME NEW m \in Matrices
    PROVE  Lists(Plan(m), Wanted(m))
<1> DEFINE n == Len(m.combinations)
           blocks == [c \in 1 .. n |-> Warmups(m, c) \o Measured(m, c)]
           W == [c \in 1 .. n |-> WarmupsWanted(m, c) \cup MeasuredWanted(m, c)]
<1>1. n \in Nat /\ Combinations(m) = 1 .. n
  BY MatrixShape
<1>2. ASSUME NEW c \in 1 .. n
      PROVE  Lists(blocks[c], W[c])
  <2>1. Lists(Warmups(m, c), WarmupsWanted(m, c)) /\ Lists(Measured(m, c), MeasuredWanted(m, c))
    BY <1>1, WarmupsListed, MeasuredListed
  <2>2. Apart(WarmupsWanted(m, c), MeasuredWanted(m, c))
    BY DEF Apart, Precedes, WarmupsWanted, MeasuredWanted
  <2>3. Lists(Warmups(m, c) \o Measured(m, c), WarmupsWanted(m, c) \cup MeasuredWanted(m, c))
    BY <2>1, <2>2, ListsConcat
  <2>4. QED
    BY <2>3, Zenon
<1>3. ASSUME NEW c \in 1 .. n, NEW d \in 1 .. n, c < d
      PROVE  Apart(W[c], W[d])
  BY <1>3 DEF Apart, Precedes, WarmupsWanted, MeasuredWanted
<1>4. Plan(m) = FlattenSeq(blocks)
  BY <1>1, Zenon DEF Plan
<1>5. UNION {W[c] : c \in 1 .. n} = Wanted(m)
  BY <1>1 DEF Wanted
<1>6. DOMAIN blocks = 1 .. n /\ blocks = [c \in 1 .. n |-> blocks[c]]
  BY Zenon
<1> HIDE DEF n, blocks, W
<1>7. Lists(FlattenSeq(blocks), UNION {W[c] : c \in 1 .. n})
  BY <1>1, <1>2, <1>3, <1>6, ListsFlatten
<1>8. QED
  BY <1>4, <1>5, <1>7

----------------------------------------------------------------------------
(* The inductive invariant, by subject.                                    *)

Shape ==
    /\ target \in Targets /\ server \in Deployments /\ stable \in BOOLEAN
    /\ pc \in Probes \cup {"prepare", "next", "verified", "start", "load", "append",
                           "complete", "failed"}
    /\ current \in Nat /\ evidence \in Nat
    /\ k6Config \in [execution : Nat, evidence : Nat]
    /\ pc \in Probes \cup {"verified", "start", "load", "append"} => current > 0
    /\ pc = "prepare" => current = 0 /\ raw = {} /\ records = {} /\ jsonl = <<>>

(* What config.json and the evidence are at each place of the loop.        *)
EvidenceDue == IF target.version = "none" THEN NoEvidence ELSE current

EvidenceInv ==
    /\ pc \in Probes => evidence = NoEvidence
    /\ pc \in Probes \cup {"verified"} =>
         k6Config = [execution |-> current, evidence |-> NoEvidence]
    /\ pc = "verified" => evidence = EvidenceDue
    /\ pc \in {"start", "load"} => k6Config = [execution |-> current, evidence |-> EvidenceDue]
    /\ pc \in Probes /\ target.version = "none" => pc = "meta"

(* What the probes passed so far say of a server that has not changed.     *)
First == Handshake(<<"P-256", "X25519">>) = target.group
Second == Handshake(<<"X25519", "P-256">>) = target.group
Third == target.group = "P-256" => Handshake(<<"X25519">>) = "alert"

PinInv ==
    stable =>
        /\ pc = "order2" => First
        /\ pc = "other" => First /\ Second
        /\ pc = "meta" /\ target.version # "none" => First /\ Second /\ Third
        /\ pc \in {"verified", "start", "load"} => Pinned

(* Files carry the number of their execution in their name.                *)
FileInv ==
    /\ \A f \in raw \cup records :
        f = [path |-> Path(f.execution), execution |-> f.execution]
    /\ ResultsPerExecution

JsonlInv ==
    /\ jsonl \in Seq(Nat)
    /\ \A k \in DOMAIN jsonl :
        jsonl[k] < current \/ (jsonl[k] = current /\ pc \in {"next", "complete", "failed"})
    /\ JsonlInPlanOrder

(* The plan is that of the matrix once it is made, and nothing bears the   *)
(* number of an execution that has not begun.                              *)
PlanInv ==
    /\ matrix \in Matrices
    /\ plan \in {<<>>, Plan(matrix)}
    /\ current <= Len(plan) /\ evidence <= current
    /\ k6Config.execution <= current /\ k6Config.evidence <= current
    /\ \A f \in raw \cup records : f.execution \in 1 .. current

IInv == Shape /\ EvidenceInv /\ PinInv /\ FileInv /\ JsonlInv /\ PlanInv

----------------------------------------------------------------------------
(* Two executions never share a path.                                      *)
LEMMA PathInjective ==
    ASSUME NEW i, NEW j, Path(i) = Path(j)
    PROVE  i = j
BY DEF Path

LEMMA ShapeStep ==
    ASSUME IInv, [Next]_vars
    PROVE  Shape'
<1> USE DEF IInv, Shape, Probes, NoEvidence, runVars, serverVars, resultVars
<1>1. CASE UNCHANGED vars
  BY <1>1 DEF vars
<1>2. CASE Prepare
  BY <1>2 DEF Prepare
<1>3. CASE NextExecution
  BY <1>3 DEF NextExecution
<1>4. CASE Probe
  <2>1. pc' \in Probes \cup {"verified"}
    BY <1>4 DEF Probe, AfterProbe
  <2>2. QED
    BY <1>4, <2>1 DEF Probe
<1>5. CASE WriteVerified
  BY <1>5 DEF WriteVerified
<1>6. CASE StartLoad
  BY <1>6 DEF StartLoad
<1>7. CASE EndLoad
  BY <1>7 DEF EndLoad
<1>8. CASE AppendRecord
  BY <1>8 DEF AppendRecord
<1>9. CASE Complete
  BY <1>9 DEF Complete
<1>10. CASE Abort
  BY <1>10 DEF Abort
<1>11. CASE Redeploy
  BY <1>11 DEF Redeploy
<1>12. QED
  BY <1>1, <1>2, <1>3, <1>4, <1>5, <1>6, <1>7, <1>8, <1>9, <1>10, <1>11 DEF Next

LEMMA EvidenceStep ==
    ASSUME IInv, [Next]_vars
    PROVE  EvidenceInv'
<1> USE DEF IInv, Shape, EvidenceInv, EvidenceDue, Probes, NoEvidence,
            runVars, serverVars, resultVars
<1>1. CASE UNCHANGED vars
  BY <1>1 DEF vars
<1>2. CASE Prepare
  BY <1>2 DEF Prepare
<1>3. CASE NextExecution
  BY <1>3 DEF NextExecution
<1>4. CASE Probe
  <2>1. /\ pc' \in Probes \cup {"verified"}
        /\ pc = "meta" <=> pc' = "verified"
    BY <1>4 DEF Probe, AfterProbe
  <2>2. QED
    BY <1>4, <2>1 DEF Probe
<1>5. CASE WriteVerified
  BY <1>5 DEF WriteVerified
<1>6. CASE StartLoad
  BY <1>6 DEF StartLoad
<1>7. CASE EndLoad
  BY <1>7 DEF EndLoad
<1>8. CASE AppendRecord
  BY <1>8 DEF AppendRecord
<1>9. CASE Complete
  BY <1>9 DEF Complete
<1>10. CASE Abort
  BY <1>10 DEF Abort
<1>11. CASE Redeploy
  BY <1>11 DEF Redeploy
<1>12. QED
  BY <1>1, <1>2, <1>3, <1>4, <1>5, <1>6, <1>7, <1>8, <1>9, <1>10, <1>11 DEF Next

----------------------------------------------------------------------------
(* Offers of one group and of two, as Negotiate looks at them.             *)
LEMMA OneGroupOffered ==
    ASSUME NEW a, NEW g
    PROVE  (\E k \in DOMAIN <<a>> : <<a>>[k] = g) <=> a = g
OBVIOUS

LEMMA TwoGroupsOffered ==
    ASSUME NEW a, NEW b, NEW g
    PROVE  (\E k \in DOMAIN <<a, b>> : <<a, b>>[k] = g) <=> a = g \/ b = g
<1>1. /\ DOMAIN <<a, b>> = {1, 2}
      /\ <<a, b>>[1] = a /\ <<a, b>>[2] = b
  OBVIOUS
<1>2. QED
  BY <1>1

(* The three probes and the handshake for the metadata leave no policy but *)
(* those that cannot give k6 another group (verify_tls_group).             *)
LEMMA ProbesPin ==
    ASSUME IInv, First, Second, Third, target.version # "none", Passes("meta")
    PROVE  Pinned
<1> DEFINE two == <<"P-256", "X25519">>
           owt == <<"X25519", "P-256">>
           one == <<"X25519">>
<1>1. /\ target \in [version : Versions, group : Groups, traefik : BOOLEAN]
      /\ server \in [version : Versions, policy : Policies, traefik : BOOLEAN]
  BY TargetsAssumption, DeploymentsAssumption DEF IInv, Shape
<1>2. /\ target.group \in {"P-256", "X25519"}
      /\ server.policy \in Policies
  BY <1>1 DEF Groups
<1>3. server.version = target.version
  BY <1>2 DEF First, Handshake
<1>4. /\ Handshake(two) = Negotiate(server.policy, two)
      /\ Handshake(owt) = Negotiate(server.policy, owt)
      /\ Handshake(one) = Negotiate(server.policy, one)
  BY <1>3 DEF Handshake
<1>5. /\ two[1] = "P-256" /\ owt[1] = "X25519" /\ one[1] = "X25519"
  OBVIOUS
<1>6. /\ server.policy # "client order"
      /\ server.policy \in {"only P-256", "prefers P-256"} => target.group = "P-256"
      /\ server.policy \in {"only X25519", "prefers X25519"} => target.group = "X25519"
  BY <1>2, <1>4, <1>5, TwoGroupsOffered, Zenon DEF First, Second, Negotiate
<1>7. server.policy # "prefers P-256"
  BY <1>4, <1>5, <1>6, OneGroupOffered DEF Third, Negotiate
<1>8. ~target.traefik => ~server.traefik
  BY DEF Passes
<1>9. QED
  BY <1>2, <1>3, <1>6, <1>7, <1>8 DEF Pinned, Policies

LEMMA PinStep ==
    ASSUME IInv, [Next]_vars
    PROVE  PinInv'
<1> USE DEF IInv, PinInv, runVars, serverVars, resultVars
<1>1. CASE Redeploy
  BY <1>1 DEF Redeploy
<1>2. ASSUME UNCHANGED <<target, server, stable>>, pc' = pc
      PROVE  PinInv'
  BY <1>2 DEF First, Second, Third, Pinned, Handshake
<1>3. ASSUME UNCHANGED <<target, server, stable>>,
             pc' \notin {"order2", "other", "meta", "verified", "start", "load"}
      PROVE  PinInv'
  BY <1>3
<1>4. ASSUME UNCHANGED <<target, server, stable>>, pc \in {"verified", "start", "load"},
             pc' \in {"start", "load"}
      PROVE  PinInv'
  BY <1>4 DEF Pinned
<1>5. CASE NextExecution
  BY <1>5 DEF NextExecution
<1>6. CASE Probe
  <2>1. UNCHANGED <<target, server, stable>> /\ Passes(pc) /\ pc' = AfterProbe(pc)
    BY <1>6 DEF Probe
  <2>2. (First <=> First') /\ (Second <=> Second') /\ (Third <=> Third') /\ (Pinned <=> Pinned')
    BY <2>1 DEF First, Second, Third, Pinned, Handshake
  <2>3. CASE pc = "order1"
    BY <2>1, <2>2, <2>3 DEF Passes, AfterProbe, First
  <2>4. CASE pc = "order2"
    BY <2>1, <2>2, <2>4 DEF Passes, AfterProbe, Second, Third
  <2>5. CASE pc = "other"
    BY <2>1, <2>2, <2>5 DEF Passes, AfterProbe, Third
  <2>6. CASE pc = "meta"
    <3>1. pc' = "verified"
      BY <2>1, <2>6 DEF AfterProbe
    <3>2. CASE target.version = "none"
      BY <2>1, <2>2, <2>6, <3>1, <3>2 DEF Passes, Pinned
    <3>3. CASE target.version # "none"
      BY <2>1, <2>2, <2>6, <3>1, <3>3, ProbesPin
    <3>4. QED
      BY <3>2, <3>3
  <2>7. QED
    BY <1>6, <2>3, <2>4, <2>5, <2>6 DEF Probe, Probes
<1>7. QED
  BY <1>1, <1>2, <1>3, <1>4, <1>5, <1>6
     DEF Next, vars, Prepare, WriteVerified, StartLoad, EndLoad, AppendRecord, Complete, Abort

----------------------------------------------------------------------------
(* Nothing but a run's results depends on the names of its files, and once *)
(* the plan is made the names stay.                                        *)
LEMMA PathStays ==
    ASSUME UNCHANGED <<matrix, plan>>
    PROVE  \A i : Path(i)' = Path(i)
BY DEF Path

(* A step that adds no file and keeps count of the finished executions.    *)
Finished == IF pc \in {"append", "complete"} \/ (pc = "next" /\ current > 0)
            THEN current ELSE current - 1

LEMMA FilesStay ==
    ASSUME IInv, UNCHANGED <<matrix, plan, raw, records>>,
           current' > 0 => 1 .. Finished' \subseteq 1 .. Finished,
           current' > 0 => current > 0 \/ 1 .. Finished' = {}
    PROVE  FileInv'
<1>1. \A i : Path(i)' = Path(i)
  BY PathStays
<1>2. QED
  BY <1>1 DEF IInv, FileInv, ResultsPerExecution, Finished

LEMMA FileStep ==
    ASSUME IInv, [Next]_vars
    PROVE  FileInv'
<1> USE DEF runVars, serverVars, resultVars
<1>1. current \in Nat
  BY DEF IInv, Shape
<1>2. CASE Prepare
  BY <1>2 DEF Prepare, IInv, Shape, FileInv, ResultsPerExecution
<1>3. CASE NextExecution
  <2>1. /\ UNCHANGED <<matrix, plan, raw, records>>
        /\ Finished' = current /\ (current > 0 => Finished = current)
    BY <1>1, <1>3 DEF NextExecution, Finished
  <2>2. current = 0 => 1 .. Finished' = {}
    BY <1>1, <2>1
  <2>3. QED
    BY <1>1, <2>1, <2>2, FilesStay
<1>4. CASE EndLoad
  <2>1. /\ pc = "load" /\ pc' = "append" /\ current > 0
        /\ UNCHANGED <<matrix, plan, current>>
        /\ raw' = Store(raw, Path(current), current)
        /\ \/ records' = Store(records, Path(current), current)
           \/ records' = records
    BY <1>4 DEF EndLoad, IInv, Shape, EvidenceInv, Probes
  <2>2. \A i : Path(i)' = Path(i)
    BY <2>1, PathStays
  <2>3. \A f \in raw \cup records : f = [path |-> Path(f.execution), execution |-> f.execution]
    BY DEF IInv, FileInv
  <2>4. \A f \in (raw \cup records)' :
            f = [path |-> Path(f.execution)', execution |-> f.execution]
    BY <2>1, <2>2, <2>3 DEF Store
  <2>5. ASSUME NEW i \in 1 .. current
        PROVE  [path |-> Path(i), execution |-> i] \in raw'
    <3>1. CASE i = current
      BY <2>1, <3>1 DEF Store
    <3>2. CASE i # current
      <4>1. [path |-> Path(i), execution |-> i] \in raw
        BY <1>1, <2>1, <3>2 DEF IInv, FileInv, ResultsPerExecution
      <4>2. Path(i) # Path(current)
        BY <3>2, PathInjective
      <4>3. QED
        BY <2>1, <4>1, <4>2 DEF Store
    <3>3. QED
      BY <3>1, <3>2
  <2>6. records' \subseteq raw'
    <3>1. records \subseteq raw
      BY DEF IInv, FileInv, ResultsPerExecution
    <3>2. ASSUME NEW f \in records, f.path = Path(current)
          PROVE  f = [path |-> Path(current), execution |-> current]
      <4>1. f = [path |-> Path(f.execution), execution |-> f.execution]
        BY <2>3
      <4>2. f.execution = current
        BY <3>2, <4>1, PathInjective
      <4>3. QED
        BY <4>1, <4>2
    <3>3. QED
      BY <2>1, <3>1, <3>2 DEF Store
  <2>7. QED
    BY <1>1, <2>1, <2>2, <2>4, <2>5, <2>6 DEF FileInv, ResultsPerExecution
<1>5. CASE Complete
  <2>1. UNCHANGED <<matrix, plan, raw, records>> /\ Finished' = Finished /\ current' = current
    BY <1>1, <1>5 DEF Complete, Finished
  <2>2. QED
    BY <2>1, FilesStay
<1>6. ASSUME UNCHANGED <<matrix, plan, raw, records, current>>,
             \/ pc' \in {"failed", pc}
             \/ pc = "append" /\ pc' = "next"
             \/ /\ pc \in Probes \cup {"verified", "start"}
                /\ pc' \in Probes \cup {"verified", "start", "load"}
      PROVE  FileInv'
  <2>1. current > 0 => 1 .. Finished' \subseteq 1 .. Finished
    BY <1>1, <1>6 DEF Finished, Probes
  <2>2. QED
    BY <1>1, <1>6, <2>1, FilesStay
<1>7. CASE Probe
  <2>1. pc' \in Probes \cup {"verified"}
    BY <1>7 DEF Probe, Probes, AfterProbe
  <2>2. QED
    BY <1>6, <1>7, <2>1 DEF Probe
<1>8. CASE WriteVerified \/ StartLoad
  BY <1>6, <1>8 DEF WriteVerified, StartLoad
<1>9. CASE AppendRecord
  BY <1>6, <1>9 DEF AppendRecord
<1>10. CASE Abort \/ Redeploy \/ UNCHANGED vars
  BY <1>6, <1>10 DEF Abort, Redeploy, vars
<1>11. QED
  BY <1>2, <1>3, <1>4, <1>5, <1>7, <1>8, <1>9, <1>10 DEF Next

----------------------------------------------------------------------------
(* raw.jsonl grows only by the execution at hand, and a record once there  *)
(* is replaced, if at all, by one of the same execution.                   *)
LEMMA JsonlStep ==
    ASSUME IInv, [Next]_vars
    PROVE  JsonlInv'
<1> USE DEF runVars, serverVars, resultVars
<1>1. current \in Nat /\ jsonl \in Seq(Nat)
  BY DEF IInv, Shape, JsonlInv
<1>2. ASSUME UNCHANGED <<jsonl, records>>, current' \in Nat,
             \/ current' = current /\ pc' = pc
             \/ current' = current /\ pc \notin {"next", "complete", "failed"}
             \/ current' = current /\ pc' \in {"next", "complete", "failed"}
             \/ current' = current + 1
      PROVE  JsonlInv'
  <2>1. ASSUME NEW k \in DOMAIN jsonl
        PROVE  \/ jsonl[k] < current'
               \/ jsonl[k] = current' /\ pc' \in {"next", "complete", "failed"}
    <3>1. /\ jsonl[k] \in Nat
          /\ \/ jsonl[k] < current
             \/ jsonl[k] = current /\ pc \in {"next", "complete", "failed"}
      BY <1>1, ElementOfSeq DEF IInv, JsonlInv
    <3>2. QED
      BY <1>1, <1>2, <3>1
  <2>2. QED
    BY <1>2, <2>1 DEF IInv, JsonlInv, JsonlInPlanOrder
<1>3. CASE Prepare
  <2>1. jsonl = <<>> /\ jsonl' = <<>>
    BY <1>3 DEF Prepare, IInv, Shape
  <2>2. QED
    BY <2>1 DEF JsonlInv, JsonlInPlanOrder
<1>4. CASE EndLoad
  <2>1. ASSUME NEW f \in records
        PROVE  \E g \in records' : g.execution = f.execution
    <3>1. f = [path |-> Path(f.execution), execution |-> f.execution]
      BY DEF IInv, FileInv
    <3>2. k6Config.execution = current
      BY <1>4 DEF EndLoad, IInv, Shape, EvidenceInv
    <3>3. CASE records' = records
      BY <3>3
    <3>4. CASE records' = Store(records, Path(current), current) /\ f.path = Path(current)
      <4>1. f.execution = current
        BY <3>1, <3>4, PathInjective
      <4>2. [path |-> Path(current), execution |-> current] \in records'
        BY <3>4 DEF Store
      <4>3. QED
        BY <4>1, <4>2
    <3>5. CASE records' = Store(records, Path(current), current) /\ f.path # Path(current)
      BY <3>5 DEF Store
    <3>6. QED
      BY <1>4, <3>2, <3>3, <3>4, <3>5 DEF EndLoad
  <2>2. UNCHANGED <<jsonl, current>> /\ pc = "load" /\ pc' = "append"
    BY <1>4 DEF EndLoad
  <2>3. \A k \in DOMAIN jsonl : \E f \in records' : f.execution = jsonl[k]
    BY <2>1 DEF IInv, JsonlInv, JsonlInPlanOrder
  <2>4. QED
    BY <2>2, <2>3 DEF IInv, JsonlInv, JsonlInPlanOrder
<1>5. CASE AppendRecord /\ UNCHANGED jsonl
  BY <1>1, <1>2, <1>5 DEF AppendRecord
<1>6. CASE AppendRecord /\ ~UNCHANGED jsonl
  <2>1. PICK f \in records : f.path = Path(current) /\ jsonl' = Append(jsonl, f.execution)
    BY <1>6 DEF AppendRecord
  <2>2. f.execution = current
    <3>1. f = [path |-> Path(f.execution), execution |-> f.execution]
      BY DEF IInv, FileInv
    <3>2. QED
      BY <2>1, <3>1, PathInjective
  <2>3. /\ jsonl' = Append(jsonl, current) /\ f \in records'
        /\ UNCHANGED <<current, records>> /\ pc = "append" /\ pc' = "next"
    BY <1>6, <2>1, <2>2 DEF AppendRecord
  <2>4. /\ jsonl' \in Seq(Nat) /\ Len(jsonl') = Len(jsonl) + 1
        /\ DOMAIN jsonl = 1 .. Len(jsonl) /\ DOMAIN jsonl' = 1 .. Len(jsonl) + 1
        /\ \A k \in 1 .. Len(jsonl) : jsonl'[k] = jsonl[k]
        /\ jsonl'[Len(jsonl) + 1] = current
        /\ Len(jsonl) \in Nat
    BY <1>1, <2>3
  <2>5. \A k \in DOMAIN jsonl : jsonl[k] \in Nat /\ jsonl[k] < current
    BY <1>1, <2>3 DEF IInv, JsonlInv
  <2>6. \A k \in DOMAIN jsonl' : jsonl'[k] < current' \/ (jsonl'[k] = current' /\ pc' = "next")
    BY <1>1, <2>3, <2>4, <2>5
  <2>7. \A j, k \in DOMAIN jsonl' : j < k => jsonl'[j] < jsonl'[k]
    <3>1. \A j, k \in DOMAIN jsonl : j < k => jsonl[j] < jsonl[k]
      BY DEF IInv, JsonlInv, JsonlInPlanOrder
    <3>2. TAKE j, k \in DOMAIN jsonl'
    <3>3. CASE k \in 1 .. Len(jsonl)
      BY <2>4, <3>1, <3>2, <3>3
    <3>4. CASE k = Len(jsonl) + 1
      BY <2>4, <2>5, <3>4
    <3>5. QED
      BY <2>4, <3>3, <3>4
  <2>8. \A k \in DOMAIN jsonl' : \E g \in records' : g.execution = jsonl'[k]
    <3>1. \A k \in DOMAIN jsonl : \E g \in records : g.execution = jsonl[k]
      BY DEF IInv, JsonlInv, JsonlInPlanOrder
    <3>2. QED
      BY <2>2, <2>3, <2>4, <3>1
  <2>9. QED
    BY <2>4, <2>6, <2>7, <2>8 DEF JsonlInv, JsonlInPlanOrder
<1>7. CASE NextExecution
  BY <1>1, <1>2, <1>7 DEF NextExecution
<1>8. CASE Probe \/ WriteVerified \/ StartLoad
  <2>1. pc \notin {"next", "complete", "failed"}
    BY <1>8 DEF Probe, Probes, WriteVerified, StartLoad
  <2>2. QED
    BY <1>1, <1>2, <1>8, <2>1 DEF Probe, WriteVerified, StartLoad
<1>9. CASE Complete \/ Abort \/ Redeploy \/ UNCHANGED vars
  BY <1>1, <1>2, <1>9 DEF Complete, Abort, Redeploy, vars
<1>10. QED
  BY <1>3, <1>4, <1>5, <1>6, <1>7, <1>8, <1>9 DEF Next

----------------------------------------------------------------------------
LEMMA PlanLength ==
    ASSUME NEW m \in Matrices
    PROVE  Len(Plan(m)) \in Nat
BY PlanListed, LenProperties DEF Lists

LEMMA PlanStep ==
    ASSUME IInv, [Next]_vars
    PROVE  PlanInv'
<1> USE DEF runVars, serverVars, resultVars
<1>1. /\ current \in Nat /\ evidence \in Nat
      /\ k6Config \in [execution : Nat, evidence : Nat]
      /\ PlanInv /\ Len(plan) \in Nat
  BY PlanLength DEF IInv, Shape, PlanInv
<1>2. CASE Prepare
  <2>1. /\ current = 0 /\ plan' = Plan(matrix)
        /\ UNCHANGED <<matrix, current, evidence, k6Config, raw, records>>
    BY <1>2 DEF Prepare, IInv, Shape
  <2>2. Len(plan') \in Nat
    BY <1>1, <2>1, PlanLength DEF PlanInv
  <2>3. QED
    BY <1>1, <2>1, <2>2 DEF PlanInv
<1>3. CASE NextExecution
  <2>1. /\ current < Len(plan) /\ current' = current + 1 /\ evidence' = 0
        /\ k6Config' = [execution |-> current + 1, evidence |-> 0]
        /\ UNCHANGED <<matrix, plan, raw, records>>
    BY <1>3 DEF NextExecution, NoEvidence
  <2>2. k6Config'.execution = current + 1 /\ k6Config'.evidence = 0
    BY <2>1
  <2>3. \A f \in raw \cup records : f.execution \in 1 .. current + 1
    BY <1>1 DEF PlanInv
  <2>4. QED
    BY <1>1, <2>1, <2>2, <2>3 DEF PlanInv
<1>4. CASE Probe
  BY <1>1, <1>4 DEF Probe, PlanInv
<1>5. CASE WriteVerified
  <2>1. /\ k6Config' = [execution |-> k6Config.execution, evidence |-> evidence]
        /\ UNCHANGED <<matrix, plan, current, evidence, raw, records>>
    BY <1>1, <1>5 DEF WriteVerified
  <2>2. k6Config'.execution = k6Config.execution /\ k6Config'.evidence = evidence
    BY <2>1
  <2>3. QED
    BY <1>1, <2>1, <2>2 DEF PlanInv
<1>6. CASE EndLoad
  <2>1. /\ k6Config.execution = current /\ current > 0
        /\ UNCHANGED <<matrix, plan, current, evidence, k6Config>>
        /\ raw' = Store(raw, Path(current), current)
        /\ records' \in {records, Store(records, Path(current), current)}
    BY <1>6 DEF EndLoad, IInv, Shape, EvidenceInv
  <2>2. \A f \in (raw \cup records)' : f \in raw \cup records \/ f.execution = current
    BY <2>1 DEF Store
  <2>3. \A f \in (raw \cup records)' : f.execution \in 1 .. current
    BY <1>1, <2>1, <2>2 DEF PlanInv
  <2>4. QED
    BY <1>1, <2>1, <2>3 DEF PlanInv
<1>7. CASE StartLoad \/ AppendRecord \/ Complete \/ Abort \/ Redeploy \/ UNCHANGED vars
  BY <1>1, <1>7 DEF StartLoad, AppendRecord, Complete, Abort, Redeploy, PlanInv, vars
<1>8. QED
  BY <1>2, <1>3, <1>4, <1>5, <1>6, <1>7 DEF Next

----------------------------------------------------------------------------
(* The invariant holds of every behaviour of the runner, whatever the      *)
(* matrix, the target and the moments at which the target is redeployed.   *)
THEOREM Invariance == Spec => []IInv
<1>1. Init => IInv
  <2>1. SUFFICES ASSUME Init PROVE IInv
    OBVIOUS
  <2>2. Shape
    BY <2>1 DEF Init, Shape, Probes, NoEvidence
  <2>3. EvidenceInv /\ PinInv
    BY <2>1 DEF Init, EvidenceInv, PinInv, Probes
  <2>4. FileInv
    BY <2>1 DEF Init, FileInv, ResultsPerExecution
  <2>5. JsonlInv
    BY <2>1 DEF Init, JsonlInv, JsonlInPlanOrder
  <2>6. PlanInv
    BY <2>1 DEF Init, PlanInv, NoEvidence
  <2>7. QED
    BY <2>2, <2>3, <2>4, <2>5, <2>6 DEF IInv
<1>2. IInv /\ [Next]_vars => IInv'
  BY ShapeStep, EvidenceStep, PinStep, FileStep, JsonlStep, PlanStep DEF IInv
<1>3. QED
  BY <1>1, <1>2, PTL DEF Spec

(* Load meets only a server that is pinned as configured, unless the       *)
(* target was deployed anew since this execution's preflight began.        *)
THEOREM LoadIsPinned == Spec => []LoadMeetsPinnedServer
<1>1. IInv => LoadMeetsPinnedServer
  BY DEF IInv, PinInv, LoadMeetsPinnedServer
<1>2. QED
  BY <1>1, Invariance, PTL

(* k6 never runs with the configuration or the evidence of an earlier      *)
(* execution, though config.json is one file for all of them.              *)
THEOREM EvidenceIsFresh == Spec => []FreshEvidence
<1>1. IInv => FreshEvidence
  BY DEF IInv, EvidenceInv, EvidenceDue, FreshEvidence
<1>2. QED
  BY <1>1, Invariance, PTL

(* Every finished execution has raw points of its own, and summaries lie   *)
(* beside the raw points of the same execution, for any plan: the number   *)
(* in a file's name is enough.                                             *)
THEOREM ResultsAreApart == Spec => []ResultsPerExecution
<1>1. IInv => ResultsPerExecution
  BY DEF IInv, FileInv
<1>2. QED
  BY <1>1, Invariance, PTL

(* raw.jsonl lists summaries in the order of the plan, each at most once,  *)
(* and only summaries that are there.                                      *)
THEOREM JsonlIsOrdered == Spec => []JsonlInPlanOrder
<1>1. IInv => JsonlInPlanOrder
  BY DEF IInv, JsonlInv
<1>2. QED
  BY <1>1, Invariance, PTL

(* Whatever the matrix, the plan has each measurement once, a warm-up for  *)
(* each profile that is not a race, and keeps warm-ups and repeats in      *)
(* order within a combination (execution_plan).                            *)
THEOREM PlanIsTheMatrix == Spec => []PlanCoversMatrix
<1>1. ASSUME IInv, plan # <<>>
      PROVE  PlanCoversMatrix
  <2>1. matrix \in Matrices /\ plan = Plan(matrix)
    BY <1>1 DEF IInv, PlanInv
  <2>2. Lists(plan, Wanted(matrix))
    BY <2>1, PlanListed
  <2> DEFINE repeats(p) == IF matrix.warmup /\ ~matrix.profiles[p].race
                           THEN 0 .. matrix.repeats ELSE 1 .. matrix.repeats
             wanted == UNION {{[combination |-> c, profile |-> p, repeat |-> r] :
                                   c \in Combinations(matrix), r \in repeats(p)} :
                              p \in Profiles(matrix)}
  <2>3. matrix.repeats \in Nat \ {0}
    BY <2>1, MatrixShape
  <2>4. ASSUME NEW e
        PROVE  e \in wanted <=> e \in Wanted(matrix)
    <3> DEFINE form(c, p, r) == [combination |-> c, profile |-> p, repeat |-> r]
               warm(p) == matrix.warmup /\ ~matrix.profiles[p].race
    <3>1. ASSUME NEW p, NEW r
          PROVE  r \in repeats(p) <=> (warm(p) /\ r = 0) \/ r \in 1 .. matrix.repeats
      BY <2>3
    <3>2. e \in wanted <=> \E p \in Profiles(matrix), c \in Combinations(matrix) :
                               \E r \in repeats(p) : e = form(c, p, r)
      OBVIOUS
    <3>3. e \in Wanted(matrix) <=>
              \E c \in Combinations(matrix) : \E p \in Profiles(matrix) :
                  \/ warm(p) /\ e = form(c, p, 0)
                  \/ \E r \in 1 .. matrix.repeats : e = form(c, p, r)
      BY DEF Wanted, WarmupsWanted, MeasuredWanted
    <3> HIDE DEF form, warm, repeats, wanted
    <3>4. QED
      BY <3>1, <3>2, <3>3, Zenon
  <2>5. \A k \in DOMAIN plan : plan[k] \in Wanted(matrix)
    BY <2>2, LenProperties, ElementOfSeq DEF Lists
  <2>6. ToSet(plan) = Wanted(matrix)
    BY <2>2, <2>5 DEF Lists, ToSet
  <2>7. \A j, k \in DOMAIN plan : j < k => Precedes(plan[j], plan[k])
    BY <2>2 DEF Lists
  <2>8. /\ DOMAIN plan = 1 .. Len(plan) /\ Len(plan) \in Nat
        /\ \A k \in DOMAIN plan : /\ plan[k].combination \in Nat
                                  /\ plan[k].profile \in Nat /\ plan[k].repeat \in Nat
    <3>1. \A e \in Wanted(matrix) : e.combination \in Nat /\ e.profile \in Nat /\ e.repeat \in Nat
      BY <2>1, MatrixShape DEF Wanted, WarmupsWanted, MeasuredWanted
    <3>2. QED
      BY <2>2, <2>5, <3>1, LenProperties DEF Lists
  <2>9. IsInjective(plan)
    BY <2>7, <2>8 DEF IsInjective, Precedes
  <2>10. \A i, j \in DOMAIN plan : i < j =>
            \/ plan[i].combination < plan[j].combination
            \/ /\ plan[i].combination = plan[j].combination
               /\ plan[i].repeat <= plan[j].repeat
    BY <2>7, <2>8 DEF Precedes
  <2>11. wanted = Wanted(matrix)
    BY <2>4
  <2> HIDE DEF wanted
  <2>12. ToSet(plan) = wanted
    BY <2>6, <2>11
  <2>13. QED
    BY <2>9, <2>10, <2>12 DEF PlanCoversMatrix, wanted
<1>2. IInv => PlanCoversMatrix
  BY <1>1 DEF PlanCoversMatrix
<1>3. QED
  BY <1>2, Invariance, PTL

(* Every number of an execution the runner keeps is one of the plan's.     *)
THEOREM TypeCorrect == Spec => []TypeOK
<1>1. ASSUME IInv
      PROVE  TypeOK
  <2>1. matrix \in Matrices /\ Len(plan) \in Nat /\ current \in 0 .. Len(plan)
    BY <1>1, PlanLength DEF IInv, Shape, PlanInv
  <2>2. evidence \in 0 .. Len(plan)
    BY <1>1, <2>1 DEF IInv, Shape, PlanInv
  <2>3. k6Config \in [execution : 0 .. Len(plan), evidence : 0 .. Len(plan)]
    BY <1>1, <2>1 DEF IInv, Shape, PlanInv
  <2>4. \A f \in raw \cup records : f.execution \in 1 .. Len(plan)
    BY <1>1, <2>1 DEF IInv, PlanInv
  <2>5. jsonl \in Seq(1 .. Len(plan))
    <3>1. jsonl \in [1 .. Len(jsonl) -> Nat] /\ Len(jsonl) \in Nat
      BY <1>1, LenProperties DEF IInv, JsonlInv
    <3>2. \A k \in 1 .. Len(jsonl) : jsonl[k] \in 1 .. Len(plan)
      BY <1>1, <2>1, <2>4, <3>1 DEF IInv, JsonlInv, JsonlInPlanOrder
    <3>3. jsonl \in [1 .. Len(jsonl) -> 1 .. Len(plan)]
      BY <3>1, <3>2
    <3>4. QED
      BY <3>1, <3>3, MakeSeq
  <2>6. QED
    BY <1>1, <2>1, <2>2, <2>3, <2>4, <2>5 DEF TypeOK, IInv, Shape
<1>2. QED
  BY <1>1, Invariance, PTL

=============================================================================
