---------------------------- MODULE FiguresProofs ----------------------------
(***************************************************************************)
(* Theorems about what becomes of figures: sums over finite sets and       *)
(* sequences, the index of fairness in the places that compute it, for     *)
(* every set of stations, and the samples and statistics of an iperf3      *)
(* test, for every duration.                                               *)
(***************************************************************************)
EXTENDS Reporter, Iperf3Runner, FiniteSetTheorems, SequenceTheorems,
        WellFoundedInduction, TLAPS

(***************************************************************************)
(* What is in S from 0 on and with every successor is in S: there is no    *)
(* least number outside.                                                   *)
(***************************************************************************)
LEMMA NatBySteps ==
    ASSUME NEW S, 0 \in S, \A n \in Nat : n \in S => n + 1 \in S
    PROVE  Nat \subseteq S
<1> SUFFICES ASSUME Nat \ S # {} PROVE FALSE
  OBVIOUS
<1> DEFINE R == OpToRel(<, Nat)
<1>1. \A x, y \in Nat : x < y => <<x, y>> \in R
  BY DEF OpToRel
<1>2. IsWellFoundedOn(R, Nat)
  BY Zenon, NatLessThanWellFounded
<1> HIDE DEF R
<1>3. PICK n \in Nat \ S : \A k \in Nat \ S : ~(<<k, n>> \in R)
  <2> DEFINE T == Nat \ S
  <2>1. T \subseteq Nat /\ T # {}
    OBVIOUS
  <2> HIDE DEF T
  <2>2. \E x \in T : \A y \in T : ~(<<y, x>> \in R)
    BY <1>2, <2>1, WFMin
  <2> QED BY <2>2 DEF T
<1>4. n # 0 /\ n - 1 \in Nat /\ n - 1 < n
  BY <1>3
<1>5. n - 1 \in S
  BY <1>1, <1>3, <1>4
<1> QED BY <1>3, <1>4, <1>5

(***************************************************************************)
(* What is in G when all that has an element less is, holds every subset   *)
(* of a finite set.                                                        *)
(***************************************************************************)
LEMMA SubsetsBySteps ==
    ASSUME NEW D, IsFiniteSet(D), NEW G,
           \A s \in SUBSET D : (\A x \in s : s \ {x} \in G) => s \in G
    PROVE  SUBSET D \subseteq G
<1> DEFINE S == {n \in Nat : \A s \in SUBSET D : Cardinality(s) = n => s \in G}
<1>1. \A s \in SUBSET D : IsFiniteSet(s) /\ Cardinality(s) \in Nat
  BY FS_Subset, FS_CardinalityType
<1>2. 0 \in S
  <2>1. ASSUME NEW s \in SUBSET D, Cardinality(s) = 0 PROVE s \in G
    BY <1>1, <2>1, FS_EmptySet
  <2> QED BY <2>1
<1>3. ASSUME NEW n \in Nat, n \in S PROVE n + 1 \in S
  <2>1. ASSUME NEW s \in SUBSET D, Cardinality(s) = n + 1 PROVE s \in G
    <3>1. ASSUME NEW x \in s PROVE s \ {x} \in G
      <4>1. Cardinality(s \ {x}) = n
        BY <1>1, <2>1, <3>1, FS_RemoveElement
      <4> QED BY <1>3, <4>1
    <3> QED BY <3>1
  <2> QED BY <2>1
<1>4. Nat \subseteq S
  <2> HIDE DEF S
  <2> QED BY <1>2, <1>3, NatBySteps
<1> QED BY <1>1, <1>4

(***************************************************************************)
(* g[s] is the sum of F over the subset s of D, taken one element after    *)
(* the other in some order.  A fold takes the one that pick names.         *)
(***************************************************************************)
IsSum(g, F, D) ==
    /\ g[{}] = 0
    /\ \A s \in SUBSET D : s # {} => \E x \in s : g[s] = F[x] + g[s \ {x}]

IsFold(g, F, D, pick) ==
    g = [s \in SUBSET D |-> IF s = {} THEN 0 ELSE F[pick[s]] + g[s \ {pick[s]}]]

Picks(pick, D) == \A s \in SUBSET D : s # {} => pick[s] \in s

LEMMA FoldIsSum ==
    ASSUME NEW D, NEW F, NEW pick, Picks(pick, D), NEW g, IsFold(g, F, D, pick)
    PROVE  IsSum(g, F, D)
<1>1. \A s \in SUBSET D : g[s] = IF s = {} THEN 0 ELSE F[pick[s]] + g[s \ {pick[s]}]
  BY DEF IsFold
<1> QED BY <1>1 DEF IsSum, Picks

LEMMA FoldExists ==
    ASSUME NEW D, IsFiniteSet(D), NEW F, NEW pick, Picks(pick, D)
    PROVE  \E g : IsFold(g, F, D, pick)
<1> DEFINE Sum(h, s) == IF s = {} THEN 0 ELSE F[pick[s]] + h[s \ {pick[s]}]
           S == {n \in Nat : \E h : \A s \in SUBSET D : Cardinality(s) <= n => h[s] = Sum(h, s)}
<1>1. \A s \in SUBSET D : IsFiniteSet(s) /\ Cardinality(s) \in Nat
  BY FS_Subset, FS_CardinalityType
<1>2. \A s \in SUBSET D : Cardinality(s) = 0 <=> s = {}
  BY <1>1, FS_EmptySet
<1>3. \A s \in SUBSET D : s # {} => /\ pick[s] \in s /\ s \ {pick[s]} \in SUBSET D
                                    /\ Cardinality(s \ {pick[s]}) = Cardinality(s) - 1
  BY <1>1, FS_RemoveElement DEF Picks
<1>4. 0 \in S
  <2> DEFINE h == [s \in SUBSET D |-> 0]
  <2>1. \A s \in SUBSET D : Cardinality(s) <= 0 => h[s] = Sum(h, s)
    BY <1>1, <1>2
  <2> HIDE DEF h, Sum
  <2> QED BY <2>1
<1>5. ASSUME NEW n \in Nat, n \in S PROVE n + 1 \in S
  <2>1. PICK h : \A s \in SUBSET D : Cardinality(s) <= n => h[s] = Sum(h, s)
    BY <1>5
  <2> DEFINE k == [s \in SUBSET D |-> Sum(h, s)]
  <2>2. ASSUME NEW s \in SUBSET D, Cardinality(s) <= n + 1 PROVE k[s] = Sum(k, s)
    <3>1. CASE s = {}
      BY <3>1
    <3>2. CASE s # {}
      <4>1. /\ s \ {pick[s]} \in SUBSET D /\ Cardinality(s \ {pick[s]}) <= n
        BY <1>1, <1>3, <2>2, <3>2
      <4>2. h[s \ {pick[s]}] = Sum(h, s \ {pick[s]})
        BY <2>1, <4>1
      <4>3. k[s \ {pick[s]}] = h[s \ {pick[s]}]
        <5> HIDE DEF Sum
        <5> QED BY <4>1, <4>2
      <4>4. k[s] = F[pick[s]] + h[s \ {pick[s]}]
        BY <3>2
      <4>5. Sum(k, s) = F[pick[s]] + k[s \ {pick[s]}]
        <5> HIDE DEF k
        <5> QED BY <3>2
      <4> QED BY <4>3, <4>4, <4>5
    <3> QED BY <3>1, <3>2
  <2> HIDE DEF k, Sum
  <2> QED BY <2>2
<1>6. Cardinality(D) \in S
  <2>1. Nat \subseteq S
    <3> HIDE DEF S
    <3> QED BY <1>4, <1>5, NatBySteps
  <2>2. Cardinality(D) \in Nat
    BY FS_CardinalityType
  <2> HIDE DEF S
  <2> QED BY <2>1, <2>2
<1>7. PICK h : \A s \in SUBSET D : Cardinality(s) <= Cardinality(D) => h[s] = Sum(h, s)
  BY <1>6
<1>8. \A s \in SUBSET D : Cardinality(s) <= Cardinality(D)
  BY FS_Subset
<1>9. \A s \in SUBSET D : h[s] = Sum(h, s)
  <2> HIDE DEF Sum
  <2> QED BY <1>7, <1>8
<1> DEFINE g == [s \in SUBSET D |-> h[s]]
<1>10. \A s \in SUBSET D : g[s] = IF s = {} THEN 0 ELSE F[pick[s]] + g[s \ {pick[s]}]
  BY <1>3, <1>9
<1>11. IsFold(g, F, D, pick)
  <2>1. g = [s \in SUBSET D |-> g[s]]
    OBVIOUS
  <2> HIDE DEF g
  <2> QED BY <1>10, <2>1 DEF IsFold
<1> QED BY <1>11

(***************************************************************************)
(* The total and the sum of the squares are such sums.                     *)
(***************************************************************************)
Squared(f) == [s \in DOMAIN f |-> f[s] * f[s]]

LEMMA TotalIsSum ==
    ASSUME NEW f, IsFiniteSet(DOMAIN f)
    PROVE  \E g : IsSum(g, f, DOMAIN f) /\ Total(f) = g[DOMAIN f]
<1> DEFINE D == DOMAIN f
           pick == [s \in SUBSET D |-> CHOOSE x \in s : TRUE]
           Step(i, s) == IF s = {} THEN 0
                         ELSE f[CHOOSE x \in s : TRUE]
                                  + i[s \ {CHOOSE x \in s : TRUE}]
           fold == CHOOSE i : i = [s \in SUBSET D |-> Step(i, s)]
<1>1. Total(f) = fold[D]
  BY DEF Total, MapThenSumSet, MapThenFoldSet
<1>2. Picks(pick, D)
  BY DEF Picks
<1>3. \E g : IsFold(g, f, D, pick)
  <2> HIDE DEF pick
  <2> QED BY <1>2, FoldExists
<1>4. ASSUME NEW i, NEW s \in SUBSET D
      PROVE  Step(i, s) = IF s = {} THEN 0 ELSE f[pick[s]] + i[s \ {pick[s]}]
  BY <1>2 DEF Picks
<1>5. ASSUME NEW i PROVE i = [s \in SUBSET D |-> Step(i, s)] <=> IsFold(i, f, D, pick)
  <2> HIDE DEF Step, pick
  <2> QED BY <1>4 DEF IsFold
<1>6. IsFold(fold, f, D, pick)
  <2> HIDE DEF Step, pick
  <2> QED BY <1>3, <1>5
<1>7. IsSum(fold, f, D)
  <2> HIDE DEF fold, pick
  <2> QED BY <1>2, <1>6, FoldIsSum
<1> QED BY <1>1, <1>7

LEMMA SquaresIsSum ==
    ASSUME NEW f, IsFiniteSet(DOMAIN f)
    PROVE  \E g : IsSum(g, Squared(f), DOMAIN f) /\ Squares(f) = g[DOMAIN f]
<1> DEFINE D == DOMAIN f
           pick == [s \in SUBSET D |-> CHOOSE x \in s : TRUE]
           Step(i, s) == IF s = {} THEN 0
                         ELSE f[CHOOSE x \in s : TRUE] * f[CHOOSE x \in s : TRUE]
                                  + i[s \ {CHOOSE x \in s : TRUE}]
           fold == CHOOSE i : i = [s \in SUBSET D |-> Step(i, s)]
<1>1. Squares(f) = fold[D]
  BY DEF Squares, Square, MapThenSumSet, MapThenFoldSet
<1>2. Picks(pick, D)
  BY DEF Picks
<1>3. \E g : IsFold(g, Squared(f), D, pick)
  <2> HIDE DEF pick
  <2> QED BY <1>2, FoldExists
<1>4. ASSUME NEW i, NEW s \in SUBSET D
      PROVE  Step(i, s) = IF s = {} THEN 0 ELSE Squared(f)[pick[s]] + i[s \ {pick[s]}]
  BY <1>2 DEF Picks, Squared
<1>5. ASSUME NEW i PROVE i = [s \in SUBSET D |-> Step(i, s)] <=> IsFold(i, Squared(f), D, pick)
  <2> HIDE DEF Step, pick
  <2> QED BY <1>4 DEF IsFold
<1>6. IsFold(fold, Squared(f), D, pick)
  <2> HIDE DEF Step, pick
  <2> QED BY <1>3, <1>5
<1>7. IsSum(fold, Squared(f), D)
  <2> HIDE DEF fold, pick
  <2> QED BY <1>2, <1>6, FoldIsSum
<1> QED BY <1>1, <1>7

(***************************************************************************)
(* Sums of natural numbers are natural, do not depend on which element is  *)
(* taken first nor on what F is elsewhere, and zeros add nothing.          *)
(***************************************************************************)
LEMMA SumNat ==
    ASSUME NEW D, IsFiniteSet(D), NEW F \in [D -> Nat], NEW g, IsSum(g, F, D)
    PROVE  \A s \in SUBSET D : g[s] \in Nat
<1> DEFINE G == {s \in SUBSET D : g[s] \in Nat}
<1>1. ASSUME NEW s \in SUBSET D, \A x \in s : s \ {x} \in G PROVE s \in G
  <2>1. CASE s = {}
    BY <2>1 DEF IsSum
  <2>2. CASE s # {}
    <3>1. PICK x \in s : g[s] = F[x] + g[s \ {x}]
      BY <2>2 DEF IsSum
    <3>2. g[s \ {x}] \in Nat /\ F[x] \in Nat
      BY <1>1, <3>1
    <3> QED BY <3>1, <3>2
  <2> QED BY <2>1, <2>2
<1>2. SUBSET D \subseteq G
  <2> HIDE DEF G
  <2> QED BY <1>1, SubsetsBySteps
<1> QED BY <1>2

LEMMA AnyFirst ==
    ASSUME NEW D, IsFiniteSet(D), NEW F \in [D -> Nat], NEW g, IsSum(g, F, D)
    PROVE  \A s \in SUBSET D, y \in D : y \in s => g[s] = F[y] + g[s \ {y}]
<1> DEFINE G == {s \in SUBSET D : \A y \in s : g[s] = F[y] + g[s \ {y}]}
<1>1. ASSUME NEW s \in SUBSET D, \A x \in s : s \ {x} \in G PROVE s \in G
  <2> SUFFICES ASSUME NEW y \in s PROVE g[s] = F[y] + g[s \ {y}]
    OBVIOUS
  <2>1. PICK p \in s : g[s] = F[p] + g[s \ {p}]
    BY DEF IsSum
  <2>2. CASE y = p
    BY <2>1, <2>2
  <2>3. CASE y # p
    <3>1. g[s \ {p}] = F[y] + g[(s \ {p}) \ {y}]
      BY <1>1, <2>1, <2>3
    <3>2. g[s \ {y}] = F[p] + g[(s \ {y}) \ {p}]
      BY <1>1, <2>1, <2>3
    <3>3. (s \ {p}) \ {y} = (s \ {y}) \ {p}
      OBVIOUS
    <3>4. F[y] \in Nat /\ F[p] \in Nat /\ g[(s \ {y}) \ {p}] \in Nat
      BY <2>1, SumNat
    <3> QED BY <2>1, <3>1, <3>2, <3>3, <3>4
  <2> QED BY <2>2, <2>3
<1>2. SUBSET D \subseteq G
  <2> HIDE DEF G
  <2> QED BY <1>1, SubsetsBySteps
<1> QED BY <1>2

LEMMA SumLocal ==
    ASSUME NEW D, IsFiniteSet(D), NEW F \in [D -> Nat], NEW g, IsSum(g, F, D),
           NEW C \in SUBSET D, NEW E, NEW h, IsSum(h, E, C), \A x \in C : E[x] = F[x]
    PROVE  h[C] = g[C]
<1> DEFINE G == {s \in SUBSET C : h[s] = g[s]}
<1>1. ASSUME NEW s \in SUBSET C, \A x \in s : s \ {x} \in G PROVE s \in G
  <2>1. CASE s = {}
    BY <2>1 DEF IsSum
  <2>2. CASE s # {}
    <3>1. PICK x \in s : h[s] = E[x] + h[s \ {x}]
      BY <2>2 DEF IsSum
    <3>2. g[s] = F[x] + g[s \ {x}]
      BY AnyFirst
    <3> QED BY <1>1, <3>1, <3>2
  <2> QED BY <2>1, <2>2
<1>2. IsFiniteSet(C)
  BY FS_Subset
<1>3. SUBSET C \subseteq G
  <2> HIDE DEF G
  <2> QED BY <1>1, <1>2, SubsetsBySteps
<1> QED BY <1>3

LEMMA ZerosAddNothing ==
    ASSUME NEW D, IsFiniteSet(D), NEW F \in [D -> Nat], NEW g, IsSum(g, F, D)
    PROVE  g[D] = g[{x \in D : F[x] # 0}]
<1> DEFINE NonZero(s) == {x \in s : F[x] # 0}
           G == {s \in SUBSET D : g[s] = g[NonZero(s)]}
<1>1. ASSUME NEW s \in SUBSET D, \A x \in s : s \ {x} \in G PROVE s \in G
  <2>1. CASE s = {}
    BY <2>1
  <2>2. CASE s # {}
    <3>1. PICK y \in s : TRUE
      BY <2>2
    <3>2. g[s] = F[y] + g[s \ {y}]
      BY AnyFirst
    <3>3. g[s \ {y}] = g[NonZero(s \ {y})] /\ g[s \ {y}] \in Nat
      BY <1>1, SumNat
    <3>4. CASE F[y] = 0
      <4>1. NonZero(s \ {y}) = NonZero(s)
        BY <3>4
      <4> HIDE DEF NonZero
      <4>2. g[s] = g[NonZero(s)]
        BY <3>2, <3>3, <3>4, <4>1
      <4> QED BY <4>2
    <3>5. CASE F[y] # 0
      <4>1. NonZero(s \ {y}) = NonZero(s) \ {y} /\ y \in NonZero(s) /\ NonZero(s) \in SUBSET D
        BY <3>5
      <4> HIDE DEF NonZero
      <4>2. g[NonZero(s)] = F[y] + g[NonZero(s) \ {y}]
        BY <4>1, AnyFirst
      <4> QED BY <3>2, <3>3, <4>1, <4>2
    <3> QED BY <3>4, <3>5
  <2> QED BY <2>1, <2>2
<1>2. SUBSET D \subseteq G
  <2> HIDE DEF G
  <2> QED BY <1>1, SubsetsBySteps
<1> QED BY <1>2

(***************************************************************************)
(* Products as the bounds below need them.                                 *)
(***************************************************************************)
LEMMA TwiceProduct ==
    ASSUME NEW x \in Int, NEW y \in Int
    PROVE  2 * (x * y) <= x * x + y * y
<1>1. (x - y) * (x - y) >= 0
  <2> DEFINE d == x - y
  <2>1. d \in Int
    OBVIOUS
  <2> HIDE DEF d
  <2>2. d * d >= 0
    BY <2>1
  <2> QED BY <2>2 DEF d
<1> QED BY <1>1

(***************************************************************************)
(* The square of a sum lies between the sum q of the squares and as many   *)
(* times that as there are terms.                                          *)
(***************************************************************************)
LEMMA SquareOfSum ==
    ASSUME NEW D, IsFiniteSet(D), NEW f \in [D -> Nat],
           NEW a, IsSum(a, f, D), NEW q, IsSum(q, Squared(f), D)
    PROVE  /\ q[D] <= a[D] * a[D]
           /\ a[D] * a[D] <= Cardinality(D) * q[D]
<1> DEFINE n(s) == Cardinality(s)
           Bounds(s) == /\ q[s] <= a[s] * a[s]
                        /\ \A y \in Nat : 2 * (a[s] * y) <= n(s) * (y * y) + q[s]
                        /\ a[s] * a[s] <= n(s) * q[s]
           G == {s \in SUBSET D : Bounds(s)}
<1>1. DOMAIN f = D /\ Squared(f) \in [D -> Nat] /\ \A x \in D : Squared(f)[x] = f[x] * f[x]
  BY DEF Squared
<1>2. \A s \in SUBSET D : a[s] \in Nat /\ q[s] \in Nat /\ IsFiniteSet(s) /\ n(s) \in Nat
  BY <1>1, SumNat, FS_Subset, FS_CardinalityType
<1>3. ASSUME NEW s \in SUBSET D, \A x \in s : s \ {x} \in G PROVE Bounds(s)
  <2>1. CASE s = {}
    <3>1. a[s] = 0 /\ q[s] = 0 /\ n(s) = 0
      BY <2>1, FS_EmptySet DEF IsSum
    <3> HIDE DEF n
    <3> QED BY <3>1
  <2>2. CASE s # {}
    <3>0. PICK p \in s : TRUE
      BY <2>2
    <3> DEFINE t == s \ {p}
               x == f[p]
    <3>1. a[s] = x + a[t] /\ q[s] = x * x + q[t]
      <4>1. a[s] = f[p] + a[t]
        BY AnyFirst
      <4>2. q[s] = Squared(f)[p] + q[t]
        BY <1>1, AnyFirst
      <4> QED BY <1>1, <4>1, <4>2
    <3>2. n(s) = n(t) + 1 /\ t \in SUBSET D
      BY <1>2, <3>1, FS_RemoveElement
    <3>3. Bounds(t) /\ x \in Nat /\ a[t] \in Nat /\ q[t] \in Nat /\ n(t) \in Nat
      BY <1>2, <1>3, <3>1, <3>2
    <3> DEFINE A == a[t]
               Q == q[t]
               N == n(t)
    <3>4. /\ A \in Nat /\ Q \in Nat /\ N \in Nat /\ x \in Nat
          /\ Q <= A * A
          /\ \A y \in Nat : 2 * (A * y) <= N * (y * y) + Q
          /\ A * A <= N * Q
      BY <3>3
    <3>5. a[s] = x + A /\ q[s] = x * x + Q /\ n(s) = N + 1
      BY <3>1, <3>2
    <3> HIDE DEF A, Q, N, x, n, t
    <3>6. (x + A) * (x + A) = x * x + 2 * (A * x) + A * A
      BY <3>4
    <3>7. x * x + Q <= (x + A) * (x + A)
      <4>1. A * x >= 0
        BY <3>4
      <4> QED BY <3>4, <3>6, <4>1
    <3>8. ASSUME NEW y \in Nat
          PROVE  2 * ((x + A) * y) <= (N + 1) * (y * y) + (x * x + Q)
      <4>1. 2 * (x * y) <= x * x + y * y
        BY <3>4, TwiceProduct
      <4>2. 2 * (A * y) <= N * (y * y) + Q
        BY <3>4
      <4>3. (x + A) * y = x * y + A * y /\ (N + 1) * (y * y) = N * (y * y) + y * y
        BY <3>4
      <4>4. /\ x * y \in Int /\ A * y \in Int /\ x * x \in Int /\ y * y \in Int
            /\ N * (y * y) \in Int
        BY <3>4
      <4> QED BY <3>4, <4>1, <4>2, <4>3, <4>4
    <3>9. (x + A) * (x + A) <= (N + 1) * (x * x + Q)
      <4>1. 2 * (A * x) <= N * (x * x) + Q
        BY <3>4
      <4>2. (N + 1) * (x * x + Q) = N * (x * x) + N * Q + x * x + Q
        BY <3>4
      <4>3. /\ A * x \in Int /\ x * x \in Int /\ A * A \in Int /\ N * Q \in Int
            /\ N * (x * x) \in Int
        BY <3>4
      <4> QED BY <3>4, <3>6, <4>1, <4>2, <4>3
    <3> QED BY <3>5, <3>7, <3>8, <3>9
  <2> QED BY <2>1, <2>2
<1>4. SUBSET D \subseteq G
  <2> HIDE DEF G, Bounds
  <2>1. \A s \in SUBSET D : (\A x \in s : s \ {x} \in G) => s \in G
    BY <1>3 DEF G
  <2> QED BY <2>1, SubsetsBySteps
<1> QED BY <1>4

(***************************************************************************)
(* Jain's index is a fraction: the total is 0 only if every mean is, and   *)
(* its square lies between the sum of the squares and n times that.        *)
(***************************************************************************)
LEMMA IndexRange ==
    ASSUME NEW D, IsFiniteSet(D), NEW f \in [D -> Nat]
    PROVE  /\ Total(f) \in Nat /\ Squares(f) \in Nat /\ Cardinality(D) \in Nat
           /\ Squares(f) <= Total(f) * Total(f)
           /\ Total(f) * Total(f) <= Cardinality(D) * Squares(f)
           /\ Total(f) = 0 <=> \A x \in D : f[x] = 0
<1>1. DOMAIN f = D /\ Squared(f) \in [D -> Nat]
  BY DEF Squared
<1>2. PICK a : IsSum(a, f, D) /\ Total(f) = a[D]
  BY <1>1, TotalIsSum
<1>3. PICK q : IsSum(q, Squared(f), D) /\ Squares(f) = q[D]
  BY <1>1, SquaresIsSum
<1>4. a[D] \in Nat /\ q[D] \in Nat
  BY <1>1, <1>2, <1>3, SumNat
<1>5. q[D] <= a[D] * a[D] /\ a[D] * a[D] <= Cardinality(D) * q[D]
  BY <1>2, <1>3, SquareOfSum
<1>6. ASSUME \A x \in D : f[x] = 0 PROVE a[D] = 0
  <2>1. {x \in D : f[x] # 0} = {}
    BY <1>6
  <2>2. a[D] = a[{x \in D : f[x] # 0}]
    BY <1>2, ZerosAddNothing
  <2> QED BY <1>2, <2>1, <2>2 DEF IsSum
<1>7. ASSUME a[D] = 0, NEW x \in D PROVE f[x] = 0
  <2>1. a[D] = f[x] + a[D \ {x}]
    BY <1>2, AnyFirst
  <2>2. a[D \ {x}] \in Nat /\ f[x] \in Nat
    BY <1>2, SumNat
  <2> QED BY <1>7, <2>1, <2>2
<1>8. Cardinality(D) \in Nat
  BY FS_CardinalityType
<1> QED BY <1>2, <1>3, <1>4, <1>5, <1>6, <1>7, <1>8

(***************************************************************************)
(* Stations that have moved nothing change neither sum.                    *)
(***************************************************************************)
LEMMA WithoutZeros ==
    ASSUME NEW D, IsFiniteSet(D), NEW f \in [D -> Nat],
           NEW C, C = {x \in D : f[x] > 0}, NEW h, h = [x \in C |-> f[x]]
    PROVE  /\ Total(h) = Total(f) /\ Squares(h) = Squares(f)
           /\ IsFiniteSet(C) /\ Cardinality(C) <= Cardinality(D)
<1>1. /\ DOMAIN f = D /\ Squared(f) \in [D -> Nat]
      /\ DOMAIN h = C /\ C \in SUBSET D
      /\ C = {x \in D : f[x] # 0} /\ C = {x \in D : Squared(f)[x] # 0}
      /\ \A x \in C : h[x] = f[x] /\ Squared(h)[x] = Squared(f)[x]
  BY DEF Squared
<1>2. IsFiniteSet(C) /\ Cardinality(C) <= Cardinality(D)
  BY <1>1, FS_Subset
<1>3. Total(h) = Total(f)
  <2>1. PICK a : IsSum(a, f, D) /\ Total(f) = a[D]
    BY <1>1, TotalIsSum
  <2>2. PICK b : IsSum(b, h, C) /\ Total(h) = b[C]
    BY <1>1, <1>2, TotalIsSum
  <2>3. a[D] = a[C]
    BY <1>1, <2>1, ZerosAddNothing
  <2>4. b[C] = a[C]
    BY <1>1, <2>1, <2>2, SumLocal
  <2> QED BY <2>1, <2>2, <2>3, <2>4
<1>4. Squares(h) = Squares(f)
  <2>1. PICK a : IsSum(a, Squared(f), D) /\ Squares(f) = a[D]
    BY <1>1, SquaresIsSum
  <2>2. PICK b : IsSum(b, Squared(h), C) /\ Squares(h) = b[C]
    BY <1>1, <1>2, SquaresIsSum
  <2>3. a[D] = a[C]
    BY <1>1, <2>1, ZerosAddNothing
  <2>4. b[C] = a[C]
    BY <1>1, <2>1, <2>2, SumLocal
  <2> QED BY <2>1, <2>2, <2>3, <2>4
<1> QED BY <1>2, <1>3, <1>4

-----------------------------------------------------------------------------

ReportSpec == ReportInit /\ [][ReportNext]_reportVars

OfPositive == JainsIndex(Restricted(outcome, Positive))

(***************************************************************************)
(* What the results held by the orchestrator have become: nothing before   *)
(* they are there, then each place has computed its index from them, the   *)
(* report by way of what was stored.                                       *)
(***************************************************************************)
Computed ==
    /\ outcome = <<>> => ~wrote /\ cli = None /\ page = None
    /\ cli # None => cli.index = OfPositive
    /\ page # None => page.index = OfPositive
    /\ ~wrote => report = None /\ stored = <<>>
    /\ stored # <<>> => stored = Restricted(outcome, Complete)
    /\ Reported => report.index = JainsIndex(stored)

LEMMA NothingComputed == ReportInit => Computed
  BY DEF ReportInit, Computed, Reported, None

LEMMA ComputedStep == ASSUME Computed, [ReportNext]_reportVars PROVE Computed'
<1> USE DEF Computed, Reported, None, OfPositive, Positive, Complete
<1>1. CASE Collect
  BY <1>1 DEF Collect
<1>2. CASE WriteRun
  BY <1>2 DEF WriteRun
<1>3. CASE GenerateReport
  BY <1>3 DEF GenerateReport
<1>4. CASE CliPrints
  BY <1>4 DEF CliPrints
<1>5. CASE PageRenders
  BY <1>5 DEF PageRenders
<1>6. CASE UNCHANGED reportVars
  BY <1>6 DEF reportVars
<1> QED BY <1>1, <1>2, <1>3, <1>4, <1>5, <1>6 DEF ReportNext

(***************************************************************************)
(* What was said has the grade of its index, of results as the             *)
(* orchestrator collects them; a report is made only of means that do not  *)
(* all vanish, or of none.                                                 *)
(***************************************************************************)
Results == [Stas -> [status : {"complete", "error"}, mean : Means]]

Graded ==
    /\ outcome = <<>> \/ outcome \in Results
    /\ page # None => page.grade = PageGrade(page.index)
    /\ Reported => /\ report.grade = FairnessGrade(report.index)
                   /\ DOMAIN stored # {} => Total(stored) # 0

LEMMA NothingGraded == ReportInit => Graded
  BY DEF ReportInit, Graded, Reported, None

LEMMA GradedStep == ASSUME Computed, Graded, [ReportNext]_reportVars PROVE Graded'
<1> USE DEF Graded, Results, Reported, None
<1>1. CASE Collect
  BY <1>1 DEF Collect
<1>2. CASE WriteRun
  BY <1>2 DEF WriteRun, Computed
<1>3. CASE GenerateReport
  BY <1>3 DEF GenerateReport
<1>4. CASE CliPrints
  BY <1>4 DEF CliPrints
<1>5. CASE PageRenders
  BY <1>5 DEF PageRenders
<1>6. CASE UNCHANGED reportVars
  BY <1>6 DEF reportVars
<1> QED BY <1>1, <1>2, <1>3, <1>4, <1>5, <1>6 DEF ReportNext

\* Grades an index may have that is no worse than that of g.
NoWorse(g) == {"Excellent"} \cup IF g = "Excellent" THEN {} ELSE
              {"Good"} \cup IF g = "Good" THEN {} ELSE
              {"Fair"} \cup IF g = "Fair" THEN {} ELSE {"Poor"}

LEMMA Lenient ==
    ASSUME NEW t \in Nat, NEW d \in Nat, NEW e \in Nat, e <= d
    PROVE  PageGrade(<<t, e>>) \in NoWorse(FairnessGrade(<<t, d>>))
  BY DEF PageGrade, FairnessGrade, Grade, AtLeast, NoWorse

LEMMA IndexNat ==
    ASSUME NEW D, IsFiniteSet(D), NEW f \in [D -> Nat]
    PROVE  JainsIndex(f)[1] \in Nat /\ JainsIndex(f)[2] \in Nat
<1>1. Total(f) \in Nat /\ Squares(f) \in Nat /\ Cardinality(D) \in Nat /\ DOMAIN f = D
  BY IndexRange
<1> QED BY <1>1 DEF JainsIndex, Square

LEMMA InRange ==
    ASSUME Computed, Graded, Reported, DOMAIN stored # {}
    PROVE  /\ Leq(<<1, Cardinality(DOMAIN stored)>>, report.index)
           /\ Leq(report.index, <<1, 1>>)
           /\ cli # None => Leq(report.index, cli.index)
           /\ page # None => /\ Leq(report.index, page.index)
                             /\ page.grade \in NoWorse(report.grade)
<1> DEFINE t == Total(stored)
           q == Squares(stored)
           n == Cardinality(Complete)
           m == Cardinality(Positive)
           said == Restricted(outcome, Positive)
<1>1. stored = Restricted(outcome, Complete) /\ outcome \in Results
  <2>1. stored = Restricted(outcome, Complete)
    BY DEF Computed
  <2>2. outcome # <<>>
    BY <2>1 DEF Restricted, Complete
  <2> QED BY <2>1, <2>2 DEF Graded
<1>2. /\ IsFiniteSet(Complete) /\ DOMAIN stored = Complete /\ stored \in [Complete -> Nat]
      /\ Positive = {x \in Complete : stored[x] > 0}
      /\ said = [x \in Positive |-> stored[x]]
  <2>1. Complete \subseteq Stas /\ IsFiniteSet(Complete)
    BY <1>1, ReporterAssumption, FS_Subset DEF Complete, Results
  <2>2. \A x \in Complete : stored[x] = outcome[x].mean /\ outcome[x].mean \in Nat
    BY <1>1, <2>1, ReporterAssumption DEF Restricted, Results
  <2>3. DOMAIN stored = Complete /\ stored = [x \in Complete |-> stored[x]]
    BY <1>1 DEF Restricted
  <2>4. Positive = {x \in Complete : stored[x] > 0}
    BY <2>2 DEF Positive
  <2>5. said = [x \in Positive |-> stored[x]]
    BY <2>2, <2>4 DEF Restricted
  <2> QED BY <2>1, <2>2, <2>3, <2>4, <2>5
<1>3. /\ t \in Nat /\ q \in Nat /\ n \in Nat /\ q <= t * t /\ t * t <= n * q
      /\ t # 0
  BY <1>2, IndexRange DEF Graded
<1>4. Total(said) = t /\ Squares(said) = q /\ m \in Nat /\ m <= n
  <2>1. IsFiniteSet(Positive) /\ m <= n /\ Total(said) = t /\ Squares(said) = q
    BY <1>2, WithoutZeros
  <2> QED BY <2>1, FS_CardinalityType
<1>5. report.index = <<t * t, n * q>>
  <2>1. ~ \A x \in DOMAIN stored : stored[x] = 0
    BY <1>2, <1>3, IndexRange
  <2> QED BY <1>2, <2>1 DEF Computed, JainsIndex, Square
<1>6. /\ page # None => page.index = <<t * t, m * q>>
      /\ cli # None => cli.index = <<t * t, m * q>>
  <2>1. ~ \A x \in DOMAIN said : said[x] = 0
    <3>1. DOMAIN said = Positive /\ said \in [Positive -> Nat] /\ IsFiniteSet(Positive)
      BY <1>2, FS_Subset
    <3> HIDE DEF said, t
    <3> QED BY <1>3, <1>4, <3>1, IndexRange
  <2>2. JainsIndex(said) = <<t * t, m * q>>
    <3>1. DOMAIN said = Positive
      BY <1>2
    <3> HIDE DEF said
    <3> QED BY <1>4, <2>1, <3>1 DEF JainsIndex, Square
  <2> QED BY <2>2 DEF Computed, OfPositive
<1> HIDE DEF t, q, n, m, said
<1> DEFINE u == t * t
           d == n * q
           e == m * q
<1>7. u \in Nat /\ d \in Nat /\ e \in Nat /\ e <= d /\ q <= u /\ u <= d
  <2>1. /\ u \in Nat /\ d \in Nat /\ e \in Nat
    BY <1>3, <1>4
  <2>2. (n - m) * q >= 0 /\ (n - m) * q = d - e
    <3> DEFINE k == n - m
    <3>1. k \in Nat
      BY <1>3, <1>4
    <3>2. k * q >= 0
      <4> HIDE DEF k
      <4> QED BY <1>3, <3>1
    <3>3. k * q = d - e
      BY <1>3, <1>4
    <3> QED BY <3>2, <3>3
  <2>3. e <= d
    <3> HIDE DEF d, e
    <3> QED BY <2>1, <2>2
  <2> QED BY <1>3, <2>1, <2>3
<1>8. Cardinality(DOMAIN stored) = n /\ report.index = <<u, d>>
  BY <1>2, <1>5 DEF n
<1>9. Leq(<<1, n>>, report.index)
  <2>1. u * n - n * q = n * (u - q) /\ n * (u - q) >= 0
    <3> DEFINE k == u - q
    <3>1. k \in Nat
      <4> HIDE DEF u
      <4> QED BY <1>3, <1>7
    <3>2. n * k >= 0
      <4> HIDE DEF k
      <4> QED BY <1>3, <3>1
    <3>3. u * n - n * q = n * k
      <4> HIDE DEF u
      <4> QED BY <1>3, <1>7
    <3> QED BY <3>2, <3>3
  <2>2. u * n \in Int /\ d \in Int
    BY <1>3, <1>7
  <2>3. 1 * d <= u * n
    BY <2>1, <2>2
  <2> QED BY <1>8, <2>3 DEF Leq
<1> HIDE DEF u, d, e
<1>10. Leq(report.index, <<1, 1>>)
  BY <1>7, <1>8 DEF Leq
<1>11. Leq(<<u, d>>, <<u, e>>)
  <2>1. u * e <= u * d
    <3> DEFINE k == d - e
    <3>1. k \in Nat
      BY <1>7
    <3>2. u * k >= 0
      <4> HIDE DEF k
      <4> QED BY <1>7, <3>1
    <3>3. u * k = u * d - u * e
      BY <1>7
    <3>4. u * d \in Int /\ u * e \in Int
      BY <1>7
    <3> QED BY <3>2, <3>3, <3>4
  <2> QED BY <2>1 DEF Leq
<1>12. cli # None => Leq(report.index, cli.index)
  BY <1>6, <1>8, <1>11 DEF u, e
<1>13. ASSUME page # None
       PROVE  Leq(report.index, page.index) /\ page.grade \in NoWorse(report.grade)
  <2>1. page.index = <<u, e>> /\ page.grade = PageGrade(<<u, e>>)
    BY <1>6, <1>13 DEF Graded, u, e
  <2>2. report.grade = FairnessGrade(<<u, d>>)
    BY <1>8 DEF Graded
  <2> QED BY <1>7, <1>8, <1>11, <2>1, <2>2, Lenient
<1> QED BY <1>8, <1>9, <1>10, <1>12, <1>13

(* Jain's index, as the report computes it, lies between 1/n and 1 of its  *)
(* n stations, and command line and page, which leave out the stations     *)
(* that have moved nothing, say no less, nor does the page grade worse:    *)
(* for every finite set of stations and every mean (jains_fairness_index,  *)
(* generate_report, main of cli.py, renderFinalResults).                   *)
THEOREM IndexIsBounded == ReportSpec => []IndexBounded
<1>1. Computed /\ Graded => IndexBounded
  <2> SUFFICES ASSUME Computed, Graded, Reported PROVE IndexBounded
    BY DEF IndexBounded
  <2>1. CASE DOMAIN stored # {}
    BY <2>1, InRange DEF IndexBounded, NoWorse
  <2>2. CASE DOMAIN stored = {}
    <3>1. report.index = <<0, 1>> /\ report.grade = "Poor"
      BY <2>2 DEF Computed, Graded, JainsIndex, FairnessGrade, Grade, AtLeast
    <3>2. ASSUME outcome \in Results
          PROVE  OfPositive[1] \in Nat /\ OfPositive[2] \in Nat
      <4>1. Positive \subseteq Stas /\ \A x \in Positive : outcome[x].mean \in Nat
        BY <3>2, ReporterAssumption DEF Positive, Complete, Results
      <4>2. IsFiniteSet(Positive) /\ Restricted(outcome, Positive) \in [Positive -> Nat]
        BY <4>1, ReporterAssumption, FS_Subset DEF Restricted
      <4> QED BY <4>2, IndexNat DEF OfPositive
    <3>3. cli # None => Leq(report.index, cli.index)
      <4>1. cli # None => cli.index = OfPositive /\ outcome \in Results
        BY DEF Computed, Graded
      <4> QED BY <3>1, <3>2, <4>1 DEF Leq
    <3>4. ASSUME page # None
          PROVE  Leq(report.index, page.index) /\ page.grade \in NoWorse("Poor")
      <4>1. page.grade \in {"Excellent", "Good", "Fair", "Poor"}
        BY <3>4 DEF Graded, PageGrade, Grade
      <4>2. page.index = OfPositive /\ outcome \in Results
        BY <3>4 DEF Computed, Graded
      <4> QED BY <3>1, <3>2, <4>1, <4>2 DEF Leq, NoWorse
    <3> QED BY <2>2, <3>1, <3>3, <3>4 DEF IndexBounded, NoWorse
  <2> QED BY <2>1, <2>2
<1>2. ReportInit => Computed /\ Graded
  BY NothingComputed, NothingGraded
<1>3. Computed /\ Graded /\ [ReportNext]_reportVars => (Computed /\ Graded)'
  BY ComputedStep, GradedStep
<1> QED BY <1>1, <1>2, <1>3, PTL DEF ReportSpec

-----------------------------------------------------------------------------

(***************************************************************************)
(* A finite set's numbers are bounded and have a largest one.              *)
(***************************************************************************)
LEMMA Bounded ==
    ASSUME NEW D, IsFiniteSet(D), NEW F \in [D -> Nat]
    PROVE  \E b \in Nat : \A x \in D : F[x] <= b
<1> DEFINE G == {s \in SUBSET D : \E b \in Nat : \A x \in s : F[x] <= b}
<1>1. ASSUME NEW s \in SUBSET D, \A x \in s : s \ {x} \in G PROVE s \in G
  <2>1. CASE s = {}
    BY <2>1
  <2>2. CASE s # {}
    <3>1. PICK y \in s : TRUE
      BY <2>2
    <3>2. PICK b \in Nat : \A x \in s \ {y} : F[x] <= b
      BY <1>1, <3>1
    <3>3. \A x \in s : F[x] <= b + F[y]
      BY <3>2
    <3>4. b + F[y] \in Nat
      OBVIOUS
    <3> QED BY <3>3, <3>4
  <2> QED BY <2>1, <2>2
<1>2. SUBSET D \subseteq G
  <2> HIDE DEF G
  <2> QED BY <1>1, SubsetsBySteps
<1> QED BY <1>2

LEMMA LargestExists ==
    ASSUME NEW D, IsFiniteSet(D), D \subseteq Nat
    PROVE  \A s \in SUBSET D : s # {} => \E x \in s : \A y \in s : x >= y
<1> DEFINE G == {s \in SUBSET D : s # {} => \E x \in s : \A y \in s : x >= y}
<1>1. ASSUME NEW s \in SUBSET D, \A x \in s : s \ {x} \in G PROVE s \in G
  <2> SUFFICES ASSUME s # {} PROVE \E x \in s : \A y \in s : x >= y
    OBVIOUS
  <2>1. PICK z \in s : TRUE
    OBVIOUS
  <2>2. CASE s \ {z} = {}
    BY <2>1, <2>2
  <2>3. CASE s \ {z} # {}
    <3>1. PICK x \in s \ {z} : \A y \in s \ {z} : x >= y
      BY <1>1, <2>3
    <3>2. CASE x >= z
      BY <3>1, <3>2
    <3>3. CASE z > x
      BY <3>1, <3>3
    <3> QED BY <3>1, <3>2, <3>3
  <2> QED BY <2>2, <2>3
<1>2. SUBSET D \subseteq G
  <2> HIDE DEF G
  <2> QED BY <1>1, SubsetsBySteps
<1> QED BY <1>2

LEMMA LargestIn ==
    ASSUME NEW n \in Nat, NEW s \in SUBSET (1..n), s # {}
    PROVE  Max(s) \in s
<1>1. IsFiniteSet(1..n) /\ 1..n \subseteq Nat
  BY FS_Interval
<1>2. \E x \in s : \A y \in s : x >= y
  BY <1>1, LargestExists
<1> QED BY <1>2 DEF Max

\* The order of the summands is of no importance.
LEMMA OtherWayRound ==
    ASSUME NEW D, IsFiniteSet(D), NEW F \in [D -> Nat], NEW h, h[{}] = 0,
           \A s \in SUBSET D : s # {} => \E x \in s : h[s] = h[s \ {x}] + F[x]
    PROVE  IsSum(h, F, D)
<1> DEFINE G == {s \in SUBSET D : h[s] \in Nat}
<1>1. ASSUME NEW s \in SUBSET D, \A x \in s : s \ {x} \in G PROVE s \in G
  <2>1. CASE s = {}
    BY <2>1
  <2>2. CASE s # {}
    <3>1. PICK x \in s : h[s] = h[s \ {x}] + F[x]
      BY <2>2
    <3>2. h[s \ {x}] \in Nat /\ F[x] \in Nat
      BY <1>1, <3>1
    <3> QED BY <3>1, <3>2
  <2> QED BY <2>1, <2>2
<1>2. SUBSET D \subseteq G
  <2> HIDE DEF G
  <2> QED BY <1>1, SubsetsBySteps
<1>3. ASSUME NEW s \in SUBSET D, s # {} PROVE \E x \in s : h[s] = F[x] + h[s \ {x}]
  <2>1. PICK x \in s : h[s] = h[s \ {x}] + F[x]
    BY <1>3
  <2>2. h[s \ {x}] \in Nat /\ F[x] \in Nat
    BY <1>2, <2>1
  <2>3. h[s] = F[x] + h[s \ {x}]
    BY <2>1, <2>2
  <2> QED BY <2>3
<1> QED BY <1>3 DEF IsSum

(***************************************************************************)
(* SumOf folds from the last element on; one element more adds itself.     *)
(***************************************************************************)
LEMMA SumOfIsSum ==
    ASSUME NEW n \in Nat, NEW f \in [1..n -> Nat]
    PROVE  \E g : IsSum(g, f, 1..n) /\ SumOf(f) = g[1..n]
<1> DEFINE D == 1..n
           pick == [s \in SUBSET D |-> Max(s)]
           Step(i, s) == IF s = {} THEN 0 ELSE i[s \ {Max(s)}] + f[Max(s)]
           fold == CHOOSE i : i = [s \in SUBSET D |-> Step(i, s)]
<1>0. DOMAIN f = D /\ IsFiniteSet(D)
  BY FS_Interval
<1>1. SumOf(f) = fold[D]
  BY <1>0 DEF SumOf, FoldLeft, MapThenFoldSet
<1>2. Picks(pick, D)
  BY LargestIn DEF Picks
<1>3. PICK g : IsFold(g, f, D, pick)
  <2> HIDE DEF pick
  <2> QED BY <1>0, <1>2, FoldExists
<1>4. \A s \in SUBSET D : g[s] \in Nat
  <2> HIDE DEF pick
  <2>1. IsSum(g, f, D)
    BY <1>2, <1>3, FoldIsSum
  <2> QED BY <1>0, <2>1, SumNat
<1>5. \A s \in SUBSET D : s # {} => pick[s] = Max(s) /\ f[Max(s)] \in Nat /\ s \ {Max(s)} \in SUBSET D
  BY <1>2 DEF Picks
<1>6. g = [s \in SUBSET D |-> Step(g, s)]
  <2>1. ASSUME NEW s \in SUBSET D
        PROVE  Step(g, s) = IF s = {} THEN 0 ELSE f[pick[s]] + g[s \ {pick[s]}]
    <3> HIDE DEF pick
    <3>1. CASE s = {}
      BY <3>1
    <3>2. CASE s # {}
      <4>1. pick[s] = Max(s) /\ f[Max(s)] \in Nat /\ g[s \ {Max(s)}] \in Nat
        BY <1>4, <1>5, <3>2
      <4> QED BY <3>2, <4>1
    <3> QED BY <3>1, <3>2
  <2> HIDE DEF Step, pick
  <2> QED BY <1>3, <2>1 DEF IsFold
<1>7. fold = [s \in SUBSET D |-> Step(fold, s)]
  <2> HIDE DEF Step
  <2> QED BY <1>6
<1>8. \A s \in SUBSET D : fold[s] = Step(fold, s)
  <2> HIDE DEF Step, fold
  <2> QED BY <1>7
<1>9. IsSum(fold, f, D)
  <2> HIDE DEF fold
  <2>1. fold[{}] = 0
    BY <1>8
  <2>2. ASSUME NEW s \in SUBSET D, s # {}
        PROVE  \E x \in s : fold[s] = fold[s \ {x}] + f[x]
    BY <1>8, <2>2, LargestIn
  <2> HIDE DEF D
  <2> QED BY <1>0, <2>1, <2>2, OtherWayRound
<1> QED BY <1>1, <1>9

LEMMA SumOfLonger ==
    ASSUME NEW n \in Nat, NEW f \in [1..n -> Nat], NEW e \in [1..n + 1 -> Nat],
           \A i \in 1..n : e[i] = f[i]
    PROVE  SumOf(f) \in Nat /\ SumOf(e) = SumOf(f) + e[n + 1]
<1>1. PICK g : IsSum(g, f, 1..n) /\ SumOf(f) = g[1..n]
  BY SumOfIsSum
<1>2. PICK h : IsSum(h, e, 1..n + 1) /\ SumOf(e) = h[1..n + 1]
  BY SumOfIsSum
<1>3. IsFiniteSet(1..n) /\ IsFiniteSet(1..n + 1)
  BY FS_Interval
<1>4. h[1..n + 1] = e[n + 1] + h[1..n]
  <2>1. (1..n + 1) \ {n + 1} = 1..n /\ n + 1 \in 1..n + 1
    OBVIOUS
  <2>2. h[1..n + 1] = e[n + 1] + h[(1..n + 1) \ {n + 1}]
    <3> DEFINE D == 1..n + 1
    <3>1. D \in SUBSET D /\ n + 1 \in D /\ IsSum(h, e, D) /\ e \in [D -> Nat] /\ IsFiniteSet(D)
      BY <1>2, <1>3
    <3> HIDE DEF D
    <3>2. h[D] = e[n + 1] + h[D \ {n + 1}]
      BY <3>1, AnyFirst
    <3> QED BY <3>2 DEF D
  <2> QED BY <2>1, <2>2
<1>5. g[1..n] = h[1..n]
  <2>1. 1..n \in SUBSET (1..n + 1) /\ \A i \in 1..n : f[i] = e[i]
    OBVIOUS
  <2> QED BY <1>1, <1>2, <1>3, <2>1, SumLocal
<1>6. g[1..n] \in Nat
  BY <1>1, <1>3, SumNat
<1> QED BY <1>1, <1>2, <1>4, <1>5, <1>6

LEMMA SumOfNone == ASSUME NEW f \in [1..0 -> Nat] PROVE SumOf(f) = 0
<1>1. 1..0 = {}
  OBVIOUS
<1> QED BY <1>1, SumOfIsSum DEF IsSum

-----------------------------------------------------------------------------

IperfSpec == IperfInit /\ [][IperfNext]_iperfVars

Lines == [dir : {"TX", "RX"}, of : SUBSET (Nat \X Nat), rate : Nat, retr : Nat]

Half == IF reader.dir = "RX" THEN 1 ELSE 0

\* Started tests, and the lines that have been printed for their seconds.
Started == reader.pc \in {"reading", "summing", "exit", "over"}
AtEnd == reader.pc \in {"summing", "exit"}

Position ==
    /\ test.mode \in {"none", "client", "bidir", "server"}
    /\ reader = [pc |-> reader.pc, sec |-> reader.sec, dir |-> reader.dir,
                 stream |-> reader.stream]
    /\ reader.pc \in {"off", "reading", "summing", "exit", "over"}
    /\ reader.pc = "off" => test.mode = "none" /\ reader.sec = 0 /\ reader.dir = "TX"
                            /\ reader.stream = 1 /\ truth = <<>> /\ samples = <<>> /\ tx = <<>>
                            /\ result.status # "ok"
    /\ Started =>
        /\ test.duration \in Nat \ {0} /\ test.streams \in Nat \ {0}
        /\ reader.sec \in Nat /\ reader.stream \in 1..test.streams
        /\ reader.dir \in {"TX", "RX"} /\ (reader.dir = "RX" => test.mode = "bidir")
        /\ AtEnd => reader.sec >= test.duration /\ reader.dir = "TX"
    /\ truth \in Seq(Lines)

Counted ==
    Started =>
        /\ test.streams = 1 => Len(truth) = reader.sec * Directions + Half
        /\ reader.pc # "over" =>
            Len(truth) = (reader.sec * Directions + Half) * test.streams
                         + (IF reader.pc = "reading" THEN reader.stream - 1 ELSE 0)

\* The lines of one stream, all in Mbit/s, of a test of at least two seconds:
\* one sample a second, and a transmit line that waits for the other half.
Paired ==
    Started /\ Readable /\ test.duration > 1 /\ test.streams = 1 =>
        /\ samples \in Seq(Lines) /\ Len(samples) = reader.sec
        /\ \A i \in 1..Len(samples) : samples[i].of = {<<i - 1, 1>>}
        /\ reader.dir = "TX" => tx = <<>> /\ SumOf(RatesOf(samples)) = SumOf(RatesOf(truth))
                                /\ SumOf(RetrsOf(samples)) = SumOf(RetrsOf(truth))
        /\ reader.dir = "RX" =>
            \E line \in Lines :
                /\ tx = <<line>> /\ line.of = {<<reader.sec, 1>>}
                /\ SumOf(RatesOf(samples)) + line.rate = SumOf(RatesOf(truth))
                /\ SumOf(RetrsOf(samples)) + line.retr = SumOf(RetrsOf(truth))

Concluded ==
    result.status = "ok" =>
        /\ reader.pc = "over" /\ reader.dir = "TX" /\ samples # <<>> /\ result = ComputeStats(samples)
        /\ test.mode # "server" => InFull

IperfInv == Position /\ Counted /\ Paired /\ Concluded

LEMMA NothingPrinted == IperfInit => IperfInv
  BY DEF IperfInit, IperfInv, Position, Counted, Paired, Concluded, Started

\* A line more adds its figures to the sums.
LEMMA LineMore ==
    ASSUME NEW seq \in Seq(Lines), NEW line \in Lines
    PROVE  /\ SumOf(RatesOf(seq)) \in Nat /\ SumOf(RetrsOf(seq)) \in Nat
           /\ SumOf(RatesOf(Append(seq, line))) = SumOf(RatesOf(seq)) + line.rate
           /\ SumOf(RetrsOf(Append(seq, line))) = SumOf(RetrsOf(seq)) + line.retr
<1> DEFINE n == Len(seq)
           more == Append(seq, line)
<1>1. /\ n \in Nat /\ DOMAIN seq = 1..n /\ DOMAIN more = 1..n + 1
      /\ \A i \in 1..n : more[i] = seq[i] /\ seq[i] \in Lines
      /\ more[n + 1] = line
  BY AppendProperties, ElementOfSeq, LenProperties
<1> HIDE DEF n, more
<1>2. /\ RatesOf(seq) \in [1..n -> Nat] /\ RetrsOf(seq) \in [1..n -> Nat]
      /\ RatesOf(more) \in [1..n + 1 -> Nat] /\ RetrsOf(more) \in [1..n + 1 -> Nat]
      /\ \A i \in 1..n : RatesOf(more)[i] = RatesOf(seq)[i] /\ RetrsOf(more)[i] = RetrsOf(seq)[i]
      /\ RatesOf(more)[n + 1] = line.rate /\ RetrsOf(more)[n + 1] = line.retr
  <2>1. \A i \in 1..n + 1 : more[i] \in Lines
    BY <1>1
  <2> QED BY <1>1, <2>1 DEF RatesOf, RetrsOf, Lines
<1>3. /\ SumOf(RatesOf(seq)) \in Nat
      /\ SumOf(RatesOf(more)) = SumOf(RatesOf(seq)) + RatesOf(more)[n + 1]
  BY <1>1, <1>2, SumOfLonger
<1>4. /\ SumOf(RetrsOf(seq)) \in Nat
      /\ SumOf(RetrsOf(more)) = SumOf(RetrsOf(seq)) + RetrsOf(more)[n + 1]
  BY <1>1, <1>2, SumOfLonger
<1> QED BY <1>2, <1>3, <1>4 DEF more

LEMMA PopenOK ==
    ASSUME IperfInv, NEW mode \in {"client", "bidir", "server"}, NEW d \in Durations,
           NEW p \in Streams, Popen(mode, d, p)
    PROVE  IperfInv'
<1>1. /\ test'.mode = mode /\ test'.duration = d /\ test'.streams = p
      /\ reader'.pc \in {"reading", "over"} /\ reader'.sec = 0 /\ reader'.dir = "TX"
      /\ reader'.stream = 1
      /\ reader' = [pc |-> reader'.pc, sec |-> reader'.sec, dir |-> reader'.dir,
                    stream |-> reader'.stream]
      /\ truth' = <<>> /\ samples' = <<>> /\ tx' = <<>> /\ result'.status # "ok"
  <2>1. /\ reader = [pc |-> "off", sec |-> 0, dir |-> "TX", stream |-> 1]
        /\ truth = <<>> /\ samples = <<>> /\ tx = <<>> /\ result.status # "ok"
    BY DEF Popen, IperfInv, Position
  <2>2. /\ \/ reader' = [reader EXCEPT !.pc = "reading"]
           \/ reader' = [reader EXCEPT !.pc = "over"]
        /\ result' = result \/ result' = [status |-> "no iperf3"]
        /\ UNCHANGED <<tx, samples, truth>>
        /\ test' = [mode |-> mode, duration |-> d, streams |-> p]
    BY DEF Popen
  <2>3. \/ reader' = [pc |-> "reading", sec |-> 0, dir |-> "TX", stream |-> 1]
        \/ reader' = [pc |-> "over", sec |-> 0, dir |-> "TX", stream |-> 1]
    BY <2>1, <2>2
  <2>4. result'.status # "ok"
    <3>1. CASE result' = result
      BY <2>1, <3>1
    <3>2. CASE result' = [status |-> "no iperf3"]
      BY <3>2
    <3> QED BY <2>2, <3>1, <3>2
  <2>5. /\ reader'.pc \in {"reading", "over"} /\ reader'.sec = 0 /\ reader'.dir = "TX"
        /\ reader'.stream = 1
        /\ reader' = [pc |-> reader'.pc, sec |-> reader'.sec, dir |-> reader'.dir,
                      stream |-> reader'.stream]
    BY <2>3
  <2>6. test'.mode = mode /\ test'.duration = d /\ test'.streams = p
    BY <2>2
  <2> QED BY <2>1, <2>2, <2>4, <2>5, <2>6
<1>2. d \in Nat \ {0} /\ p \in Nat \ {0}
  BY IperfAssumption
<1>3. Position'
  BY <1>1, <1>2 DEF Position, Started, AtEnd
<1>4. Counted'
  BY <1>1, <1>2 DEF Counted, Started, Half, Directions
<1>5. Paired' /\ Concluded'
  BY <1>1 DEF Paired, Concluded, Started
<1> QED BY <1>3, <1>4, <1>5 DEF IperfInv

\* The line that Interval prints, and where that leaves the reader.
Line(rate, retr) ==
    [dir |-> reader.dir, of |-> {<<reader.sec, reader.stream>>}, rate |-> rate,
     retr |-> IF test.mode = "server" \/ reader.dir = "RX" THEN 0 ELSE retr]

LEMMA IntervalMoves ==
    ASSUME IperfInv, NEW rate \in Rates, NEW retr \in Retransmits, Interval(rate, retr)
    PROVE  /\ Line(rate, retr) \in Lines /\ Started /\ reader.pc = "reading"
           /\ UNCHANGED <<test, result>> /\ reader'.pc = "reading"
           /\ truth' = Append(truth, Line(rate, retr)) /\ Take(Line(rate, retr))
           /\ \/ /\ reader.stream < test.streams /\ reader'.stream = reader.stream + 1
                 /\ reader'.dir = reader.dir /\ reader'.sec = reader.sec
              \/ /\ reader.stream = test.streams /\ test.mode = "bidir" /\ reader.dir = "TX"
                 /\ reader'.stream = 1 /\ reader'.dir = "RX" /\ reader'.sec = reader.sec
              \/ /\ reader.stream = test.streams /\ (test.mode = "bidir" <=> reader.dir = "RX")
                 /\ reader'.stream = 1 /\ reader'.dir = "TX" /\ reader'.sec = reader.sec + 1
<1>1. Line(rate, retr) \in Lines
  BY IperfAssumption DEF Line, Lines, Interval, IperfInv, Position, Started
<1> QED BY <1>1 DEF Interval, Line, Advance, IperfInv, Position, Started

LEMMA IntervalPosition ==
    ASSUME IperfInv, NEW rate \in Rates, NEW retr \in Retransmits, Interval(rate, retr)
    PROVE  Position' /\ Counted' /\ Concluded'
<1>1. Position'
  <2>1. truth' \in Seq(Lines)
    BY IntervalMoves, AppendProperties DEF IperfInv, Position
  <2>2. reader' = [pc |-> reader'.pc, sec |-> reader'.sec, dir |-> reader'.dir,
                   stream |-> reader'.stream]
    BY DEF Interval, Advance, IperfInv, Position
  <2> QED BY <2>1, <2>2, IntervalMoves DEF IperfInv, Position, Started, AtEnd
<1>2. Len(truth') = (reader'.sec * Directions' + Half') * test'.streams + reader'.stream - 1
  <2> DEFINE p == test.streams
             n == reader.sec
  <2>1. n \in Nat /\ p \in Nat /\ test' = test /\ Started'
    BY IntervalMoves DEF IperfInv, Position, Started
  <2>2. Len(truth') = Len(truth) + 1
    BY IntervalMoves DEF IperfInv, Position
  <2>3. Len(truth) = (n * Directions + Half) * p + reader.stream - 1
    BY <2>1, IntervalMoves DEF IperfInv, Position, Counted, Started, Half, Directions
  <2>4. CASE /\ reader.stream < test.streams /\ reader'.stream = reader.stream + 1
             /\ reader'.dir = reader.dir /\ reader'.sec = reader.sec
    <3>1. Directions' = Directions /\ Half' = Half
      BY <2>1, <2>4 DEF Directions, Half
    <3>2. (n * Directions + Half) * p \in Int /\ reader.stream \in Nat
      BY <2>1, IntervalMoves DEF Directions, Half, IperfInv, Position
    <3>3. Len(truth') = (n * Directions + Half) * p + reader.stream
      BY <2>2, <2>3, <3>2
    <3> QED BY <2>1, <2>4, <3>1, <3>2, <3>3
  <2>5. CASE /\ reader.stream = test.streams /\ test.mode = "bidir" /\ reader.dir = "TX"
             /\ reader'.stream = 1 /\ reader'.dir = "RX" /\ reader'.sec = reader.sec
    <3>1. Directions = 2 /\ Half = 0 /\ Directions' = 2 /\ Half' = 1
      BY <2>1, <2>5 DEF Directions, Half
    <3>2. Len(truth') = (n * 2 + 1) * p
      BY <2>1, <2>2, <2>3, <2>5, <3>1
    <3> QED BY <2>1, <2>5, <3>1, <3>2
  <2>6. CASE /\ reader.stream = test.streams /\ (test.mode = "bidir" <=> reader.dir = "RX")
             /\ reader'.stream = 1 /\ reader'.dir = "TX" /\ reader'.sec = reader.sec + 1
    <3>1. Half' = 0 /\ Directions' = Directions /\ Half = Directions - 1 /\ Directions \in {1, 2}
      BY <2>1, <2>6 DEF Directions, Half
    <3>2. Len(truth') = ((n + 1) * Directions) * p
      <4>1. CASE Directions = 1
        <5>1. (n * 1 + 0) * p + p = ((n + 1) * 1) * p /\ (n * 1 + 0) * p \in Int
          BY <2>1
        <5>2. Len(truth) = (n * 1 + 0) * p + p - 1
          BY <2>3, <2>6, <3>1, <4>1
        <5>3. Len(truth') = (n * 1 + 0) * p + p
          BY <2>1, <2>2, <5>1, <5>2
        <5> QED BY <4>1, <5>1, <5>3
      <4>2. CASE Directions = 2
        <5>1. (n * 2 + 1) * p + p = ((n + 1) * 2) * p /\ (n * 2 + 1) * p \in Int
          BY <2>1
        <5>2. Len(truth) = (n * 2 + 1) * p + p - 1
          BY <2>3, <2>6, <3>1, <4>2
        <5>3. Len(truth') = (n * 2 + 1) * p + p
          BY <2>1, <2>2, <5>1, <5>2
        <5> QED BY <4>2, <5>1, <5>3
      <4> QED BY <3>1, <4>1, <4>2
    <3> QED BY <2>1, <2>6, <3>1, <3>2
  <2> QED BY <2>4, <2>5, <2>6, IntervalMoves
<1>3. Counted'
  <2>1. /\ reader'.sec \in Nat /\ Directions' \in {1, 2} /\ Half' \in {0, 1}
        /\ reader'.pc = "reading" /\ (test'.streams = 1 => reader'.stream = 1)
    BY <1>1, IntervalMoves DEF Position, Directions, Half, Started
  <2>2. reader'.sec * Directions' + Half' \in Int
    BY <2>1
  <2> QED BY <1>2, <2>1, <2>2 DEF Counted
<1>4. Concluded'
  BY IntervalMoves DEF IperfInv, Concluded
<1> QED BY <1>1, <1>3, <1>4

LEMMA Combined ==
    ASSUME NEW l \in Lines, NEW r, NEW o
    PROVE  [l EXCEPT !.rate = @ + r, !.of = @ \cup o] =
              [dir |-> l.dir, of |-> l.of \cup o, rate |-> l.rate + r, retr |-> l.retr]
<1> DEFINE x == l.rate + r
           y == l.of \cup o
<1>1. [l EXCEPT !.rate = @ + r, !.of = @ \cup o] = [l EXCEPT !.rate = x, !.of = y]
  OBVIOUS
<1> HIDE DEF x, y
<1>2. [l EXCEPT !.rate = x, !.of = y] = [dir |-> l.dir, of |-> y, rate |-> x, retr |-> l.retr]
  <2> DEFINE k == [l EXCEPT !.rate = x]
  <2>1. k = [dir |-> l.dir, of |-> l.of, rate |-> x, retr |-> l.retr]
    <3>1. l = [dir |-> l.dir, of |-> l.of, rate |-> l.rate, retr |-> l.retr]
      BY DEF Lines
    <3>2. DOMAIN l = {"dir", "of", "rate", "retr"}
      BY <3>1
    <3> QED BY <3>2
  <2>2. [l EXCEPT !.rate = x, !.of = y] = [k EXCEPT !.of = y]
    OBVIOUS
  <2> HIDE DEF k
  <2>3. [k EXCEPT !.of = y] = [dir |-> l.dir, of |-> y, rate |-> x, retr |-> l.retr]
    BY <2>1
  <2> QED BY <2>2, <2>3
<1> QED BY <1>1, <1>2 DEF x, y

LEMMA IntervalPaired ==
    ASSUME IperfInv, NEW rate \in Rates, NEW retr \in Retransmits, Interval(rate, retr)
    PROVE  Paired'
<1> SUFFICES ASSUME Readable', test.duration > 1, test.streams = 1 PROVE Paired'
  BY IntervalMoves DEF Paired
<1> DEFINE line == Line(rate, retr)
<1>1. /\ line \in Lines /\ line.dir = reader.dir /\ line.of = {<<reader.sec, 1>>}
      /\ line.rate = rate /\ (reader.dir = "RX" => line.retr = 0)
      /\ truth \in Seq(Lines) /\ truth' = Append(truth, line) /\ reader.sec \in Nat
      /\ Started /\ test' = test /\ Take(line)
      /\ reader.dir \in {"TX", "RX"} /\ (reader.dir = "RX" => test.mode = "bidir")
  BY IntervalMoves DEF Line, IperfInv, Position, Started
<1> HIDE DEF line
<1>2. Readable /\ InMbits(line.rate)
  <2>1. /\ Len(truth) \in Nat /\ DOMAIN truth = 1..Len(truth)
        /\ DOMAIN truth' = 1..Len(truth) + 1
        /\ \A i \in 1..Len(truth) : truth'[i] = truth[i]
        /\ truth'[Len(truth) + 1] = line
    BY <1>1, AppendProperties, LenProperties
  <2> QED BY <2>1 DEF Readable
<1>3. /\ SumOf(RatesOf(truth)) \in Nat /\ SumOf(RetrsOf(truth)) \in Nat
      /\ SumOf(RatesOf(truth')) = SumOf(RatesOf(truth)) + line.rate
      /\ SumOf(RetrsOf(truth')) = SumOf(RetrsOf(truth)) + line.retr
  BY <1>1, LineMore
<1>4. /\ samples \in Seq(Lines) /\ Len(samples) = reader.sec
      /\ \A i \in 1..Len(samples) : samples[i].of = {<<i - 1, 1>>}
      /\ reader.dir = "TX" => tx = <<>> /\ SumOf(RatesOf(samples)) = SumOf(RatesOf(truth))
                              /\ SumOf(RetrsOf(samples)) = SumOf(RetrsOf(truth))
      /\ reader.dir = "RX" =>
            \E l \in Lines :
                /\ tx = <<l>> /\ l.of = {<<reader.sec, 1>>}
                /\ SumOf(RatesOf(samples)) + l.rate = SumOf(RatesOf(truth))
                /\ SumOf(RetrsOf(samples)) + l.retr = SumOf(RetrsOf(truth))
  BY <1>1, <1>2 DEF IperfInv, Paired
<1>5. SumOf(RatesOf(samples)) \in Nat /\ SumOf(RetrsOf(samples)) \in Nat
  BY <1>1, <1>4, LineMore
<1>6. reader'.sec = IF test.mode = "bidir" /\ reader.dir = "TX" THEN reader.sec ELSE reader.sec + 1
  BY <1>1, IntervalMoves DEF IperfInv, Position, Started
<1>7. reader'.dir = IF test.mode = "bidir" /\ reader.dir = "TX" THEN "RX" ELSE "TX"
  BY <1>1, IntervalMoves DEF IperfInv, Position, Started
<1>8. line.rate \in Nat /\ line.retr \in Nat
  BY <1>1 DEF Lines
\* One more sample is there, of the second that ends.
<1>9. ASSUME NEW new \in Lines, samples' = Append(samples, new), new.of = {<<reader.sec, 1>>},
             tx' = <<>>, reader'.dir = "TX", reader'.sec = reader.sec + 1,
             SumOf(RatesOf(samples)) + new.rate = SumOf(RatesOf(truth')),
             SumOf(RetrsOf(samples)) + new.retr = SumOf(RetrsOf(truth'))
      PROVE  Paired'
  <2>1. /\ samples' \in Seq(Lines) /\ Len(samples') = Len(samples) + 1
        /\ \A i \in 1..Len(samples) : samples'[i] = samples[i]
        /\ samples'[Len(samples) + 1] = new
    BY <1>4, <1>9, AppendProperties
  <2>2. \A i \in 1..Len(samples') : samples'[i].of = {<<i - 1, 1>>}
    BY <1>1, <1>4, <1>9, <2>1
  <2>3. /\ SumOf(RatesOf(samples')) = SumOf(RatesOf(truth'))
        /\ SumOf(RetrsOf(samples')) = SumOf(RetrsOf(truth'))
    BY <1>4, <1>9, LineMore
  <2> QED BY <1>4, <1>9, <2>1, <2>2, <2>3 DEF Paired
<1>10. CASE test.mode # "bidir"
  <2>1. samples' = Append(samples, line) /\ tx' = tx /\ reader.dir = "TX"
    BY <1>1, <1>2, <1>10 DEF Take
  <2> QED BY <1>1, <1>3, <1>4, <1>6, <1>7, <1>9, <1>10, <2>1
<1>11. CASE test.mode = "bidir" /\ reader.dir = "TX"
  <2>1. samples' = samples /\ tx' = <<line>> /\ reader'.dir = "RX" /\ reader'.sec = reader.sec
    BY <1>1, <1>2, <1>6, <1>7, <1>11 DEF Take
  <2> QED BY <1>1, <1>3, <1>4, <1>11, <2>1 DEF Paired
<1>12. CASE test.mode = "bidir" /\ reader.dir = "RX"
  <2>1. PICK l \in Lines :
            /\ tx = <<l>> /\ l.of = {<<reader.sec, 1>>}
            /\ SumOf(RatesOf(samples)) + l.rate = SumOf(RatesOf(truth))
            /\ SumOf(RetrsOf(samples)) + l.retr = SumOf(RetrsOf(truth))
    BY <1>4, <1>12
  <2> DEFINE new == [l EXCEPT !.rate = @ + line.rate, !.of = @ \cup line.of]
  <2>2. samples' = Append(samples, new) /\ tx' = <<>>
    BY <1>1, <1>2, <1>12, <2>1 DEF Take
  <2>3. /\ new \in Lines /\ new.of = {<<reader.sec, 1>>}
        /\ new.rate = l.rate + line.rate /\ new.retr = l.retr
    <3>1. new = [dir |-> l.dir, of |-> l.of \cup line.of, rate |-> l.rate + line.rate,
                 retr |-> l.retr]
      BY Combined
    <3>2. /\ l.dir \in {"TX", "RX"} /\ l.of \cup line.of \in SUBSET (Nat \X Nat)
          /\ l.rate + line.rate \in Nat /\ l.retr \in Nat
      BY <1>1, <1>8, <2>1 DEF Lines
    <3> HIDE DEF new
    <3> QED BY <1>1, <2>1, <3>1, <3>2 DEF Lines
  <2>4. l.rate \in Nat /\ l.retr \in Nat /\ line.retr = 0
    BY <1>1, <1>12 DEF Lines
  <2> HIDE DEF new
  <2>5. /\ SumOf(RatesOf(samples)) + new.rate = SumOf(RatesOf(truth'))
        /\ SumOf(RetrsOf(samples)) + new.retr = SumOf(RetrsOf(truth'))
    BY <1>3, <1>5, <1>8, <2>1, <2>3, <2>4
  <2>6. reader'.dir = "TX" /\ reader'.sec = reader.sec + 1
    BY <1>6, <1>7, <1>12
  <2> QED BY <1>9, <2>2, <2>3, <2>5, <2>6
<1> QED BY <1>1, <1>10, <1>11, <1>12

LEMMA SummaryOK == ASSUME IperfInv, Summary PROVE IperfInv'
<1>1. /\ reader.pc \in {"reading", "summing"} /\ Started /\ Started'
      /\ reader.pc = "reading" => reader.stream = 1
      /\ reader.sec >= test.duration /\ reader.dir = "TX"
      /\ UNCHANGED <<test, result, truth>>
      /\ reader'.pc \in {"summing", "exit"} /\ reader'.sec = reader.sec /\ reader'.dir = "TX"
      /\ reader'.stream \in 1..test.streams
      /\ reader' = [pc |-> reader'.pc, sec |-> reader'.sec, dir |-> reader'.dir,
                    stream |-> reader'.stream]
  <2>1. /\ reader.pc \in {"reading", "summing"} /\ Started /\ UNCHANGED <<test, result, truth>>
        /\ reader.pc = "reading" => reader.stream = 1
        /\ reader.sec >= test.duration /\ reader.dir = "TX"
        /\ reader.stream \in 1..test.streams /\ test.streams \in Nat
    BY DEF Summary, NextSummary, IperfInv, Position, Started, AtEnd
  <2>2. reader = [pc |-> reader.pc, sec |-> reader.sec, dir |-> reader.dir,
                  stream |-> reader.stream]
    BY DEF IperfInv, Position
  <2>3. \/ reader.stream < test.streams /\ reader' = [reader EXCEPT !.pc = "summing", !.stream = @ + 1]
        \/ reader' = [reader EXCEPT !.pc = "exit"]
    BY DEF Summary, NextSummary
  <2>4. /\ reader'.pc \in {"summing", "exit"} /\ reader'.sec = reader.sec
        /\ reader'.dir = reader.dir /\ reader'.stream \in 1..test.streams
        /\ reader' = [pc |-> reader'.pc, sec |-> reader'.sec, dir |-> reader'.dir,
                      stream |-> reader'.stream]
    <3>1. CASE reader' = [reader EXCEPT !.pc = "exit"]
      <4>1. reader' = [pc |-> "exit", sec |-> reader.sec, dir |-> reader.dir,
                       stream |-> reader.stream]
        BY <2>2, <3>1
      <4> QED BY <2>1, <4>1
    <3>2. CASE reader.stream < test.streams
               /\ reader' = [reader EXCEPT !.pc = "summing", !.stream = @ + 1]
      <4>1. reader' = [pc |-> "summing", sec |-> reader.sec, dir |-> reader.dir,
                       stream |-> reader.stream + 1]
        BY <2>2, <3>2
      <4>2. reader.stream + 1 \in 1..test.streams
        BY <2>1, <3>2
      <4> QED BY <4>1, <4>2
    <3> QED BY <2>3, <3>1, <3>2
  <2> QED BY <2>1, <2>4 DEF Started
<1>2. Position' /\ Counted' /\ Concluded'
  <2>1. Position'
    BY <1>1 DEF IperfInv, Position, AtEnd
  <2>2. Counted'
    BY <1>1 DEF IperfInv, Counted, Half, Directions
  <2>3. Concluded'
    BY <1>1 DEF IperfInv, Concluded
  <2> QED BY <2>1, <2>2, <2>3
<1>3. Paired'
  <2>1. test.duration > 1 => UNCHANGED <<tx, samples>>
    BY DEF Summary
  <2> QED BY <1>1, <2>1 DEF IperfInv, Paired, Readable
<1> QED BY <1>2, <1>3 DEF IperfInv

LEMMA ExitOK == ASSUME IperfInv, Exit PROVE IperfInv'
<1>1. /\ UNCHANGED <<test, tx, samples, truth>> /\ Started /\ Started'
      /\ reader'.pc = "over" /\ reader'.sec = reader.sec /\ reader'.dir = reader.dir
      /\ reader'.stream = reader.stream
      /\ reader' = [pc |-> reader'.pc, sec |-> reader'.sec, dir |-> reader'.dir,
                    stream |-> reader'.stream]
  BY DEF Exit, IperfInv, Position, Started
<1>2. Position' /\ Counted'
  BY <1>1 DEF IperfInv, Position, Counted, Half, Directions, AtEnd
<1>3. Paired'
  BY <1>1 DEF IperfInv, Paired, Readable
<1>4. Concluded'
  <2> SUFFICES ASSUME result'.status = "ok"
               PROVE  /\ reader.dir = "TX"
                      /\ samples # <<>> /\ result' = ComputeStats(samples)
                      /\ test.mode # "server" => InFull
    BY <1>1 DEF Concluded, ComputeStats, InFull, Directions
  <2>1. /\ samples # <<>> /\ result' = ComputeStats(samples)
        /\ test.mode # "server" => reader.pc = "exit"
    <3>1. CASE reader.pc # "exit" /\ test.mode # "server"
      <4> DEFINE rc == IF reader.pc = "exit" THEN 0 ELSE 1
      <4>1. rc # 0
        BY <3>1
      <4>2. result' = IF rc # 0 /\ test.mode # "server" THEN [status |-> "exit code"]
                      ELSE IF samples = <<>> THEN [status |-> "no data"]
                      ELSE ComputeStats(samples)
        BY DEF Exit
      <4> HIDE DEF rc
      <4>3. result' = [status |-> "exit code"]
        BY <3>1, <4>1, <4>2
      <4> QED BY <4>3
    <3>2. CASE ~(reader.pc # "exit" /\ test.mode # "server")
      <4>1. result' = IF samples = <<>> THEN [status |-> "no data"] ELSE ComputeStats(samples)
        BY <3>2 DEF Exit
      <4>2. samples # <<>>
        BY <4>1
      <4> QED BY <3>2, <4>1, <4>2
    <3> QED BY <3>1, <3>2
  <2>2. ASSUME reader.pc = "exit" PROVE InFull /\ reader.dir = "TX"
    <3> DEFINE n == reader.sec
               d == test.duration
               p == test.streams
               k == n - d
    <3>1. /\ n \in Nat /\ d \in Nat /\ p \in Nat /\ n >= d /\ reader.dir = "TX" /\ Half = 0
          /\ Len(truth) = (n * Directions + Half) * p + 0 /\ k \in Nat
      BY <2>2 DEF IperfInv, Position, Counted, Started, AtEnd, Half
    <3>2. k * p >= 0 /\ k * p = n * p - d * p /\ n * p \in Int /\ d * p \in Int
      <4>1. k * p = n * p - d * p /\ n * p \in Int /\ d * p \in Int
        BY <3>1
      <4>2. k * p >= 0
        <5> HIDE DEF k
        <5> QED BY <3>1
      <4> QED BY <4>1, <4>2
    <3>3. n * p >= d * p
      <4> HIDE DEF k
      <4> QED BY <3>2
    <3>4. CASE test.mode = "bidir"
      <4>1. Directions = 2
        BY <3>4 DEF Directions
      <4>2. Len(truth) = (n * p) * 2
        BY <3>1, <4>1
      <4> QED BY <3>1, <3>2, <3>3, <4>1, <4>2 DEF InFull
    <3>5. CASE test.mode # "bidir"
      <4>1. Directions = 1
        BY <3>5 DEF Directions
      <4>2. Len(truth) = n * p
        BY <3>1, <4>1
      <4> QED BY <3>1, <3>2, <3>3, <4>1, <4>2 DEF InFull
    <3> QED BY <3>4, <3>5
  <2>3. test.mode = "server" => reader.dir = "TX"
    BY <1>1 DEF IperfInv, Position
  <2> QED BY <2>1, <2>2, <2>3
<1> QED BY <1>2, <1>3, <1>4 DEF IperfInv

LEMMA IperfStep == ASSUME IperfInv, [IperfNext]_iperfVars PROVE IperfInv'
<1>1. ASSUME NEW mode \in {"client", "bidir", "server"}, NEW d \in Durations, NEW p \in Streams,
             Popen(mode, d, p)
      PROVE  IperfInv'
  BY <1>1, PopenOK
<1>2. ASSUME NEW rate \in Rates, NEW retr \in Retransmits, Interval(rate, retr) PROVE IperfInv'
  BY <1>2, IntervalPosition, IntervalPaired DEF IperfInv
<1>3. CASE Summary
  BY <1>3, SummaryOK
<1>4. CASE Exit
  BY <1>4, ExitOK
<1>5. CASE UNCHANGED iperfVars
  BY <1>5 DEF iperfVars, IperfInv, Position, Counted, Paired, Concluded, Started, AtEnd, Half, Directions,
              Readable, InFull, ComputeStats
<1> QED BY <1>1, <1>2, <1>3, <1>4, <1>5 DEF IperfNext

(* Of a test of one stream and at least two seconds, the samples are the   *)
(* lines of its seconds and of the fraction after the last, the sums those *)
(* of these lines, and a client's result is never that of a test cut       *)
(* short: for every duration and every rate printed in Mbits, the lines in *)
(* the order in which iperf3 prints them (run, run_server, _compute_stats, *)
(* on_sample).                                                             *)
THEOREM FiguresAreFaithful == IperfSpec => []FiguresFaithful
<1>1. IperfInv => FiguresFaithful
  <2> SUFFICES ASSUME IperfInv, result.status = "ok" PROVE FiguresFaithful
    BY DEF FiguresFaithful
  <2>1. /\ reader.pc = "over" /\ reader.dir = "TX" /\ result = ComputeStats(samples) /\ Started
        /\ test.mode # "server" => InFull
    BY DEF IperfInv, Concluded, Started
  <2>2. ASSUME Readable, test.duration > 1, test.streams = 1
        PROVE  /\ Len(samples) * Directions = Len(truth)
               /\ \A i \in DOMAIN samples : samples[i].of = {<<i - 1, 1>>}
               /\ SumOf(RatesOf(samples)) = SumOf(RatesOf(truth))
               /\ SumOf(RetrsOf(samples)) = SumOf(RetrsOf(truth))
    <3>1. Len(truth) = reader.sec * Directions
      BY <2>1, <2>2 DEF IperfInv, Position, Counted, Half, Directions
    <3>2. /\ samples \in Seq(Lines) /\ Len(samples) = reader.sec
          /\ \A i \in 1..Len(samples) : samples[i].of = {<<i - 1, 1>>}
          /\ SumOf(RatesOf(samples)) = SumOf(RatesOf(truth))
          /\ SumOf(RetrsOf(samples)) = SumOf(RetrsOf(truth))
      BY <2>1, <2>2 DEF IperfInv, Paired
    <3>3. DOMAIN samples = 1..Len(samples)
      BY <3>2, LenProperties
    <3> QED BY <3>1, <3>2, <3>3
  <2>3. /\ result.sum = SumOf(RatesOf(samples))
        /\ result.retransmits = SumOf(RetrsOf(samples))
    BY <2>1 DEF ComputeStats
  <2> QED BY <2>1, <2>2, <2>3 DEF FiguresFaithful
<1> QED BY <1>1, NothingPrinted, IperfStep, PTL DEF IperfSpec

(***************************************************************************)
(* Numbers can be put in order: for every k up to their count there is one *)
(* of them with fewer than k below it and k up to it.                      *)
(***************************************************************************)
LEMMA KthExists ==
    ASSUME NEW n \in Nat, NEW r \in [1..n -> Nat], NEW k \in 1..n
    PROVE  /\ Sorted(r, k) \in Range(r)
           /\ Cardinality({i \in 1..n : r[i] < Sorted(r, k)}) < k
           /\ k <= Cardinality({i \in 1..n : r[i] <= Sorted(r, k)})
<1> DEFINE Upto(x) == {i \in 1..n : r[i] <= x}
           Below(x) == {i \in 1..n : r[i] < x}
           S == {x \in Nat : ~(k <= Cardinality(Upto(x)))}
<1>1. IsFiniteSet(1..n) /\ Cardinality(1..n) = n
  BY FS_Interval
<1>2. \A x \in Nat : /\ Cardinality(Upto(x)) \in Nat
                     /\ Cardinality(Below(x)) \in Nat
  <2> SUFFICES ASSUME NEW x \in Nat
               PROVE  Cardinality(Upto(x)) \in Nat /\ Cardinality(Below(x)) \in Nat
    OBVIOUS
  <2>1. IsFiniteSet(Upto(x)) /\ IsFiniteSet(Below(x))
    BY <1>1, FS_Subset
  <2> QED BY <2>1, FS_CardinalityType
<1>3. PICK w \in Nat : \A i \in 1..n : r[i] <= w
  BY <1>1, Bounded
<1>4. w \notin S
  <2>1. Upto(w) = 1..n
    BY <1>3
  <2>2. Cardinality(Upto(w)) = n
    BY <1>1, <2>1
  <2> HIDE DEF Upto
  <2> QED BY <2>2
<1>5. PICK v \in Nat : v \notin S /\ (v = 0 \/ v - 1 \in S)
  <2>1. CASE 0 \notin S
    BY <2>1
  <2>2. CASE 0 \in S
    <3>1. \E x \in Nat : x \in S /\ x + 1 \notin S
      <4> SUFFICES ASSUME \A x \in Nat : x \in S => x + 1 \in S PROVE FALSE
        OBVIOUS
      <4> HIDE DEF S
      <4> QED BY <1>3, <1>4, <2>2, NatBySteps
    <3>2. PICK x \in Nat : x \in S /\ x + 1 \notin S
      BY <3>1
    <3> HIDE DEF S
    <3> QED BY <3>2
  <2> QED BY <2>1, <2>2
<1>6. k <= Cardinality(Upto(v))
  BY <1>5
<1>7. Cardinality(Below(v)) < k
  <2>1. CASE v = 0
    <3>1. Below(v) = {}
      BY <2>1
    <3>2. Cardinality(Below(v)) = 0
      BY <3>1, FS_EmptySet
    <3> QED BY <3>2
  <2>2. CASE v # 0
    <3>1. Below(v) = Upto(v - 1)
      BY <2>2
    <3>2. v - 1 \in Nat /\ ~(k <= Cardinality(Upto(v - 1)))
      BY <1>5, <2>2
    <3>3. Cardinality(Upto(v - 1)) \in Nat
      BY <1>2, <3>2
    <3> HIDE DEF Upto, Below
    <3> QED BY <3>1, <3>2, <3>3
  <2> QED BY <2>1, <2>2
<1>8. v \in Range(r)
  <2> SUFFICES ASSUME v \notin Range(r) PROVE FALSE
    OBVIOUS
  <2>1. Upto(v) = Below(v)
    BY DEF Range
  <2>2. Cardinality(Upto(v)) \in Nat /\ Cardinality(Below(v)) \in Nat
    BY <1>2
  <2> HIDE DEF Upto, Below
  <2> QED BY <1>6, <1>7, <2>1, <2>2
<1>9. DOMAIN r = 1..n
  OBVIOUS
<1> QED BY <1>6, <1>7, <1>8, <1>9 DEF Sorted

LEMMA PercentileIndex ==
    ASSUME NEW n \in Nat, n > 0
    PROVE  /\ P95Index(n) + 1 \in 1..n
           /\ 20 * (n - (P95Index(n) + 1)) < n + 20
<1> DEFINE q == (n * 95) \div 100
<1>1. q \in Nat /\ 100 * q <= n * 95 /\ n * 95 < 100 * q + 100
  OBVIOUS
<1>2. P95Index(n) = IF q - 1 > 0 THEN q - 1 ELSE 0
  BY DEF P95Index
<1> HIDE DEF q
<1> QED BY <1>1, <1>2

\* Whatever is taken for a sample has a rate.
IsRecord(line) ==
    line = [dir |-> line.dir, of |-> line.of, rate |-> line.rate, retr |-> line.retr]

Rated ==
    /\ samples \in Seq(Range(samples))
    /\ \A i \in 1..Len(samples) : samples[i].rate \in Nat
    /\ tx # <<>> => tx = <<tx[1]>> /\ IsRecord(tx[1]) /\ tx[1].rate \in Nat

LEMMA OneMoreRated ==
    ASSUME NEW seq, NEW line, seq \in Seq(Range(seq)), line.rate \in Nat,
           \A i \in 1..Len(seq) : seq[i].rate \in Nat
    PROVE  /\ Append(seq, line) \in Seq(Range(Append(seq, line)))
           /\ \A i \in 1..Len(Append(seq, line)) : Append(seq, line)[i].rate \in Nat
<1> DEFINE S == Range(seq) \cup {line}
           more == Append(seq, line)
<1>1. seq \in Seq(S) /\ line \in S
  OBVIOUS
<1>2. /\ more \in Seq(S) /\ Len(more) = Len(seq) + 1
      /\ \A i \in 1..Len(seq) : more[i] = seq[i]
      /\ more[Len(seq) + 1] = line
  <2> HIDE DEF S
  <2> QED BY <1>1, AppendProperties
<1> HIDE DEF more, S
<1>3. Len(seq) \in Nat /\ DOMAIN more = 1..Len(more)
  BY <1>1, <1>2, LenProperties
<1>4. \A i \in 1..Len(more) : more[i].rate \in Nat
  BY <1>2, <1>3
<1>5. more \in Seq(Range(more))
  <2>1. more = [i \in 1..Len(more) |-> more[i]] /\ Len(more) \in Nat
    BY <1>2, <1>3
  <2>2. \A i \in 1..Len(more) : more[i] \in Range(more)
    BY <1>3 DEF Range
  <2> QED BY <2>1, <2>2, SeqDef
<1> QED BY <1>4, <1>5 DEF more

LEMMA MbitsAreNat == ASSUME NEW rate, InMbits(rate) PROVE rate \in Nat
BY DEF InMbits

LEMMA TakeOK ==
    ASSUME Rated, NEW line, IsRecord(line), Take(line)
    PROVE  Rated'
<1>1. CASE ~InMbits(line.rate)
  BY <1>1 DEF Take, Rated, IsRecord
<1>2. CASE InMbits(line.rate)
  <2>1. line.rate \in Nat
    BY <1>2, MbitsAreNat
  <2>2. CASE test.mode # "bidir"
    <3>1. samples' = Append(samples, line) /\ tx' = tx
      BY <1>2, <2>2 DEF Take
    <3> QED BY <2>1, <3>1, OneMoreRated DEF Rated, IsRecord
  <2>3. CASE test.mode = "bidir" /\ line.dir = "TX"
    <3>1. samples' = samples /\ tx' = <<line>>
      BY <1>2, <2>3 DEF Take
    <3>2. tx'[1] = line
      BY <3>1
    <3> QED BY <2>1, <3>1, <3>2 DEF Rated, IsRecord
  <2>4. CASE test.mode = "bidir" /\ line.dir # "TX"
    <3>1. /\ tx' = <<>>
          /\ samples' = IF tx = <<>> THEN samples
                        ELSE Append(samples, [tx[1] EXCEPT !.rate = @ + line.rate,
                                                           !.of = @ \cup line.of])
      BY <1>2, <2>4 DEF Take
    <3>2. CASE tx = <<>>
      BY <3>1, <3>2 DEF Rated
    <3>3. CASE tx # <<>>
      <4> DEFINE new == [tx[1] EXCEPT !.rate = @ + line.rate, !.of = @ \cup line.of]
      <4>1. new.rate = tx[1].rate + line.rate
        <5>1. "rate" \in DOMAIN tx[1]
          <6>1. DOMAIN [dir |-> tx[1].dir, of |-> tx[1].of, rate |-> tx[1].rate,
                        retr |-> tx[1].retr] = {"dir", "of", "rate", "retr"}
            OBVIOUS
          <6> QED BY <3>3, <6>1 DEF Rated, IsRecord
        <5> QED BY <5>1
      <4>2. new.rate \in Nat
        BY <2>1, <3>3, <4>1 DEF Rated
      <4>3. samples' = Append(samples, new)
        BY <3>1, <3>3
      <4> HIDE DEF new
      <4>4. /\ samples' \in Seq(Range(samples'))
            /\ \A i \in 1..Len(samples') : samples'[i].rate \in Nat
        BY <4>2, <4>3, OneMoreRated DEF Rated
      <4> QED BY <3>1, <4>4 DEF Rated
    <3> QED BY <3>2, <3>3
  <2> QED BY <2>2, <2>3, <2>4
<1> QED BY <1>1, <1>2

LEMMA RatedStep == ASSUME Rated, [IperfNext]_iperfVars PROVE Rated'
<1>1. CASE UNCHANGED <<tx, samples>>
  BY <1>1 DEF Rated, IsRecord
<1>2. ASSUME NEW rate, NEW retr, Interval(rate, retr) PROVE Rated'
  <2>1. IsRecord(Line(rate, retr)) /\ Take(Line(rate, retr))
    BY <1>2 DEF Interval, Line, IsRecord
  <2> QED BY <2>1, TakeOK
<1>3. CASE Summary
  <2>1. IsRecord(SummaryLine)
    BY DEF SummaryLine, IsRecord
  <2>2. Take(SummaryLine) \/ UNCHANGED <<tx, samples>>
    BY <1>3 DEF Summary
  <2> QED BY <1>1, <2>1, <2>2, TakeOK
<1> QED BY <1>1, <1>2, <1>3 DEF IperfNext, iperfVars, Popen, Exit

(* Of n samples fewer than one in twenty and one more lie above the 95th   *)
(* percentile, and it is one of the samples, whatever their number and     *)
(* whatever the rates (_compute_stats).                                    *)
THEOREM PercentileIsNear == IperfSpec => []PercentileNear
<1>1. IperfInv /\ Rated => PercentileNear
  <2> SUFFICES ASSUME IperfInv, Rated, result.status = "ok" PROVE PercentileNear
    BY DEF PercentileNear
  <2> DEFINE n == Len(samples)
             r == RatesOf(samples)
             k == P95Index(n) + 1
             v == Sorted(r, k)
             upto == {i \in 1..n : r[i] <= v}
             above == {i \in 1..n : r[i] > v}
  <2>1. n \in Nat /\ n > 0 /\ DOMAIN samples = 1..n
    <3>1. samples # <<>>
      BY DEF IperfInv, Concluded
    <3> QED BY <3>1, LenProperties, EmptySeq DEF Rated
  <2>2. result.p95 = v
    BY DEF IperfInv, Concluded, ComputeStats
  <2>3. /\ r \in [1..n -> Nat]
        /\ \A i \in 1..n : r[i] = samples[i].rate
    BY <2>1 DEF RatesOf, Rated
  <2> HIDE DEF r, n
  <2>4. k \in 1..n /\ 20 * (n - k) < n + 20
    BY <2>1, PercentileIndex
  <2> HIDE DEF k
  <2>5. v \in Range(r) /\ k <= Cardinality(upto)
    BY <2>1, <2>3, <2>4, KthExists
  <2>6. v \in Nat /\ \E i \in 1..n : r[i] = v
    BY <2>3, <2>5 DEF Range
  <2> HIDE DEF v
  <2>7. IsFiniteSet(1..n) /\ Cardinality(1..n) = n
    BY <2>1, FS_Interval
  <2>8. Cardinality(above) = n - Cardinality(upto) /\ Cardinality(upto) \in Nat
    <3>1. above = (1..n) \ upto /\ upto \subseteq 1..n
      BY <2>3, <2>6
    <3> HIDE DEF above, upto
    <3>2. (1..n) \cap upto = upto
      BY <3>1
    <3>3. IsFiniteSet(upto)
      BY <2>7, <3>1, FS_Subset
    <3>4. Cardinality((1..n) \ upto) = Cardinality(1..n) - Cardinality((1..n) \cap upto)
      <4> DEFINE D == 1..n
      <4> HIDE DEF D
      <4>1. IsFiniteSet(D) /\ IsFiniteSet(upto)
        BY <2>7, <3>3 DEF D
      <4>2. Cardinality(D \ upto) = Cardinality(D) - Cardinality(D \cap upto)
        BY <4>1, FS_Difference
      <4> QED BY <4>2 DEF D
    <3>5. Cardinality(upto) \in Nat
      BY <3>3, FS_CardinalityType
    <3> QED BY <2>7, <3>1, <3>2, <3>4, <3>5
  <2>9. {i \in DOMAIN samples : samples[i].rate > result.p95} = above
    BY <2>1, <2>2, <2>3
  <2>10. 20 * Cardinality(above) < n + 20
    <3> HIDE DEF above, upto
    <3> QED BY <2>1, <2>4, <2>5, <2>8
  <2>11. \E i \in DOMAIN samples : samples[i].rate = result.p95
    BY <2>1, <2>2, <2>3, <2>6
  <2> HIDE DEF above
  <2> QED BY <2>9, <2>10, <2>11 DEF PercentileNear, n
<1>2. IperfInit => IperfInv /\ Rated
  <2>1. ASSUME IperfInit PROVE Rated
    <3>1. samples = <<>> /\ tx = <<>>
      BY <2>1 DEF IperfInit
    <3>2. <<>> \in Seq(Range(<<>>)) /\ Len(<<>>) = 0
      OBVIOUS
    <3> QED BY <3>1, <3>2 DEF Rated
  <2> QED BY <2>1, NothingPrinted
<1>3. IperfInv /\ Rated /\ [IperfNext]_iperfVars => (IperfInv /\ Rated)'
  BY IperfStep, RatedStep
<1> QED BY <1>1, <1>2, <1>3, PTL DEF IperfSpec

=============================================================================
