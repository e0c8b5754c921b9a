------------------------------ MODULE CoreTheorems ------------------------------
(***************************************************************************)
(* What the proofs about the core library need of its building blocks, for *)
(* every finite input: induction over numbers and finite sets, folds over  *)
(* sets and sequences, sums, sorting, flattening.  The provers cannot      *)
(* instantiate a fact about an arbitrary operator, so a predicate is given *)
(* by a set, an operator by a function, and induction comes from the       *)
(* well-foundedness of the order.                                          *)
(***************************************************************************)
EXTENDS CoreTime, SequencesExt, FiniteSetTheorems, WellFoundedInduction, TLAPS

LEMMA LeastNumber ==
    ASSUME NEW T \in SUBSET Nat, T # {}
    PROVE  \E n \in T : \A m \in T : n <= m
<1> DEFINE R == OpToRel(<, Nat)
<1>1. IsWellFoundedOn(R, Nat)
      BY NatLessThanWellFounded
<1>2. \A m, n \in Nat : m < n => <<m, n>> \in R
      BY DEF OpToRel
<1> HIDE DEF R
<1>3. PICK n \in T : \A m \in T : ~(<<m, n>> \in R)
      BY <1>1, WFMin
<1>4. \A m \in T : m \in Nat /\ ~(m < n)
      BY <1>2, <1>3
<1> QED BY <1>4

LEMMA NumberInduction ==
    ASSUME NEW T, 0 \in T, \A n \in Nat : n \in T => n + 1 \in T
    PROVE  \A n \in Nat : n \in T
<1> SUFFICES ASSUME Nat \ T # {} PROVE FALSE
    OBVIOUS
<1>1. PICK n \in Nat \ T : \A m \in Nat \ T : n <= m
      BY LeastNumber
<1>2. n # 0 /\ n - 1 \in Nat
      BY <1>1
<1>3. n - 1 \in T
      BY <1>1, <1>2
<1> QED BY <1>1, <1>2, <1>3

LEMMA LeastSubset ==
    ASSUME NEW S, IsFiniteSet(S), NEW F \in SUBSET SUBSET S, F # {}
    PROVE  \E t \in F : \A u \in F : u \subseteq t => u = t
<1>1. IsWellFoundedOn(StrictSubsetOrdering(S), SUBSET S)
      BY FS_StrictSubsetOrderingWellFounded, FS_FiniteSubsetsOfFinite
<1>2. PICK t \in F : \A u \in F : ~(<<u, t>> \in StrictSubsetOrdering(S))
      BY <1>1, WFMin
<1> QED BY <1>2 DEF StrictSubsetOrdering

\* What holds of a subset as soon as it holds of the smaller ones holds of all.
LEMMA SubsetInduction ==
    ASSUME NEW S, IsFiniteSet(S), NEW F,
           \A t \in SUBSET S : (\A u \in SUBSET t : u # t => u \in F) => t \in F
    PROVE  \A t \in SUBSET S : t \in F
<1> DEFINE G == (SUBSET S) \ F
<1> SUFFICES ASSUME G # {} PROVE FALSE
    OBVIOUS
<1>0. G \in SUBSET SUBSET S
      OBVIOUS
<1> HIDE DEF G
<1>1. PICK t \in G : \A u \in G : u \subseteq t => u = t
      BY <1>0, LeastSubset
<1>2. t \in SUBSET S /\ t \notin F
      BY DEF G
<1>3. ASSUME NEW u \in SUBSET t, u # t PROVE u \in F
  <2>1. u \in SUBSET S
        BY <1>2
  <2>2. u \notin G
        BY <1>1, <1>3
  <2> QED BY <2>1, <2>2 DEF G
<1> QED BY <1>2, <1>3

-----------------------------------------------------------------------------
(* Minutes and instants.                                                        *)

LEMMA MinutesAdded ==
    ASSUME NEW t \in Int, NEW n \in Int
    PROVE  /\ AddMinutes(t, n) \in Int
           /\ AddMinutes(t, n) = t + AddMinutes(0, n)
           /\ AddMinutes(t, -n) = t - AddMinutes(0, n)
           /\ AddMinutes(0, n) \in Int
           /\ AddMinutes(0, 0) = 0
           /\ n \in Nat => AddMinutes(0, n) \in Nat
<1>0. Minute \in Nat /\ Minute > 0
      BY MinuteLasts
<1> DEFINE e == n * Minute
<1>1. e \in Int /\ (-n) * Minute = -e /\ 0 * Minute = 0
      BY <1>0
<1>2. n \in Nat => e >= 0
      BY <1>0
<1> HIDE DEF e
<1> QED BY <1>1, <1>2 DEF AddMinutes, e

\* A difference in whole minutes compares with n as the instants do with n minutes.
LEMMA MinutesCompared ==
    ASSUME NEW a \in Int, NEW b \in Int, NEW n \in Int
    PROVE  /\ DiffMinutes(a, b) \in Int
           /\ n <= DiffMinutes(a, b) <=> AddMinutes(b, n) <= a
           /\ DiffMinutes(a, b) < n <=> a < AddMinutes(b, n)
<1> DEFINE x == a - b
           q == x \div Minute
           r == x % Minute
<1>0. Minute \in Nat /\ Minute > 0
      BY MinuteLasts
<1>1. x = Minute * q + r /\ q \in Int /\ r \in Int /\ 0 <= r /\ r < Minute
      BY <1>0
<1>2. DiffMinutes(a, b) = q /\ x \in Int
      BY DEF DiffMinutes
<1> HIDE DEF q, r, x
<1>3. n <= q => n * Minute <= x
  <2>1. ASSUME n <= q PROVE n * Minute <= q * Minute
        BY <1>0, <1>1, <2>1
  <2>2. q * Minute <= x
        BY <1>0, <1>1
  <2>3. n * Minute \in Int /\ q * Minute \in Int
        BY <1>0, <1>1
  <2> QED BY <1>1, <1>2, <2>1, <2>2, <2>3
<1>4. q < n => x < n * Minute
  <2>1. ASSUME q < n PROVE (q + 1) * Minute <= n * Minute
        BY <1>0, <1>1, <2>1
  <2>2. x < (q + 1) * Minute
        BY <1>0, <1>1
  <2>3. n * Minute \in Int /\ (q + 1) * Minute \in Int
        BY <1>0, <1>1
  <2> QED BY <1>1, <1>2, <2>1, <2>2, <2>3
<1>5. n * Minute \in Int /\ AddMinutes(b, n) = b + n * Minute
      BY <1>0 DEF AddMinutes
<1> DEFINE e == n * Minute
<1> HIDE DEF e
<1>6. e \in Int /\ (n <= q => e <= x) /\ (q < n => x < e) /\ AddMinutes(b, n) = b + e
      BY <1>3, <1>4, <1>5 DEF e
<1>7. x = a - b
      BY DEF x
<1> QED BY <1>1, <1>2, <1>6, <1>7

\* A longer time ends later.
LEMMA MinutesOrdered ==
    ASSUME NEW m \in Int, NEW n \in Int, m < n, NEW t \in Int
    PROVE  AddMinutes(t, m) < AddMinutes(t, n)
<1>0. Minute \in Nat /\ Minute > 0
      BY MinuteLasts
<1> DEFINE a == m * Minute
           b == n * Minute
           k == n - m
<1>1. a \in Int /\ b \in Int /\ k \in Int /\ k > 0 /\ b = a + k * Minute
      BY <1>0
<1> HIDE DEF a, b, k
<1>2. k * Minute > 0 /\ k * Minute \in Int
      BY <1>0, <1>1
<1> QED BY <1>1, <1>2 DEF AddMinutes, a, b

-----------------------------------------------------------------------------
(* Extremes of finite sets of integers.                                         *)

LEMMA ExtremesExist ==
    ASSUME NEW S \in SUBSET Int, IsFiniteSet(S), S # {}
    PROVE  /\ \E x \in S : \A y \in S : x >= y
           /\ \E x \in S : \A y \in S : x <= y
<1> DEFINE F == {t \in SUBSET S : t # {} => /\ \E x \in t : \A y \in t : x >= y
                                           /\ \E x \in t : \A y \in t : x <= y}
<1>1. ASSUME NEW t \in SUBSET S, \A u \in SUBSET t : u # t => u \in F
      PROVE  t \in F
  <2> SUFFICES ASSUME t # {} PROVE /\ \E x \in t : \A y \in t : x >= y
                                   /\ \E x \in t : \A y \in t : x <= y
      OBVIOUS
  <2>1. PICK z \in t : TRUE
        OBVIOUS
  <2>2. CASE t = {z}
        BY <2>2
  <2>3. CASE t # {z}
    <3>1. t \ {z} \in F /\ t \ {z} # {}
      <4>1. t \ {z} \in SUBSET t /\ t \ {z} # t /\ t \ {z} # {}
            BY <2>1, <2>3
      <4> HIDE DEF F
      <4> QED BY <1>1, <4>1
    <3>2. PICK a \in t \ {z} : \A y \in t \ {z} : a >= y
          BY <3>1
    <3>3. PICK b \in t \ {z} : \A y \in t \ {z} : b <= y
          BY <3>1
    <3>4. t \subseteq Int
          OBVIOUS
    <3> HIDE DEF F
    <3>5. \E x \in t : \A y \in t : x >= y
      <4>1. CASE z >= a
            BY <2>1, <3>2, <3>4, <4>1
      <4>2. CASE ~(z >= a)
            BY <2>1, <3>2, <3>4, <4>2
      <4> QED BY <4>1, <4>2
    <3>6. \E x \in t : \A y \in t : x <= y
      <4>1. CASE z <= b
            BY <2>1, <3>3, <3>4, <4>1
      <4>2. CASE ~(z <= b)
            BY <2>1, <3>3, <3>4, <4>2
      <4> QED BY <4>1, <4>2
    <3> QED BY <3>5, <3>6
  <2> QED BY <2>2, <2>3
<1> HIDE DEF F
<1>2. S \in F
      BY <1>1, SubsetInduction
<1> QED BY <1>2 DEF F

LEMMA MaxOfFinite ==
    ASSUME NEW S \in SUBSET Int, IsFiniteSet(S), S # {}
    PROVE  Max(S) \in S /\ \A y \in S : Max(S) >= y
BY ExtremesExist DEF Max

LEMMA MinOfFinite ==
    ASSUME NEW S \in SUBSET Int, IsFiniteSet(S), S # {}
    PROVE  Min(S) \in S /\ \A y \in S : Min(S) <= y
BY ExtremesExist DEF Min

LEMMA MaxOfTwo ==
    ASSUME NEW a \in Int, NEW b \in Int
    PROVE  Max({a, b}) = IF a >= b THEN a ELSE b
<1>1. \E x \in {a, b} : \A y \in {a, b} : x >= y
      OBVIOUS
<1>2. Max({a, b}) \in {a, b} /\ \A y \in {a, b} : Max({a, b}) >= y
      BY <1>1 DEF Max
<1> QED BY <1>2

LEMMA MinOfTwo ==
    ASSUME NEW a \in Int, NEW b \in Int
    PROVE  Min({a, b}) = IF a <= b THEN a ELSE b
<1>1. \E x \in {a, b} : \A y \in {a, b} : x <= y
      OBVIOUS
<1>2. Min({a, b}) \in {a, b} /\ \A y \in {a, b} : Min({a, b}) <= y
      BY <1>1 DEF Min
<1> QED BY <1>2

LEMMA ClampStays ==
    ASSUME NEW x \in Int, NEW lo \in Int, NEW hi \in Int, lo <= hi
    PROVE  /\ Clamp(x, lo, hi) \in lo .. hi
           /\ x \in lo .. hi => Clamp(x, lo, hi) = x
<1>1. Max({lo, x}) \in Int /\ Max({lo, x}) = IF lo >= x THEN lo ELSE x
      BY MaxOfTwo
<1>2. Clamp(x, lo, hi) = IF hi <= Max({lo, x}) THEN hi ELSE Max({lo, x})
      BY <1>1, MinOfTwo DEF Clamp
<1> QED BY <1>1, <1>2

-----------------------------------------------------------------------------
(* Folds.  "pick" is the element a fold takes out of a set, "step" what it does *)
(* with it.                                                                     *)

Picks(pick, S) == \A t \in SUBSET S : t # {} => pick[t] \in t

Folds(g, D, base, pick, step) ==
    \A t \in SUBSET D :
        g[t] = IF t = {} THEN base ELSE step[<<pick[t], g[t \ {pick[t]}]>>]

StepsInto(step, S, Y) == \A x \in S, y \in Y : step[<<x, y>>] \in Y

LEMMA FoldUnique ==
    ASSUME NEW S, IsFiniteSet(S), NEW pick, Picks(pick, S), NEW base, NEW step,
           NEW E, NEW D, E \subseteq S, D \subseteq E, NEW g, NEW h,
           Folds(g, D, base, pick, step), Folds(h, E, base, pick, step)
    PROVE  g[D] = h[D]
<1> DEFINE F == {t \in SUBSET D : g[t] = h[t]}
<1>0. IsFiniteSet(D)
      BY FS_Subset
<1>1. ASSUME NEW t \in SUBSET D, \A u \in SUBSET t : u # t => u \in F
      PROVE  t \in F
  <2>1. CASE t = {}
        BY <2>1 DEF Folds
  <2>2. CASE t # {}
    <3>1. pick[t] \in t
          BY <2>2 DEF Picks
    <3>2. t \ {pick[t]} \in SUBSET t /\ t \ {pick[t]} # t
          BY <3>1
    <3>3. g[t \ {pick[t]}] = h[t \ {pick[t]}]
          BY <1>1, <3>2
    <3>4. g[t] = step[<<pick[t], g[t \ {pick[t]}]>>] /\ h[t] = step[<<pick[t], h[t \ {pick[t]}]>>]
      <4>1. t \in SUBSET D /\ t \in SUBSET E
            OBVIOUS
      <4> QED BY <2>2, <4>1 DEF Folds
    <3> QED BY <3>3, <3>4
  <2> QED BY <2>1, <2>2
<1> HIDE DEF F
<1>2. \A t \in SUBSET D : t \in F
      BY <1>0, <1>1, SubsetInduction
<1>3. D \in F
      BY <1>2
<1> QED BY <1>3 DEF F

LEMMA FoldExists ==
    ASSUME NEW S, IsFiniteSet(S), NEW pick, Picks(pick, S),
           NEW Y, NEW base \in Y, NEW step, StepsInto(step, S, Y)
    PROVE  \E g \in [SUBSET S -> Y] : Folds(g, S, base, pick, step)
<1> DEFINE Good(g, t) == g \in [SUBSET t -> Y] /\ Folds(g, t, base, pick, step)
           F == {t \in SUBSET S : \E g : Good(g, t)}
           best == [t \in SUBSET S |-> CHOOSE g : Good(g, t)]
<1>1. \A t \in F : Good(best[t], t)
      OBVIOUS
<1>2. ASSUME NEW t \in F, NEW u \in F, u \subseteq t
      PROVE  best[u][u] = best[t][u]
  <2>1. Folds(best[t], t, base, pick, step) /\ Folds(best[u], u, base, pick, step)
        BY <1>1
  <2>2. t \subseteq S /\ u \subseteq t
        BY <1>2
  <2> HIDE DEF best, F
  <2> QED BY <2>1, <2>2, FoldUnique
<1>3. ASSUME NEW t \in SUBSET S, \A u \in SUBSET t : u # t => u \in F
      PROVE  t \in F
  <2> DEFINE value(u) == IF u = {} THEN base ELSE step[<<pick[u], best[u \ {pick[u]}][u \ {pick[u]}]>>]
             g == [u \in SUBSET t |-> value(u)]
  <2>1. ASSUME NEW u \in SUBSET t, u # {}
        PROVE  /\ pick[u] \in u /\ u \ {pick[u]} \in F
               /\ u \ {pick[u]} \in SUBSET t
               /\ best[u \ {pick[u]}][u \ {pick[u]}] \in Y
    <3>1. u \in SUBSET S /\ pick[u] \in u
          BY <2>1 DEF Picks
    <3>2. u \ {pick[u]} \in SUBSET t /\ u \ {pick[u]} # t
          BY <3>1
    <3>3. u \ {pick[u]} \in F
          BY <1>3, <3>2
    <3> HIDE DEF best, F
    <3>4. best[u \ {pick[u]}] \in [SUBSET (u \ {pick[u]}) -> Y]
          BY <1>1, <3>3
    <3> QED BY <3>1, <3>2, <3>3, <3>4
  <2> HIDE DEF best, F
  <2>2. ASSUME NEW u \in SUBSET t PROVE value(u) \in Y
    <3>1. CASE u = {}
          BY <3>1
    <3>2. CASE u # {}
      <4>1. pick[u] \in S /\ best[u \ {pick[u]}][u \ {pick[u]}] \in Y
            BY <2>1, <3>2
      <4>2. step[<<pick[u], best[u \ {pick[u]}][u \ {pick[u]}]>>] \in Y
            BY <4>1 DEF StepsInto
      <4> QED BY <3>2, <4>2
    <3> QED BY <3>1, <3>2
  <2>3. g \in [SUBSET t -> Y]
        BY <2>2
  <2>4. ASSUME NEW u \in SUBSET t PROVE u # t => g[u] = best[u][u]
    <3> SUFFICES ASSUME u # t PROVE g[u] = best[u][u]
        OBVIOUS
    <3>1. u \in F
          BY <1>3
    <3>2. Folds(best[u], u, base, pick, step)
          BY <1>1, <3>1
    <3>3. u \in SUBSET u
          OBVIOUS
    <3>4. CASE u = {}
      <4>1. best[u][u] = base
            BY <3>2, <3>3, <3>4 DEF Folds
      <4> QED BY <3>4, <4>1
    <3>5. CASE u # {}
      <4> DEFINE w == u \ {pick[u]}
      <4>1. best[u][u] = step[<<pick[u], best[u][w]>>]
            BY <3>2, <3>3, <3>5 DEF Folds
      <4>2. w \in F /\ w \subseteq u
            BY <2>1, <3>5
      <4>3. best[w][w] = best[u][w]
        <5> HIDE DEF w
        <5> QED BY <1>2, <3>1, <4>2
      <4>4. g[u] = step[<<pick[u], best[w][w]>>]
            BY <3>5
      <4> HIDE DEF w, g
      <4> QED BY <4>1, <4>3, <4>4
    <3> QED BY <3>4, <3>5
  <2>5. ASSUME NEW u \in SUBSET t, u # {}
        PROVE  g[u] = step[<<pick[u], g[u \ {pick[u]}]>>]
    <3> DEFINE w == u \ {pick[u]}
    <3>1. w \in SUBSET t /\ w # t
          BY <2>1, <2>5
    <3>2. g[w] = best[w][w]
      <4> HIDE DEF w, g
      <4> QED BY <2>4, <3>1
    <3>3. g[u] = step[<<pick[u], best[w][w]>>]
          BY <2>5
    <3> HIDE DEF w, g
    <3>4. g[u] = step[<<pick[u], g[w]>>]
          BY <3>2, <3>3
    <3> QED BY <3>4 DEF w
  <2>6. g[{}] = base
        OBVIOUS
  <2> HIDE DEF g
  <2>7. Folds(g, t, base, pick, step)
        BY <2>5, <2>6 DEF Folds
  <2> QED BY <2>3, <2>7 DEF F
<1> HIDE DEF F, best
<1>4. S \in F
      BY <1>3, SubsetInduction
<1> QED BY <1>4 DEF F

-----------------------------------------------------------------------------
(* A fold over a sequence takes its prefixes one after the other.               *)

LEMMA Prefixes1N ==
    ASSUME NEW n \in Nat
    PROVE  /\ IsFiniteSet(1 .. n)
           /\ \A k \in 1 .. n : /\ 1 .. k \in SUBSET (1 .. n) /\ 1 .. k # {}
                                /\ Max(1 .. k) = k /\ (1 .. k) \ {k} = 1 .. k - 1
<1>1. IsFiniteSet(1 .. n)
      BY FS_Interval
<1>2. ASSUME NEW k \in 1 .. n
      PROVE  /\ 1 .. k \in SUBSET (1 .. n) /\ 1 .. k # {}
             /\ Max(1 .. k) = k /\ (1 .. k) \ {k} = 1 .. k - 1
  <2>1. k \in 1 .. k /\ \A y \in 1 .. k : k >= y
        OBVIOUS
  <2>2. Max(1 .. k) \in 1 .. k /\ \A y \in 1 .. k : Max(1 .. k) >= y
        BY <2>1 DEF Max
  <2>3. Max(1 .. k) = k
        BY <2>1, <2>2
  <2> QED BY <2>1, <2>3
<1> QED BY <1>1, <1>2

LeftFolds(g, S, base, step) ==
    \A t \in SUBSET S : g[t] = IF t = {} THEN base ELSE step[<<Max(t), g[t \ {Max(t)}]>>]

\* The values of a fold after each of n elements.
Chains(h, n, base, step) ==
    h[0] = base /\ \A k \in 1 .. n : h[k] = step[<<k, h[k - 1]>>]

LEMMA LeftFoldExists ==
    ASSUME NEW n \in Nat, NEW S, S = 1 .. n, NEW Y, NEW base \in Y, NEW step, StepsInto(step, S, Y)
    PROVE  \E g \in [SUBSET S -> Y] : LeftFolds(g, S, base, step)
<1> DEFINE pick == [t \in SUBSET S |-> Max(t)]
<1>1. IsFiniteSet(S)
      BY Prefixes1N
<1>2. ASSUME NEW t \in SUBSET S, t # {} PROVE Max(t) \in t
  <2>1. IsFiniteSet(t)
        BY <1>1, FS_Subset
  <2> QED BY <1>2, <2>1, MaxOfFinite
<1>3. Picks(pick, S)
      BY <1>2 DEF Picks
<1>4. PICK g \in [SUBSET S -> Y] : Folds(g, S, base, pick, step)
  <2> HIDE DEF pick
  <2> QED BY <1>1, <1>3, FoldExists
<1>5. ASSUME NEW t \in SUBSET S
      PROVE  g[t] = IF t = {} THEN base ELSE step[<<Max(t), g[t \ {Max(t)}]>>]
  <2>1. pick[t] = Max(t)
        OBVIOUS
  <2> HIDE DEF pick
  <2> QED BY <1>4, <2>1 DEF Folds
<1> QED BY <1>4, <1>5 DEF LeftFolds

LEMMA ChainExists ==
    ASSUME NEW n \in Nat, NEW S, S = 1 .. n, NEW Y, NEW base \in Y, NEW step, StepsInto(step, S, Y)
    PROVE  \E h : Chains(h, n, base, step) /\ \A k \in 0 .. n : h[k] \in Y
<1>1. PICK g \in [SUBSET S -> Y] : LeftFolds(g, S, base, step)
      BY LeftFoldExists
<1> DEFINE h == [k \in 0 .. n |-> g[1 .. k]]
<1>2. ASSUME NEW k \in 0 .. n PROVE h[k] \in Y
      OBVIOUS
<1>3. h[0] = base
  <2>1. 1 .. 0 = {} /\ {} \in SUBSET (1 .. n) /\ 0 \in 0 .. n
        OBVIOUS
  <2>2. h[0] = g[1 .. 0]
        BY <2>1
  <2>3. g[{}] = base
        BY <1>1, <2>1 DEF LeftFolds
  <2> QED BY <2>1, <2>2, <2>3
<1>4. ASSUME NEW k \in 1 .. n PROVE h[k] = step[<<k, h[k - 1]>>]
  <2>1. /\ 1 .. k \in SUBSET (1 .. n) /\ 1 .. k # {}
        /\ Max(1 .. k) = k /\ (1 .. k) \ {k} = 1 .. k - 1
        BY Prefixes1N
  <2>2. h[k] = g[1 .. k] /\ h[k - 1] = g[1 .. k - 1]
        OBVIOUS
  <2>3. g[1 .. k] = step[<<Max(1 .. k), g[(1 .. k) \ {Max(1 .. k)}]>>]
        BY <1>1, <2>1 DEF LeftFolds
  <2> QED BY <2>1, <2>2, <2>3
<1> HIDE DEF h
<1> QED BY <1>2, <1>3, <1>4 DEF Chains

Iterated(g, D, Y, base, step) ==
    /\ g \in [SUBSET D -> Y] /\ g[{}] = base
    /\ \A t \in SUBSET D : t # {} =>
          /\ Max(t) \in D /\ g[t \ {Max(t)}] \in Y
          /\ g[t] = step[<<Max(t), g[t \ {Max(t)}]>>]

LEMMA IterateExists ==
    ASSUME NEW n \in Nat, NEW D, D = 1 .. n, NEW Y, NEW base \in Y, NEW step, StepsInto(step, D, Y)
    PROVE  \E g : Iterated(g, D, Y, base, step)
<1>1. PICK g \in [SUBSET D -> Y] : LeftFolds(g, D, base, step)
      BY LeftFoldExists
<1>2. g[{}] = base
      BY <1>1 DEF LeftFolds
<1>3. ASSUME NEW t \in SUBSET D, t # {}
      PROVE  /\ Max(t) \in D /\ g[t \ {Max(t)}] \in Y
             /\ g[t] = step[<<Max(t), g[t \ {Max(t)}]>>]
  <2>1. IsFiniteSet(D) /\ D \subseteq Int
        BY Prefixes1N
  <2>2. IsFiniteSet(t) /\ t \in SUBSET Int
        BY <2>1, FS_Subset
  <2>3. Max(t) \in t
        BY <1>3, <2>2, MaxOfFinite
  <2> QED BY <1>1, <1>3, <2>3 DEF LeftFolds
<1> QED BY <1>2, <1>3 DEF Iterated

\* A function of the prefixes, as the values after each element.
Prefixed(h, it, n) == h = [k \in 0 .. n |-> it[1 .. k]]

Follows(h, it, D, n) ==
    /\ h[0] = it[{}] /\ h[n] = it[D]
    /\ \A k \in 1 .. n : /\ 1 .. k \in SUBSET D /\ 1 .. k # {} /\ Max(1 .. k) = k
                         /\ h[k] = it[1 .. k] /\ h[k - 1] = it[(1 .. k) \ {Max(1 .. k)}]

LEMMA PrefixValues ==
    ASSUME NEW n \in Nat, NEW D, D = 1 .. n, NEW it, NEW h, Prefixed(h, it, n)
    PROVE  Follows(h, it, D, n)
<1>1. h[0] = it[{}] /\ h[n] = it[D]
  <2>1. 0 \in 0 .. n /\ n \in 0 .. n /\ 1 .. 0 = {}
        OBVIOUS
  <2> QED BY <2>1 DEF Prefixed
<1>2. ASSUME NEW k \in 1 .. n
      PROVE  /\ 1 .. k \in SUBSET D /\ 1 .. k # {} /\ Max(1 .. k) = k
             /\ h[k] = it[1 .. k] /\ h[k - 1] = it[(1 .. k) \ {Max(1 .. k)}]
  <2>1. k \in 0 .. n /\ k - 1 \in 0 .. n
        OBVIOUS
  <2>2. h[k] = it[1 .. k] /\ h[k - 1] = it[1 .. k - 1]
        BY <2>1 DEF Prefixed
  <2>3. /\ 1 .. k \in SUBSET D /\ 1 .. k # {}
        /\ Max(1 .. k) = k /\ (1 .. k) \ {k} = 1 .. k - 1
        BY Prefixes1N
  <2> QED BY <2>2, <2>3
<1> QED BY <1>1, <1>2 DEF Follows

-----------------------------------------------------------------------------
(* Sums.                                                                        *)

Some(t) == CHOOSE x \in t : TRUE

SumFolds(g, v, D) ==
    \A t \in SUBSET D : g[t] = IF t = {} THEN 0 ELSE v[Some(t)] + g[t \ {Some(t)}]

LEMMA SumFoldExists ==
    ASSUME NEW S, IsFiniteSet(S), NEW v, \A i \in S : v[i] \in Int
    PROVE  \E g \in [SUBSET S -> Int] : SumFolds(g, v, S)
<1> DEFINE pick == [t \in SUBSET S |-> Some(t)]
           step == [p \in S \X Int |-> v[p[1]] + p[2]]
<1>1. Picks(pick, S)
      BY DEF Picks, Some
<1>2. StepsInto(step, S, Int)
      BY DEF StepsInto
<1>3. PICK g \in [SUBSET S -> Int] : Folds(g, S, 0, pick, step)
  <2> DEFINE Y == Int
             base == 0
  <2>1. base \in Y /\ StepsInto(step, S, Y)
        BY <1>2
  <2> HIDE DEF pick, step, Y, base
  <2>2. \E g \in [SUBSET S -> Y] : Folds(g, S, base, pick, step)
        BY <1>1, <2>1, FoldExists
  <2> QED BY <2>2 DEF Y, base
<1>4. ASSUME NEW t \in SUBSET S, t # {}
      PROVE  g[t] = v[Some(t)] + g[t \ {Some(t)}]
  <2>1. pick[t] = Some(t) /\ Some(t) \in S /\ g[t \ {Some(t)}] \in Int
        BY <1>4 DEF Some
  <2>2. g[t] = step[<<pick[t], g[t \ {pick[t]}]>>]
    <3> HIDE DEF pick, step
    <3> QED BY <1>3, <1>4 DEF Folds
  <2>3. step[<<Some(t), g[t \ {Some(t)}]>>] = v[Some(t)] + g[t \ {Some(t)}]
        BY <2>1
  <2> QED BY <2>1, <2>2, <2>3
<1>5. g[{}] = 0
      BY <1>3 DEF Folds
<1> QED BY <1>4, <1>5 DEF SumFolds

LEMMA SumFoldUnique ==
    ASSUME NEW E, IsFiniteSet(E), NEW v, NEW D, D \subseteq E, NEW g, NEW h,
           SumFolds(g, v, D), SumFolds(h, v, E)
    PROVE  g[D] = h[D]
<1> DEFINE F == {t \in SUBSET D : g[t] = h[t]}
<1>0. IsFiniteSet(D)
      BY FS_Subset
<1>1. ASSUME NEW t \in SUBSET D, \A u \in SUBSET t : u # t => u \in F
      PROVE  t \in F
  <2>1. CASE t = {}
        BY <2>1 DEF SumFolds
  <2>2. CASE t # {}
    <3>1. Some(t) \in t
          BY <2>2 DEF Some
    <3>2. t \ {Some(t)} \in SUBSET t /\ t \ {Some(t)} # t
          BY <3>1
    <3>3. g[t \ {Some(t)}] = h[t \ {Some(t)}]
          BY <1>1, <3>2
    <3>4. t \in SUBSET D /\ t \in SUBSET E
          OBVIOUS
    <3>5. g[t] = v[Some(t)] + g[t \ {Some(t)}] /\ h[t] = v[Some(t)] + h[t \ {Some(t)}]
          BY <2>2, <3>4 DEF SumFolds
    <3> QED BY <3>3, <3>5
  <2> QED BY <2>1, <2>2
<1> HIDE DEF F
<1>2. \A t \in SUBSET D : t \in F
      BY <1>0, <1>1, SubsetInduction
<1>3. D \in F
      BY <1>2
<1> QED BY <1>3 DEF F

LEMMA SumOfFolds ==
    ASSUME NEW S, IsFiniteSet(S), NEW v, \A i \in S : v[i] \in Int, NEW g, SumFolds(g, v, S)
    PROVE  SumOf(v, S) = g[S]
<1> DEFINE It(h) == h = [t \in SUBSET S |-> IF t = {} THEN 0
                             ELSE v[CHOOSE x \in t : TRUE] + h[t \ {CHOOSE x \in t : TRUE}]]
           h == CHOOSE f : It(f)
<1>1. SumOf(v, S) = h[S]
      BY DEF SumOf, MapThenSumSet, MapThenFoldSet
<1>2. PICK f \in [SUBSET S -> Int] : SumFolds(f, v, S)
      BY SumFoldExists
<1>3. It(f)
      BY <1>2 DEF SumFolds, Some
<1>4. It(h)
      BY <1>3
<1>5. SumFolds(h, v, S)
  <2> HIDE DEF h
  <2> QED BY <1>4 DEF SumFolds, Some
<1> HIDE DEF h
<1> QED BY <1>1, <1>5, SumFoldUnique

LEMMA SumFacts ==
    ASSUME NEW S, IsFiniteSet(S), NEW v, \A i \in S : v[i] \in Int
    PROVE  /\ SumOf(v, {}) = 0
           /\ \A t \in SUBSET S : /\ SumOf(v, t) \in Int
                                  /\ \A x \in t : SumOf(v, t) = v[x] + SumOf(v, t \ {x})
<1>1. PICK g \in [SUBSET S -> Int] : SumFolds(g, v, S)
      BY SumFoldExists
<1>2. ASSUME NEW t \in SUBSET S PROVE SumOf(v, t) = g[t]
  <2>1. IsFiniteSet(t)
        BY FS_Subset
  <2>2. SumFolds(g, v, t)
        BY <1>1 DEF SumFolds
  <2> QED BY <2>1, <2>2, SumOfFolds
<1>3. g[{}] = 0
      BY <1>1 DEF SumFolds
<1>4. ASSUME NEW t \in SUBSET S, t # {}
      PROVE  Some(t) \in t /\ g[t] = v[Some(t)] + g[t \ {Some(t)}]
      BY <1>1, <1>4 DEF SumFolds, Some
<1> DEFINE F == {t \in SUBSET S : \A x \in t : g[t] = v[x] + g[t \ {x}]}
<1>5. ASSUME NEW t \in SUBSET S, \A u \in SUBSET t : u # t => u \in F
      PROVE  t \in F
  <2> SUFFICES ASSUME NEW x \in t PROVE g[t] = v[x] + g[t \ {x}]
      OBVIOUS
  <2> DEFINE c == Some(t)
  <2>1. c \in t /\ g[t] = v[c] + g[t \ {c}]
        BY <1>4
  <2> HIDE DEF c
  <2>2. CASE c = x
        BY <2>1, <2>2
  <2>3. CASE c # x
    <3>1. t \ {c} \in F /\ t \ {x} \in F
          BY <1>5, <2>1
    <3>2. g[t \ {c}] = v[x] + g[(t \ {c}) \ {x}] /\ g[t \ {x}] = v[c] + g[(t \ {x}) \ {c}]
      <4>1. x \in t \ {c} /\ c \in t \ {x}
            BY <2>1, <2>3
      <4> QED BY <3>1, <4>1
    <3>3. (t \ {c}) \ {x} = (t \ {x}) \ {c} /\ (t \ {x}) \ {c} \in SUBSET S
          OBVIOUS
    <3>4. v[x] \in Int /\ v[c] \in Int /\ g[(t \ {x}) \ {c}] \in Int
      <4>1. x \in S /\ c \in S
            BY <2>1
      <4> QED BY <3>3, <4>1
    <3> DEFINE r == (t \ {x}) \ {c}
    <3>5. g[t \ {c}] = v[x] + g[r] /\ g[t \ {x}] = v[c] + g[r] /\ g[r] \in Int
          BY <3>2, <3>3, <3>4
    <3>6. g[t] = v[c] + g[t \ {c}]
          BY <2>1
    <3> HIDE DEF r
    <3> QED BY <3>4, <3>5, <3>6
  <2> QED BY <2>2, <2>3
<1> HIDE DEF F
<1>6. \A t \in SUBSET S : t \in F
      BY <1>5, SubsetInduction
<1>7. ASSUME NEW t \in SUBSET S PROVE g[t] \in Int
      OBVIOUS
<1>8. ASSUME NEW t \in SUBSET S, NEW x \in t PROVE SumOf(v, t) = v[x] + SumOf(v, t \ {x})
  <2>1. t \ {x} \in SUBSET S
        OBVIOUS
  <2>2. g[t] = v[x] + g[t \ {x}]
        BY <1>6 DEF F
  <2> QED BY <1>2, <2>1, <2>2
<1> QED BY <1>2, <1>3, <1>7, <1>8

LEMMA SumSame ==
    ASSUME NEW S, IsFiniteSet(S), NEW v, NEW w, \A i \in S : v[i] \in Int /\ v[i] = w[i]
    PROVE  SumOf(v, S) = SumOf(w, S)
<1>0. \A i \in S : w[i] \in Int
      OBVIOUS
<1>1. PICK g \in [SUBSET S -> Int] : SumFolds(g, v, S)
      BY SumFoldExists
<1>2. SumFolds(g, w, S)
      BY <1>1 DEF SumFolds, Some
<1>3. SumOf(v, S) = g[S]
      BY <1>1, SumOfFolds
<1>4. SumOf(w, S) = g[S]
      BY <1>0, <1>2, SumOfFolds
<1> QED BY <1>3, <1>4

LEMMA SumDisjoint ==
    ASSUME NEW S, IsFiniteSet(S), NEW v, \A i \in S : v[i] \in Int,
           NEW A, A \subseteq S, NEW B, B \subseteq S, A \cap B = {}
    PROVE  SumOf(v, A \cup B) = SumOf(v, A) + SumOf(v, B)
<1> DEFINE F == {t \in SUBSET A : SumOf(v, t \cup B) = SumOf(v, t) + SumOf(v, B)}
<1>0. IsFiniteSet(A) /\ SumOf(v, {}) = 0 /\ SumOf(v, B) \in Int
      BY FS_Subset, SumFacts
<1>1. ASSUME NEW t \in SUBSET A, \A u \in SUBSET t : u # t => u \in F
      PROVE  t \in F
  <2>1. CASE t = {}
    <3>1. t \cup B = B
          BY <2>1
    <3> QED BY <1>0, <2>1, <3>1
  <2>2. CASE t # {}
    <3>1. PICK x \in t : TRUE
          BY <2>2
    <3>2. t \ {x} \in F
      <4>1. t \ {x} \in SUBSET t /\ t \ {x} # t
            BY <3>1
      <4> QED BY <1>1, <4>1
    <3>3. (t \cup B) \ {x} = (t \ {x}) \cup B
          OBVIOUS
    <3>4. SumOf(v, t \cup B) = v[x] + SumOf(v, (t \cup B) \ {x})
      <4>1. t \cup B \in SUBSET S /\ x \in t \cup B
            OBVIOUS
      <4> QED BY <4>1, SumFacts
    <3>5. SumOf(v, t) = v[x] + SumOf(v, t \ {x})
      <4>1. t \in SUBSET S
            OBVIOUS
      <4> QED BY <4>1, SumFacts
    <3>6. v[x] \in Int /\ SumOf(v, t \ {x}) \in Int
      <4>1. t \ {x} \in SUBSET S /\ x \in S
            OBVIOUS
      <4> QED BY <4>1, SumFacts
    <3> DEFINE all == SumOf(v, (t \ {x}) \cup B)
               mine == SumOf(v, t \ {x})
    <3>7. SumOf(v, t \cup B) = v[x] + all /\ SumOf(v, t) = v[x] + mine /\ mine \in Int
          BY <3>3, <3>4, <3>5, <3>6
    <3>8. all = mine + SumOf(v, B)
          BY <3>2
    <3> HIDE DEF all, mine
    <3>9. SumOf(v, t \cup B) = SumOf(v, t) + SumOf(v, B)
          BY <1>0, <3>6, <3>7, <3>8
    <3> QED BY <3>9
  <2> QED BY <2>1, <2>2
<1> HIDE DEF F
<1>2. \A t \in SUBSET A : t \in F
      BY <1>0, <1>1, SubsetInduction
<1>3. A \in F
      BY <1>2
<1> QED BY <1>3 DEF F

LEMMA SumMono ==
    ASSUME NEW S, IsFiniteSet(S), NEW v, NEW w,
           \A i \in S : v[i] \in Int /\ w[i] \in Int /\ v[i] <= w[i]
    PROVE  SumOf(v, S) <= SumOf(w, S)
<1> DEFINE F == {t \in SUBSET S : SumOf(v, t) <= SumOf(w, t)}
<1>0. SumOf(v, {}) = 0 /\ SumOf(w, {}) = 0
      BY SumFacts
<1>1. ASSUME NEW t \in SUBSET S, \A u \in SUBSET t : u # t => u \in F
      PROVE  t \in F
  <2>1. CASE t = {}
        BY <1>0, <2>1
  <2>2. CASE t # {}
    <3>1. PICK x \in t : TRUE
          BY <2>2
    <3>2. t \ {x} \in F
      <4>1. t \ {x} \in SUBSET t /\ t \ {x} # t
            BY <3>1
      <4> QED BY <1>1, <4>1
    <3>3. x \in S /\ t \ {x} \in SUBSET S
          OBVIOUS
    <3>4. SumOf(v, t) = v[x] + SumOf(v, t \ {x}) /\ SumOf(v, t \ {x}) \in Int
          BY <3>3, SumFacts
    <3>5. SumOf(w, t) = w[x] + SumOf(w, t \ {x}) /\ SumOf(w, t \ {x}) \in Int
          BY <3>3, SumFacts
    <3> QED BY <3>2, <3>3, <3>4, <3>5
  <2> QED BY <2>1, <2>2
<1> HIDE DEF F
<1>2. \A t \in SUBSET S : t \in F
      BY <1>1, SubsetInduction
<1>3. S \in F
      BY <1>2
<1> QED BY <1>3 DEF F

LEMMA SumAdd ==
    ASSUME NEW S, IsFiniteSet(S), NEW v, NEW w, NEW u,
           \A i \in S : v[i] \in Int /\ w[i] \in Int /\ u[i] = v[i] + w[i]
    PROVE  SumOf(u, S) = SumOf(v, S) + SumOf(w, S)
<1> DEFINE F == {t \in SUBSET S : SumOf(u, t) = SumOf(v, t) + SumOf(w, t)}
<1>0. /\ \A i \in S : v[i] \in Int
      /\ \A i \in S : w[i] \in Int
      /\ \A i \in S : u[i] \in Int
      OBVIOUS
<1>1. SumOf(u, {}) = 0 /\ SumOf(v, {}) = 0 /\ SumOf(w, {}) = 0
      BY <1>0, SumFacts
<1>2. ASSUME NEW t \in SUBSET S, \A r \in SUBSET t : r # t => r \in F
      PROVE  t \in F
  <2>1. CASE t = {}
        BY <1>1, <2>1
  <2>2. CASE t # {}
    <3>1. PICK x \in t : TRUE
          BY <2>2
    <3>2. t \ {x} \in F
      <4>1. t \ {x} \in SUBSET t /\ t \ {x} # t
            BY <3>1
      <4> QED BY <1>2, <4>1
    <3>3. x \in S /\ t \ {x} \in SUBSET S
          OBVIOUS
    <3>4. SumOf(v, t) = v[x] + SumOf(v, t \ {x}) /\ SumOf(v, t \ {x}) \in Int
          BY <1>0, <3>3, SumFacts
    <3>5. SumOf(w, t) = w[x] + SumOf(w, t \ {x}) /\ SumOf(w, t \ {x}) \in Int
          BY <1>0, <3>3, SumFacts
    <3>6. SumOf(u, t) = u[x] + SumOf(u, t \ {x})
          BY <1>0, <3>3, SumFacts
    <3>7. v[x] \in Int /\ w[x] \in Int /\ u[x] = v[x] + w[x]
          BY <3>3
    <3> QED BY <3>2, <3>4, <3>5, <3>6, <3>7
  <2> QED BY <2>1, <2>2
<1> HIDE DEF F
<1>3. \A t \in SUBSET S : t \in F
      BY <1>2, SubsetInduction
<1>4. S \in F
      BY <1>3
<1> QED BY <1>4 DEF F

LEMMA SumScale ==
    ASSUME NEW S, IsFiniteSet(S), NEW c \in Int, NEW v, NEW u,
           \A i \in S : v[i] \in Int /\ u[i] = c * v[i]
    PROVE  SumOf(u, S) = c * SumOf(v, S)
<1> DEFINE F == {t \in SUBSET S : SumOf(u, t) = c * SumOf(v, t)}
<1>0. /\ \A i \in S : v[i] \in Int
      /\ \A i \in S : u[i] \in Int
      OBVIOUS
<1>1. SumOf(u, {}) = 0 /\ SumOf(v, {}) = 0 /\ c * 0 = 0
      BY <1>0, SumFacts
<1>2. ASSUME NEW t \in SUBSET S, \A r \in SUBSET t : r # t => r \in F
      PROVE  t \in F
  <2>1. CASE t = {}
        BY <1>1, <2>1
  <2>2. CASE t # {}
    <3>1. PICK x \in t : TRUE
          BY <2>2
    <3>2. t \ {x} \in F
      <4>1. t \ {x} \in SUBSET t /\ t \ {x} # t
            BY <3>1
      <4> QED BY <1>2, <4>1
    <3>3. x \in S /\ t \ {x} \in SUBSET S
          OBVIOUS
    <3> DEFINE rest == SumOf(v, t \ {x})
               here == v[x]
    <3>4. SumOf(v, t) = here + rest /\ rest \in Int /\ here \in Int
          BY <1>0, <3>3, SumFacts
    <3>5. SumOf(u, t) = c * here + c * rest
      <4>1. SumOf(u, t) = u[x] + SumOf(u, t \ {x})
            BY <1>0, <3>3, SumFacts
      <4> QED BY <3>2, <3>3, <4>1
    <3> HIDE DEF rest, here
    <3>6. c * (here + rest) = c * here + c * rest
          BY <3>4
    <3> QED BY <3>4, <3>5, <3>6
  <2> QED BY <2>1, <2>2
<1> HIDE DEF F
<1>3. \A t \in SUBSET S : t \in F
      BY <1>2, SubsetInduction
<1>4. S \in F
      BY <1>3
<1> QED BY <1>4 DEF F

LEMMA SumConst ==
    ASSUME NEW S, IsFiniteSet(S), NEW c \in Int, NEW u, \A i \in S : u[i] = c
    PROVE  SumOf(u, S) = c * Cardinality(S) /\ Cardinality(S) \in Nat
<1> DEFINE F == {t \in SUBSET S : SumOf(u, t) = c * Cardinality(t)}
<1>0. \A i \in S : u[i] \in Int
      OBVIOUS
<1>1. SumOf(u, {}) = 0 /\ Cardinality({}) = 0 /\ c * 0 = 0
      BY <1>0, SumFacts, FS_EmptySet
<1>2. ASSUME NEW t \in SUBSET S, \A r \in SUBSET t : r # t => r \in F
      PROVE  t \in F
  <2>1. CASE t = {}
        BY <1>1, <2>1
  <2>2. CASE t # {}
    <3>1. PICK x \in t : TRUE
          BY <2>2
    <3>2. t \ {x} \in F
      <4>1. t \ {x} \in SUBSET t /\ t \ {x} # t
            BY <3>1
      <4> QED BY <1>2, <4>1
    <3>3. x \in S /\ t \ {x} \in SUBSET S /\ IsFiniteSet(t)
          BY FS_Subset
    <3> DEFINE k == Cardinality(t \ {x})
    <3>4. Cardinality(t) \in Nat /\ k = Cardinality(t) - 1
          BY <3>3, FS_RemoveElement, FS_CardinalityType
    <3>5. SumOf(u, t) = c + SumOf(u, t \ {x}) /\ SumOf(u, t \ {x}) = c * k
          BY <1>0, <3>2, <3>3, SumFacts
    <3> HIDE DEF k
    <3>6. k \in Int /\ Cardinality(t) = k + 1
          BY <3>4
    <3>7. c * (k + 1) = c + c * k
          BY <3>6
    <3> QED BY <3>5, <3>6, <3>7
  <2> QED BY <2>1, <2>2
<1> HIDE DEF F
<1>3. \A t \in SUBSET S : t \in F
      BY <1>2, SubsetInduction
<1>4. S \in F
      BY <1>3
<1> QED BY <1>4, FS_CardinalityType DEF F

\* A sum taken part by part: part[m] is the sum of v over what h sends to m.
Fibres(part, v, h, S, M) == \A m \in M : part[m] = SumOf(v, {i \in S : h[i] = m})

LEMMA SumFibres ==
    ASSUME NEW S, IsFiniteSet(S), NEW v, \A i \in S : v[i] \in Int,
           NEW M, IsFiniteSet(M), NEW h, \A i \in S : h[i] \in M,
           NEW part, Fibres(part, v, h, S, M)
    PROVE  SumOf(part, M) = SumOf(v, S)
<1> USE DEF Fibres
<1> DEFINE Of(t) == {i \in S : h[i] \in t}
           F == {t \in SUBSET M : SumOf(part, t) = SumOf(v, Of(t))}
<1>0. ASSUME NEW m \in M PROVE part[m] \in Int
  <2> DEFINE A == {i \in S : h[i] = m}
  <2>1. A \in SUBSET S /\ part[m] = SumOf(v, A)
        OBVIOUS
  <2> HIDE DEF A
  <2> QED BY <2>1, SumFacts
<1>1. SumOf(part, {}) = 0 /\ SumOf(v, {}) = 0
      BY <1>0, SumFacts
<1>2. ASSUME NEW t \in SUBSET M, \A r \in SUBSET t : r # t => r \in F
      PROVE  t \in F
  <2>1. CASE t = {}
    <3>1. Of(t) = {}
          BY <2>1
    <3> QED BY <1>1, <2>1, <3>1
  <2>2. CASE t # {}
    <3>1. PICK m \in t : TRUE
          BY <2>2
    <3>2. t \ {m} \in F
      <4>1. t \ {m} \in SUBSET t /\ t \ {m} # t
            BY <3>1
      <4> QED BY <1>2, <4>1
    <3>3. SumOf(part, t) = part[m] + SumOf(part, t \ {m})
      <4>1. t \in SUBSET M /\ m \in t
            OBVIOUS
      <4> QED BY <1>0, <4>1, SumFacts
    <3> DEFINE A == {i \in S : h[i] = m}
               B == Of(t \ {m})
    <3>4. A \subseteq S /\ B \subseteq S /\ A \cap B = {} /\ Of(t) = A \cup B
          OBVIOUS
    <3>5. part[m] = SumOf(v, A) /\ SumOf(part, t \ {m}) = SumOf(v, B)
          BY <3>2
    <3> HIDE DEF A, B
    <3>6. SumOf(v, A \cup B) = SumOf(v, A) + SumOf(v, B)
          BY <3>4, SumDisjoint
    <3> QED BY <3>3, <3>4, <3>5, <3>6
  <2> QED BY <2>1, <2>2
<1> HIDE DEF F
<1>3. \A t \in SUBSET M : t \in F
      BY <1>2, SubsetInduction
<1>4. M \in F
      BY <1>3
<1>5. Of(M) = S
      OBVIOUS
<1> QED BY <1>4, <1>5 DEF F

LEMMA SumAtLeast ==
    ASSUME NEW S, IsFiniteSet(S), NEW v, \A i \in S : v[i] \in Nat
    PROVE  /\ SumOf(v, S) \in Nat
           /\ \A t \in SUBSET S : SumOf(v, t) \in Nat /\ SumOf(v, t) <= SumOf(v, S)
           /\ \A i \in S : v[i] <= SumOf(v, S)
<1>0. \A i \in S : v[i] \in Int
      OBVIOUS
<1> DEFINE zero == [i \in S |-> 0]
<1>1. ASSUME NEW t \in SUBSET S PROVE SumOf(v, t) \in Nat
  <2>1. IsFiniteSet(t) /\ Cardinality(t) \in Nat
        BY FS_Subset, FS_CardinalityType
  <2>2. \A i \in t : zero[i] = 0
        OBVIOUS
  <2> DEFINE c == 0
  <2>3. c \in Int /\ \A i \in t : zero[i] = c
        BY <2>2
  <2> HIDE DEF zero, c
  <2>4. SumOf(zero, t) = c * Cardinality(t)
        BY <2>1, <2>3, SumConst
  <2>5. SumOf(zero, t) = 0
        BY <2>1, <2>4 DEF c
  <2>6. SumOf(zero, t) <= SumOf(v, t)
    <3>1. \A i \in t : zero[i] \in Int /\ v[i] \in Int /\ zero[i] <= v[i]
          BY <2>2
    <3> QED BY <2>1, <3>1, SumMono
  <2>7. SumOf(v, t) \in Int
        BY <1>0, SumFacts
  <2> QED BY <2>5, <2>6, <2>7
<1>2. ASSUME NEW t \in SUBSET S PROVE SumOf(v, t) <= SumOf(v, S)
  <2> DEFINE r == S \ t
  <2>1. r \subseteq S /\ t \subseteq S /\ t \cap r = {} /\ t \cup r = S
        OBVIOUS
  <2> HIDE DEF r
  <2>2. SumOf(v, t \cup r) = SumOf(v, t) + SumOf(v, r)
        BY <1>0, <2>1, SumDisjoint
  <2>3. SumOf(v, t) \in Nat /\ SumOf(v, r) \in Nat
        BY <1>1, <2>1
  <2>4. SumOf(v, S) = SumOf(v, t) + SumOf(v, r)
        BY <2>1, <2>2
  <2> QED BY <2>3, <2>4
<1>3. ASSUME NEW i \in S PROVE v[i] <= SumOf(v, S)
  <2>1. S \in SUBSET S /\ S \ {i} \in SUBSET S
        OBVIOUS
  <2>2. SumOf(v, S) = v[i] + SumOf(v, S \ {i})
        BY <1>0, <2>1, SumFacts
  <2>3. SumOf(v, S \ {i}) \in Nat
        BY <1>1, <2>1
  <2> QED BY <2>2, <2>3
<1>4. S \in SUBSET S
      OBVIOUS
<1> QED BY <1>1, <1>2, <1>3, <1>4

-----------------------------------------------------------------------------
(* Sorting: R holds the pairs of a strict total order on S, and an element's    *)
(* place is the number of those before it.                                      *)

Orders(R, S) ==
    /\ \A x \in S : <<x, x>> \notin R
    /\ \A x, y \in S : x # y => <<x, y>> \in R \/ <<y, x>> \in R
    /\ \A x, y, z \in S : <<x, y>> \in R /\ <<y, z>> \in R => <<x, z>> \in R

Below(x, R, S) == {y \in S : <<y, x>> \in R}

LEMMA RanksOrder ==
    ASSUME NEW S, IsFiniteSet(S), NEW R, Orders(R, S)
    PROVE  /\ \A x \in S : Cardinality(Below(x, R, S)) \in 0 .. Cardinality(S) - 1
           /\ \A x, y \in S : <<x, y>> \in R =>
                  Cardinality(Below(x, R, S)) < Cardinality(Below(y, R, S))
<1>1. ASSUME NEW x \in S
      PROVE  /\ IsFiniteSet(Below(x, R, S)) /\ Cardinality(Below(x, R, S)) \in Nat
             /\ Cardinality(Below(x, R, S)) \in 0 .. Cardinality(S) - 1
  <2>1. Below(x, R, S) \in SUBSET (S \ {x})
        BY DEF Below, Orders
  <2>2. IsFiniteSet(S \ {x}) /\ Cardinality(S \ {x}) = Cardinality(S) - 1
        BY FS_RemoveElement
  <2>3. IsFiniteSet(Below(x, R, S)) /\ Cardinality(Below(x, R, S)) <= Cardinality(S \ {x})
        BY <2>1, <2>2, FS_Subset
  <2>4. Cardinality(Below(x, R, S)) \in Nat /\ Cardinality(S) \in Nat
        BY <2>3, FS_CardinalityType
  <2> QED BY <2>2, <2>3, <2>4
<1>2. ASSUME NEW x \in S, NEW y \in S, <<x, y>> \in R
      PROVE  Cardinality(Below(x, R, S)) < Cardinality(Below(y, R, S))
  <2>1. Below(x, R, S) \in SUBSET Below(y, R, S)
        BY <1>2 DEF Below, Orders
  <2>2. x \in Below(y, R, S) /\ x \notin Below(x, R, S)
        BY <1>2 DEF Below, Orders
  <2>3. /\ Cardinality(Below(x, R, S)) <= Cardinality(Below(y, R, S))
        /\ Cardinality(Below(x, R, S)) # Cardinality(Below(y, R, S))
        BY <1>1, <2>1, <2>2, FS_Subset
  <2> QED BY <1>1, <2>3
<1> QED BY <1>1, <1>2

LEMMA RankExists ==
    ASSUME NEW S, IsFiniteSet(S), NEW R, Orders(R, S), NEW k \in 1 .. Cardinality(S)
    PROVE  \E x \in S : Cardinality(Below(x, R, S)) = k - 1
<1> DEFINE T == 0 .. Cardinality(S) - 1
           f == [x \in S |-> Cardinality(Below(x, R, S))]
<1>1. Cardinality(S) \in Nat
      BY FS_CardinalityType
<1>2. IsFiniteSet(T) /\ Cardinality(T) = Cardinality(S)
  <2> DEFINE lo == 0
             hi == Cardinality(S) - 1
  <2>1. lo \in Int /\ hi \in Int
        BY <1>1
  <2> HIDE DEF lo, hi
  <2>2. IsFiniteSet(lo .. hi) /\ Cardinality(lo .. hi) = IF lo > hi THEN 0 ELSE hi - lo + 1
        BY <2>1, FS_Interval
  <2> QED BY <1>1, <2>2 DEF lo, hi
<1>3. f \in [S -> T]
      BY RanksOrder
<1>4. ASSUME NEW x \in S, NEW y \in S, f[x] = f[y] PROVE x = y
  <2> SUFFICES ASSUME x # y PROVE FALSE
      OBVIOUS
  <2>1. <<x, y>> \in R \/ <<y, x>> \in R
        BY DEF Orders
  <2>2. /\ Cardinality(Below(x, R, S)) \in Int /\ Cardinality(Below(y, R, S)) \in Int
        /\ \/ Cardinality(Below(x, R, S)) < Cardinality(Below(y, R, S))
           \/ Cardinality(Below(y, R, S)) < Cardinality(Below(x, R, S))
        BY <2>1, RanksOrder
  <2> QED BY <1>4, <2>2
<1> HIDE DEF f, T
<1>5. f \in Injection(S, T)
      BY <1>3, <1>4 DEF Injection, IsInjective
<1>6. f \in Surjection(S, T)
      BY <1>2, <1>5, FS_Injection
<1>7. k - 1 \in T
      BY <1>1 DEF T
<1>8. PICK x \in S : f[x] = k - 1
      BY <1>6, <1>7 DEF Surjection
<1> QED BY <1>8 DEF f

Ranked(s, R, S) ==
    /\ DOMAIN s = 1 .. Cardinality(S)
    /\ \A k \in 1 .. Cardinality(S) : s[k] \in S /\ Cardinality(Below(s[k], R, S)) = k - 1

\* What a sorted sequence is: each element once, the earlier before the later.
LEMMA RankedIsSorted ==
    ASSUME NEW S, IsFiniteSet(S), NEW R, Orders(R, S), NEW s, s = [k \in DOMAIN s |-> s[k]], Ranked(s, R, S)
    PROVE  /\ Cardinality(S) \in Nat /\ s \in [1 .. Cardinality(S) -> S]
           /\ s \in Seq(S) /\ Len(s) = Cardinality(S)
           /\ \A x \in S : \E k \in 1 .. Cardinality(S) : s[k] = x
           /\ \A i, j \in 1 .. Cardinality(S) : i < j => <<s[i], s[j]>> \in R
           /\ \A i, j \in 1 .. Cardinality(S) : s[i] = s[j] => i = j
<1>1. Cardinality(S) \in Nat
      BY FS_CardinalityType
<1>2. s \in [1 .. Cardinality(S) -> S]
      BY DEF Ranked
<1>3. s \in Seq(S) /\ Len(s) = Cardinality(S)
      BY <1>1, <1>2
<1>4. ASSUME NEW x \in S PROVE \E k \in 1 .. Cardinality(S) : s[k] = x
  <2> DEFINE k == Cardinality(Below(x, R, S)) + 1
  <2>1. k \in 1 .. Cardinality(S) /\ k - 1 = Cardinality(Below(x, R, S))
        BY <1>1, RanksOrder
  <2>2. s[k] \in S /\ Cardinality(Below(s[k], R, S)) = Cardinality(Below(x, R, S))
        BY <2>1 DEF Ranked
  <2> HIDE DEF k
  <2>3. s[k] = x
    <3> SUFFICES ASSUME s[k] # x PROVE FALSE
        OBVIOUS
    <3>1. <<s[k], x>> \in R \/ <<x, s[k]>> \in R
          BY <2>2 DEF Orders
    <3>2. Cardinality(Below(x, R, S)) \in Int
          BY RanksOrder
    <3>3. CASE <<s[k], x>> \in R
          BY <2>2, <3>2, <3>3, RanksOrder
    <3>4. CASE <<x, s[k]>> \in R
          BY <2>2, <3>2, <3>4, RanksOrder
    <3> QED BY <3>1, <3>3, <3>4
  <2> QED BY <2>1, <2>3
<1>5. ASSUME NEW i \in 1 .. Cardinality(S), NEW j \in 1 .. Cardinality(S), i < j
      PROVE  <<s[i], s[j]>> \in R
  <2>1. /\ s[i] \in S /\ Cardinality(Below(s[i], R, S)) = i - 1
        /\ s[j] \in S /\ Cardinality(Below(s[j], R, S)) = j - 1
        BY DEF Ranked
  <2>2. s[i] # s[j]
        BY <1>1, <1>5, <2>1
  <2>3. <<s[j], s[i]>> \notin R
    <3> SUFFICES ASSUME <<s[j], s[i]>> \in R PROVE FALSE
        OBVIOUS
    <3>1. Cardinality(Below(s[j], R, S)) < Cardinality(Below(s[i], R, S))
          BY <2>1, RanksOrder
    <3> QED BY <1>5, <2>1, <3>1
  <2> QED BY <2>1, <2>2, <2>3 DEF Orders
<1>6. ASSUME NEW i \in 1 .. Cardinality(S), NEW j \in 1 .. Cardinality(S), s[i] = s[j]
      PROVE  i = j
  <2>1. Cardinality(Below(s[i], R, S)) = i - 1 /\ Cardinality(Below(s[j], R, S)) = j - 1
        BY DEF Ranked
  <2> QED BY <1>1, <1>6, <2>1
<1> QED BY <1>1, <1>2, <1>3, <1>4, <1>5, <1>6

\* The same of SortedBy, as one predicate.
InOrder(s, R, S) ==
    /\ Cardinality(S) \in Nat /\ s \in [1 .. Cardinality(S) -> S]
    /\ s \in Seq(S) /\ Len(s) = Cardinality(S)
    /\ \A x \in S : \E k \in 1 .. Cardinality(S) : s[k] = x
    /\ \A i, j \in 1 .. Cardinality(S) : i < j => <<s[i], s[j]>> \in R
    /\ \A i, j \in 1 .. Cardinality(S) : s[i] = s[j] => i = j

LEMMA SortedByFacts ==
    ASSUME NEW S, IsFiniteSet(S), NEW R, Orders(R, S)
    PROVE  InOrder(SortedBy(S, R), R, S)
<1> DEFINE n == Cardinality(S)
           s == SortedBy(S, R)
<1>1. n \in Nat
      BY FS_CardinalityType
<1>2. ASSUME NEW k \in 1 .. n PROVE s[k] \in S /\ Cardinality(Below(s[k], R, S)) = k - 1
  <2>1. PICK x \in S : Cardinality(Below(x, R, S)) = k - 1
        BY RankExists
  <2>2. s[k] = CHOOSE y \in S : Cardinality(Below(y, R, S)) = k - 1
        BY DEF SortedBy, Below
  <2> HIDE DEF s
  <2> QED BY <2>1, <2>2
<1>3. DOMAIN s = 1 .. n /\ s = [k \in DOMAIN s |-> s[k]]
  <2> DEFINE v(k) == CHOOSE x \in S : Cardinality({y \in S : <<y, x>> \in R}) = k - 1
  <2>1. s = [k \in 1 .. n |-> v(k)]
        BY DEF SortedBy
  <2> HIDE DEF v, s, n
  <2> QED BY <2>1
<1>4. Ranked(s, R, S)
      BY <1>2, <1>3 DEF Ranked
<1> HIDE DEF s
<1> DEFINE t == s
<1>5. InOrder(t, R, S)
  <2>1. t = [k \in DOMAIN t |-> t[k]] /\ Ranked(t, R, S)
        BY <1>3, <1>4
  <2> HIDE DEF t, n
  <2> QED BY <2>1, RankedIsSorted DEF InOrder
<1> QED BY <1>5 DEF s

-----------------------------------------------------------------------------
(* Lists rearranged: o says where in s each element of t comes from.            *)

Arranges(t, o, s, I) ==
    /\ Cardinality(I) \in Nat
    /\ o \in [1 .. Cardinality(I) -> I]
    /\ \A i \in I : \E k \in 1 .. Cardinality(I) : o[k] = i
    /\ \A j, k \in 1 .. Cardinality(I) : o[j] = o[k] => j = k
    /\ t = [k \in 1 .. Cardinality(I) |-> s[o[k]]]

LEMMA ArrangedInOrder ==
    ASSUME NEW s, NEW I, IsFiniteSet(I), NEW R, Orders(R, I), NEW o, o = SortedBy(I, R),
           NEW t, t = [k \in DOMAIN o |-> s[o[k]]]
    PROVE  /\ Arranges(t, o, s, I)
           /\ \A j, k \in 1 .. Cardinality(I) : j < k => <<o[j], o[k]>> \in R
<1>1. InOrder(o, R, I)
      BY SortedByFacts
<1> QED BY <1>1 DEF InOrder, Arranges

LEMMA KeptFacts ==
    ASSUME NEW s, NEW I, IsFiniteSet(I), I \subseteq Int
    PROVE  \E o : /\ Arranges(Kept(s, I), o, s, I)
                  /\ \A j, k \in 1 .. Cardinality(I) : j < k => o[j] < o[k]
<1> DEFINE R == {p \in I \X I : p[1] < p[2]}
           o == SortedBy(I, R)
<1>1. Kept(s, I) = [k \in DOMAIN o |-> s[o[k]]]
      BY DEF Kept
<1>2. Orders(R, I) /\ \A i, j \in I : <<i, j>> \in R => i < j
      BY DEF Orders
<1> DEFINE p == o
<1>3. p = SortedBy(I, R) /\ Kept(s, I) = [k \in DOMAIN p |-> s[p[k]]]
      BY <1>1
<1> HIDE DEF R, p
<1>4. /\ Arranges(Kept(s, I), p, s, I)
      /\ \A j, k \in 1 .. Cardinality(I) : j < k => <<p[j], p[k]>> \in R
      BY <1>2, <1>3, ArrangedInOrder
<1>5. ASSUME NEW j \in 1 .. Cardinality(I), NEW k \in 1 .. Cardinality(I), j < k PROVE p[j] < p[k]
  <2>1. p[j] \in I /\ p[k] \in I
        BY <1>4 DEF Arranges
  <2> QED BY <1>2, <1>4, <1>5, <2>1
<1> QED BY <1>4, <1>5

LEMMA ByStartFacts ==
    ASSUME NEW s, NEW I, IsFiniteSet(I), I \subseteq Int, \A i \in I : s[i].from \in Int
    PROVE  \E o : /\ Arranges(ByStart(s, I), o, s, I)
                  /\ \A j, k \in 1 .. Cardinality(I) : j < k => StartsFirst(s, o[j], o[k])
<1> DEFINE R == {p \in I \X I : StartsFirst(s, p[1], p[2])}
           o == SortedBy(I, R)
<1>1. ByStart(s, I) = [k \in DOMAIN o |-> s[o[k]]]
      BY DEF ByStart
<1>2. \A i, j \in I : <<i, j>> \in R <=> StartsFirst(s, i, j)
      BY DEF StartsFirst
<1>3. /\ \A i \in I : ~StartsFirst(s, i, i)
      /\ \A i, j \in I : i # j => StartsFirst(s, i, j) \/ StartsFirst(s, j, i)
      /\ \A i, j, k \in I : StartsFirst(s, i, j) /\ StartsFirst(s, j, k) => StartsFirst(s, i, k)
  <2> DEFINE v == [i \in I |-> s[i].from]
  <2>1. \A i \in I : v[i] \in Int /\ i \in Int
        OBVIOUS
  <2>2. \A i, j \in I : StartsFirst(s, i, j) <=> v[i] < v[j] \/ (v[i] = v[j] /\ i < j)
        BY DEF StartsFirst
  <2> HIDE DEF v
  <2>3. \A i \in I : ~StartsFirst(s, i, i)
        BY <2>1, <2>2
  <2>4. ASSUME NEW i \in I, NEW j \in I, i # j PROVE StartsFirst(s, i, j) \/ StartsFirst(s, j, i)
        BY <2>1, <2>2, <2>4
  <2>5. ASSUME NEW i \in I, NEW j \in I, NEW k \in I, StartsFirst(s, i, j), StartsFirst(s, j, k)
        PROVE  StartsFirst(s, i, k)
    <3>1. v[i] < v[j] \/ (v[i] = v[j] /\ i < j)
          BY <2>2, <2>5
    <3>2. v[j] < v[k] \/ (v[j] = v[k] /\ j < k)
          BY <2>2, <2>5
    <3> DEFINE vi == v[i]
               vj == v[j]
               vk == v[k]
    <3>3. vi \in Int /\ vj \in Int /\ vk \in Int /\ i \in Int /\ j \in Int /\ k \in Int
          BY <2>1
    <3>4. vi < vk \/ (vi = vk /\ i < k)
      <4>1. vi < vj \/ (vi = vj /\ i < j)
            BY <3>1
      <4>2. vj < vk \/ (vj = vk /\ j < k)
            BY <3>2
      <4> HIDE DEF vi, vj, vk
      <4> QED BY <3>3, <4>1, <4>2
    <3> QED BY <2>2, <3>4
  <2> QED BY <2>3, <2>4, <2>5
<1> DEFINE p == o
<1>4. p = SortedBy(I, R) /\ ByStart(s, I) = [k \in DOMAIN p |-> s[p[k]]]
      BY <1>1
<1> HIDE DEF R, p
<1>5. Orders(R, I)
      BY <1>2, <1>3 DEF Orders
<1>6. /\ Arranges(ByStart(s, I), p, s, I)
      /\ \A j, k \in 1 .. Cardinality(I) : j < k => <<p[j], p[k]>> \in R
      BY <1>4, <1>5, ArrangedInOrder
<1>7. ASSUME NEW j \in 1 .. Cardinality(I), NEW k \in 1 .. Cardinality(I), j < k
      PROVE  StartsFirst(s, p[j], p[k])
  <2>1. p[j] \in I /\ p[k] \in I
        BY <1>6 DEF Arranges
  <2> QED BY <1>2, <1>6, <1>7, <2>1
<1> QED BY <1>6, <1>7

-----------------------------------------------------------------------------
(* Sets as sequences, and sequences of sequences.                               *)

LEMMA SetToSeqFacts ==
    ASSUME NEW S, IsFiniteSet(S)
    PROVE  /\ Cardinality(S) \in Nat
           /\ SetToSeq(S) \in [1 .. Cardinality(S) -> S]
           /\ SetToSeq(S) \in Seq(S) /\ Len(SetToSeq(S)) = Cardinality(S)
           /\ \A i, j \in 1 .. Cardinality(S) : SetToSeq(S)[i] = SetToSeq(S)[j] => i = j
           /\ \A x \in S : \E i \in 1 .. Cardinality(S) : SetToSeq(S)[i] = x
<1> DEFINE n == Cardinality(S)
           s == SetToSeq(S)
<1>1. n \in Nat /\ ExistsBijection(1 .. n, S)
      BY FS_CardinalityType
<1>2. \E f \in [1 .. n -> S] : IsInjective(f)
      BY <1>1 DEF ExistsBijection, Bijection, Injection
<1>3. s \in [1 .. n -> S] /\ IsInjective(s)
      BY <1>2 DEF SetToSeq
<1>4. IsFiniteSet(1 .. n) /\ Cardinality(1 .. n) = n
  <2> HIDE DEF n
  <2>1. 1 \in Int /\ n \in Int /\ n >= 0
        BY <1>1
  <2>2. IsFiniteSet(1 .. n) /\ Cardinality(1 .. n) = IF 1 > n THEN 0 ELSE n - 1 + 1
        BY <2>1, FS_Interval
  <2> QED BY <2>1, <2>2
<1>5. s \in Injection(1 .. n, S)
      BY <1>3 DEF Injection
<1>6. s \in Surjection(1 .. n, S)
  <2> HIDE DEF n, s
  <2>1. Cardinality(1 .. n) = Cardinality(S)
        BY <1>4 DEF n
  <2> QED BY <1>5, <2>1, FS_Injection
<1>7. \A x \in S : \E i \in 1 .. n : s[i] = x
      BY <1>6 DEF Surjection
<1>8. s \in Seq(S) /\ Len(s) = n
      BY <1>1, <1>3
<1>9. \A i, j \in 1 .. n : s[i] = s[j] => i = j
      BY <1>3 DEF IsInjective
<1> QED BY <1>1, <1>3, <1>7, <1>8, <1>9

\* v holds what the first k sequences hold, and nothing else.
Joins(v, ss, k, X) ==
    /\ v \in Seq(X)
    /\ \A i \in DOMAIN v : \E m \in 1 .. k : \E j \in DOMAIN ss[m] : v[i] = ss[m][j]
    /\ \A m \in 1 .. k : \A j \in DOMAIN ss[m] : \E i \in DOMAIN v : v[i] = ss[m][j]

LEMMA FlattenFacts ==
    ASSUME NEW X, NEW ss \in Seq(Seq(X))
    PROVE  /\ FlattenSeq(ss) \in Seq(X)
           /\ \A i \in DOMAIN FlattenSeq(ss) :
                 \E k \in DOMAIN ss : \E j \in DOMAIN ss[k] : FlattenSeq(ss)[i] = ss[k][j]
           /\ \A k \in DOMAIN ss : \A j \in DOMAIN ss[k] :
                 \E i \in DOMAIN FlattenSeq(ss) : FlattenSeq(ss)[i] = ss[k][j]
<1> DEFINE n == Len(ss)
           It(f) == f = [i \in 1 .. n |-> IF i = 1 THEN ss[i] ELSE f[i - 1] \o ss[i]]
           f == CHOOSE f : It(f)
<1>0. n \in Nat /\ DOMAIN ss = 1 .. n /\ \A k \in 1 .. n : ss[k] \in Seq(X)
      OBVIOUS
<1>1. CASE n = 0
      BY <1>0, <1>1 DEF FlattenSeq
<1>2. CASE n # 0
  <2>1. FlattenSeq(ss) = f[n]
        BY <1>2 DEF FlattenSeq
  <2>2. \E g : It(g)
    <3> DEFINE Y == Seq(X)
               base == <<>>
               step == [p \in (1 .. n) \X Y |-> p[2] \o ss[p[1]]]
    <3>1. base \in Y
          OBVIOUS
    <3>2. StepsInto(step, 1 .. n, Y)
          BY <1>0 DEF StepsInto
    <3>3. PICK h : /\ \A k \in 0 .. n : h[k] \in Y
                   /\ h[0] = base
                   /\ \A k \in 1 .. n : h[k] = step[<<k, h[k - 1]>>]
      <4> HIDE DEF base, step, Y, n
      <4>1. \E h : Chains(h, n, base, step) /\ \A k \in 0 .. n : h[k] \in Y
            BY <1>0, <3>1, <3>2, ChainExists
      <4> QED BY <4>1 DEF Chains
    <3>4. ASSUME NEW k \in 1 .. n PROVE h[k] = h[k - 1] \o ss[k] /\ h[k] \in Seq(X)
      <4>1. k - 1 \in 0 .. n /\ k \in 0 .. n
        <5> HIDE DEF n
        <5> QED BY <1>0
      <4>2. h[k - 1] \in Y /\ h[k] \in Y
        <5> HIDE DEF step, Y
        <5> QED BY <3>3, <4>1
      <4>3. step[<<k, h[k - 1]>>] = h[k - 1] \o ss[k]
            BY <4>2
      <4> HIDE DEF step
      <4> QED BY <3>3, <4>2, <4>3
    <3> DEFINE g == [k \in 1 .. n |-> h[k]]
    <3>5. ASSUME NEW k \in 1 .. n PROVE g[k] = IF k = 1 THEN ss[k] ELSE g[k - 1] \o ss[k]
      <4>1. CASE k = 1
        <5>0. 1 - 1 = 0 /\ ss[1] \in Seq(X)
              BY <1>0, <4>1
        <5>1. h[1] = <<>> \o ss[1]
          <6> HIDE DEF n, step
          <6> QED BY <3>3, <3>4, <4>1, <5>0
        <5> QED BY <4>1, <5>1
      <4>2. CASE k # 1
        <5>1. k - 1 \in 1 .. n
              BY <1>0, <4>2
        <5> QED BY <3>4, <4>2, <5>1
      <4> QED BY <4>1, <4>2
    <3>6. g = [i \in 1 .. n |-> g[i]]
          OBVIOUS
    <3> HIDE DEF g
    <3>7. It(g)
          BY <3>5, <3>6
    <3> QED BY <3>7
  <2>3. It(f)
        BY <2>2
  <2> HIDE DEF f
  <2> DEFINE T == {k \in Nat : k + 1 \in 1 .. n => Joins(f[k + 1], ss, k + 1, X)}
  <2>4. 0 \in T
    <3>1. f[1] = ss[1] /\ 1 .. 1 = {1} /\ 1 \in 1 .. n
          BY <1>0, <1>2, <2>3
    <3> QED BY <1>0, <3>1 DEF Joins
  <2>5. ASSUME NEW k \in Nat, k \in T PROVE k + 1 \in T
    <3>0. (k + 1) + 1 = k + 2
          OBVIOUS
    <3> SUFFICES ASSUME k + 2 \in 1 .. n PROVE Joins(f[k + 2], ss, k + 2, X)
        BY <3>0
    <3>1. k + 1 \in 1 .. n
      <4> HIDE DEF n
      <4> QED BY <1>0
    <3>9. Joins(f[k + 1], ss, k + 1, X)
          BY <2>5, <3>1
    <3> DEFINE a == f[k + 1]
               b == ss[k + 2]
    <3>2. a \in Seq(X) /\ b \in Seq(X) /\ f[k + 2] = a \o b
      <4>1. k + 2 # 1 /\ (k + 2) - 1 = k + 1
            OBVIOUS
      <4>2. f[k + 2] = f[(k + 2) - 1] \o ss[k + 2]
        <5> HIDE DEF n
        <5> QED BY <2>3, <4>1
      <4> QED BY <1>0, <3>9, <4>1, <4>2 DEF Joins
    <3> HIDE DEF a, b
    <3>3. /\ a \o b \in Seq(X) /\ DOMAIN (a \o b) = 1 .. Len(a) + Len(b)
          /\ \A i \in 1 .. Len(a) + Len(b) : (a \o b)[i] = IF i <= Len(a) THEN a[i] ELSE b[i - Len(a)]
          BY <3>2
    <3>4. DOMAIN a = 1 .. Len(a) /\ DOMAIN b = 1 .. Len(b) /\ Len(a) \in Nat /\ Len(b) \in Nat
          BY <3>2
    <3>5. ASSUME NEW i \in DOMAIN (a \o b)
          PROVE  \E m \in 1 .. k + 2 : \E j \in DOMAIN ss[m] : (a \o b)[i] = ss[m][j]
      <4>1. CASE i <= Len(a)
        <5>1. i \in DOMAIN a /\ (a \o b)[i] = a[i]
              BY <3>3, <3>4, <4>1
        <5>2. PICK m \in 1 .. k + 1 : \E j \in DOMAIN ss[m] : a[i] = ss[m][j]
              BY <3>9, <5>1 DEF a, Joins
        <5>3. m \in 1 .. k + 2
              OBVIOUS
        <5> QED BY <5>1, <5>2, <5>3
      <4>2. CASE ~(i <= Len(a))
        <5>1. i - Len(a) \in DOMAIN b /\ (a \o b)[i] = b[i - Len(a)]
              BY <3>3, <3>4, <4>2
        <5>2. k + 2 \in 1 .. k + 2
              OBVIOUS
        <5> QED BY <5>1, <5>2 DEF b
      <4> QED BY <4>1, <4>2
    <3>6. ASSUME NEW m \in 1 .. k + 2, NEW j \in DOMAIN ss[m]
          PROVE  \E i \in DOMAIN (a \o b) : (a \o b)[i] = ss[m][j]
      <4>1. CASE m = k + 2
        <5>1. j \in DOMAIN b /\ ss[m][j] = b[j]
              BY <4>1 DEF b
        <5>2. j + Len(a) \in DOMAIN (a \o b) /\ (a \o b)[j + Len(a)] = b[j]
              BY <3>3, <3>4, <5>1
        <5> QED BY <5>1, <5>2
      <4>2. CASE m # k + 2
        <5>1. m \in 1 .. k + 1
              BY <4>2
        <5>2. PICK i \in DOMAIN a : a[i] = ss[m][j]
              BY <3>9, <5>1 DEF a, Joins
        <5>3. i \in DOMAIN (a \o b) /\ (a \o b)[i] = a[i]
              BY <3>3, <3>4
        <5> QED BY <5>2, <5>3
      <4> QED BY <4>1, <4>2
    <3> DEFINE c == a \o b
    <3>7. c \in Seq(X) /\ f[k + 2] = c
          BY <3>2, <3>3
    <3> HIDE DEF c
    <3>8. Joins(c, ss, k + 2, X)
      <4>1. ASSUME NEW i \in DOMAIN c
            PROVE  \E m \in 1 .. k + 2 : \E j \in DOMAIN ss[m] : c[i] = ss[m][j]
            BY <3>5 DEF c
      <4>2. ASSUME NEW m \in 1 .. k + 2, NEW j \in DOMAIN ss[m]
            PROVE  \E i \in DOMAIN c : c[i] = ss[m][j]
            BY <3>6 DEF c
      <4> QED BY <3>7, <4>1, <4>2 DEF Joins
    <3> QED BY <3>7, <3>8
  <2> HIDE DEF T
  <2>6. \A k \in Nat : k \in T
        BY <2>4, <2>5, NumberInduction
  <2>7. Joins(f[n], ss, n, X)
    <3>1. n - 1 \in Nat /\ (n - 1) + 1 = n /\ n \in 1 .. n
          BY <1>0, <1>2
    <3>2. n - 1 \in T
          BY <2>6, <3>1
    <3> QED BY <3>1, <3>2 DEF T
  <2> QED
    <3>1. f[n] = FlattenSeq(ss)
          BY <2>1
    <3>2. Joins(FlattenSeq(ss), ss, n, X) /\ DOMAIN ss = 1 .. n
          BY <1>0, <2>7, <3>1
    <3> HIDE DEF n
    <3> QED BY <3>2 DEF Joins
<1> QED BY <1>1, <1>2
=============================================================================
