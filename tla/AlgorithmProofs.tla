---------------------------- MODULE AlgorithmProofs ----------------------------
(***************************************************************************)
(* What is computed in one step, for every input: the frames and the sheets   *)
(* of MediaOperators, the documents, tables and manifests of BenchmarkAdapters, *)
(* the groups and the rankings of RecordOperators.                           *)
(***************************************************************************)
EXTENDS MediaOperators, BenchmarkAdapters, FiniteSetTheorems,
        SequenceTheorems, WellFoundedInduction, TLAPS

-----------------------------------------------------------------------------
(* Numbers and sequences. *)

\* What is multiplied keeps its order.
LEMMA Times ==
  ASSUME NEW a \in Nat, NEW b \in Nat, NEW k \in Nat, a <= b
  PROVE  a * k \in Nat /\ b * k \in Nat /\ a * k <= b * k
<1>1. PICK d \in Nat : b = a + d
  <2>1. b - a \in Nat /\ b = a + (b - a)
    OBVIOUS
  <2> QED BY <2>1
<1>2. d * k \in Nat /\ a * k \in Nat
  OBVIOUS
<1>3. b * k = a * k + d * k
  BY <1>1
<1> QED BY <1>2, <1>3

\* Division with a remainder.
LEMMA Division ==
  ASSUME NEW a \in Nat, NEW b \in Nat \ {0}
  PROVE  /\ a \div b \in Nat /\ a % b \in 0..(b - 1)
         /\ a = b * (a \div b) + (a % b)
OBVIOUS

\* A quotient of something that is at most k times the divisor.
LEMMA DivisionBound ==
  ASSUME NEW a \in Nat, NEW b \in Nat \ {0}, NEW k \in Nat, a <= k * b
  PROVE  a \div b \in 0..k
<1> DEFINE q == a \div b
<1>1. q \in Nat /\ b * q <= a
  BY Division
<1> HIDE DEF q
<1>2. ~(q > k)
  <2> SUFFICES ASSUME k + 1 <= q PROVE FALSE
    BY <1>1
  <2>1. (k + 1) * b <= q * b
    BY <1>1, Times
  <2>2. (k + 1) * b = k * b + b /\ q * b = b * q /\ k * b \in Nat /\ b * q \in Nat
    BY <1>1
  <2> QED BY <1>1, <2>1, <2>2
<1>3. q \in 0..k
  BY <1>1, <1>2
<1> QED BY <1>3 DEF q

\* The lesser of two numbers.
LEMMA MinOfTwo ==
  ASSUME NEW x \in Int, NEW y \in Int
  PROVE  Min({x, y}) = IF x <= y THEN x ELSE y
<1>1. \A m \in {x, y} : (\A z \in {x, y} : m =< z) => m = IF x <= y THEN x ELSE y
  OBVIOUS
<1>2. \E m \in {x, y} : \A z \in {x, y} : m =< z
  OBVIOUS
<1> QED BY <1>1, <1>2 DEF Min

\* A function has different values at the numbers up to n.
Differs(f, n) == 1..n \subseteq DOMAIN f /\ \A i, j \in 1..n : f[i] = f[j] => i = j

\* Different values of a function, counted.
LEMMA ImageCounts ==
  ASSUME NEW n \in Nat, NEW f, Differs(f, n)
  PROVE  /\ IsFiniteSet({f[i] : i \in 1..n})
         /\ Cardinality({f[i] : i \in 1..n}) = n
<1> DEFINE T == {f[i] : i \in 1..n}
           g == [i \in 1..n |-> f[i]]
<1>1. IsFiniteSet(1..n) /\ Cardinality(1..n) = n
  <2>1. IsFiniteSet(1..n) /\ Cardinality(1..n) = IF 1 > n THEN 0 ELSE n - 1 + 1
    BY FS_Interval
  <2> QED BY <2>1
<1>2. g \in Bijection(1..n, T)
  <2>1. g \in [1..n -> T] /\ \A i, j \in 1..n : g[i] = g[j] => i = j
    BY DEF Differs
  <2>2. \A x \in T : \E i \in 1..n : g[i] = x
    OBVIOUS
  <2> HIDE DEF g, T
  <2> QED BY <2>1, <2>2, Zenon DEF Bijection, Injection, Surjection, IsInjective
<1>3. ExistsBijection(1..n, T)
  BY <1>2, Zenon DEF ExistsBijection
<1> HIDE DEF T
<1>4. IsFiniteSet(T) /\ Cardinality(T) = n
  <2>1. IsFiniteSet(T) /\ Cardinality(T) = Cardinality(1..n)
    BY <1>1, <1>3, FS_Bijection, Zenon
  <2> QED BY <1>1, <2>1
<1> QED BY <1>4 DEF T

\* A part of a sequence is a sequence.
LEMMA PartOfSequence ==
  ASSUME NEW S, NEW s \in Seq(S), NEW m \in Nat \ {0}, NEW n \in Int, n <= Len(s)
  PROVE  SubSeq(s, m, n) \in Seq(Range(SubSeq(s, m, n)))
<1> DEFINE t == SubSeq(s, m, n)
<1>1. t \in Seq(S)
  <2>1. CASE m <= n
    <3>1. m \in 1..Len(s) /\ n \in 1..Len(s)
      BY <2>1
    <3> QED BY <3>1
  <2>2. CASE ~(m <= n)
    <3>1. t = <<>>
      BY <2>2
    <3> QED BY <3>1
  <2> QED BY <2>1, <2>2
<1> HIDE DEF t
<1>2. t \in Seq(Range(t))
  BY <1>1 DEF Range
<1> QED BY <1>2 DEF t

-----------------------------------------------------------------------------
(* Induction, folds, orders and flattened sequences. *)

\* Induction up to a number, for a set that is given.
LEMMA Induction ==
  ASSUME NEW n \in Nat, NEW G, 0 \in G, \A k \in 1..n : k - 1 \in G => k \in G
  PROVE  \A k \in 0..n : k \in G
<1> DEFINE R == {ss \in Nat \X Nat : ss[1] < ss[2]}
           without == {k \in 0..n : k \notin G}
<1>1. IsWellFoundedOn(R, Nat)
  BY NatLessThanWellFounded DEF OpToRel
<1>2. ASSUME without # {} PROVE FALSE
  <2>1. PICK least \in without : \A k \in without : <<k, least>> \notin R
    <3>1. without \in SUBSET Nat
      OBVIOUS
    <3> HIDE DEF R, without
    <3> QED BY <1>1, <1>2, <3>1, WFMin, Zenon
  <2>2. least \in 1..n /\ least - 1 \in 0..n /\ <<least - 1, least>> \in R
    OBVIOUS
  <2>3. least - 1 \in G
    BY <2>1, <2>2
  <2> QED BY <2>1, <2>2, <2>3
<1> QED BY <1>2

\* The recursion of a fold with steps on a set.
Folds(X, step, base, n, g) ==
  /\ g \in [SUBSET (1..n) -> X]
  /\ \A T \in SUBSET (1..n) : g[T] = IF T = {} THEN base ELSE step[Max(T)][g[T \ {Max(T)}]]

\* The greatest of a set that has the greatest number there is.
LEMMA MaxOf ==
  ASSUME NEW n \in Nat, NEW T, n + 1 \in T, T \in SUBSET (1..(n + 1))
  PROVE  Max(T) = n + 1
<1>1. \A x \in T : n + 1 >= x
  OBVIOUS
<1>2. ASSUME NEW y \in T, \A x \in T : y >= x PROVE y = n + 1
  BY <1>1, <1>2
<1> QED BY <1>1, <1>2, Zenon DEF Max

\* A greatest number.
LEMMA MaxExists ==
  ASSUME NEW n \in Nat, NEW T \in SUBSET (1..n), T # {}
  PROVE  Max(T) \in T /\ \A x \in T : Max(T) >= x
<1> DEFINE G == {k \in 0..n : \A S \in SUBSET (1..k) : S # {} => \E m \in S : \A x \in S : m >= x}
<1>1. 0 \in G
  <2>1. 1..0 = {}
    OBVIOUS
  <2>2. \A S \in SUBSET (1..0) : S = {}
    BY <2>1
  <2>3. 0 \in 0..n
    OBVIOUS
  <2> QED BY <2>2, <2>3, Zenon
<1>2. ASSUME NEW k \in 1..n, k - 1 \in G PROVE k \in G
  <2> SUFFICES ASSUME NEW S \in SUBSET (1..k), S # {}
               PROVE  \E m \in S : \A x \in S : m >= x
    OBVIOUS
  <2>1. CASE k \in S
    <3>1. \A x \in S : k >= x
      OBVIOUS
    <3> QED BY <2>1, <3>1
  <2>2. CASE k \notin S
    <3>1. S \in SUBSET (1..(k - 1))
      BY <2>2
    <3> QED BY <1>2, <3>1
  <2> QED BY <2>1, <2>2
<1> HIDE DEF G
<1>3. n \in G
  BY <1>1, <1>2, Induction
<1>4. \E m \in T : \A x \in T : m >= x
  BY <1>3 DEF G
<1> QED BY <1>4, Zenon DEF Max

\* The greatest of the first k numbers, and what is left without it.
LEMMA MaxOfInterval ==
  ASSUME NEW k \in Nat \ {0}
  PROVE  Max(1..k) = k /\ (1..k) \ {k} = 1..(k - 1) /\ 1..k # {}
<1>1. (k - 1) + 1 = k /\ k - 1 \in Nat
  OBVIOUS
<1>2. Max(1..k) = k
  <2>1. (k - 1) + 1 \in 1..k /\ 1..k \in SUBSET (1..((k - 1) + 1))
    OBVIOUS
  <2>2. Max(1..k) = (k - 1) + 1
    BY <1>1, <2>1, MaxOf, Zenon
  <2> QED BY <1>1, <2>2
<1>3. \A x : x \in (1..k) \ {k} <=> x \in 1..(k - 1)
  OBVIOUS
<1>4. k \in 1..k
  OBVIOUS
<1> QED BY <1>2, <1>3, <1>4

\* A recursion is carried on by one step.
LEMMA FoldsExtend ==
  ASSUME NEW X, NEW base \in X, NEW n \in Nat, NEW step, NEW g, Folds(X, step, base, n, g),
         step[n + 1] \in [X -> X]
  PROVE  \E h : Folds(X, step, base, n + 1, h)
<1> DEFINE h == [T \in SUBSET (1..(n + 1)) |->
                   IF n + 1 \in T THEN step[n + 1][g[T \ {n + 1}]] ELSE g[T]]
<1>1. \A T \in SUBSET (1..n) : g[T] \in X
  BY DEF Folds
<1>2. ASSUME NEW T \in SUBSET (1..(n + 1))
      PROVE  /\ h[T] \in X
             /\ h[T] = IF T = {} THEN base ELSE step[Max(T)][h[T \ {Max(T)}]]
  <2>1. CASE n + 1 \in T
    <3>1. Max(T) = n + 1
      BY <2>1, MaxOf, Zenon
    <3>2. /\ T \ {n + 1} \in SUBSET (1..(n + 1)) /\ T \ {n + 1} \in SUBSET (1..n)
          /\ n + 1 \notin T \ {n + 1} /\ T # {}
      <4>1. \A x \in 1..(n + 1) : x # n + 1 => x \in 1..n
        OBVIOUS
      <4> QED BY <2>1, <4>1, Zenon
    <3>3. h[T \ {n + 1}] = g[T \ {n + 1}]
      BY <3>2
    <3>4. h[T] = step[n + 1][g[T \ {n + 1}]]
      BY <2>1
    <3>5. g[T \ {n + 1}] \in X
      BY <1>1, <3>2
    <3> HIDE DEF h
    <3> QED BY <3>1, <3>2, <3>3, <3>4, <3>5, Zenon
  <2>2. CASE n + 1 \notin T
    <3>1. T \in SUBSET (1..n)
      BY <2>2
    <3>2. g[T] = IF T = {} THEN base ELSE step[Max(T)][g[T \ {Max(T)}]]
      BY <3>1, Zenon DEF Folds
    <3>3. h[T] = g[T] /\ h[T \ {Max(T)}] = g[T \ {Max(T)}]
      BY <2>2, Zenon
    <3> HIDE DEF h
    <3> QED BY <1>1, <3>1, <3>2, <3>3
  <2> QED BY <2>1, <2>2
<1>3. h = [T \in SUBSET (1..(n + 1)) |-> h[T]]
  OBVIOUS
<1> HIDE DEF h
<1>4. h \in [SUBSET (1..(n + 1)) -> X]
  BY <1>2, <1>3, Zenon
<1> QED BY <1>2, <1>4, Zenon DEF Folds

\* The recursion of a fold has a solution.
LEMMA FoldsExist ==
  ASSUME NEW X, NEW base \in X, NEW n \in Nat, NEW step, \A k \in 1..n : step[k] \in [X -> X]
  PROVE  \E g : Folds(X, step, base, n, g)
<1> DEFINE G == {k \in 0..n : \E g : Folds(X, step, base, k, g)}
<1>1. 0 \in G
  <2> DEFINE g == [T \in SUBSET (1..0) |-> base]
  <2>1. \A T \in SUBSET (1..0) : T = {}
    OBVIOUS
  <2>2. Folds(X, step, base, 0, g)
    BY <2>1 DEF Folds
  <2> HIDE DEF g
  <2> QED BY <2>2
<1>2. ASSUME NEW k \in 1..n, k - 1 \in G PROVE k \in G
  <2>1. PICK g : Folds(X, step, base, k - 1, g)
    BY <1>2
  <2>2. k - 1 \in Nat /\ (k - 1) + 1 = k /\ step[k] \in [X -> X]
    OBVIOUS
  <2>3. \E h : Folds(X, step, base, (k - 1) + 1, h)
    BY <2>1, <2>2, FoldsExtend
  <2> QED BY <2>2, <2>3
<1> HIDE DEF G
<1>3. n \in G
  BY <1>1, <1>2, Induction
<1> QED BY <1>3 DEF G

\* A sum of numbers is a number.
SumsOver(numbers, g) ==
  g = [T \in SUBSET DOMAIN numbers |->
         IF T = {} THEN 0 ELSE g[T \ {Max(T)}] + numbers[Max(T)]]

\* Total is that fold with the sum.
LEMMA TotalAdds ==
  ASSUME NEW n \in Nat, NEW numbers \in [1..n -> Int]
  PROVE  \E sums \in [0..n -> Int] :
           /\ sums[0] = 0 /\ Total(numbers) = sums[n]
           /\ \A k \in 1..n : sums[k] = sums[k - 1] + numbers[k]
<1> DEFINE step == [k \in 1..n |-> [total \in Int |-> total + numbers[k]]]
           iter == CHOOSE g : SumsOver(numbers, g)
<1>1. Total(numbers) = iter[DOMAIN numbers]
  BY DEF Total, FoldLeft, MapThenFoldSet, SumsOver
<1>2. \A k \in 1..n : step[k] \in [Int -> Int]
  OBVIOUS
<1>3. \E g : SumsOver(numbers, g)
  <2>1. PICK g : Folds(Int, step, 0, n, g)
    <3>1. 0 \in Int
      OBVIOUS
    <3> HIDE DEF step
    <3> QED BY <1>2, <3>1, FoldsExist, Zenon
  <2>2. ASSUME NEW T \in SUBSET (1..n)
        PROVE  g[T] = IF T = {} THEN 0 ELSE g[T \ {Max(T)}] + numbers[Max(T)]
    <3>1. CASE T = {}
      BY <2>1, <3>1, Zenon DEF Folds
    <3>2. CASE T # {}
      <4>1. g[T] = step[Max(T)][g[T \ {Max(T)}]]
        BY <2>1, <3>2, Zenon DEF Folds
      <4>2. g[T \ {Max(T)}] \in Int /\ Max(T) \in 1..n
        <5>1. Max(T) \in T /\ T \ {Max(T)} \in SUBSET (1..n)
          BY <3>2, MaxExists, Zenon
        <5> QED BY <2>1, <5>1, Zenon DEF Folds
      <4> DEFINE m == Max(T)  before == g[T \ {Max(T)}]
      <4>3. step[m][before] = before + numbers[m]
        <5> HIDE DEF m, before
        <5> QED BY <4>2 DEF m, before
      <4> QED BY <3>2, <4>1, <4>3, Zenon
    <3> QED BY <3>1, <3>2
  <2>3. g = [T \in SUBSET (1..n) |-> g[T]] /\ DOMAIN numbers = 1..n
    BY <2>1 DEF Folds
  <2>4. SumsOver(numbers, g)
    <3> HIDE DEF step
    <3> QED BY <2>2, <2>3, Zenon DEF SumsOver
  <2> QED BY <2>4, Zenon
<1>4. SumsOver(numbers, iter)
  BY <1>3, Zenon
<1> HIDE DEF iter
<1>5. \A T \in SUBSET (1..n) :
        iter[T] = IF T = {} THEN 0 ELSE iter[T \ {Max(T)}] + numbers[Max(T)]
  <2>1. DOMAIN numbers = 1..n
    OBVIOUS
  <2> QED BY <1>4, <2>1, Zenon DEF SumsOver
<1>6. iter[1..0] = 0
  <2>1. 1..0 = {} /\ {} \in SUBSET (1..n)
    OBVIOUS
  <2>2. iter[{}] = 0
    BY <1>5, <2>1, Zenon
  <2> QED BY <2>1, <2>2
<1>7. ASSUME NEW k \in 1..n PROVE iter[1..k] = iter[1..(k - 1)] + numbers[k]
  <2>1. Max(1..k) = k /\ (1..k) \ {k} = 1..(k - 1) /\ 1..k # {} /\ 1..k \in SUBSET (1..n)
    <3>1. k \in Nat \ {0} /\ 1..k \in SUBSET (1..n)
      OBVIOUS
    <3> QED BY <3>1, MaxOfInterval, Zenon
  <2> QED BY <1>5, <2>1, Zenon
<1>8. \A k \in 0..n : iter[1..k] \in Int
  <2> DEFINE G == {k \in 0..n : iter[1..k] \in Int}
  <2>1. 0 \in G
    <3>1. 0 \in 0..n
      OBVIOUS
    <3> QED BY <1>6, <3>1
  <2>2. ASSUME NEW k \in 1..n, k - 1 \in G PROVE k \in G
    <3>1. iter[1..(k - 1)] \in Int /\ numbers[k] \in Int
      BY <2>2
    <3>2. iter[1..k] \in Int
      BY <1>7, <3>1
    <3> QED BY <3>2
  <2> HIDE DEF G
  <2>3. \A k \in 0..n : k \in G
    BY <2>1, <2>2, Induction, Zenon
  <2> QED BY <2>3 DEF G
<1> DEFINE sums == [k \in 0..n |-> iter[1..k]]
<1>9. sums \in [0..n -> Int] /\ \A k \in 0..n : sums[k] = iter[1..k]
  BY <1>8
<1> HIDE DEF sums
<1>10. sums[0] = 0 /\ Total(numbers) = sums[n]
  <2>1. 0 \in 0..n /\ n \in 0..n /\ DOMAIN numbers = 1..n
    OBVIOUS
  <2> QED BY <1>1, <1>6, <1>9, <2>1
<1>11. \A k \in 1..n : sums[k] = sums[k - 1] + numbers[k]
  <2> SUFFICES ASSUME NEW k \in 1..n PROVE sums[k] = sums[k - 1] + numbers[k]
    OBVIOUS
  <2>1. k \in 0..n /\ k - 1 \in 0..n
    OBVIOUS
  <2> QED BY <1>7, <1>9, <2>1, Zenon
<1> QED BY <1>9, <1>10, <1>11, Zenon

\* A sum of naturals is positive if one of them is.
LEMMA TotalIsPositive ==
  ASSUME NEW n \in Nat, NEW numbers \in [1..n -> Nat]
  PROVE  Total(numbers) \in Nat /\ (Total(numbers) > 0 <=> \E k \in 1..n : numbers[k] > 0)
<1>1. PICK sums \in [0..n -> Int] :
        /\ sums[0] = 0 /\ Total(numbers) = sums[n]
        /\ \A k \in 1..n : sums[k] = sums[k - 1] + numbers[k]
  <2>1. numbers \in [1..n -> Int]
    OBVIOUS
  <2> QED BY <2>1, TotalAdds, Zenon
<1> DEFINE G == {k \in 0..n : sums[k] \in Nat /\ (sums[k] > 0 <=> \E m \in 1..k : numbers[m] > 0)}
<1>2. 0 \in G
  <2>1. 1..0 = {} /\ 0 \in 0..n
    OBVIOUS
  <2> QED BY <1>1, <2>1
<1>3. ASSUME NEW k \in 1..n, k - 1 \in G PROVE k \in G
  <2>1. /\ sums[k - 1] \in Nat /\ numbers[k] \in Nat /\ k \in 0..n
        /\ sums[k - 1] > 0 <=> \E m \in 1..(k - 1) : numbers[m] > 0
    BY <1>3
  <2>2. sums[k] = sums[k - 1] + numbers[k]
    BY <1>1
  <2>3. (\E m \in 1..k : numbers[m] > 0) <=> (\E m \in 1..(k - 1) : numbers[m] > 0) \/ numbers[k] > 0
    <3>1. \A m : m \in 1..k <=> m \in 1..(k - 1) \/ m = k
      OBVIOUS
    <3> QED BY <3>1, Zenon
  <2>4. sums[k] \in Nat /\ (sums[k] > 0 <=> sums[k - 1] > 0 \/ numbers[k] > 0)
    <3>1. \A a, b \in Nat : a + b \in Nat /\ (a + b > 0 <=> a > 0 \/ b > 0)
      OBVIOUS
    <3> QED BY <2>1, <2>2, <3>1, Zenon
  <2> QED BY <2>1, <2>3, <2>4, Zenon
<1> HIDE DEF G
<1>4. n \in G
  <2>1. n \in 0..n
    OBVIOUS
  <2> QED BY <1>2, <1>3, <2>1, Induction, Zenon
<1> QED BY <1>1, <1>4 DEF G

\* A strict total order of a finite set: what comes before each of its elements.
Orders(ahead) ==
  /\ IsFiniteSet(DOMAIN ahead)
  /\ ahead \in [DOMAIN ahead -> SUBSET DOMAIN ahead]
  /\ \A x \in DOMAIN ahead : x \notin ahead[x]
  /\ \A x, y \in DOMAIN ahead : x \in ahead[y] => ahead[x] \subseteq ahead[y]
  /\ \A x, y \in DOMAIN ahead : x = y \/ x \in ahead[y] \/ y \in ahead[x]

\* One more than what comes before an element.
Ranks(ahead) == [x \in DOMAIN ahead |-> Cardinality(ahead[x]) + 1]

\* The ranks of the elements are 1, 2, ...
LEMMA RanksAreNumbers ==
  ASSUME NEW ahead, Orders(ahead)
  PROVE  /\ Cardinality(DOMAIN ahead) \in Nat
         /\ Ranks(ahead) \in Bijection(DOMAIN ahead, 1..Cardinality(DOMAIN ahead))
         /\ \A x, y \in DOMAIN ahead : x \in ahead[y] <=> Ranks(ahead)[x] < Ranks(ahead)[y]
<1> DEFINE S == DOMAIN ahead
           m == Cardinality(S)
           rank == Ranks(ahead)
<1>1. IsFiniteSet(S) /\ m \in Nat
  BY FS_CardinalityType DEF Orders
<1>2. ASSUME NEW x \in S
      PROVE  IsFiniteSet(ahead[x]) /\ Cardinality(ahead[x]) \in Nat /\ rank[x] \in 1..m
  <2>1. ahead[x] \in SUBSET (S \ {x})
    BY DEF Orders
  <2>2. IsFiniteSet(S \ {x}) /\ Cardinality(S \ {x}) = m - 1
    <3>1. IsFiniteSet(S \ {x}) /\ Cardinality(S \ {x}) = IF x \in S THEN m - 1 ELSE m
      BY <1>1, FS_RemoveElement
    <3> QED BY <3>1
  <2>3. IsFiniteSet(ahead[x]) /\ Cardinality(ahead[x]) <= m - 1
    BY <2>1, <2>2, FS_Subset
  <2>4. Cardinality(ahead[x]) \in Nat
    BY <2>3, FS_CardinalityType
  <2> QED BY <1>1, <2>3, <2>4 DEF Ranks
<1>3. ASSUME NEW x \in S, NEW y \in S, x \in ahead[y] PROVE rank[x] < rank[y]
  <2>1. ahead[x] \in SUBSET ahead[y] /\ ahead[x] # ahead[y]
    BY <1>3 DEF Orders
  <2>2. Cardinality(ahead[x]) <= Cardinality(ahead[y])
        /\ (Cardinality(ahead[y]) = Cardinality(ahead[x]) => ahead[y] = ahead[x])
    BY <1>2, <2>1, FS_Subset
  <2> QED BY <1>2, <2>1, <2>2 DEF Ranks
<1>4. rank \in [S -> 1..m]
  BY <1>2 DEF Ranks
<1>5. ASSUME NEW x \in S, NEW y \in S PROVE x = y \/ rank[x] < rank[y] \/ rank[y] < rank[x]
  BY <1>3 DEF Orders
<1>6. ASSUME NEW x \in S, NEW y \in S PROVE x \in ahead[y] <=> rank[x] < rank[y]
  <2>1. rank[x] \in Int /\ rank[y] \in Int
    BY <1>2
  <2> QED BY <1>3, <2>1 DEF Orders
<1>7. rank \in Injection(S, 1..m)
  <2>1. ASSUME NEW x \in S, NEW y \in S, rank[x] = rank[y] PROVE x = y
    <3>1. rank[x] \in Int /\ rank[y] \in Int
      BY <1>2
    <3> QED BY <1>5, <2>1, <3>1
  <2>2. DOMAIN rank = S
    BY DEF Ranks
  <2> HIDE DEF S, m, rank
  <2> QED BY <1>4, <2>1, <2>2, Zenon DEF Injection, IsInjective
<1>8. IsFiniteSet(1..m) /\ Cardinality(1..m) = m
  <2>1. IsFiniteSet(1..m) /\ Cardinality(1..m) = IF 1 > m THEN 0 ELSE m - 1 + 1
    BY <1>1, FS_Interval
  <2> QED BY <1>1, <2>1
<1>9. rank \in Surjection(S, 1..m)
  BY <1>7, <1>8, FS_Injection
<1> QED BY <1>1, <1>6, <1>7, <1>9 DEF Bijection

\* The element of a rank.
LEMMA ElementOfRank ==
  ASSUME NEW ahead, Orders(ahead), NEW r \in 1..Cardinality(DOMAIN ahead)
  PROVE  \E x \in DOMAIN ahead : Ranks(ahead)[x] = r /\ Cardinality(ahead[x]) = r - 1
                                   /\ \A y \in DOMAIN ahead : Cardinality(ahead[y]) = r - 1 => y = x
<1> DEFINE S == DOMAIN ahead
           m == Cardinality(S)
           rank == Ranks(ahead)
<1>1. rank \in Bijection(S, 1..m) /\ m \in Nat
  BY RanksAreNumbers
<1>2. \A x \in S : Cardinality(ahead[x]) \in Nat
  BY FS_CardinalityType, FS_Subset DEF Orders
<1>3. PICK x \in S : rank[x] = r
  <2> HIDE DEF S, m, rank
  <2> QED BY <1>1, Zenon DEF Bijection, Surjection, S, m
<1>4. ASSUME NEW y \in S, rank[y] = rank[x] PROVE y = x
  <2> HIDE DEF S, m, rank
  <2>1. DOMAIN rank = S
    BY DEF Ranks, rank, S
  <2> QED BY <1>1, <1>4, <2>1, Zenon DEF Bijection, Injection, IsInjective
<1>5. \A y \in S : rank[y] = Cardinality(ahead[y]) + 1
  BY DEF Ranks
<1> QED BY <1>2, <1>3, <1>4, <1>5

\* The numbers of a set, in order.
LEMMA ListedInOrder ==
  ASSUME NEW n \in Nat, NEW I \in SUBSET (1..n)
  PROVE  /\ Cardinality(I) \in 0..n
         /\ Listed(I) \in Bijection(1..Cardinality(I), I)
         /\ \A r, q \in 1..Cardinality(I) : q < r => Listed(I)[q] < Listed(I)[r]
<1> DEFINE ahead == [i \in I |-> {j \in I : j < i}]
           m == Cardinality(I)
           list == Listed(I)
<1>1. IsFiniteSet(I) /\ m \in 0..n
  <2>1. IsFiniteSet(1..n) /\ Cardinality(1..n) = IF 1 > n THEN 0 ELSE n - 1 + 1
    BY FS_Interval
  <2>2. IsFiniteSet(I) /\ Cardinality(I) <= Cardinality(1..n)
    BY <2>1, FS_Subset, Zenon
  <2>3. Cardinality(I) \in Nat
    BY <2>2, FS_CardinalityType
  <2> QED BY <2>1, <2>2, <2>3
<1>3. DOMAIN ahead = I /\ \A i \in I : ahead[i] = {j \in I : j < i}
  OBVIOUS
<1>2. Orders(ahead)
  <2>1. ahead \in [I -> SUBSET I]
    OBVIOUS
  <2>2. \A x \in I : x \notin ahead[x]
    OBVIOUS
  <2>3. \A x, y \in I : (x \in ahead[y] => ahead[x] \subseteq ahead[y])
                         /\ (x = y \/ x \in ahead[y] \/ y \in ahead[x])
    <3> HIDE DEF ahead
    <3>1. \A x, y \in I : x \in ahead[y] <=> x < y
      BY <1>3
    <3>2. \A x, y \in I : x = y \/ x < y \/ y < x
      OBVIOUS
    <3>3. ASSUME NEW x \in I, NEW y \in I, x \in ahead[y] PROVE ahead[x] \subseteq ahead[y]
      <4> SUFFICES ASSUME NEW j \in ahead[x] PROVE j \in ahead[y]
        OBVIOUS
      <4>1. j \in I /\ j < x /\ x < y
        BY <1>3, <3>1, <3>3
      <4>2. j < y
        <5>1. j \in Int /\ x \in Int /\ y \in Int
          BY <4>1
        <5> QED BY <4>1, <5>1
      <4> QED BY <3>1, <4>1, <4>2, Zenon
    <3> QED BY <3>1, <3>2, <3>3, Zenon
  <2> HIDE DEF ahead
  <2> QED BY <1>1, <1>3, <2>1, <2>2, <2>3 DEF Orders
<1>4. Ranks(ahead) \in Bijection(I, 1..m)
  BY <1>2, <1>3, RanksAreNumbers
<1>5. ASSUME NEW r \in 1..m PROVE list[r] \in I /\ Ranks(ahead)[list[r]] = r
  <2>1. PICK x \in I : Ranks(ahead)[x] = r /\ Cardinality(ahead[x]) = r - 1
                         /\ \A y \in I : Cardinality(ahead[y]) = r - 1 => y = x
    <3> HIDE DEF ahead
    <3> QED BY <1>2, <1>3, ElementOfRank, Zenon
  <2>2. Cardinality({j \in I : j < x}) = r - 1
        /\ \A y \in I : Cardinality({j \in I : j < y}) = r - 1 => y = x
    <3> HIDE DEF ahead
    <3> QED BY <1>3, <2>1, Zenon
  <2>3. list[r] = CHOOSE i \in I : Cardinality({j \in I : j < i}) = r - 1
    BY Zenon DEF Listed
  <2>4. list[r] = x
    <3> HIDE DEF list
    <3> QED BY <2>2, <2>3
  <2> QED BY <2>1, <2>4
<1>6. DOMAIN list = 1..m /\ list \in [1..m -> I]
  <2>1. DOMAIN list = 1..m
    BY DEF Listed
  <2> DEFINE element(r) == CHOOSE i \in I : Cardinality({j \in I : j < i}) = r - 1
  <2>2. list = [r \in 1..m |-> element(r)]
    BY DEF Listed
  <2> HIDE DEF list, element, ahead, m
  <2>3. \A r \in 1..m : element(r) \in I
    BY <1>5, <2>2
  <2> QED BY <2>1, <2>2, <2>3
<1>7. ASSUME NEW x \in I PROVE Ranks(ahead)[x] \in 1..m /\ list[Ranks(ahead)[x]] = x
  <2> HIDE DEF ahead, list, m
  <2>1. DOMAIN Ranks(ahead) = I
    BY <1>3 DEF Ranks
  <2>2. Ranks(ahead)[x] \in 1..m
    BY <1>4, Zenon DEF Bijection, Injection
  <2> QED BY <1>4, <1>5, <2>1, <2>2, Zenon DEF Bijection, Injection, IsInjective
<1>8. \A r, q \in 1..m : list[r] = list[q] => r = q
  <2> HIDE DEF ahead, list, m
  <2> QED BY <1>5
<1>9. list \in Bijection(1..m, I)
  <2> HIDE DEF ahead, list, m
  <2> QED BY <1>6, <1>7, <1>8, Zenon DEF Bijection, Injection, Surjection, IsInjective
<1>10. ASSUME NEW r \in 1..m, NEW q \in 1..m, q < r PROVE list[q] < list[r]
  <2>1. list[q] \in I /\ list[r] \in I /\ Ranks(ahead)[list[q]] = q /\ Ranks(ahead)[list[r]] = r
    BY <1>5
  <2>2. \A x, y \in I : x \in ahead[y] <=> Ranks(ahead)[x] < Ranks(ahead)[y]
    <3> HIDE DEF ahead
    <3> QED BY <1>2, <1>3, RanksAreNumbers
  <2>3. list[q] \in ahead[list[r]]
    <3> HIDE DEF ahead, list
    <3> QED BY <1>10, <2>1, <2>2, Zenon
  <2>4. ahead[list[r]] = {j \in I : j < list[r]}
    <3> HIDE DEF ahead, list
    <3> QED BY <1>3, <2>1, Zenon
  <2> HIDE DEF ahead, list
  <2> QED BY <2>3, <2>4
<1> QED BY <1>1, <1>9, <1>10

\* What is kept of a sequence is what it has at the indices.
LEMMA KeptOfSequence ==
  ASSUME NEW n \in Nat, NEW records, DOMAIN records = 1..n, NEW I \in SUBSET (1..n)
  PROVE  /\ Cardinality(I) \in 0..n
         /\ Kept(records, I) \in [1..Cardinality(I) -> {records[i] : i \in I}]
<1>1. Cardinality(I) \in 0..n /\ Listed(I) \in [1..Cardinality(I) -> I]
  BY ListedInOrder DEF Bijection, Injection
<1> QED BY <1>1 DEF Kept

\* An arrangement has what comes before an element before it, and nothing else.
LEMMA Arranged ==
  ASSUME NEW ahead, Orders(ahead)
  PROVE  /\ Cardinality(DOMAIN ahead) \in Nat
         /\ InOrder(ahead) \in [1..Cardinality(DOMAIN ahead) -> DOMAIN ahead]
         /\ \A x \in DOMAIN ahead :
              /\ Cardinality(ahead[x]) + 1 \in 1..Cardinality(DOMAIN ahead)
              /\ InOrder(ahead)[Cardinality(ahead[x]) + 1] = x
<1> DEFINE S == DOMAIN ahead
           m == Cardinality(S)
           rank == Ranks(ahead)
           Arrangement(order) == order \in [1..m -> S]
                                 /\ \A r \in 1..m : \A q \in 1..(r - 1) : order[q] \in ahead[order[r]]
           order == InOrder(ahead)
<1>1. /\ m \in Nat
      /\ rank \in Bijection(S, 1..m)
      /\ \A x, y \in S : x \in ahead[y] <=> rank[x] < rank[y]
  BY RanksAreNumbers
<1>2. \A r \in 1..m : \E x \in S : rank[x] = r
  <2> HIDE DEF S, m, rank
  <2> QED BY <1>1, Zenon DEF Bijection, Surjection
<1>3. \E other : Arrangement(other)
  <2> DEFINE other == [r \in 1..m |-> CHOOSE x \in S : rank[x] = r]
  <2> HIDE DEF S, m, rank
  <2>1. \A r \in 1..m : other[r] \in S /\ rank[other[r]] = r
    BY <1>2
  <2>2. other \in [1..m -> S]
    BY <1>2
  <2>3. ASSUME NEW r \in 1..m, NEW q \in 1..(r - 1) PROVE other[q] \in ahead[other[r]]
    <3>1. q \in 1..m /\ q < r
      BY <1>1
    <3> HIDE DEF other
    <3> QED BY <1>1, <2>1, <3>1
  <2> HIDE DEF other
  <2> QED BY <2>2, <2>3, Zenon
<1>4. Arrangement(order)
  <2>1. order = CHOOSE other \in [1..m -> S] :
                  \A r \in DOMAIN other : \A q \in 1..(r - 1) : other[q] \in ahead[other[r]]
    BY Zenon DEF InOrder
  <2>2. \A other \in [1..m -> S] : DOMAIN other = 1..m
    OBVIOUS
  <2>3. \E other \in [1..m -> S] :
          \A r \in DOMAIN other : \A q \in 1..(r - 1) : other[q] \in ahead[other[r]]
    BY <1>3, <2>2, Zenon
  <2>4. order \in [1..m -> S]
        /\ \A r \in DOMAIN order : \A q \in 1..(r - 1) : order[q] \in ahead[order[r]]
    <3> HIDE DEF order, S, m
    <3> QED BY <2>1, <2>3, Zenon
  <2> HIDE DEF order
  <2> QED BY <2>2, <2>4
<1>5. \A r, q \in 1..m : q < r => rank[order[q]] < rank[order[r]]
  <2> HIDE DEF order, rank, S, m
  <2> SUFFICES ASSUME NEW r \in 1..m, NEW q \in 1..m, q < r PROVE rank[order[q]] < rank[order[r]]
    OBVIOUS
  <2>1. q \in 1..(r - 1)
    BY <1>1
  <2>2. order[q] \in S /\ order[r] \in S /\ order[q] \in ahead[order[r]]
    BY <1>4, <2>1
  <2> QED BY <1>1, <2>2
<1>6. ASSUME NEW x \in S PROVE rank[x] \in 1..m /\ rank[x] = Cardinality(ahead[x]) + 1
  <2>1. rank[x] = Cardinality(ahead[x]) + 1
    BY DEF Ranks
  <2>2. rank[x] \in 1..m
    <3> HIDE DEF rank, S, m
    <3> QED BY <1>1, Zenon DEF Bijection, Injection
  <2> QED BY <2>1, <2>2
<1>7. ASSUME NEW r \in 1..m PROVE rank[order[r]] = r
  <2> HIDE DEF order, rank, S, m
  <2> DEFINE f == [q \in 1..m |-> rank[order[q]]]
  <2>1. \A q \in 1..m : order[q] \in S
    BY <1>4
  <2>2. f \in [1..m -> 1..m] /\ \A q, p \in 1..m : q < p => f[q] < f[p]
    BY <1>5, <1>6, <2>1
  <2>3. f[r] >= r
    <3> DEFINE G == {k \in 0..m : k = 0 \/ f[k] >= k}
    <3>1. 0 \in G
      BY <1>1
    <3>2. ASSUME NEW k \in 1..m, k - 1 \in G PROVE k \in G
      <4>1. CASE k = 1
        BY <2>2, <4>1
      <4>2. CASE k # 1
        <5>1. k - 1 \in 1..m /\ k - 1 < k
          BY <1>1, <4>2
        <5>2. f[k - 1] < f[k] /\ f[k - 1] >= k - 1 /\ f[k] \in 1..m /\ f[k - 1] \in 1..m
          <6>1. f[k - 1] >= k - 1
            BY <3>2, <5>1
          <6> HIDE DEF f
          <6> QED BY <2>2, <5>1, <6>1
        <5> HIDE DEF f
        <5> QED BY <5>2
      <4> QED BY <4>1, <4>2
    <3> HIDE DEF G
    <3>3. \A k \in 0..m : k \in G
      BY <1>1, <3>1, <3>2, Induction, Zenon
    <3>4. r \in 0..m /\ r # 0
      OBVIOUS
    <3> QED BY <3>3, <3>4, Zenon DEF G
  <2>4. f[r] <= r
    <3> DEFINE H == {k \in 0..m : k = m \/ f[m - k] <= m - k}
    <3>1. 0 \in H
      <4>1. m = 0 \/ f[m] \in 1..m
        BY <1>1, <2>2
      <4>2. 0 \in 0..m /\ m - 0 = m
        BY <1>1
      <4> HIDE DEF f
      <4> QED BY <1>1, <4>1, <4>2
    <3>2. ASSUME NEW k \in 1..m, k - 1 \in H PROVE k \in H
      <4>1. CASE k = m
        BY <4>1
      <4>2. CASE k # m
        <5>1. m - k \in 1..m
          BY <1>1, <4>2
        <5>2. CASE k = 1
          <6>1. m \in 1..m /\ m - 1 \in 1..m
            BY <1>1, <5>1, <5>2
          <6>2. f[m - 1] < f[m] /\ f[m] \in 1..m /\ f[m - 1] \in 1..m
            <7> HIDE DEF f
            <7> QED BY <1>1, <2>2, <6>1
          <6> HIDE DEF f
          <6> QED BY <1>1, <5>1, <5>2, <6>2
        <5>3. CASE k # 1
          <6>1. m - (k - 1) \in 1..m /\ m - k < m - (k - 1) /\ k - 1 # m
            BY <1>1, <5>1
          <6>2. f[m - (k - 1)] <= m - (k - 1)
            BY <3>2, <6>1
          <6>3. f[m - k] < f[m - (k - 1)] /\ f[m - k] \in 1..m /\ f[m - (k - 1)] \in 1..m
            <7> HIDE DEF f
            <7> QED BY <2>2, <5>1, <6>1
          <6> HIDE DEF f
          <6> QED BY <1>1, <6>2, <6>3
        <5> QED BY <5>2, <5>3
      <4> QED BY <4>1, <4>2
    <3> HIDE DEF H
    <3>3. \A k \in 0..m : k \in H
      BY <1>1, <3>1, <3>2, Induction, Zenon
    <3>4. m - r \in 0..m /\ m - r # m /\ m - (m - r) = r
      BY <1>1
    <3> QED BY <3>3, <3>4, Zenon DEF H
  <2>5. f[r] = r
    BY <1>1, <2>2, <2>3, <2>4
  <2> QED BY <2>5
<1>8. ASSUME NEW x \in S PROVE order[rank[x]] = x
  <2> HIDE DEF order, rank, S, m
  <2>1. rank[x] \in 1..m /\ order[rank[x]] \in S /\ rank[order[rank[x]]] = rank[x]
    BY <1>4, <1>6, <1>7
  <2>2. DOMAIN rank = S
    BY DEF rank, Ranks, S
  <2> QED BY <1>1, <2>1, <2>2, Zenon DEF Bijection, Injection, IsInjective
<1> QED BY <1>1, <1>4, <1>6, <1>8

\* A sequence, of whatever it has.
IsSequence(s) == s \in Seq(Range(s))

\* A function on the first m numbers is a sequence.
LEMMA SequenceOf ==
  ASSUME NEW m \in Nat, NEW X, NEW s \in [1..m -> X]
  PROVE  s \in Seq(X) /\ IsSequence(s) /\ Len(s) = m /\ DOMAIN s = 1..m
<1>1. s \in Seq(X) /\ Len(s) = m /\ DOMAIN s = 1..m
  OBVIOUS
<1>2. s \in [1..m -> Range(s)]
  BY DEF Range
<1>3. s \in Seq(Range(s))
  <2> DEFINE Y == Range(s)
  <2>1. s \in [1..m -> Y]
    BY <1>2
  <2> HIDE DEF Y
  <2>2. s \in Seq(Y)
    BY <2>1
  <2> QED BY <2>2 DEF Y
<1> QED BY <1>1, <1>3 DEF IsSequence

\* A sequence is a function on its indices.
LEMMA ElementsOf ==
  ASSUME NEW s, IsSequence(s)
  PROVE  Len(s) \in Nat /\ DOMAIN s = 1..Len(s) /\ s \in [1..Len(s) -> Range(s)]
<1>1. s \in Seq(Range(s))
  BY DEF IsSequence
<1> DEFINE Y == Range(s)
<1>2. s \in Seq(Y)
  BY <1>1
<1> HIDE DEF Y
<1>3. Len(s) \in Nat /\ DOMAIN s = 1..Len(s) /\ s \in [1..Len(s) -> Y]
  BY <1>2
<1> QED BY <1>3 DEF Y

\* A least number.
LEMMA MinExists ==
  ASSUME NEW n \in Nat, NEW T \in SUBSET (1..n), T # {}
  PROVE  Min(T) \in T /\ \A x \in T : Min(T) <= x
<1> DEFINE S == {n + 1 - x : x \in T}
<1>1. S \in SUBSET (1..n) /\ S # {}
  <2>1. \A x \in T : n + 1 - x \in 1..n
    OBVIOUS
  <2>2. \A y \in S : y \in 1..n
    BY <2>1
  <2>3. S # {}
    BY Zenon
  <2> HIDE DEF S
  <2> QED BY <2>2, <2>3
<1>2. Max(S) \in S /\ \A x \in S : Max(S) >= x
  BY <1>1, MaxExists, Zenon
<1>3. PICK x \in T : Max(S) = n + 1 - x
  BY <1>2
<1>4. ASSUME NEW y \in T PROVE x <= y
  <2>1. n + 1 - y \in S
    OBVIOUS
  <2>2. n + 1 - x >= n + 1 - y
    BY <1>2, <1>3, <2>1, Zenon
  <2>3. x \in Int /\ y \in Int
    OBVIOUS
  <2> QED BY <2>2, <2>3
<1>5. \E m \in T : \A y \in T : m <= y
  BY <1>4
<1> QED BY <1>5, Zenon DEF Min

\* A sequence of steps that has no failure.
LEMMA NoFailure ==
  ASSUME NEW n \in Nat, NEW statuses, DOMAIN statuses = 1..n, FirstFailure(statuses) = "success"
  PROVE  \A i \in 1..n : statuses[i] = "success"
<1> DEFINE failures == {i \in DOMAIN statuses : ~Succeeded(statuses[i])}
<1>1. CASE failures = {}
  BY <1>1 DEF Succeeded
<1>2. CASE failures # {}
  <2>1. Min(failures) \in failures
    <3>1. failures \in SUBSET (1..n)
      OBVIOUS
    <3> HIDE DEF failures
    <3> QED BY <1>2, <3>1, MinExists, Zenon
  <2>2. FirstFailure(statuses) = statuses[Min(failures)]
    BY <1>2 DEF FirstFailure
  <2>3. statuses[Min(failures)] # "success"
    BY <2>1 DEF Succeeded
  <2> QED BY <2>2, <2>3
<1> QED BY <1>1, <1>2

\* The first failure is one of the statuses.
LEMMA FailureAmong ==
  ASSUME NEW n \in Nat, NEW statuses, DOMAIN statuses = 1..n,
         NEW S, "success" \in S, \A i \in 1..n : statuses[i] \in S
  PROVE  FirstFailure(statuses) \in S
<1> DEFINE failures == {i \in DOMAIN statuses : ~Succeeded(statuses[i])}
<1>1. CASE failures = {}
  BY <1>1 DEF FirstFailure
<1>2. CASE failures # {}
  <2>1. Min(failures) \in failures
    <3>1. failures \in SUBSET (1..n)
      OBVIOUS
    <3> HIDE DEF failures
    <3> QED BY <1>2, <3>1, MinExists
  <2>2. FirstFailure(statuses) = statuses[Min(failures)]
    BY <1>2 DEF FirstFailure
  <2> QED BY <2>1, <2>2
<1> QED BY <1>1, <1>2

\* One sequence, flattened.
Flattens(seqs, g) == g = [i \in 1..Len(seqs) |-> IF i = 1 THEN seqs[i] ELSE g[i - 1] \o seqs[i]]

\* One sequence, flattened, is that sequence.
LEMMA FlattenOne ==
  ASSUME NEW X, NEW seqs \in [1..1 -> X]
  PROVE  FlattenSeq(seqs) = seqs[1]
<1> DEFINE g == [i \in 1..1 |-> seqs[1]]
           flat == CHOOSE h : Flattens(seqs, h)
<1>1. Len(seqs) = 1
  OBVIOUS
<1>2. FlattenSeq(seqs) = flat[1]
  BY <1>1 DEF FlattenSeq, Flattens
<1>3. Flattens(seqs, g)
  <2>1. [i \in 1..1 |-> seqs[1]] = [i \in 1..1 |-> IF i = 1 THEN seqs[i] ELSE g[i - 1] \o seqs[i]]
    <3>1. \A i \in 1..1 : i = 1
      OBVIOUS
    <3> HIDE DEF g
    <3> QED BY <3>1
  <2> QED BY <1>1, <2>1 DEF Flattens
<1>4. Flattens(seqs, flat)
  <2> HIDE DEF g
  <2> QED BY <1>3, Zenon
<1> HIDE DEF flat
<1>5. flat[1] = seqs[1]
  <2>1. 1 \in 1..Len(seqs)
    BY <1>1
  <2> QED BY <1>4, <2>1 DEF Flattens
<1> QED BY <1>2, <1>5

\* The first sequences of a sequence, flattened.
FlattenSteps(X, m, seqs, flat) ==
  /\ \A k \in 1..m : flat[k] \in Seq(X)
  /\ FlattenSeq(seqs) = flat[m]
  /\ \A k \in 1..m : flat[k] = IF k = 1 THEN seqs[k] ELSE flat[k - 1] \o seqs[k]

\* FlattenSeq puts one sequence after the other.
LEMMA Flattened ==
  ASSUME NEW X, NEW m \in Nat \ {0}, NEW seqs \in [1..m -> Seq(X)]
  PROVE  \E flat : FlattenSteps(X, m, seqs, flat)
<1> DEFINE flat == CHOOSE h : Flattens(seqs, h)
           Upto(k, g) == /\ g \in [1..k -> Seq(X)]
                         /\ \A i \in 1..k : g[i] = IF i = 1 THEN seqs[i] ELSE g[i - 1] \o seqs[i]
           G == {k \in 0..m : \E g : Upto(k, g)}
<1>1. Len(seqs) = m
  OBVIOUS
<1>2. FlattenSeq(seqs) = flat[m]
  BY <1>1 DEF FlattenSeq, Flattens
<1>3. 0 \in G
  <2> DEFINE g == [i \in 1..0 |-> seqs[1]]
  <2>1. Upto(0, g)
    OBVIOUS
  <2> HIDE DEF g, Upto
  <2> QED BY <2>1
<1>4. ASSUME NEW k \in 1..m, k - 1 \in G PROVE k \in G
  <2>1. PICK g : Upto(k - 1, g)
    BY <1>4, Zenon
  <2> DEFINE last == IF k = 1 THEN seqs[k] ELSE g[k - 1] \o seqs[k]
             h == [i \in 1..k |-> IF i = k THEN last ELSE g[i]]
  <2>2. \A i \in 1..k : i # k => i \in 1..(k - 1)
    OBVIOUS
  <2>3. last \in Seq(X)
    <3>1. seqs[k] \in Seq(X)
      OBVIOUS
    <3>2. CASE k # 1
      <4>1. k - 1 \in 1..(k - 1)
        BY <3>2
      <4>2. g[k - 1] \in Seq(X)
        BY <2>1, <4>1
      <4> QED BY <3>1, <4>2
    <3> QED BY <3>1, <3>2
  <2>4. ASSUME NEW i \in 1..k
        PROVE  h[i] \in Seq(X) /\ h[i] = IF i = 1 THEN seqs[i] ELSE h[i - 1] \o seqs[i]
    <3>1. CASE i = k
      <4>1. h[i] = last
        BY <3>1
      <4>2. k # 1 => h[k - 1] = g[k - 1]
        BY <2>2
      <4> HIDE DEF h
      <4> QED BY <2>3, <3>1, <4>1, <4>2
    <3>2. CASE i # k
      <4>1. i \in 1..(k - 1) /\ h[i] = g[i] /\ (i # 1 => h[i - 1] = g[i - 1])
        BY <2>2, <3>2
      <4> HIDE DEF h, last
      <4> QED BY <2>1, <4>1, Zenon
    <3> QED BY <3>1, <3>2
  <2>5. h \in [1..k -> Seq(X)]
    BY <2>4, Zenon
  <2> HIDE DEF h
  <2>6. Upto(k, h)
    BY <2>4, <2>5, Zenon
  <2> HIDE DEF Upto
  <2> QED BY <2>6
<1>5. PICK g : Upto(m, g)
  <2> HIDE DEF G
  <2>1. m \in G
    <3>1. m \in 0..m /\ m \in Nat
      OBVIOUS
    <3> QED BY <1>3, <1>4, <3>1, Induction, Zenon
  <2> QED BY <2>1, Zenon DEF G
<1>6. Flattens(seqs, g)
  <2>1. g = [i \in 1..m |-> g[i]]
    BY <1>5
  <2> QED BY <1>1, <1>5, <2>1, Zenon DEF Flattens
<1>7. Flattens(seqs, flat)
  <2> HIDE DEF Upto
  <2> QED BY <1>6, Zenon
<1> HIDE DEF flat
<1>8. \A i \in 1..m : flat[i] = IF i = 1 THEN seqs[i] ELSE flat[i - 1] \o seqs[i]
  BY <1>1, <1>7, Zenon DEF Flattens
<1>9. \A k \in 0..m : k = 0 \/ flat[k] \in Seq(X)
  <2> DEFINE H == {k \in 0..m : k = 0 \/ flat[k] \in Seq(X)}
  <2>1. 0 \in H
    OBVIOUS
  <2>2. ASSUME NEW k \in 1..m, k - 1 \in H PROVE k \in H
    <3>1. seqs[k] \in Seq(X)
      OBVIOUS
    <3>2. k = 1 \/ flat[k - 1] \in Seq(X)
      BY <2>2
    <3>3. flat[k] = IF k = 1 THEN seqs[k] ELSE flat[k - 1] \o seqs[k]
      BY <1>8
    <3>4. flat[k] \in Seq(X)
      BY <3>1, <3>2, <3>3
    <3> QED BY <3>4
  <2> HIDE DEF H
  <2>3. \A k \in 0..m : k \in H
    <3>1. m \in Nat
      OBVIOUS
    <3> QED BY <2>1, <2>2, <3>1, Induction, Zenon
  <2> QED BY <2>3 DEF H
<1>10. \A k \in 1..m : flat[k] \in Seq(X)
  <2>1. \A k \in 1..m : k \in 0..m /\ k # 0
    OBVIOUS
  <2> QED BY <1>9, <2>1
<1>11. FlattenSteps(X, m, seqs, flat)
  BY <1>2, <1>8, <1>10, Zenon DEF FlattenSteps
<1> QED BY <1>11

\* Sequences of elements of a set, flattened.
LEMMA FlattenMany ==
  ASSUME NEW X, NEW m \in Nat \ {0}, NEW seqs \in [1..m -> Seq(X)]
  PROVE  FlattenSeq(seqs) \in Seq(X)
<1>1. PICK flat : FlattenSteps(X, m, seqs, flat)
  BY Flattened
<1>2. m \in 1..m
  OBVIOUS
<1> QED BY <1>1, <1>2 DEF FlattenSteps

\* What a fold goes through stays in a set.
LEMMA FoldStays ==
  ASSUME NEW X, NEW n \in Nat, NEW iter, iter[{}] \in X,
         \A k \in 1..n : iter[(1..k) \ {Max(1..k)}] \in X => iter[1..k] \in X
  PROVE  iter[1..n] \in X
<1> DEFINE G == {k \in 0..n : iter[1..k] \in X}
<1>1. 0 \in G
  <2>1. 1..0 = {} /\ 0 \in 0..n
    OBVIOUS
  <2> QED BY <2>1
<1>2. ASSUME NEW k \in 1..n, k - 1 \in G PROVE k \in G
  <2>1. (1..k) \ {Max(1..k)} = 1..(k - 1)
    <3>1. k \in Nat \ {0}
      OBVIOUS
    <3>2. Max(1..k) = k /\ (1..k) \ {k} = 1..(k - 1)
      BY <3>1, MaxOfInterval, Zenon
    <3> QED BY <3>2
  <2>2. iter[1..(k - 1)] \in X
    BY <1>2
  <2>3. iter[1..k] \in X
    BY <2>1, <2>2
  <2> QED BY <2>3
<1> HIDE DEF G
<1>3. n \in G
  <2>1. n \in 0..n
    OBVIOUS
  <2> QED BY <1>1, <1>2, <2>1, Induction, Zenon
<1> QED BY <1>3 DEF G

\* Division rounds down to an integer.
LEMMA Divides ==
  ASSUME NEW m \in Int, NEW n \in Nat \ {0}
  PROVE  m \div n \in Int
OBVIOUS

\* A product of integers.
LEMMA Multiplies ==
  ASSUME NEW m \in Int, NEW n \in Int
  PROVE  m * n \in Int
OBVIOUS

\* A product of numbers is a number.
ProductsOver(numbers, g) ==
  g = [T \in SUBSET DOMAIN numbers |->
         IF T = {} THEN Unit ELSE (g[T \ {Max(T)}] * numbers[Max(T)]) \div Unit]

\* Product is that fold with the fixed-point product.
LEMMA ProductIsNumber ==
  ASSUME NEW n \in Nat, NEW numbers \in [1..n -> Int]
  PROVE  Product(numbers) \in Int
<1> DEFINE step == [k \in 1..n |-> [p \in Int |-> (p * numbers[k]) \div Unit]]
           iter == CHOOSE g : ProductsOver(numbers, g)
<1>1. Product(numbers) = iter[DOMAIN numbers]
  BY DEF Product, FoldLeft, MapThenFoldSet, ProductsOver
<1>2. ASSUME NEW p \in Int, NEW k \in 1..n PROVE (p * numbers[k]) \div Unit \in Int
  <2>1. numbers[k] \in Int
    OBVIOUS
  <2> QED BY <2>1, Multiplies, Divides, UnitAssumption
<1>3. \A k \in 1..n : step[k] \in [Int -> Int] /\ \A p \in Int : step[k][p] = (p * numbers[k]) \div Unit
  BY <1>2
<1>4. PICK g : Folds(Int, step, Unit, n, g)
  <2>1. Unit \in Int
    BY UnitAssumption
  <2> HIDE DEF step
  <2> QED BY <1>3, <2>1, FoldsExist, Zenon
<1> HIDE DEF step
<1>5. ASSUME NEW T \in SUBSET (1..n)
      PROVE  g[T] = IF T = {} THEN Unit ELSE (g[T \ {Max(T)}] * numbers[Max(T)]) \div Unit
  <2>1. CASE T = {}
    BY <1>4, <2>1, Zenon DEF Folds
  <2>2. CASE T # {}
    <3>1. g[T] = step[Max(T)][g[T \ {Max(T)}]]
      BY <1>4, <2>2, Zenon DEF Folds
    <3>2. g[T \ {Max(T)}] \in Int /\ Max(T) \in 1..n
      <4>1. Max(T) \in T /\ T \ {Max(T)} \in SUBSET (1..n)
        BY <2>2, MaxExists, Zenon
      <4> QED BY <1>4, <4>1, Zenon DEF Folds
    <3>3. step[Max(T)][g[T \ {Max(T)}]] = (g[T \ {Max(T)}] * numbers[Max(T)]) \div Unit
      BY <1>3, <3>2, Zenon
    <3> QED BY <2>2, <3>1, <3>3, Zenon
  <2> QED BY <2>1, <2>2
<1>6. DOMAIN numbers = 1..n /\ g = [T \in SUBSET (1..n) |-> g[T]]
  BY <1>4 DEF Folds
<1>7. ProductsOver(numbers, g)
  BY <1>5, <1>6, Zenon DEF ProductsOver
<1>8. ProductsOver(numbers, iter)
  BY <1>7, Zenon
<1> HIDE DEF iter
<1>9. \A T \in SUBSET (1..n) :
        iter[T] = IF T = {} THEN Unit ELSE (iter[T \ {Max(T)}] * numbers[Max(T)]) \div Unit
  BY <1>6, <1>8, Zenon DEF ProductsOver
<1>10. iter[{}] \in Int
  <2>1. {} \in SUBSET (1..n)
    OBVIOUS
  <2>2. iter[{}] = Unit
    BY <1>9, <2>1, Zenon
  <2> QED BY <2>2, UnitAssumption
<1>11. ASSUME NEW k \in 1..n, iter[(1..k) \ {Max(1..k)}] \in Int PROVE iter[1..k] \in Int
  <2>1. 1..k \in SUBSET (1..n) /\ Max(1..k) \in 1..n /\ 1..k # {}
    <3>1. k \in Nat \ {0} /\ 1..k \in SUBSET (1..n)
      OBVIOUS
    <3> QED BY <3>1, MaxOfInterval, Zenon
  <2>2. iter[1..k] = (iter[(1..k) \ {Max(1..k)}] * numbers[Max(1..k)]) \div Unit
    BY <1>9, <2>1, Zenon
  <2> QED BY <1>2, <1>11, <2>1, <2>2, Zenon
<1>12. iter[1..n] \in Int
  BY <1>10, <1>11, FoldStays, Zenon
<1> QED BY <1>1, <1>6, <1>12

-----------------------------------------------------------------------------
(* The names of frames: numbers of six digits, ordered as strings. *)

\* A number and its six digits.
Value(a, b, c, d, e, f) == 100000 * a + 10000 * b + 1000 * c + 100 * d + 10 * e + f

\* The digits spell the number.
Spelt(n, digits) ==
  /\ \A i \in 1..6 : digits[i] \in 0..9
  /\ n = Value(digits[1], digits[2], digits[3], digits[4], digits[5], digits[6])

\* The name of a file spells its number in six digits.
LEMMA NamesSpell ==
  ASSUME NEW n \in 0..128
  PROVE  DOMAIN FileName(n) = 1..6 /\ Len(FileName(n)) = 6 /\ Spelt(n, FileName(n))
<1>1. DOMAIN FileName(n) = 1..6 /\ Len(FileName(n)) = 6
  BY SMT DEF FileName, Digit, Places
<1>2. /\ FileName(n)[1] = (n \div 100000) % 10 /\ FileName(n)[2] = (n \div 10000) % 10
      /\ FileName(n)[3] = (n \div 1000) % 10 /\ FileName(n)[4] = (n \div 100) % 10
      /\ FileName(n)[5] = (n \div 10) % 10 /\ FileName(n)[6] = (n \div 1) % 10
  BY SMT DEF FileName, Digit, Places
<1> QED BY <1>1, <1>2, SMT DEF Spelt, Value

\* Of two numbers the first digit that differs is the smaller one's that is smaller.
LEMMA DigitsDecide ==
  ASSUME NEW m \in Nat, NEW n \in Nat, m < n, NEW s, NEW t, Spelt(m, s), Spelt(n, t)
  PROVE  \E i \in 1..6 : (\A k \in 1..(i - 1) : s[k] = t[k]) /\ s[i] < t[i]
<1> DEFINE first(i) == (\A k \in 1..(i - 1) : s[k] = t[k]) /\ s[i] < t[i]
<1>1. PICK a1 \in 0..9, a2 \in 0..9, a3 \in 0..9, a4 \in 0..9, a5 \in 0..9, a6 \in 0..9 :
        s[1] = a1 /\ s[2] = a2 /\ s[3] = a3 /\ s[4] = a4 /\ s[5] = a5 /\ s[6] = a6
  <2>1. /\ s[1] \in 0..9 /\ s[2] \in 0..9 /\ s[3] \in 0..9
        /\ s[4] \in 0..9 /\ s[5] \in 0..9 /\ s[6] \in 0..9
    BY DEF Spelt
  <2> QED BY <2>1, Zenon
<1>2. PICK b1 \in 0..9, b2 \in 0..9, b3 \in 0..9, b4 \in 0..9, b5 \in 0..9, b6 \in 0..9 :
        t[1] = b1 /\ t[2] = b2 /\ t[3] = b3 /\ t[4] = b4 /\ t[5] = b5 /\ t[6] = b6
  <2>1. /\ t[1] \in 0..9 /\ t[2] \in 0..9 /\ t[3] \in 0..9
        /\ t[4] \in 0..9 /\ t[5] \in 0..9 /\ t[6] \in 0..9
    BY DEF Spelt
  <2> QED BY <2>1, Zenon
<1>3. Value(a1, a2, a3, a4, a5, a6) < Value(b1, b2, b3, b4, b5, b6)
  BY <1>1, <1>2 DEF Spelt
<1>4. \/ a1 < b1
      \/ a1 = b1 /\ a2 < b2
      \/ a1 = b1 /\ a2 = b2 /\ a3 < b3
      \/ a1 = b1 /\ a2 = b2 /\ a3 = b3 /\ a4 < b4
      \/ a1 = b1 /\ a2 = b2 /\ a3 = b3 /\ a4 = b4 /\ a5 < b5
      \/ a1 = b1 /\ a2 = b2 /\ a3 = b3 /\ a4 = b4 /\ a5 = b5 /\ a6 < b6
  BY <1>3, SMT DEF Value
<1>5. first(1) \/ first(2) \/ first(3) \/ first(4) \/ first(5) \/ first(6)
  BY <1>1, <1>2, <1>4
<1> QED BY <1>5

\* The names of up to 128 frames are ordered as their numbers are.
LEMMA NamesInOrder ==
  ASSUME NEW m \in 0..128, NEW n \in 0..128
  PROVE  Less(FileName(m), FileName(n)) <=> m < n
<1> DEFINE s == FileName(m)  t == FileName(n)
<1>1. Len(s) = 6 /\ Len(t) = 6 /\ Spelt(m, s) /\ Spelt(n, t) /\ m \in Nat /\ n \in Nat
  BY NamesSpell
<1>2. \A i \in 1..6 : s[i] \in Int /\ t[i] \in Int
  BY <1>1 DEF Spelt
<1> HIDE DEF s, t
<1>3. ASSUME m < n PROVE Less(s, t)
  <2>1. \E i \in 1..6 : (\A k \in 1..(i - 1) : s[k] = t[k]) /\ s[i] < t[i]
    BY <1>1, <1>3, DigitsDecide
  <2> QED BY <1>1, <2>1 DEF Less
<1>4. ASSUME Less(s, t) PROVE m < n
  <2>1. PICK i \in 1..6 : (\A k \in 1..(i - 1) : s[k] = t[k]) /\ s[i] < t[i]
    BY <1>1, <1>4 DEF Less
  <2>2. m # n
    <3>1. ASSUME m = n PROVE s = t
      BY <3>1 DEF s, t
    <3> QED BY <1>2, <2>1, <3>1
  <2>3. ASSUME n < m PROVE FALSE
    <3>1. PICK j \in 1..6 : (\A k \in 1..(j - 1) : t[k] = s[k]) /\ t[j] < s[j]
      BY <1>1, <2>3, DigitsDecide
    <3>2. CASE i < j
      <4>1. t[i] = s[i]
        BY <3>1, <3>2
      <4> QED BY <1>2, <2>1, <4>1
    <3>3. CASE j < i
      <4>1. s[j] = t[j]
        BY <2>1, <3>3
      <4> QED BY <1>2, <3>1, <4>1
    <3>4. CASE i = j
      BY <1>2, <2>1, <3>1, <3>4
    <3> QED BY <3>2, <3>3, <3>4
  <2> QED BY <1>1, <2>2, <2>3
<1> QED BY <1>3, <1>4 DEF s, t

\* The sorted names of FFmpeg's files are those of 1, 2, ... in this order.
LEMMA NamesAreSorted ==
  ASSUME NEW n \in 0..128
  PROVE  LET names == {FileName(k) : k \in 1..n}
         IN  SortedNames(names) = [rank \in 1..n |-> FileName(rank)]
<1> DEFINE names == {FileName(k) : k \in 1..n}
           file == [k \in 1..n |-> FileName(k)]
<1>1. \A i, j \in 1..n : file[i] = file[j] => i = j
  <2>1. ASSUME NEW i \in 1..n, NEW j \in 1..n, FileName(i) = FileName(j) PROVE i = j
    <3>1. i \in 0..128 /\ j \in 0..128
      OBVIOUS
    <3>2. (i < j <=> i < i) /\ (j < i <=> i < i)
      BY <2>1, <3>1, NamesInOrder, Zenon
    <3> QED BY <3>2
  <2> QED BY <2>1
<1>2. ASSUME NEW k \in 0..n PROVE Cardinality({file[i] : i \in 1..k}) = k
  <2>1. k \in Nat /\ Differs(file, k)
    BY <1>1 DEF Differs
  <2> HIDE DEF file
  <2> QED BY <2>1, ImageCounts, Zenon
<1>3. ASSUME NEW k \in 1..n
      PROVE  {other \in names : Less(other, FileName(k))} = {file[i] : i \in 1..(k - 1)}
  <2>1. \A i \in 1..n : Less(FileName(i), FileName(k)) <=> i < k
    <3>1. \A i \in 1..n : i \in 0..128
      OBVIOUS
    <3> QED BY <3>1, NamesInOrder, Zenon
  <2>2. \A i \in 1..n : file[i] = FileName(i)
    OBVIOUS
  <2>3. names = {file[i] : i \in 1..n}
    BY <2>2
  <2> HIDE DEF names, file
  <2> QED BY <2>1, <2>2, <2>3
<1>4. Cardinality(names) = n
  <2>1. names = {file[i] : i \in 1..n}
    OBVIOUS
  <2>2. n \in 0..n
    OBVIOUS
  <2> HIDE DEF names, file
  <2> QED BY <1>2, <2>1, <2>2
<1>5. ASSUME NEW rank \in 1..n
      PROVE  (CHOOSE name \in names :
                Cardinality({other \in names : Less(other, name)}) = rank - 1) = FileName(rank)
  <2>1. ASSUME NEW k \in 1..n
        PROVE  Cardinality({other \in names : Less(other, FileName(k))}) = k - 1
    <3>1. k - 1 \in 0..n
      OBVIOUS
    <3> HIDE DEF names, file
    <3> QED BY <1>2, <1>3, <3>1
  <2>2. ASSUME NEW name \in names
        PROVE  Cardinality({other \in names : Less(other, name)}) = rank - 1 <=> name = FileName(rank)
    <3>1. PICK k \in 1..n : name = FileName(k)
      OBVIOUS
    <3>2. Cardinality({other \in names : Less(other, name)}) = k - 1
      <4> HIDE DEF names
      <4> QED BY <2>1, <3>1
    <3>3. FileName(k) = FileName(rank) => k = rank
      BY <1>1
    <3> HIDE DEF names
    <3> QED BY <3>1, <3>2, <3>3
  <2>3. FileName(rank) \in names
    OBVIOUS
  <2> HIDE DEF names
  <2> QED BY <2>2, <2>3
<1> HIDE DEF names
<1>6. SortedNames(names) = [rank \in 1..n |-> FileName(rank)]
  BY <1>4, <1>5, Zenon DEF SortedNames
<1> QED BY <1>6 DEF names

-----------------------------------------------------------------------------
(* The images on a contact sheet. *)

\* Pillow's thumbnail is a size that fits into the cell.
LEMMA ThumbnailFits ==
  ASSUME NEW size, IsSize(size), NEW cell, IsSize(cell)
  PROVE  /\ IsSize(Thumbnail(size, cell))
         /\ Thumbnail(size, cell).width <= cell.width
         /\ Thumbnail(size, cell).height <= cell.height
<1> DEFINE w == size.width  h == size.height  cw == cell.width  ch == cell.height
           fits == w <= cw /\ h <= ch
<1>1. w \in Nat \ {0} /\ h \in Nat \ {0} /\ cw \in Nat \ {0} /\ ch \in Nat \ {0}
  BY DEF IsSize
<1>2. CASE fits
  BY <1>2 DEF Thumbnail
<1>3. ASSUME NEW x \in Nat PROVE Max({1, x}) = IF x >= 1 THEN x ELSE 1
  <2>1. \A m \in {1, x} : (\A y \in {1, x} : m >= y) => m = IF x >= 1 THEN x ELSE 1
    OBVIOUS
  <2>2. \E m \in {1, x} : \A y \in {1, x} : m >= y
    OBVIOUS
  <2> QED BY <2>1, <2>2 DEF Max
<1>4. CASE ~fits /\ w * ch >= h * cw
  <2>1. (h * cw) \div w \in 0..ch
    <3>1. h * cw \in Nat /\ h * cw <= ch * w
      BY <1>1, <1>4
    <3> QED BY <1>1, <3>1, DivisionBound
  <2>2. Thumbnail(size, cell) = [width |-> Max({1, cw}), height |-> Max({1, (h * cw) \div w})]
    BY <1>4 DEF Thumbnail
  <2> QED BY <1>1, <1>3, <2>1, <2>2 DEF IsSize
<1>5. CASE ~fits /\ ~(w * ch >= h * cw)
  <2>1. (w * ch) \div h \in 0..cw
    <3>1. w * ch \in Nat /\ w * ch <= cw * h
      <4>1. w * ch \in Nat /\ h * cw \in Nat /\ h * cw = cw * h
        BY <1>1
      <4> QED BY <1>5, <4>1
    <3> QED BY <1>1, <3>1, DivisionBound
  <2>2. Thumbnail(size, cell) = [width |-> Max({1, (w * ch) \div h}), height |-> Max({1, ch})]
    BY <1>5 DEF Thumbnail
  <2> QED BY <1>1, <1>3, <2>1, <2>2 DEF IsSize
<1> QED BY <1>2, <1>4, <1>5

\* The cell of an image: its column and row on a sheet.
LEMMA CellOf ==
  ASSUME NEW index \in Nat, NEW count \in Nat, index < count, NEW columns \in Nat \ {0}
  PROVE  /\ index % columns \in 0..(columns - 1)
         /\ index \div columns \in Nat
         /\ Rows(count, columns) \in Nat
         /\ index \div columns + 1 <= Rows(count, columns)
<1> DEFINE q == index \div columns
           a == count + columns - 1
           rows == a \div columns
<1>1. /\ q \in Nat /\ index % columns \in 0..(columns - 1)
      /\ index = columns * q + (index % columns)
  BY Division, Zenon
<1>2. a \in Nat
  OBVIOUS
<1>3. rows \in Nat /\ a % columns \in 0..(columns - 1) /\ a = columns * rows + (a % columns)
  <2> HIDE DEF a
  <2> QED BY <1>2, Division, Zenon
<1>4. columns * q \in Nat /\ columns * rows \in Nat
  BY <1>1, <1>3
<1>5. columns * q + columns < columns * rows + columns
  <2>1. columns * q <= index
    BY <1>1, <1>4
  <2>2. a < columns * rows + columns
    <3> HIDE DEF a, rows
    <3> QED BY <1>2, <1>3, <1>4
  <2> HIDE DEF rows, q
  <2> QED BY <2>1, <2>2, <1>4
<1> HIDE DEF q, a, rows
<1>6. ~(q >= rows)
  <2> SUFFICES ASSUME rows <= q PROVE FALSE
    OBVIOUS
  <2>1. rows * columns <= q * columns
    BY <1>1, <1>3, Times
  <2> QED BY <2>1, <1>1, <1>3, <1>5
<1>7. q + 1 <= rows
  BY <1>1, <1>3, <1>6
<1>8. rows = Rows(count, columns)
  BY DEF rows, a, Rows
<1> QED BY <1>1, <1>3, <1>7, <1>8 DEF q

\* An image is centred in its cell.
LEMMA Centred ==
  ASSUME NEW room \in Nat, NEW extent \in Nat, extent <= room
  PROVE  (room - extent) \div 2 \in 0..(room - extent)
BY DivisionBound

\* Cells of different rows, or of one row and different columns, do not overlap.
LEMMA CellOrder ==
  ASSUME NEW i \in Nat, NEW j \in Nat, j < i, NEW columns \in Nat \ {0}
  PROVE  \/ j \div columns + 1 <= i \div columns
         \/ j \div columns = i \div columns /\ (j % columns) + 1 <= (i % columns)
<1>1. /\ i \div columns \in Nat /\ i % columns \in 0..(columns - 1)
      /\ i = columns * (i \div columns) + (i % columns)
      /\ j \div columns \in Nat /\ j % columns \in 0..(columns - 1)
      /\ j = columns * (j \div columns) + (j % columns)
  BY Division
<1> DEFINE q == i \div columns  p == j \div columns
<1>2. CASE p = q
  BY <1>1, <1>2
<1>3. CASE p < q
  BY <1>1, <1>3
<1>4. CASE q < p
  <2>1. (q + 1) * columns <= p * columns
    BY <1>1, <1>4, Times
  <2>2. (q + 1) * columns = columns * q + columns /\ p * columns = columns * p
    BY <1>1
  <2>3. columns * q \in Nat /\ columns * p \in Nat
    BY <1>1
  <2> HIDE DEF q, p
  <2> QED BY <1>1, <2>1, <2>2, <2>3 DEF q, p
<1> QED BY <1>1, <1>2, <1>3, <1>4

\* What is centred in a cell lies in the cell, and the cell in its row of cells.
LEMMA InCell ==
  ASSUME NEW k \in Nat, NEW count \in Nat, k + 1 <= count, NEW room \in Nat, NEW extent \in Nat, extent <= room
  PROVE  LET at == k * room + (room - extent) \div 2
         IN  at \in Nat /\ k * room <= at /\ at + extent <= (k + 1) * room /\ at + extent <= count * room
<1> DEFINE margin == (room - extent) \div 2
<1>1. margin \in 0..(room - extent)
  BY Centred
<1> HIDE DEF margin
<1>2. (k + 1) * room <= count * room /\ (k + 1) * room = k * room + room /\ k * room \in Nat
      /\ count * room \in Nat
  BY Times
<1> QED BY <1>1, <1>2 DEF margin

\* What is said of the images on a sheet, without what they show.
Complete(shows, size) ==
  \A i \in DOMAIN shows :
    LET p == shows[i]
    IN  /\ p.at.x >= 0 /\ p.at.x + p.size.width <= size.width
        /\ p.at.y >= 0 /\ p.at.y + p.size.height <= size.height
        /\ \A j \in 1..(i - 1) :
             LET q == shows[j]
             IN  /\ Apart(p, q)
                 /\ q.at.y + q.size.height <= p.at.y \/ q.at.x + q.size.width <= p.at.x

\* A thumbnail lies in its cell, and the cell on the sheet.
LEMMA Placed ==
  ASSUME NEW columns \in Nat \ {0}, NEW cell, IsSize(cell), NEW size, IsSize(size),
         size.width <= cell.width, size.height <= cell.height,
         NEW count \in Nat, NEW index \in Nat, index < count
  PROVE  LET at == Offset(index, columns, cell, size)
             column == index % columns
             row == index \div columns
             sheet == SheetSize(count, columns, cell)
         IN  /\ column \in Nat /\ row \in Nat
             /\ at.x \in Nat /\ at.y \in Nat
             /\ column * cell.width <= at.x /\ at.x + size.width <= (column + 1) * cell.width
             /\ row * cell.height <= at.y /\ at.y + size.height <= (row + 1) * cell.height
             /\ at.x + size.width <= sheet.width
             /\ at.y + size.height <= sheet.height
<1> DEFINE column == index % columns
           row == index \div columns
           rows == Rows(count, columns)
           x == column * cell.width + (cell.width - size.width) \div 2
           y == row * cell.height + (cell.height - size.height) \div 2
<1>1. column \in Nat /\ row \in Nat /\ rows \in Nat /\ column + 1 <= columns /\ row + 1 <= rows
  <2>1. column \in 0..(columns - 1) /\ row \in Nat /\ rows \in Nat /\ row + 1 <= rows
    BY CellOf, Zenon
  <2> HIDE DEF column, row, rows
  <2> QED BY <2>1
<1>2. /\ cell.width \in Nat /\ cell.height \in Nat /\ size.width \in Nat /\ size.height \in Nat
  BY DEF IsSize
<1>3. Offset(index, columns, cell, size) = [x |-> x, y |-> y]
  BY DEF Offset
<1>4. SheetSize(count, columns, cell) = [width |-> columns * cell.width, height |-> rows * cell.height]
  BY DEF SheetSize
<1> HIDE DEF column, row, rows
<1>5. /\ x \in Nat /\ column * cell.width <= x
      /\ x + size.width <= (column + 1) * cell.width /\ x + size.width <= columns * cell.width
  BY <1>1, <1>2, InCell
<1>6. /\ y \in Nat /\ row * cell.height <= y
      /\ y + size.height <= (row + 1) * cell.height /\ y + size.height <= rows * cell.height
  BY <1>1, <1>2, InCell, Zenon
<1> HIDE DEF x, y
<1>7. /\ Offset(index, columns, cell, size).x = x /\ Offset(index, columns, cell, size).y = y
      /\ SheetSize(count, columns, cell).width = columns * cell.width
      /\ SheetSize(count, columns, cell).height = rows * cell.height
  BY <1>3, <1>4
<1> QED BY <1>1, <1>5, <1>6, <1>7, Zenon DEF column, row

\* A contact sheet has every image whole, apart from the others, in reading order.
LEMMA SheetGeometry ==
  ASSUME NEW inputs, inputs \in Seq(Range(inputs)), NEW a,
         a.columns \in Nat \ {0}, IsSize(a.cell),
         \A i \in DOMAIN inputs : IsSize(artifacts[inputs[i]].size)
  PROVE  Complete(Pasted(inputs, a), SheetSize(Len(inputs), a.columns, a.cell))
<1> DEFINE count == Len(inputs)
           sizes == [i \in 1..count |-> Thumbnail(artifacts[inputs[i]].size, a.cell)]
           at(i) == Offset(i - 1, a.columns, a.cell, sizes[i])
           sheet == SheetSize(count, a.columns, a.cell)
           pasted == Pasted(inputs, a)
           column(i) == (i - 1) % a.columns
           row(i) == (i - 1) \div a.columns
<1>1. count \in Nat /\ DOMAIN inputs = 1..count
  OBVIOUS
<1>2. ASSUME NEW i \in 1..count
      PROVE  /\ IsSize(sizes[i]) /\ sizes[i].width <= a.cell.width
             /\ sizes[i].height <= a.cell.height
  <2>1. IsSize(artifacts[inputs[i]].size) /\ sizes[i] = Thumbnail(artifacts[inputs[i]].size, a.cell)
    BY <1>1
  <2> QED BY <2>1, ThumbnailFits
<1>3. DOMAIN pasted = 1..count /\ \A i \in 1..count : pasted[i].at = at(i) /\ pasted[i].size = sizes[i]
  BY <1>1 DEF Pasted
<1> HIDE DEF sizes, pasted, count
<1>4. ASSUME NEW i \in 1..count
      PROVE  /\ column(i) \in Nat /\ row(i) \in Nat
             /\ at(i).x \in Nat /\ at(i).y \in Nat
             /\ sizes[i].width \in Nat /\ sizes[i].height \in Nat
             /\ column(i) * a.cell.width <= at(i).x
             /\ at(i).x + sizes[i].width <= (column(i) + 1) * a.cell.width
             /\ row(i) * a.cell.height <= at(i).y
             /\ at(i).y + sizes[i].height <= (row(i) + 1) * a.cell.height
             /\ at(i).x + sizes[i].width <= sheet.width
             /\ at(i).y + sizes[i].height <= sheet.height
  <2>1. i - 1 \in Nat /\ i - 1 < count /\ count \in Nat
    BY <1>1
  <2>2. IsSize(sizes[i]) /\ sizes[i].width <= a.cell.width /\ sizes[i].height <= a.cell.height
    BY <1>2
  <2>3. sizes[i].width \in Nat /\ sizes[i].height \in Nat
    BY <2>2 DEF IsSize
  <2>4. /\ column(i) \in Nat /\ row(i) \in Nat
        /\ at(i).x \in Nat /\ at(i).y \in Nat
        /\ column(i) * a.cell.width <= at(i).x
        /\ at(i).x + sizes[i].width <= (column(i) + 1) * a.cell.width
        /\ row(i) * a.cell.height <= at(i).y
        /\ at(i).y + sizes[i].height <= (row(i) + 1) * a.cell.height
        /\ at(i).x + sizes[i].width <= sheet.width
        /\ at(i).y + sizes[i].height <= sheet.height
    BY <2>1, <2>2, Placed, Zenon
  <2> QED BY <2>3, <2>4
<1>5. a.cell.width \in Nat /\ a.cell.height \in Nat
  BY DEF IsSize
<1>6. ASSUME NEW i \in 1..count, NEW j \in 1..(i - 1)
      PROVE  \/ at(j).y + sizes[j].height <= at(i).y
             \/ at(j).x + sizes[j].width <= at(i).x
  <2>1. j \in 1..count /\ i - 1 \in Nat /\ j - 1 \in Nat /\ j - 1 < i - 1
    BY <1>1
  <2>2. row(j) + 1 <= row(i) \/ column(j) + 1 <= column(i)
    BY <2>1, CellOrder, Zenon
  <2>3. PICK c \in Nat, r \in Nat, d \in Nat, s \in Nat :
          c = column(i) /\ r = row(i) /\ d = column(j) /\ s = row(j)
    BY <1>4, <2>1, Zenon
  <2>4. PICK x \in Nat, y \in Nat : x = at(i).x /\ y = at(i).y
    BY <1>4, Zenon
  <2>5. PICK right \in Nat, bottom \in Nat :
          right = at(j).x + sizes[j].width /\ bottom = at(j).y + sizes[j].height
    <3>1. at(j).x \in Nat /\ at(j).y \in Nat /\ sizes[j].width \in Nat /\ sizes[j].height \in Nat
      BY <1>4, <2>1, Zenon
    <3>2. \A m, n \in Nat : m + n \in Nat
      OBVIOUS
    <3>3. at(j).x + sizes[j].width \in Nat /\ at(j).y + sizes[j].height \in Nat
      BY <3>1, <3>2, Zenon
    <3> HIDE DEF at
    <3> QED BY <3>3, Zenon
  <2>6. /\ c * a.cell.width <= x /\ r * a.cell.height <= y
        /\ right <= (d + 1) * a.cell.width /\ bottom <= (s + 1) * a.cell.height
    BY <1>4, <2>1, <2>3, <2>4, <2>5, Zenon
  <2> HIDE DEF at, row, column
  <2>7. CASE s + 1 <= r
    <3>1. (s + 1) * a.cell.height <= r * a.cell.height
          /\ (s + 1) * a.cell.height \in Nat /\ r * a.cell.height \in Nat
      <4>1. s + 1 \in Nat
        OBVIOUS
      <4> QED BY <1>5, <2>7, <4>1, Times, Zenon
    <3>2. bottom <= y
      BY <2>6, <3>1
    <3> QED BY <2>4, <2>5, <3>2
  <2>8. CASE d + 1 <= c
    <3>1. (d + 1) * a.cell.width <= c * a.cell.width
          /\ (d + 1) * a.cell.width \in Nat /\ c * a.cell.width \in Nat
      <4>1. d + 1 \in Nat
        OBVIOUS
      <4> QED BY <1>5, <2>8, <4>1, Times, Zenon
    <3>2. right <= x
      BY <2>6, <3>1
    <3> QED BY <2>4, <2>5, <3>2
  <2> QED BY <2>2, <2>3, <2>7, <2>8
<1> HIDE DEF at, sheet
<1>7. ASSUME NEW i \in 1..count
      PROVE  /\ pasted[i].at.x >= 0 /\ pasted[i].at.x + pasted[i].size.width <= sheet.width
             /\ pasted[i].at.y >= 0 /\ pasted[i].at.y + pasted[i].size.height <= sheet.height
  <2>1. at(i).x >= 0 /\ at(i).y >= 0
    BY <1>4
  <2> QED BY <1>3, <1>4, <2>1, Zenon
<1>8. ASSUME NEW i \in 1..count, NEW j \in 1..(i - 1)
      PROVE  \/ pasted[j].at.y + pasted[j].size.height <= pasted[i].at.y
             \/ pasted[j].at.x + pasted[j].size.width <= pasted[i].at.x
  <2>1. j \in 1..count
    BY <1>1 DEF count
  <2> QED BY <1>3, <1>6, <2>1, Zenon
<1> QED BY <1>3, <1>7, <1>8, Zenon DEF Complete, Apart, pasted, sheet, count

-----------------------------------------------------------------------------
(* The worker: what it has stored stays. *)

\* What a request of a worker may be answered with.
Statuses == {"success", "validation_failed", "missing_artifact", "operator_failed", "internal_error"}

\* How many frames are taken, and at which second each.
LEMMA FramesAreNumbered ==
  ASSUME NEW video, NEW a, video.seconds \in Seq(Range(video.seconds)),
         a.every_seconds \in Nat \ {0}, a.max_frames \in 1..128
  PROVE  /\ \E m \in 0..128 : DOMAIN Frames(video, a) = 1..m
         /\ \A n \in DOMAIN Frames(video, a) :
              Frames(video, a)[n] = video.seconds[(n - 1) * a.every_seconds + 1]
<1> DEFINE needed == (Len(video.seconds) + a.every_seconds - 1) \div a.every_seconds
           m == Min({a.max_frames, needed})
<1>1. needed \in Nat
  <2>1. Len(video.seconds) + a.every_seconds - 1 \in Nat
    OBVIOUS
  <2> QED BY <2>1, Division, Zenon
<1> HIDE DEF needed
<1>2. m \in 0..128
  <2>1. \A x \in 1..128, y \in Nat : Min({x, y}) \in 0..128
    BY MinOfTwo
  <2> QED BY <1>1, <2>1, Zenon
<1>3. Frames(video, a) = [n \in 1..m |-> video.seconds[(n - 1) * a.every_seconds + 1]]
  BY DEF Frames, needed
<1> HIDE DEF m
<1> QED BY <1>2, <1>3, Zenon

\* sample_frames writes every frame under its number, in the order of time.
LEMMA SampledFrames ==
  ASSUME NEW inputs, NEW a, IsMedia(artifacts[inputs[1]]), artifacts[inputs[1]].media = "video",
         a.every_seconds \in Nat \ {0}, a.max_frames \in 1..128
  PROVE  LET result == SampleFrames(inputs, a)
             video == artifacts[inputs[1]]
         IN  /\ \A id \in DOMAIN result.written : IsMedia(result.written[id])
             /\ result.status = "success" =>
                  \A n \in DOMAIN Frames(video, a) :
                    /\ <<a.output_prefix, n>> \in DOMAIN result.written
                    /\ result.written[<<a.output_prefix, n>>] =
                         Image(FrameSize, <<video.seconds[(n - 1) * a.every_seconds + 1]>>)
<1> DEFINE video == artifacts[inputs[1]]
           frames == Frames(video, a)
           number(name) == CHOOSE n \in DOMAIN frames : FileName(n) = name
           names == SortedNames({FileName(n) : n \in DOMAIN frames})
           ids == {<<a.output_prefix, index>> : index \in DOMAIN names}
           written == [id \in ids |-> Image(FrameSize, <<frames[number(names[id[2]])]>>)]
           result == SampleFrames(inputs, a)
<1>1. \/ result.written = <<>> /\ result.status # "success"
      \/ result = Store(written)
  BY DEF SampleFrames, Fail
<1>2. CASE result.written = <<>> /\ result.status # "success"
  BY <1>2
<1>3. CASE result = Store(written)
  <2>1. PICK m \in 0..128 : DOMAIN frames = 1..m
    BY <1>3, FramesAreNumbered DEF IsMedia
  <2>2. \A n \in DOMAIN frames : frames[n] = video.seconds[(n - 1) * a.every_seconds + 1]
    BY <1>3, FramesAreNumbered DEF IsMedia
  <2> HIDE DEF frames
  <2>3. names = [rank \in 1..m |-> FileName(rank)]
    BY <2>1, NamesAreSorted, Zenon
  <2> HIDE DEF names
  <2>4. ASSUME NEW n \in 1..m PROVE number(names[n]) = n
    <3>1. names[n] = FileName(n)
      BY <2>3
    <3>2. ASSUME NEW k \in 1..m, FileName(k) = FileName(n) PROVE k = n
      <4>1. k \in 0..128 /\ n \in 0..128
        OBVIOUS
      <4>2. (k < n <=> n < n) /\ (n < k <=> n < n)
        BY <3>2, <4>1, NamesInOrder, Zenon
      <4> QED BY <4>2
    <3> QED BY <2>1, <3>1, <3>2
  <2> HIDE DEF number
  <2>5. \A id \in ids : \E shows : written[id] = Image(FrameSize, shows)
    BY Zenon
  <2>6. \A shows : IsMedia(Image(FrameSize, shows))
    BY FrameSizeAssumption DEF IsMedia, Image
  <2>7. result.written = written /\ DOMAIN written = ids /\ result.status = "success"
    BY <1>3 DEF Store
  <2>8. ASSUME NEW n \in DOMAIN frames
        PROVE  /\ <<a.output_prefix, n>> \in ids
               /\ written[<<a.output_prefix, n>>] =
                    Image(FrameSize, <<video.seconds[(n - 1) * a.every_seconds + 1]>>)
    <3>1. n \in 1..m /\ n \in DOMAIN names
      BY <2>1, <2>3
    <3>2. <<a.output_prefix, n>> \in ids
      BY <3>1
    <3>3. written[<<a.output_prefix, n>>] = Image(FrameSize, <<frames[number(names[n])]>>)
      BY <3>2
    <3> QED BY <2>2, <2>4, <3>1, <3>2, <3>3, Zenon
  <2> HIDE DEF written, ids, result
  <2>9. \A id \in DOMAIN result.written : IsMedia(result.written[id])
    BY <2>5, <2>6, <2>7
  <2> QED BY <1>3, <2>7, <2>8, <2>9 DEF frames, result
<1> QED BY <1>1, <1>2, <1>3

\* A request's inputs are there, and what its operator takes.
Loads(request) ==
  /\ request.inputs # <<>> /\ Range(request.inputs) \subseteq DOMAIN artifacts
  /\ \A id \in Range(request.inputs) : artifacts[id].media = Medium(request.operator)

\* The inputs of a request are refused for a reason, or can be loaded.
LEMMA InputsAreChecked ==
  ASSUME NEW request, request.inputs \in Seq(Range(request.inputs))
  PROVE  LET status == InputsStatus(request.operator, request.inputs)
         IN  status \in Statuses /\ (status = "success" => Loads(request))
<1> DEFINE inputs == request.inputs
           operator == request.operator
           n == Len(inputs)
           statuses == [i \in DOMAIN inputs |-> InputStatus(operator, inputs[i])]
           status == InputsStatus(operator, inputs)
<1>1. n \in Nat /\ DOMAIN inputs = 1..n
  OBVIOUS
<1>2. CASE inputs = <<>> \/ n > MostInputs(operator)
  <2>1. status = "validation_failed"
    BY <1>2 DEF InputsStatus
  <2> QED BY <2>1 DEF Statuses
<1>3. CASE ~(inputs = <<>> \/ n > MostInputs(operator))
  <2>1. status = FirstFailure(statuses)
    BY <1>3 DEF InputsStatus
  <2>2. DOMAIN statuses = 1..n /\ \A i \in 1..n : statuses[i] = InputStatus(operator, inputs[i])
    BY <1>1
  <2>3. \A i \in 1..n : statuses[i] \in Statuses
    BY <2>2, Zenon DEF InputStatus, Statuses
  <2> HIDE DEF status, statuses, n
  <2>4. status \in Statuses
    <3>1. "success" \in Statuses
      BY DEF Statuses
    <3>2. n \in Nat /\ DOMAIN statuses = 1..n
      BY <1>1, <2>2 DEF n
    <3>3. FirstFailure(statuses) \in Statuses
      BY <2>3, <3>1, <3>2, FailureAmong
    <3> QED BY <2>1, <3>3
  <2>5. ASSUME status = "success" PROVE Loads(request)
    <3>1. \A i \in 1..n : InputStatus(operator, inputs[i]) = "success"
      BY <1>1, <2>1, <2>2, <2>5, NoFailure
    <3>2. \A i \in 1..n : inputs[i] \in DOMAIN artifacts /\ artifacts[inputs[i]].media = Medium(operator)
      BY <3>1 DEF InputStatus
    <3> QED BY <1>1, <1>3, <3>2 DEF Loads, Range
  <2> QED BY <2>4, <2>5 DEF status
<1> QED BY <1>2, <1>3

\* Nothing that was stored is replaced, what is new is the result's, and a success
\* has stored all of it.
LEMMA ExecuteStores ==
  ASSUME NEW operator, NEW result, ExecuteMedia(operator, result),
         answers \in Seq(Statuses), Len(answers) < Len(requests), result.status \in Statuses,
         Request.inputs \in Seq(Range(Request.inputs))
  PROVE  /\ Request.operator = operator
         /\ \A id \in DOMAIN artifacts : id \in DOMAIN artifacts' /\ artifacts'[id] = artifacts[id]
         /\ \A id \in DOMAIN artifacts' \ DOMAIN artifacts :
              Loads(Request) /\ id \in DOMAIN result.written /\ artifacts'[id] = result.written[id]
         /\ requests' = requests
         /\ answers' \in Seq(Statuses) /\ Len(answers') = Len(answers) + 1
         /\ \A n \in 1..Len(answers) : answers'[n] = answers[n]
         /\ answers'[Len(answers) + 1] = "success" =>
              /\ Loads(Request) /\ result.status = "success"
              /\ \A id \in DOMAIN result.written :
                   id \in DOMAIN artifacts' /\ artifacts'[id] = result.written[id]
<1> DEFINE loads == Loads(Request)
           checked == InputsStatus(operator, Request.inputs)
           done == IF Succeeded(checked) THEN result ELSE Fail(checked)
           status == IF Conflicts(done.written) = {} THEN done.status ELSE "validation_failed"
<1>1. /\ Request.operator = operator /\ requests' = requests
      /\ artifacts' = Merged(artifacts, Put(done.written))
      /\ answers' = Append(answers, status)
  BY DEF ExecuteMedia
<1>2. \/ loads /\ done = result
      \/ DOMAIN done.written = {} /\ done.status \in Statuses /\ done.status # "success"
  <2>1. checked \in Statuses /\ (checked = "success" => loads)
    BY <1>1, InputsAreChecked
  <2> HIDE DEF checked, loads
  <2> QED BY <2>1 DEF Fail, Succeeded
<1>3. done.status \in Statuses
  BY <1>2
<1> HIDE DEF done
<1>4. status \in Statuses
  BY <1>3 DEF Statuses
<1>5. ASSUME NEW id \in DOMAIN artifacts
      PROVE  id \in DOMAIN artifacts' /\ artifacts'[id] = artifacts[id]
  BY <1>1 DEF Merged
<1>6. ASSUME NEW id \in DOMAIN artifacts' \ DOMAIN artifacts
      PROVE  loads /\ id \in DOMAIN result.written /\ artifacts'[id] = result.written[id]
  <2>1. id \in DOMAIN Put(done.written) /\ artifacts'[id] = Put(done.written)[id]
    BY <1>1 DEF Merged
  <2>2. id \in DOMAIN done.written /\ artifacts'[id] = done.written[id]
    BY <2>1 DEF Put
  <2> QED BY <1>2, <2>2
<1> HIDE DEF status, loads
<1>7. answers' \in Seq(Statuses) /\ Len(answers') = Len(answers) + 1
      /\ answers'[Len(answers) + 1] = status /\ \A n \in 1..Len(answers) : answers'[n] = answers[n]
  BY <1>1, <1>4
<1>8. ASSUME status = "success"
      PROVE  /\ loads /\ result.status = "success"
             /\ \A id \in DOMAIN result.written :
                  id \in DOMAIN artifacts' /\ artifacts'[id] = result.written[id]
  <2>1. Conflicts(done.written) = {} /\ done.status = "success"
    BY <1>8 DEF status
  <2>2. loads /\ done = result
    BY <1>2, <2>1
  <2>3. ASSUME NEW id \in DOMAIN result.written
        PROVE  id \in DOMAIN artifacts' /\ artifacts'[id] = result.written[id]
    <3>1. Conflicts(result.written) = {}
      BY <2>1, <2>2
    <3>2. id \in DOMAIN Put(result.written) /\ Put(result.written)[id] = result.written[id]
      BY <3>1 DEF Put
    <3>3. id \in DOMAIN artifacts => artifacts[id] = result.written[id]
      BY <3>1 DEF Conflicts
    <3>4. artifacts' = Merged(artifacts, Put(result.written))
      BY <1>1, <2>2
    <3>5. DOMAIN artifacts' = DOMAIN artifacts \cup DOMAIN Put(result.written)
      BY <3>4 DEF Merged
    <3>6. id \in DOMAIN artifacts' /\ artifacts'[id] = IF id \in DOMAIN artifacts THEN artifacts[id]
                                                     ELSE Put(result.written)[id]
      BY <3>2, <3>4, <3>5 DEF Merged
    <3> QED BY <3>2, <3>3, <3>6
  <2> QED BY <2>1, <2>2, <2>3
<1> QED BY <1>1, <1>5, <1>6, <1>7, <1>8 DEF loads

\* The requests are those that the schemas let through.
RequestsValid ==
  requests \in Seq(Range(requests)) /\ \A request \in Range(requests) : IsMediaRequest(request)

\* What is stored are images and videos.
ArtifactsValid == \A id \in DOMAIN artifacts : IsMedia(artifacts[id])

\* Every answer is to a request.
AnswersValid == answers \in Seq(Statuses) /\ Len(answers) <= Len(requests)

\* The frames of a request are in the store, taken from its input.
Framed(request) ==
  LET a == request.arguments
      video == artifacts[request.inputs[1]]
  IN  /\ Loads(request)
      /\ \A index \in DOMAIN Frames(video, a) :
           /\ <<a.output_prefix, index>> \in DOMAIN artifacts
           /\ artifacts[<<a.output_prefix, index>>] =
                Image(FrameSize, <<video.seconds[(index - 1) * a.every_seconds + 1]>>)

\* The sheet of a request is in the store, made of its inputs.
Sheeted(request) ==
  LET a == request.arguments
  IN  /\ Loads(request)
      /\ \A i \in DOMAIN request.inputs : artifacts[request.inputs[i]].media = "image"
      /\ a.output \in DOMAIN artifacts
      /\ artifacts[a.output] = Image(SheetSize(Len(request.inputs), a.columns, a.cell),
                                     Pasted(request.inputs, a))

\* The inductive invariant: what a success has produced is still there, and is what
\* the operator computes from the inputs that are there.
MediaInv ==
  /\ RequestsValid
  /\ ArtifactsValid
  /\ AnswersValid
  /\ \A n \in 1..Len(answers) : Answered(n, "sample_frames") => Framed(requests[n])
  /\ \A n \in 1..Len(answers) : Answered(n, "make_contact_sheet") => Sheeted(requests[n])

\* The inputs of a request that can be loaded.
LEMMA InputsAreMedia ==
  ASSUME ArtifactsValid, NEW request, IsMediaRequest(request), Loads(request)
  PROVE  /\ request.inputs \in Seq(Range(request.inputs))
         /\ 1 \in DOMAIN request.inputs
         /\ \A i \in DOMAIN request.inputs :
              /\ request.inputs[i] \in DOMAIN artifacts
              /\ IsMedia(artifacts[request.inputs[i]])
<1>1. request.inputs \in Seq(Range(request.inputs)) /\ request.inputs # <<>>
  BY DEF IsMediaRequest, Loads
<1>2. 1 \in DOMAIN request.inputs
  BY <1>1
<1>3. \A i \in DOMAIN request.inputs : request.inputs[i] \in DOMAIN artifacts
  BY DEF Loads, Range
<1> QED BY <1>1, <1>2, <1>3 DEF ArtifactsValid

\* extract_clip writes a video.
LEMMA ClipIsMedia ==
  ASSUME NEW inputs, NEW a, IsMedia(artifacts[inputs[1]]), artifacts[inputs[1]].media = "video",
         a.start_seconds \in Nat, a.duration_seconds \in Nat
  PROVE  LET result == ExtractClip(inputs, a)
         IN  /\ result.status \in Statuses
             /\ \A id \in DOMAIN result.written : IsMedia(result.written[id])
<1> DEFINE video == artifacts[inputs[1]]
           m == a.start_seconds + 1
           n == Min({a.start_seconds + a.duration_seconds, Len(video.seconds)})
           clip == SubSeq(video.seconds, m, n)
           result == ExtractClip(inputs, a)
<1>1. \/ DOMAIN result.written = {} /\ result.status \in Statuses
      \/ result = Store(Single(a.output, Video(clip)))
  <2> HIDE DEF clip
  <2>1. \/ result = Fail("operator_failed")
        \/ result = Store(Single(a.output, Video(clip)))
    BY Zenon DEF ExtractClip, clip
  <2> HIDE DEF result
  <2> QED BY <2>1 DEF Fail, Statuses
<1>2. CASE result = Store(Single(a.output, Video(clip)))
  <2>1. clip \in Seq(Range(clip))
    <3>1. video.seconds \in Seq(Range(video.seconds))
      BY <1>2 DEF IsMedia
    <3> DEFINE limit == a.start_seconds + a.duration_seconds
               length == Len(video.seconds)
    <3>2. n \in Int
      <4>1. limit \in Int /\ length \in Int
        BY <3>1
      <4> HIDE DEF limit, length
      <4>2. Min({limit, length}) \in Int
        BY <4>1, MinOfTwo
      <4> QED BY <4>2 DEF limit, length
    <3>3. n <= length
      <4>1. limit \in Int /\ length \in Int
        BY <3>1
      <4> HIDE DEF limit, length
      <4>2. Min({limit, length}) <= length
        BY <4>1, MinOfTwo
      <4> QED BY <4>2 DEF limit, length
    <3>4. m \in Nat \ {0}
      OBVIOUS
    <3> HIDE DEF m, n
    <3> QED BY <3>1, <3>2, <3>3, <3>4, PartOfSequence
  <2> HIDE DEF clip
  <2>2. IsMedia(Video(clip))
    BY <2>1 DEF IsMedia, Video
  <2> QED BY <1>2, <2>2 DEF Store, Single, Statuses
<1> QED BY <1>1, <1>2

\* make_contact_sheet writes the sheet of its inputs, an image.
LEMMA SheetIsMedia ==
  ASSUME NEW inputs, inputs \in Seq(Range(inputs)), inputs # <<>>,
         NEW a, a.columns \in Nat \ {0}, IsSize(a.cell)
  PROVE  LET result == MakeContactSheet(inputs, a)
             sheet == Image(SheetSize(Len(inputs), a.columns, a.cell), Pasted(inputs, a))
         IN  /\ result.status \in Statuses
             /\ \A id \in DOMAIN result.written : IsMedia(result.written[id])
             /\ result.status = "success" =>
                  DOMAIN result.written = {a.output} /\ result.written[a.output] = sheet
<1> DEFINE result == MakeContactSheet(inputs, a)
           count == Len(inputs)
           size == SheetSize(count, a.columns, a.cell)
           sheet == Image(size, Pasted(inputs, a))
<1>1. IsSize(size)
  <2>1. count \in Nat /\ 0 < count /\ 0 \in Nat
    OBVIOUS
  <2> HIDE DEF count
  <2>2. Rows(count, a.columns) \in Nat /\ 0 \div a.columns \in Nat
        /\ 0 \div a.columns + 1 <= Rows(count, a.columns)
    BY <2>1, CellOf, Zenon
  <2> DEFINE rows == Rows(count, a.columns)
  <2>3. rows \in Nat \ {0}
    BY <2>2
  <2> HIDE DEF rows
  <2>4. \A m, n \in Nat \ {0} : m * n \in Nat \ {0}
    <3> SUFFICES ASSUME NEW m \in Nat \ {0}, NEW n \in Nat \ {0} PROVE m * n \in Nat \ {0}
      OBVIOUS
    <3>1. 1 * n <= m * n /\ m * n \in Nat
      BY Times
    <3> QED BY <3>1
  <2>5. a.cell.width \in Nat \ {0} /\ a.cell.height \in Nat \ {0}
    BY DEF IsSize
  <2>6. a.columns * a.cell.width \in Nat \ {0} /\ rows * a.cell.height \in Nat \ {0}
    BY <2>3, <2>4, <2>5, Zenon
  <2>7. size = [width |-> a.columns * a.cell.width, height |-> rows * a.cell.height]
    BY DEF SheetSize, rows
  <2> HIDE DEF size
  <2> QED BY <2>6, <2>7, Zenon DEF IsSize
<1> HIDE DEF size
<1>2. IsMedia(sheet)
  BY <1>1 DEF IsMedia, Image
<1>3. \/ result = Fail("internal_error")
      \/ result = Store(Single(a.output, sheet))
  BY Zenon DEF MakeContactSheet, size
<1> HIDE DEF sheet
<1>4. CASE result = Fail("internal_error")
  <2> HIDE DEF result
  <2>1. result.status \in Statuses /\ result.status # "success" /\ DOMAIN result.written = {}
    BY <1>4 DEF Fail, Statuses
  <2> QED BY <2>1 DEF result
<1>5. CASE result = Store(Single(a.output, sheet))
  <2> HIDE DEF result
  <2>1. /\ result.status = "success" /\ DOMAIN result.written = {a.output}
        /\ result.written[a.output] = sheet
    BY <1>5 DEF Store, Single
  <2>2. result.status \in Statuses
    BY <2>1 DEF Statuses
  <2> QED BY <1>2, <1>5, <2>1, <2>2 DEF result, sheet, size
<1> QED BY <1>3, <1>4, <1>5

\* What a request has produced stays as more is stored.
Grows == \A id \in DOMAIN artifacts : id \in DOMAIN artifacts' /\ artifacts'[id] = artifacts[id]

\* Stored frames stay as they are, and so does the video they are of.
LEMMA FramedStays ==
  ASSUME Grows, ArtifactsValid, NEW request, IsMediaRequest(request), Framed(request)
  PROVE  Framed(request)'
<1> DEFINE a == request.arguments
           video == artifacts[request.inputs[1]]
<1>1. request.inputs[1] \in DOMAIN artifacts
  BY InputsAreMedia DEF Framed
<1>2. video' = video
  BY <1>1 DEF Grows
<1>3. Loads(request)'
  BY DEF Loads, Framed, Grows
<1>4. ASSUME NEW index \in DOMAIN Frames(video, a)
      PROVE  /\ <<a.output_prefix, index>> \in DOMAIN artifacts'
             /\ artifacts'[<<a.output_prefix, index>>] =
                  Image(FrameSize, <<video.seconds[(index - 1) * a.every_seconds + 1]>>)
  BY DEF Framed, Grows
<1> HIDE DEF video
<1>5. Framed(request)' <=>
        /\ Loads(request)'
        /\ \A index \in DOMAIN Frames(video', a) :
             /\ <<a.output_prefix, index>> \in DOMAIN artifacts'
             /\ artifacts'[<<a.output_prefix, index>>] =
                  Image(FrameSize, <<(video').seconds[(index - 1) * a.every_seconds + 1]>>)
  BY Zenon DEF Framed, video, Frames, Image
<1> QED BY <1>2, <1>3, <1>4, <1>5, Zenon

\* A stored sheet stays as it is, and so do the images that are on it.
LEMMA SheetedStays ==
  ASSUME Grows, ArtifactsValid, NEW request, IsMediaRequest(request), Sheeted(request)
  PROVE  Sheeted(request)'
<1> DEFINE a == request.arguments
           inputs == request.inputs
<1>1. /\ \A i \in DOMAIN inputs : inputs[i] \in DOMAIN artifacts
      /\ Loads(request) /\ \A i \in DOMAIN inputs : artifacts[inputs[i]].media = "image"
      /\ a.output \in DOMAIN artifacts
      /\ artifacts[a.output] = Image(SheetSize(Len(inputs), a.columns, a.cell), Pasted(inputs, a))
  BY InputsAreMedia DEF Sheeted
<1>2. \A i \in DOMAIN inputs : artifacts'[inputs[i]] = artifacts[inputs[i]]
  BY <1>1 DEF Grows
<1>3. Loads(request)'
  BY <1>1 DEF Loads, Grows
<1>4. Pasted(inputs, a)' = Pasted(inputs, a)
  BY <1>2 DEF Pasted
<1>5. a.output \in DOMAIN artifacts' /\ artifacts'[a.output] = artifacts[a.output]
  BY <1>1 DEF Grows
<1>6. \A i \in DOMAIN inputs : artifacts'[inputs[i]].media = "image"
  BY <1>1, <1>2
<1> QED BY <1>1, <1>3, <1>4, <1>5, <1>6, Zenon DEF Sheeted, Image, SheetSize, Rows

\* What an operator's result is, for the operator that is asked.
ResultFits(operator, result) ==
  /\ result.status \in Statuses
  /\ Loads(Request) => \A id \in DOMAIN result.written : IsMedia(result.written[id])
  /\ Loads(Request) /\ result.status = "success" /\ operator = "sample_frames" =>
       LET a == Request.arguments
           video == artifacts[Request.inputs[1]]
       IN  \A n \in DOMAIN Frames(video, a) :
             /\ <<a.output_prefix, n>> \in DOMAIN result.written
             /\ result.written[<<a.output_prefix, n>>] =
                  Image(FrameSize, <<video.seconds[(n - 1) * a.every_seconds + 1]>>)
  /\ Loads(Request) /\ result.status = "success" /\ operator = "make_contact_sheet" =>
       LET a == Request.arguments
           inputs == Request.inputs
       IN  /\ \A i \in DOMAIN inputs : artifacts[inputs[i]].media = "image"
           /\ a.output \in DOMAIN result.written
           /\ result.written[a.output] = Image(SheetSize(Len(inputs), a.columns, a.cell), Pasted(inputs, a))

\* The request that is answered next.
LEMMA NextRequest ==
  ASSUME MediaInv, Len(answers) < Len(requests)
  PROVE  /\ IsMediaRequest(Request) /\ ArtifactsValid
         /\ Loads(Request) =>
              /\ Request.inputs \in Seq(Range(Request.inputs)) /\ Request.inputs # <<>>
              /\ 1 \in DOMAIN Request.inputs
              /\ IsMedia(artifacts[Request.inputs[1]])
              /\ \A i \in DOMAIN Request.inputs : artifacts[Request.inputs[i]].media = Medium(Request.operator)
<1>1. RequestsValid /\ ArtifactsValid /\ Len(answers) + 1 \in 1..Len(requests)
  BY DEF MediaInv, RequestsValid, AnswersValid
<1>2. Request \in Range(requests)
  BY <1>1 DEF RequestsValid, Range, Request
<1>3. IsMediaRequest(Request)
  BY <1>1, <1>2 DEF RequestsValid
<1>4. Loads(Request) =>
        /\ Request.inputs # <<>>
        /\ \A i \in DOMAIN Request.inputs : artifacts[Request.inputs[i]].media = Medium(Request.operator)
  BY DEF Loads, Range
<1> QED BY <1>1, <1>3, <1>4, InputsAreMedia

\* A step of the worker, whatever its operator computes.
LEMMA StepPreserves ==
  ASSUME MediaInv, Len(answers) < Len(requests), NEW operator, NEW result,
         ExecuteMedia(operator, result), ResultFits(operator, result)
  PROVE  MediaInv'
<1> DEFINE next == Len(answers) + 1
<1>1. /\ Request.operator = operator
      /\ Grows
      /\ \A id \in DOMAIN artifacts' \ DOMAIN artifacts :
           Loads(Request) /\ id \in DOMAIN result.written /\ artifacts'[id] = result.written[id]
      /\ requests' = requests
      /\ answers' \in Seq(Statuses) /\ Len(answers') = next
      /\ \A n \in 1..Len(answers) : answers'[n] = answers[n]
      /\ answers'[next] = "success" =>
           /\ Loads(Request) /\ result.status = "success"
           /\ \A id \in DOMAIN result.written :
                id \in DOMAIN artifacts' /\ artifacts'[id] = result.written[id]
  <2>1. answers \in Seq(Statuses) /\ result.status \in Statuses
    BY DEF MediaInv, AnswersValid, ResultFits
  <2>2. Request.inputs \in Seq(Range(Request.inputs))
    BY NextRequest DEF IsMediaRequest
  <2> QED BY <2>1, <2>2, ExecuteStores, Zenon DEF Grows
<1>2. /\ RequestsValid /\ ArtifactsValid /\ AnswersValid
  BY DEF MediaInv
<1>3. RequestsValid'
  BY <1>1, <1>2 DEF RequestsValid, IsMediaRequest, IsSize
<1>4. ArtifactsValid'
  <2>1. \A id \in DOMAIN artifacts : IsMedia(artifacts'[id])
    BY <1>1, <1>2 DEF ArtifactsValid, Grows
  <2>2. \A id \in DOMAIN artifacts' \ DOMAIN artifacts : IsMedia(artifacts'[id])
    BY <1>1, Zenon DEF ResultFits
  <2>3. \A id \in DOMAIN artifacts' : IsMedia(artifacts'[id])
    BY <2>1, <2>2
  <2> QED BY <2>3 DEF ArtifactsValid, IsMedia, IsSize
<1>5. AnswersValid'
  BY <1>1, <1>2 DEF AnswersValid
<1>6. /\ next \in 1..Len(requests) /\ Len(answers) \in Nat
      /\ \A n \in 1..next : n \in 1..Len(answers) \/ n = next
      /\ \A n \in 1..Len(answers) : n \in 1..Len(requests)
  BY <1>2 DEF RequestsValid, AnswersValid
<1>7. \A n \in 1..Len(requests) : IsMediaRequest(requests[n])
  BY <1>2 DEF RequestsValid, Range
<1>8. ASSUME NEW n \in 1..Len(answers'), Answered(n, "sample_frames")'
      PROVE  Framed(requests[n])'
  <2>1. requests[n].operator = "sample_frames" /\ answers'[n] = "success"
    BY <1>1, <1>8 DEF Answered, Succeeded
  <2>2. CASE n \in 1..Len(answers)
    <3>1. Answered(n, "sample_frames")
      BY <1>1, <2>1, <2>2 DEF Answered, Succeeded
    <3>2. Framed(requests[n]) /\ IsMediaRequest(requests[n])
      BY <1>6, <1>7, <2>2, <3>1 DEF MediaInv
    <3>3. ASSUME NEW request, request = requests[n] PROVE Framed(request)'
      <4>1. IsMediaRequest(request) /\ Framed(request)
        BY <3>2, <3>3
      <4>2. Grows /\ ArtifactsValid
        BY <1>1, <1>2
      <4> QED BY <4>1, <4>2, FramedStays
    <3> QED BY <1>1, <3>3
  <2>3. CASE n = next
    <3> DEFINE request == Request
               a == request.arguments
               video == artifacts[request.inputs[1]]
    <3>1. requests[n] = request
      BY <2>3 DEF Request
    <3>2. /\ Loads(request) /\ result.status = "success" /\ operator = "sample_frames"
          /\ \A id \in DOMAIN result.written :
               id \in DOMAIN artifacts' /\ artifacts'[id] = result.written[id]
      BY <1>1, <2>1, <2>3, <3>1
    <3>3. \A index \in DOMAIN Frames(video, a) :
            /\ <<a.output_prefix, index>> \in DOMAIN result.written
            /\ result.written[<<a.output_prefix, index>>] =
                 Image(FrameSize, <<video.seconds[(index - 1) * a.every_seconds + 1]>>)
      BY <3>2, Zenon DEF ResultFits
    <3>4. request.inputs[1] \in DOMAIN artifacts
      <4>1. IsMediaRequest(request)
        BY <1>6, <1>7, <2>3, <3>1
      <4> HIDE DEF request
      <4> QED BY <1>2, <3>2, <4>1, InputsAreMedia
    <3>5. artifacts'[request.inputs[1]] = video
      BY <1>1, <3>4, Zenon DEF Grows
    <3> HIDE DEF request
    <3>6. ASSUME NEW r, r = request PROVE Framed(r)'
      <4>1. Loads(r)'
        BY <1>1, <3>2, <3>6 DEF Loads, Grows
      <4>2. artifacts'[r.inputs[1]] = video /\ r.arguments = a
        BY <3>5, <3>6
      <4>3. \A index \in DOMAIN Frames(video, a) :
              /\ <<a.output_prefix, index>> \in DOMAIN artifacts'
              /\ artifacts'[<<a.output_prefix, index>>] =
                   Image(FrameSize, <<video.seconds[(index - 1) * a.every_seconds + 1]>>)
        BY <3>2, <3>3, Zenon
      <4> HIDE DEF video, a
      <4> QED BY <4>1, <4>2, <4>3, Zenon DEF Framed, Frames, Image
    <3> QED BY <1>1, <3>1, <3>6
  <2> QED BY <1>1, <1>6, <2>2, <2>3
<1>9. ASSUME NEW n \in 1..Len(answers'), Answered(n, "make_contact_sheet")'
      PROVE  Sheeted(requests[n])'
  <2>1. requests[n].operator = "make_contact_sheet" /\ answers'[n] = "success"
    BY <1>1, <1>9 DEF Answered, Succeeded
  <2>2. CASE n \in 1..Len(answers)
    <3>1. Answered(n, "make_contact_sheet")
      BY <1>1, <2>1, <2>2 DEF Answered, Succeeded
    <3>2. Sheeted(requests[n]) /\ IsMediaRequest(requests[n])
      BY <1>6, <1>7, <2>2, <3>1 DEF MediaInv
    <3>3. ASSUME NEW request, request = requests[n] PROVE Sheeted(request)'
      <4>1. IsMediaRequest(request) /\ Sheeted(request)
        BY <3>2, <3>3
      <4>2. Grows /\ ArtifactsValid
        BY <1>1, <1>2
      <4> QED BY <4>1, <4>2, SheetedStays
    <3> QED BY <1>1, <3>3
  <2>3. CASE n = next
    <3> DEFINE request == Request
               a == request.arguments
               inputs == request.inputs
    <3>1. requests[n] = request
      BY <2>3 DEF Request
    <3>2. /\ Loads(request) /\ result.status = "success" /\ operator = "make_contact_sheet"
          /\ \A id \in DOMAIN result.written :
               id \in DOMAIN artifacts' /\ artifacts'[id] = result.written[id]
      BY <1>1, <2>1, <2>3, <3>1
    <3>3. /\ \A i \in DOMAIN inputs : artifacts[inputs[i]].media = "image"
          /\ a.output \in DOMAIN result.written
          /\ result.written[a.output] = Image(SheetSize(Len(inputs), a.columns, a.cell), Pasted(inputs, a))
      BY <3>2, Zenon DEF ResultFits
    <3>4. \A i \in DOMAIN inputs : inputs[i] \in DOMAIN artifacts
      <4>1. IsMediaRequest(request)
        BY <1>6, <1>7, <2>3, <3>1
      <4> HIDE DEF request
      <4> QED BY <1>2, <3>2, <4>1, InputsAreMedia
    <3> HIDE DEF request
    <3>5. \A i \in DOMAIN inputs : artifacts'[inputs[i]] = artifacts[inputs[i]]
      BY <1>1, <3>4 DEF Grows
    <3>6. ASSUME NEW r, r = request PROVE Sheeted(r)'
      <4>1. Loads(r)'
        BY <1>1, <3>2, <3>6 DEF Loads, Grows
      <4>2. Pasted(r.inputs, r.arguments)' = Pasted(inputs, a)
        BY <3>5, <3>6 DEF Pasted
      <4>3. \A i \in DOMAIN r.inputs : artifacts'[r.inputs[i]].media = "image"
        BY <3>3, <3>5, <3>6
      <4>4. /\ r.arguments.output \in DOMAIN artifacts'
            /\ artifacts'[r.arguments.output] =
                 Image(SheetSize(Len(r.inputs), r.arguments.columns, r.arguments.cell), Pasted(inputs, a))
        BY <3>2, <3>3, <3>6
      <4> QED BY <4>1, <4>2, <4>3, <4>4, Zenon DEF Sheeted, Image, SheetSize, Rows
    <3> QED BY <1>1, <3>1, <3>6
  <2> QED BY <1>1, <1>6, <2>2, <2>3
<1> QED BY <1>3, <1>4, <1>5, <1>8, <1>9, Zenon DEF MediaInv

\* The three operators compute what they should.
LEMMA ResultsFit ==
  ASSUME MediaInv, Len(answers) < Len(requests)
  PROVE  /\ Request.operator = "sample_frames" =>
              ResultFits("sample_frames", SampleFrames(Request.inputs, Request.arguments))
         /\ Request.operator = "extract_clip" =>
              ResultFits("extract_clip", ExtractClip(Request.inputs, Request.arguments))
         /\ Request.operator = "make_contact_sheet" =>
              ResultFits("make_contact_sheet", MakeContactSheet(Request.inputs, Request.arguments))
<1> DEFINE inputs == Request.inputs
           a == Request.arguments
<1>1. IsMediaRequest(Request)
  BY NextRequest
<1>2. Loads(Request) =>
        /\ inputs \in Seq(Range(inputs)) /\ inputs # <<>> /\ 1 \in DOMAIN inputs
        /\ IsMedia(artifacts[inputs[1]])
        /\ \A i \in DOMAIN inputs : artifacts[inputs[i]].media = Medium(Request.operator)
  BY NextRequest
<1>3. ASSUME Request.operator = "sample_frames"
      PROVE  ResultFits("sample_frames", SampleFrames(inputs, a))
  <2> DEFINE result == SampleFrames(inputs, a)
  <2>1. a.every_seconds \in Nat \ {0} /\ a.max_frames \in 1..128
    BY <1>1, <1>3 DEF IsMediaRequest
  <2>2. result.status \in Statuses
    BY DEF SampleFrames, Fail, Store, Statuses
  <2>3. ASSUME Loads(Request)
        PROVE  /\ \A id \in DOMAIN result.written : IsMedia(result.written[id])
               /\ result.status = "success" =>
                    \A n \in DOMAIN Frames(artifacts[inputs[1]], a) :
                      /\ <<a.output_prefix, n>> \in DOMAIN result.written
                      /\ result.written[<<a.output_prefix, n>>] =
                           Image(FrameSize,
                                 <<artifacts[inputs[1]].seconds[(n - 1) * a.every_seconds + 1]>>)
    <3>1. IsMedia(artifacts[inputs[1]]) /\ artifacts[inputs[1]].media = "video"
      BY <1>2, <1>3, <2>3 DEF Medium
    <3> HIDE DEF inputs, a
    <3> QED BY <2>1, <3>1, SampledFrames, Zenon
  <2> HIDE DEF result
  <2>4. ResultFits("sample_frames", result)
    BY <2>2, <2>3, Zenon DEF ResultFits, inputs, a
  <2> QED BY <2>4 DEF result
<1>4. ASSUME Request.operator = "extract_clip"
      PROVE  ResultFits("extract_clip", ExtractClip(inputs, a))
  <2> DEFINE result == ExtractClip(inputs, a)
  <2>1. a.start_seconds \in Nat /\ a.duration_seconds \in Nat
    BY <1>1, <1>4 DEF IsMediaRequest
  <2>2. result.status \in Statuses
    BY DEF ExtractClip, Fail, Store, Statuses
  <2>3. ASSUME Loads(Request) PROVE \A id \in DOMAIN result.written : IsMedia(result.written[id])
    <3>1. IsMedia(artifacts[inputs[1]]) /\ artifacts[inputs[1]].media = "video"
      BY <1>2, <1>4, <2>3 DEF Medium
    <3> HIDE DEF inputs, a
    <3> QED BY <2>1, <3>1, ClipIsMedia, Zenon
  <2> HIDE DEF result
  <2>4. ResultFits("extract_clip", result)
    BY <2>2, <2>3, Zenon DEF ResultFits, inputs, a
  <2> QED BY <2>4 DEF result
<1>5. ASSUME Request.operator = "make_contact_sheet"
      PROVE  ResultFits("make_contact_sheet", MakeContactSheet(inputs, a))
  <2> DEFINE result == MakeContactSheet(inputs, a)
             sheet == Image(SheetSize(Len(inputs), a.columns, a.cell), Pasted(inputs, a))
  <2>1. a.columns \in Nat \ {0} /\ IsSize(a.cell)
    BY <1>1, <1>5 DEF IsMediaRequest
  <2>2. result.status \in Statuses
    BY DEF MakeContactSheet, Fail, Store, Statuses
  <2>3. ASSUME Loads(Request)
        PROVE  /\ \A id \in DOMAIN result.written : IsMedia(result.written[id])
               /\ result.status = "success" =>
                    /\ \A i \in DOMAIN inputs : artifacts[inputs[i]].media = "image"
                    /\ DOMAIN result.written = {a.output} /\ result.written[a.output] = sheet
    <3>1. inputs \in Seq(Range(inputs)) /\ inputs # <<>>
      BY <1>2, <2>3
    <3>2. \A i \in DOMAIN inputs : artifacts[inputs[i]].media = "image"
      BY <1>2, <1>5, <2>3 DEF Medium
    <3> HIDE DEF inputs, a
    <3> QED BY <2>1, <3>1, <3>2, SheetIsMedia, Zenon
  <2>4. Loads(Request) /\ result.status = "success" => a.output \in DOMAIN result.written
    BY <2>3
  <2> HIDE DEF result
  <2>5. ResultFits("make_contact_sheet", result)
    <3> HIDE DEF sheet
    <3>1. "make_contact_sheet" # "sample_frames"
      OBVIOUS
    <3> QED BY <2>2, <2>3, <2>4, <3>1, Zenon DEF ResultFits, inputs, a, sheet
  <2> QED BY <2>5 DEF result
<1> QED BY <1>3, <1>4, <1>5

\* A worker that has answered nothing.
LEMMA InitEstablishes == OperatorInit(MediaWorkloads) => MediaInv
<1> SUFFICES ASSUME NEW workload \in MediaWorkloads,
                    artifacts = workload.store, requests = workload.requests, answers = <<>>
             PROVE  MediaInv
  BY DEF OperatorInit
<1>1. RequestsValid /\ ArtifactsValid
  BY MediaAssumption DEF RequestsValid, ArtifactsValid
<1>2. AnswersValid /\ Len(answers) = 0
  BY <1>1 DEF AnswersValid, RequestsValid
<1> QED BY <1>1, <1>2 DEF MediaInv

\* A step of the worker keeps the invariant.
LEMMA NextPreserves == MediaInv /\ [MediaNext]_operatorVars => MediaInv'
<1> SUFFICES ASSUME MediaInv, [MediaNext]_operatorVars PROVE MediaInv'
  OBVIOUS
<1>1. CASE UNCHANGED operatorVars
  <2>1. artifacts' = artifacts /\ requests' = requests /\ answers' = answers
    BY <1>1 DEF operatorVars
  <2>2. RequestsValid' /\ ArtifactsValid' /\ AnswersValid'
    BY <2>1 DEF MediaInv, RequestsValid, ArtifactsValid, AnswersValid, IsMedia, IsMediaRequest, IsSize
  <2>3. Grows /\ ArtifactsValid
    BY <2>1 DEF Grows, MediaInv
  <2>4. \A n \in 1..Len(answers) : IsMediaRequest(requests[n])
    BY DEF MediaInv, RequestsValid, AnswersValid, Range
  <2>5. ASSUME NEW n \in 1..Len(answers'), Answered(n, "sample_frames")' PROVE Framed(requests[n])'
    <3>1. IsMediaRequest(requests[n]) /\ Framed(requests[n])
      BY <2>1, <2>4, <2>5 DEF MediaInv, Answered, Succeeded
    <3>2. ASSUME NEW request, request = requests[n] PROVE Framed(request)'
      <4>1. IsMediaRequest(request) /\ Framed(request)
        BY <3>1, <3>2
      <4> QED BY <2>3, <4>1, FramedStays
    <3> QED BY <2>1, <3>2
  <2>6. ASSUME NEW n \in 1..Len(answers'), Answered(n, "make_contact_sheet")'
        PROVE  Sheeted(requests[n])'
    <3>1. IsMediaRequest(requests[n]) /\ Sheeted(requests[n])
      BY <2>1, <2>4, <2>6 DEF MediaInv, Answered, Succeeded
    <3>2. ASSUME NEW request, request = requests[n] PROVE Sheeted(request)'
      <4>1. IsMediaRequest(request) /\ Sheeted(request)
        BY <3>1, <3>2
      <4> QED BY <2>3, <4>1, SheetedStays
    <3> QED BY <2>1, <3>2
  <2> QED BY <2>2, <2>5, <2>6, Zenon DEF MediaInv
<1>2. CASE MediaNext
  <2>1. Len(answers) < Len(requests)
    BY <1>2 DEF MediaNext
  <2>2. CASE ExecuteMedia("sample_frames", SampleFrames(Request.inputs, Request.arguments))
    <3>1. Request.operator = "sample_frames"
      BY <2>2 DEF ExecuteMedia
    <3> QED BY <2>1, <2>2, <3>1, ResultsFit, StepPreserves
  <2>3. CASE ExecuteMedia("extract_clip", ExtractClip(Request.inputs, Request.arguments))
    <3>1. Request.operator = "extract_clip"
      BY <2>3 DEF ExecuteMedia
    <3> QED BY <2>1, <2>3, <3>1, ResultsFit, StepPreserves
  <2>4. CASE ExecuteMedia("make_contact_sheet", MakeContactSheet(Request.inputs, Request.arguments))
    <3>1. Request.operator = "make_contact_sheet"
      BY <2>4 DEF ExecuteMedia
    <3> QED BY <2>1, <2>4, <3>1, ResultsFit, StepPreserves
  <2> QED BY <1>2, <2>2, <2>3, <2>4 DEF MediaNext
<1> QED BY <1>1, <1>2

\* The stored frames and sheets are what the operators compute (media.py:253-357).
THEOREM MediaInvariant == MediaSpec => []MediaInv
BY InitEstablishes, NextPreserves, PTL DEF MediaSpec

\* sample_frames numbers the artifacts in the order of time: the names that FFmpeg gives
\* its files, sorted as strings, are in the order of their numbers, for every number of
\* frames that the schema allows (media.py:176-178, 268, 277-279).
THEOREM FramesKept == MediaSpec => []FramesKeepTheirOrder
<1>1. MediaInv => FramesKeepTheirOrder
  <2> SUFFICES ASSUME MediaInv, NEW n \in DOMAIN answers, Answered(n, "sample_frames")
               PROVE  LET a == requests[n].arguments
                          video == artifacts[requests[n].inputs[1]]
                      IN  \A index \in DOMAIN Frames(video, a) :
                            artifacts[<<a.output_prefix, index>>].shows
                              = <<video.seconds[(index - 1) * a.every_seconds + 1]>>
    BY DEF FramesKeepTheirOrder
  <2>1. n \in 1..Len(answers)
    BY DEF MediaInv, AnswersValid
  <2>2. Framed(requests[n])
    BY <2>1 DEF MediaInv
  <2>3. \A size, shows : Image(size, shows).shows = shows
    BY DEF Image
  <2> QED BY <2>2, <2>3, Zenon DEF Framed
<1> QED BY <1>1, MediaInvariant, PTL

\* make_contact_sheet shows every input, whole, covered by no other and in reading
\* order, for every number of images, columns and every size (media.py:316-342).
THEOREM SheetsComplete == MediaSpec => []SheetShowsEveryImage
<1>1. MediaInv => SheetShowsEveryImage
  <2> SUFFICES ASSUME MediaInv, NEW n \in DOMAIN answers, Answered(n, "make_contact_sheet")
               PROVE  LET request == requests[n]
                          sheet == artifacts[request.arguments.output]
                      IN  /\ Len(sheet.shows) = Len(request.inputs)
                          /\ Complete(sheet.shows, sheet.size)
                          /\ \A i \in DOMAIN sheet.shows :
                               sheet.shows[i].shows = artifacts[request.inputs[i]].shows
    BY ZenonT(60) DEF SheetShowsEveryImage, Complete
  <2> DEFINE request == requests[n]
             a == request.arguments
             inputs == request.inputs
             size == SheetSize(Len(inputs), a.columns, a.cell)
  <2>1. n \in 1..Len(answers) /\ n \in 1..Len(requests)
    BY DEF MediaInv, AnswersValid, RequestsValid
  <2>2. /\ Sheeted(request) /\ request.operator = "make_contact_sheet"
        /\ RequestsValid /\ ArtifactsValid
    BY <2>1 DEF MediaInv, Answered
  <2>3. IsMediaRequest(request)
    BY <2>1, <2>2 DEF RequestsValid, Range
  <2> HIDE DEF request
  <2>4. Loads(request)
    BY <2>2 DEF Sheeted
  <2>5. /\ inputs \in Seq(Range(inputs))
        /\ \A i \in DOMAIN inputs : IsMedia(artifacts[inputs[i]])
    BY <2>2, <2>3, <2>4, InputsAreMedia
  <2>6. \A i \in DOMAIN inputs : IsSize(artifacts[inputs[i]].size)
    BY <2>2, <2>5 DEF Sheeted, IsMedia
  <2>7. a.columns \in Nat \ {0} /\ IsSize(a.cell)
    BY <2>2, <2>3 DEF IsMediaRequest
  <2>8. artifacts[a.output].size = size /\ artifacts[a.output].shows = Pasted(inputs, a)
    BY <2>2 DEF Sheeted, Image
  <2> HIDE DEF inputs, a
  <2>9. Complete(Pasted(inputs, a), size)
    BY <2>5, <2>6, <2>7, SheetGeometry, Zenon
  <2>10. /\ Len(Pasted(inputs, a)) = Len(inputs)
         /\ \A i \in DOMAIN Pasted(inputs, a) :
              Pasted(inputs, a)[i].shows = artifacts[inputs[i]].shows
    BY <2>5 DEF Pasted
  <2> QED BY <2>8, <2>9, <2>10, Zenon DEF request, inputs, a
<1> QED BY <1>1, MediaInvariant, PTL

-----------------------------------------------------------------------------
(* Video-MME: chunks of a fixed interval. *)

\* What the validator of a manifest makes sure of, in numbers.
Manifest(duration, interval, count, chunks) ==
  /\ duration \in Nat /\ interval \in Nat \ {0} /\ count \in Nat \ {0}
  /\ DOMAIN chunks = 1..count
  /\ \A i \in 1..count : chunks[i].from \in Nat /\ chunks[i].to \in Nat
  /\ \A i \in 1..count :
       /\ Near(chunks[i].from, (i - 1) * interval)
       /\ IF duration <= i * interval THEN Near(chunks[i].to, duration)
          ELSE Near(chunks[i].to, i * interval)
  /\ Near(chunks[count].to, duration)

\* What FixedIntervalSegmentation accepts.
LEMMA AcceptedManifest ==
  ASSUME NEW video \in Segmentations, FixedIntervals(video)
  PROVE  Manifest(video.duration, video.interval, Len(video.chunks), video.chunks)
<1> DEFINE chunks == video.chunks
           count == Len(chunks)
<1>1. /\ video.duration \in Nat /\ video.interval \in Nat \ {0}
      /\ chunks \in Seq(Range(chunks)) /\ chunks # <<>>
      /\ \A chunk \in Range(chunks) : chunk.from \in Nat /\ chunk.to \in Nat
  BY SegmentationsAssumption
<1>2. count \in Nat \ {0} /\ DOMAIN chunks = 1..count
  BY <1>1
<1>3. \A i \in 1..count : chunks[i].from \in Nat /\ chunks[i].to \in Nat
  BY <1>1, <1>2, Zenon DEF Range
<1>4. \A i \in 1..count : ChunkIsInPlace(video, i)
  BY <1>2 DEF FixedIntervals
<1>5. Near(chunks[count].to, video.duration)
  BY DEF FixedIntervals, Last
<1>6. ASSUME NEW i \in 1..count
      PROVE  /\ Near(chunks[i].from, (i - 1) * video.interval)
             /\ IF video.duration <= i * video.interval THEN Near(chunks[i].to, video.duration)
                ELSE Near(chunks[i].to, i * video.interval)
  <2>1. i * video.interval \in Int
    BY <1>1, <1>2
  <2>2. Min({video.duration, i * video.interval}) =
          IF video.duration <= i * video.interval THEN video.duration ELSE i * video.interval
    BY <1>1, <2>1, MinOfTwo
  <2>3. /\ Near(chunks[i].from, (i - 1) * video.interval)
        /\ Near(chunks[i].to, Min({video.duration, i * video.interval}))
    BY <1>4 DEF ChunkIsInPlace
  <2> QED BY <2>2, <2>3
<1> HIDE DEF chunks, count
<1>7. Manifest(video.duration, video.interval, count, chunks)
  BY <1>1, <1>2, <1>3, <1>5, <1>6 DEF Manifest
<1> QED BY <1>7 DEF chunks, count

\* An instant away from all ends is in the chunk of its interval, and in no other.
LEMMA OneChunk ==
  ASSUME NEW duration, NEW interval, NEW count, NEW chunks,
         Manifest(duration, interval, count, chunks),
         NEW t \in 0..(duration - Tolerance - 1),
         \A i \in 0..count : ~Near(t, i * interval)
  PROVE  \E k \in 1..count :
           {i \in 1..count : chunks[i].from <= t /\ t < chunks[i].to} = {k}
<1>1. /\ duration \in Nat /\ interval \in Nat \ {0} /\ count \in Nat \ {0} /\ Tolerance \in Nat
      /\ t \in Nat /\ t < duration - Tolerance
  BY ToleranceAssumption DEF Manifest
<1> DEFINE q == t \div interval
<1>2. PICK k \in Nat \ {0} : (k - 1) * interval <= t /\ t < k * interval
  <2>1. q \in Nat /\ t % interval \in 0..(interval - 1) /\ t = interval * q + (t % interval)
    BY <1>1
  <2> HIDE DEF q
  <2>2. interval * q \in Nat /\ q * interval = interval * q
        /\ (q + 1) * interval = interval * q + interval
    BY <1>1, <2>1
  <2>3. (q + 1) - 1 = q /\ q + 1 \in Nat \ {0}
    BY <2>1
  <2>4. q * interval <= t /\ t < (q + 1) * interval
    BY <1>1, <2>1, <2>2
  <2> QED BY <2>3, <2>4
<1>3. \A i \in Nat : i * interval \in Nat
  BY <1>1
<1>4. \A i \in 0..count : i * interval + Tolerance < t \/ t + Tolerance < i * interval
  <2> SUFFICES ASSUME NEW i \in 0..count PROVE i * interval + Tolerance < t \/ t + Tolerance < i * interval
    OBVIOUS
  <2>1. PICK place \in Nat : place = i * interval
    BY <1>3
  <2> QED BY <1>1, <2>1 DEF Near
<1>5. k <= count
  <2> SUFFICES ASSUME count <= k - 1 PROVE FALSE
    BY <1>1
  <2>1. count * interval <= (k - 1) * interval /\ (k - 1) * interval \in Nat
    BY <1>1, <1>3, Times
  <2>2. PICK place \in Nat : place = count * interval
    BY <1>1, <1>3
  <2>3. place <= t /\ place + Tolerance < t
    <3>1. place + Tolerance < t \/ t + Tolerance < place
      BY <1>1, <1>4, <2>2
    <3> QED BY <1>1, <1>2, <2>1, <2>2, <3>1
  <2>4. PICK end \in Nat : end = chunks[count].to
    BY <1>1 DEF Manifest
  <2>5. /\ ~(duration <= place)
        /\ duration - end <= Tolerance /\ end - place <= Tolerance
    <3>1. ~(duration <= place)
      BY <1>1, <2>3
    <3>2. Near(end, duration) /\ Near(end, place)
      BY <1>1, <2>2, <2>4, <3>1 DEF Manifest
    <3> QED BY <3>1, <3>2 DEF Near
  <2> QED BY <1>1, <2>3, <2>5
<1>6. /\ (k - 1) * interval + Tolerance < t
      /\ t + Tolerance < k * interval
  <2>1. PICK before \in Nat, after \in Nat : before = (k - 1) * interval /\ after = k * interval
    BY <1>3
  <2>2. before + Tolerance < t \/ t + Tolerance < before
    <3>1. k - 1 \in 0..count
      BY <1>1, <1>5
    <3> QED BY <1>4, <2>1, <3>1
  <2>3. after + Tolerance < t \/ t + Tolerance < after
    BY <1>1, <1>4, <1>5, <2>1
  <2> QED BY <1>1, <1>2, <2>1, <2>2, <2>3
<1>7. ASSUME NEW i \in 1..count PROVE (chunks[i].from <= t /\ t < chunks[i].to) <=> i = k
  <2>1. PICK from \in Nat, to \in Nat : from = chunks[i].from /\ to = chunks[i].to
    BY Zenon DEF Manifest
  <2>2. i \in Nat /\ i - 1 \in Nat /\ k - 1 \in Nat
    BY <1>1
  <2>3. PICK start \in Nat, end \in Nat : start = (i - 1) * interval /\ end = i * interval
    BY <1>3, <2>2
  <2>4. PICK before \in Nat, after \in Nat : before = (k - 1) * interval /\ after = k * interval
    BY <1>3, <2>2
  <2>5. from - start <= Tolerance /\ start - from <= Tolerance
    BY <2>1, <2>3 DEF Manifest, Near
  <2>6. IF duration <= end THEN to - duration <= Tolerance /\ duration - to <= Tolerance
        ELSE to - end <= Tolerance /\ end - to <= Tolerance
    BY <2>1, <2>3 DEF Manifest, Near
  <2>7. before + Tolerance < t /\ t + Tolerance < after
    BY <1>6, <2>4
  <2>8. CASE i = k
    <3>1. start = before /\ end = after
      BY <2>3, <2>4, <2>8
    <3>2. from <= t /\ t < to
      BY <1>1, <2>5, <2>6, <2>7, <3>1
    <3> QED BY <2>1, <2>8, <3>2
  <2>9. CASE i < k
    <3>1. end <= before
      BY <1>1, <2>2, <2>3, <2>4, <2>9, Times
    <3>2. to <= t
      BY <1>1, <2>6, <2>7, <3>1
    <3> QED BY <1>1, <2>1, <2>9, <3>2
  <2>10. CASE k < i
    <3>1. after <= start
      BY <1>1, <2>2, <2>3, <2>4, <2>10, Times
    <3>2. t < from
      BY <1>1, <2>5, <2>7, <3>1
    <3> QED BY <1>1, <2>1, <2>10, <3>2
  <2> QED BY <2>2, <2>8, <2>9, <2>10
<1>8. k \in 1..count
  BY <1>1, <1>5
<1> QED BY <1>7, <1>8

\* Intervals that are not shorter than twice the tolerance keep the chunks in order.
LEMMA ChunksInOrder ==
  ASSUME NEW duration, NEW interval, NEW count, NEW chunks,
         Manifest(duration, interval, count, chunks), 2 * Tolerance <= interval,
         NEW i \in 1..count, NEW j \in 1..count, i < j
  PROVE  chunks[i].from <= chunks[j].from
<1>1. interval \in Nat /\ count \in Nat /\ Tolerance \in Nat /\ i \in Nat /\ j \in Nat
      /\ i - 1 \in Nat /\ j - 1 \in Nat
  BY ToleranceAssumption DEF Manifest
<1>2. PICK x \in Nat, y \in Nat : x = (i - 1) * interval /\ y = (j - 1) * interval
  BY <1>1
<1>3. x + interval <= y
  <2>1. i * interval <= (j - 1) * interval
    BY <1>1, Times
  <2>2. i * interval = (i - 1) * interval + interval
    BY <1>1
  <2> QED BY <1>2, <2>1, <2>2
<1>4. PICK p \in Nat, q \in Nat : p = chunks[i].from /\ q = chunks[j].from
  BY Zenon DEF Manifest
<1>5. p - x <= Tolerance /\ y - q <= Tolerance
  BY <1>2, <1>4 DEF Manifest, Near
<1> QED BY <1>1, <1>3, <1>4, <1>5

\* A manifest that was prepared was accepted.
SampleInv ==
  Adapted("fixed_interval") => sample \in Segmentations /\ FixedIntervals(sample)

\* An accepted manifest tiles its video, for every number of chunks, interval, duration
\* and tolerance (video_mme.py:81-101).
THEOREM SegmentsTile == AdapterSpec => []SegmentsTileTheVideo
<1> DEFINE Inv == /\ sample.kind = "fixed_interval" => sample \in Segmentations
                  /\ SampleInv
<1>1. AdapterInit => Inv
  BY KindsAssumption DEF AdapterInit, SampleInv, Adapted, Unprepared
<1>2. Inv /\ [AdapterNext]_adapterVars => Inv'
  <2> SUFFICES ASSUME Inv, [AdapterNext]_adapterVars PROVE Inv'
    OBVIOUS
  <2>1. CASE UNCHANGED adapterVars
    BY <2>1, Zenon DEF adapterVars, SampleInv, Adapted, FixedIntervals, ChunkIsInPlace, Near
  <2>2. CASE AdapterNext
    <3>1. sample' = sample
      BY <2>2 DEF AdapterNext
    <3>2. SegmentVideo \/ sample.kind # "fixed_interval"
      BY <2>2, Zenon DEF AdapterNext, SplitDocuments, ConvertFixedWidth, PrepareFullCorpus, PrepareCandidates
    <3>3. CASE SegmentVideo /\ FixedIntervals(sample)
      BY <3>1, <3>3, Zenon DEF SampleInv, SegmentVideo, FixedIntervals, ChunkIsInPlace, Near
    <3>4. CASE SegmentVideo /\ ~FixedIntervals(sample)
      BY <3>1, <3>4 DEF SampleInv, SegmentVideo, Adapted, Refused
    <3>5. CASE sample.kind # "fixed_interval"
      BY <3>1, <3>5 DEF SampleInv, Adapted
    <3> QED BY <3>2, <3>3, <3>4, <3>5
  <2> QED BY <2>1, <2>2
<1>3. Inv => SegmentsTileTheVideo
  <2> SUFFICES ASSUME Inv, Adapted("fixed_interval") PROVE SegmentsTileTheVideo
    BY DEF SegmentsTileTheVideo
  <2> DEFINE chunks == sample.chunks
             count == Len(chunks)
  <2>1. Manifest(sample.duration, sample.interval, count, chunks)
    BY AcceptedManifest DEF SampleInv, Adapted
  <2>2. DOMAIN chunks = 1..count
    BY <2>1 DEF Manifest
  <2> HIDE DEF chunks, count
  <2>3. ASSUME NEW t \in 0..(sample.duration - Tolerance - 1),
               \A i \in 0..count : ~Near(t, i * sample.interval)
        PROVE  Cardinality({i \in 1..count : chunks[i].from <= t /\ t < chunks[i].to}) = 1
    <3>1. PICK k \in 1..count : {i \in 1..count : chunks[i].from <= t /\ t < chunks[i].to} = {k}
      BY <2>1, <2>3, OneChunk
    <3>2. Cardinality({k}) = 1
      BY FS_Singleton, Zenon
    <3> QED BY <3>1, <3>2, Zenon
  <2>4. ASSUME 2 * Tolerance <= sample.interval, NEW i \in 1..count, NEW j \in 1..count, i < j
        PROVE  chunks[i].from <= chunks[j].from
    BY <2>1, <2>4, ChunksInOrder
  <2> QED BY <2>2, <2>3, <2>4, Zenon DEF SegmentsTileTheVideo, chunks, count
<1> QED BY <1>1, <1>2, <1>3, PTL DEF AdapterSpec

-----------------------------------------------------------------------------
(* JSON records: what was computed of a stored artifact stays. *)

\* A request's arguments are valid and its inputs are records.
Loadable(request) ==
  /\ ArgumentsAreValid(request)
  /\ \A i \in DOMAIN request.inputs :
       request.inputs[i] \in DOMAIN artifacts /\ artifacts[request.inputs[i]] # Opaque

\* What an operator has written is there.
Writes(request, result) ==
  /\ request.output \in DOMAIN artifacts
  /\ result.status = "success" /\ artifacts[request.output] = result.records

\* What a request changes: its output is new, or is what was there before.
LEMMA ExecuteWrites ==
  ASSUME NEW operator, NEW result, Execute(operator, result),
         IsSequence(Request.inputs), IsSequence(answers)
  PROVE  /\ Request.operator = operator /\ requests' = requests
         /\ Grows
         /\ \A id \in DOMAIN artifacts' \ DOMAIN artifacts :
              Loadable(Request) /\ result.status = "success" /\ artifacts'[id] = result.records
         /\ IsSequence(answers') /\ Len(answers') = Len(answers) + 1
         /\ \A n \in 1..Len(answers) : answers'[n] = answers[n]
         /\ answers'[Len(answers) + 1] = "success" =>
              /\ Loadable(Request) /\ result.status = "success"
              /\ Request.output \in DOMAIN artifacts'
              /\ artifacts'[Request.output] = result.records
<1> DEFINE request == Request
           statuses == [i \in DOMAIN request.inputs |-> LoadStatus(request.inputs[i])]
           loaded == FirstFailure(statuses)
           status == IF ~ArgumentsAreValid(request) THEN "validation_failed"
                     ELSE IF ~Succeeded(loaded) THEN loaded
                     ELSE result.status
           stored == Succeeded(status) /\ Storable(request.output, result.records)
           written == Merged(Single(request.output, result.records), artifacts)
           answer == IF Succeeded(status) /\ ~stored THEN "validation_failed" ELSE status
<1>1. /\ request.operator = operator /\ requests' = requests
      /\ artifacts' = IF stored THEN written ELSE artifacts
      /\ answers' = Append(answers, answer)
  BY DEF Execute
<1>2. Len(request.inputs) \in Nat /\ DOMAIN request.inputs = 1..Len(request.inputs)
  BY ElementsOf
<1>3. ASSUME Succeeded(status) PROVE Loadable(request) /\ result.status = "success"
  <2>1. ArgumentsAreValid(request) /\ loaded = "success" /\ result.status = "success"
    <3> HIDE DEF loaded
    <3> QED BY <1>3 DEF Succeeded
  <2>2. \A i \in DOMAIN request.inputs : statuses[i] = "success"
    <3>1. DOMAIN statuses = 1..Len(request.inputs)
      BY <1>2
    <3> HIDE DEF statuses, request
    <3> QED BY <1>2, <2>1, <3>1, NoFailure
  <2>3. \A i \in DOMAIN request.inputs : LoadStatus(request.inputs[i]) = "success"
    BY <2>2, Zenon
  <2> HIDE DEF request
  <2> QED BY <2>1, <2>3 DEF Loadable, LoadStatus
<1> HIDE DEF statuses, loaded, status, request
<1>4. ASSUME stored
      PROVE  /\ Grows
             /\ \A id \in DOMAIN artifacts' : id \in DOMAIN artifacts \/ artifacts'[id] = result.records
             /\ request.output \in DOMAIN artifacts' /\ artifacts'[request.output] = result.records
  <2>1. /\ DOMAIN artifacts' = {request.output} \cup DOMAIN artifacts
        /\ \A id \in DOMAIN artifacts' :
             artifacts'[id] = IF id = request.output THEN result.records ELSE artifacts[id]
    BY <1>1, <1>4 DEF Merged, Single
  <2>2. request.output \in DOMAIN artifacts => artifacts[request.output] = result.records
    BY <1>4 DEF Storable
  <2> QED BY <2>1, <2>2 DEF Grows
<1>5. Grows
  BY <1>1, <1>4 DEF Grows
<1>6. ASSUME NEW id \in DOMAIN artifacts' \ DOMAIN artifacts
      PROVE  Loadable(request) /\ result.status = "success" /\ artifacts'[id] = result.records
  <2>1. stored
    BY <1>1
  <2> QED BY <1>3, <1>4, <2>1
<1>7. ASSUME answer = "success"
      PROVE  /\ Loadable(request) /\ result.status = "success"
             /\ request.output \in DOMAIN artifacts'
             /\ artifacts'[request.output] = result.records
  <2>1. stored /\ Succeeded(status)
    BY <1>7 DEF Succeeded
  <2> QED BY <1>3, <1>4, <2>1
<1>8. /\ IsSequence(answers') /\ Len(answers') = Len(answers) + 1
      /\ \A n \in 1..Len(answers) : answers'[n] = answers[n]
      /\ answers'[Len(answers) + 1] = answer
  <2> DEFINE X == Range(answers) \cup {answer}
             m == Len(answers)
  <2> HIDE DEF answer
  <2>1. m \in Nat /\ answers \in Seq(X)
    <3>1. m \in Nat /\ answers \in [1..m -> Range(answers)]
      BY ElementsOf
    <3>2. answers \in [1..m -> X]
      BY <3>1
    <3> HIDE DEF X, m
    <3> QED BY <3>1, <3>2, SequenceOf
  <2>2. answer \in X
    OBVIOUS
  <2> HIDE DEF X
  <2>3. /\ answers' \in Seq(X) /\ Len(answers') = m + 1
        /\ \A n \in 1..m : answers'[n] = answers[n]
        /\ answers'[m + 1] = answer
    BY <1>1, <2>1, <2>2
  <2>4. IsSequence(answers')
    <3>1. m + 1 \in Nat /\ answers' \in [1..(m + 1) -> X]
      BY <2>1, <2>3
    <3> QED BY <3>1, SequenceOf, Zenon
  <2> QED BY <2>3, <2>4, Zenon
<1> HIDE DEF answer, stored, written
<1> QED BY <1>1, <1>5, <1>6, <1>7, <1>8 DEF request

\* What is written is a sequence.
LEMMA TopIsSequence ==
  ASSUME NEW records, IsSequence(records), NEW ranked, NEW k \in Nat
  PROVE  /\ IsSequence(Top(records, ranked, k))
         /\ Len(Top(records, ranked, k)) = Min({k, Len(records)})
         /\ \A r \in 1..Min({k, Len(records)}) : Top(records, ranked, k)[r] = records[ranked[r]]
<1> DEFINE m == Min({k, Len(records)})
           top == Top(records, ranked, k)
<1>1. m \in Nat
  <2>1. \A x, y \in Nat : Min({x, y}) \in Nat
    BY MinOfTwo
  <2>2. Len(records) \in Nat
    BY ElementsOf
  <2> QED BY <2>1, <2>2, Zenon
<1>2. top = [r \in 1..m |-> records[ranked[r]]]
  BY DEF Top
<1> HIDE DEF m
<1>3. top \in [1..m -> Range(top)] /\ DOMAIN top = 1..m /\ \A r \in 1..m : top[r] = records[ranked[r]]
  BY <1>2 DEF Range
<1> HIDE DEF top
<1>4. IsSequence(top) /\ Len(top) = m
  BY <1>1, <1>3, SequenceOf, Zenon
<1> QED BY <1>3, <1>4, Zenon DEF top, m

\* What the operators write are sequences.
LEMMA ResultsAreSequences ==
  ASSUME NEW records, IsSequence(records), NEW a
  PROVE  /\ IsSequence(Filtered(records, a).records)
         /\ IsSequence(Selected(records, a).records)
         /\ IsSequence(WithDerivedFields(records, a).records)
         /\ IsSequence(WithAggregations(records, a).records)
         /\ a.k \in Nat => IsSequence(TopK(records, a).records)
         /\ a.top_k \in Nat => IsSequence(Retrieved(records, a).records)
<1> DEFINE n == Len(records)
<1>1. n \in Nat /\ DOMAIN records = 1..n
  BY ElementsOf
<1>2. IsSequence(<<>>)
  BY DEF IsSequence, Range
<1>3. \A s : DOMAIN s = 1..n /\ s = [i \in 1..n |-> s[i]] => IsSequence(s)
  <2> SUFFICES ASSUME NEW s, DOMAIN s = 1..n, s = [i \in 1..n |-> s[i]] PROVE IsSequence(s)
    OBVIOUS
  <2>1. s \in [1..n -> Range(s)]
    BY DEF Range
  <2> HIDE DEF n
  <2> QED BY <1>1, <2>1, SequenceOf, Zenon
<1> HIDE DEF n
<1>4. \A I \in SUBSET (1..n) : IsSequence(Kept(records, I))
  <2> SUFFICES ASSUME NEW I \in SUBSET (1..n) PROVE IsSequence(Kept(records, I))
    OBVIOUS
  <2>1. Cardinality(I) \in Nat /\ Kept(records, I) \in [1..Cardinality(I) -> {records[i] : i \in I}]
    BY <1>1, KeptOfSequence
  <2> QED BY <2>1, SequenceOf, Zenon
<1>5. IsSequence(Filtered(records, a).records)
  <2> DEFINE I == {i \in DOMAIN records : Compare(records[i][a.field], a.op, a.value)}
  <2>1. IsSequence(Kept(records, I))
    <3>1. I \in SUBSET (1..n)
      BY <1>1
    <3> HIDE DEF I
    <3> QED BY <1>4, <3>1
  <2> DEFINE kept == Kept(records, I)
  <2>2. Filtered(records, a).records = <<>> \/ Filtered(records, a).records = kept
    <3> HIDE DEF kept
    <3> QED BY DEF Filtered, Invalid, Failure, Success, kept
  <2> QED BY <1>2, <2>1, <2>2
<1>6. IsSequence(Selected(records, a).records)
  <2> DEFINE s == [i \in 1..n |-> Restrict(records[i], Range(a.fields))]
  <2>1. IsSequence(s)
    <3>1. DOMAIN s = 1..n /\ s = [i \in 1..n |-> s[i]]
      OBVIOUS
    <3> HIDE DEF s
    <3> QED BY <1>3, <3>1, Zenon
  <2>2. Selected(records, a).records = <<>> \/ Selected(records, a).records = s
    BY <1>1 DEF Selected, Invalid, Failure, Success
  <2> QED BY <1>2, <2>1, <2>2
<1>7. IsSequence(WithDerivedFields(records, a).records)
  <2> DEFINE s == [i \in 1..n |-> WithDerivations(records[i], a.derivations)]
  <2>1. IsSequence(s)
    <3>1. DOMAIN s = 1..n /\ s = [i \in 1..n |-> s[i]]
      OBVIOUS
    <3> HIDE DEF s
    <3> QED BY <1>3, <3>1, Zenon
  <2>2. WithDerivedFields(records, a).records = <<>> \/ WithDerivedFields(records, a).records = s
    BY <1>1 DEF WithDerivedFields, Invalid, Failure, Success
  <2> QED BY <1>2, <2>1, <2>2
<1>8. IsSequence(WithAggregations(records, a).records)
  <2> DEFINE starts == GroupStarts(records, a.group_by)
             row(g) == Row(Restrict(records[starts[g]], Range(a.group_by)),
                           Group(records, a.group_by, starts[g]), a.aggregations)
             s == [g \in DOMAIN starts |-> row(g)]
             one == <<Row(<<>>, <<>>, a.aggregations)>>
             I == {i \in DOMAIN records :
                     \A j \in 1..(i - 1) : Key(records[j], a.group_by) # Key(records[i], a.group_by)}
  <2>1. PICK m \in Nat : DOMAIN starts = 1..m
    <3>1. I \in SUBSET (1..n)
      BY <1>1
    <3>2. starts = Listed(I)
      BY DEF GroupStarts
    <3> HIDE DEF I, starts
    <3>3. Cardinality(I) \in 0..n /\ Listed(I) \in [1..Cardinality(I) -> I]
      BY <1>1, <3>1, ListedInOrder DEF Bijection, Injection
    <3>4. Cardinality(I) \in Nat
      BY <1>1, <3>3
    <3> QED BY <3>2, <3>3, <3>4
  <2>2. IsSequence(s)
    <3> HIDE DEF starts, row
    <3>1. s \in [1..m -> Range(s)]
      BY <2>1 DEF Range
    <3> HIDE DEF s
    <3> QED BY <2>1, <3>1, SequenceOf
  <2>3. IsSequence(one)
    <3> DEFINE only == Row(<<>>, <<>>, a.aggregations)
    <3> HIDE DEF only
    <3>1. <<only>> \in [1..1 -> {only}] /\ 1 \in Nat
      OBVIOUS
    <3>2. IsSequence(<<only>>)
      BY <3>1, SequenceOf, Zenon
    <3> QED BY <3>2 DEF only
  <2> DEFINE result == WithAggregations(records, a)
  <2>4. result = Invalid \/ result = Success(one) \/ result = Success(s)
    <3> HIDE DEF one
    <3> QED BY Zenon DEF WithAggregations, one
  <2> HIDE DEF one, s, result
  <2>5. result.records = <<>> \/ result.records = one \/ result.records = s
    BY <2>4 DEF Invalid, Failure, Success
  <2> QED BY <1>2, <2>2, <2>3, <2>5 DEF result
<1>9. ASSUME a.k \in Nat PROVE IsSequence(TopK(records, a).records)
  <2> DEFINE result == TopK(records, a)
             order == InOrder([i \in DOMAIN records |->
                                 {j \in DOMAIN records : Precedes(records, a, j, i)}])
             top == Top(records, order, a.k)
  <2>1. IsSequence(top)
    <3> HIDE DEF order
    <3> QED BY <1>9, TopIsSequence, Zenon
  <2>2. result = Invalid \/ result = Success(top)
    BY Zenon DEF TopK
  <2> HIDE DEF top, result
  <2>3. result.records = <<>> \/ result.records = top
    BY <2>2 DEF Invalid, Failure, Success
  <2> QED BY <1>2, <2>1, <2>3 DEF result
<1>10. ASSUME a.top_k \in Nat PROVE IsSequence(Retrieved(records, a).records)
  <2> DEFINE documents == [i \in DOMAIN records |-> records[i][a.text_field].value]
             score == [i \in DOMAIN records |-> Score(documents[i], documents, a.query)]
             scored == [i \in DOMAIN records |->
                          Merged(Single("_bm25_score", Float(score[i])), records[i])]
             order == InOrder([i \in DOMAIN records |->
                                 {j \in DOMAIN records :
                                    score[j] > score[i] \/ (score[j] = score[i] /\ j < i)}])
             top == Top(scored, order, a.top_k)
             result == Retrieved(records, a)
  <2>1. IsSequence(scored)
    <3> HIDE DEF score
    <3>1. DOMAIN scored = 1..n /\ scored = [i \in 1..n |-> scored[i]]
      BY <1>1
    <3> HIDE DEF scored
    <3> QED BY <1>3, <3>1, Zenon
  <2>2. result = Invalid \/ result = Success(top)
    BY Zenon DEF Retrieved
  <2>3. IsSequence(top)
    <3> HIDE DEF scored, order
    <3> QED BY <1>10, <2>1, TopIsSequence, Zenon
  <2> HIDE DEF top, result
  <2>4. result.records = <<>> \/ result.records = top
    BY <2>2 DEF Invalid, Failure, Success
  <2> QED BY <1>2, <2>3, <2>4 DEF result
<1> QED BY <1>5, <1>6, <1>7, <1>8, <1>9, <1>10

\* The requests are those that the schemas let through.
RecordRequestsValid ==
  IsSequence(requests) /\ \A request \in Range(requests) : IsRecordRequest(request)

\* What is stored is opaque or a sequence.
Sequences == \A id \in DOMAIN artifacts : artifacts[id] = Opaque \/ IsSequence(artifacts[id])

\* Every answer is to a request.
RecordAnswersValid == IsSequence(answers) /\ Len(answers) <= Len(requests)

\* The operators that are spoken of: those that rank records ...
Ranking == "top_k_records"

\* ... that group records ...
Grouping == "aggregate_records"

\* ... and that retrieve documents.
Retrieving == "bm25_retrieve"

\* Those of the operators that are spoken of.
Spoken == {Ranking, Grouping, Retrieving}

\* What they compute of the records of one artifact.
Computed(request, records) ==
  IF request.operator = Ranking THEN TopK(records, request.arguments)
  ELSE IF request.operator = Grouping THEN WithAggregations(records, request.arguments)
  ELSE Retrieved(records, request.arguments)

\* A success has read an artifact and written what is computed of it.
Produced(request) ==
  Loadable(request) /\ Writes(request, Computed(request, artifacts[request.inputs[1]]))

\* The inductive invariant: what a success has read is still there, and what it has
\* written is what the operator computes of it.
RecordInv ==
  /\ RecordRequestsValid
  /\ Sequences
  /\ RecordAnswersValid
  /\ \A n \in 1..Len(answers) :
       requests[n].operator \in Spoken /\ Succeeded(answers[n]) => Produced(requests[n])

\* What a success has produced stays.
LEMMA ProducedStays ==
  ASSUME Grows, NEW request, request.operator \in Spoken,
         IsSequence(request.inputs), Produced(request)
  PROVE  Produced(request)'
<1>1. Loadable(request) /\ Len(request.inputs) = 1 /\ 1 \in DOMAIN request.inputs
  <2>1. Loadable(request) /\ Len(request.inputs) = 1
    BY DEF Produced, Loadable, ArgumentsAreValid, Ranking, Grouping, Retrieving, Spoken
  <2> QED BY <2>1, ElementsOf
<1>2. artifacts'[request.inputs[1]] = artifacts[request.inputs[1]]
  BY <1>1 DEF Loadable, Grows
<1>3. Loadable(request)'
  BY <1>1 DEF Loadable, Grows, ArgumentsAreValid
<1> DEFINE result == Computed(request, artifacts[request.inputs[1]])
<1>4. Writes(request, result)
  BY DEF Produced
<1>5. /\ request.output \in DOMAIN artifacts'
      /\ result.status = "success" /\ artifacts'[request.output] = result.records
  <2> HIDE DEF result
  <2> QED BY <1>4 DEF Writes, Grows
<1>6. Computed(request, artifacts[request.inputs[1]])' = result
  BY <1>2, Zenon DEF Computed
<1> HIDE DEF result
<1> QED BY <1>3, <1>5, <1>6, Zenon DEF Produced, Writes

\* The records that are loaded.
LEMMA LoadedSequence ==
  ASSUME Sequences, Loadable(Request), IsSequence(Request.inputs)
  PROVE  /\ IsSequence(LoadRecords)
         /\ Request.operator # "aggregate_artifacts" => LoadRecords = artifacts[Request.inputs[1]]
<1> DEFINE inputs == Request.inputs
           seqs == [i \in DOMAIN inputs |-> artifacts[inputs[i]]]
           m == Len(inputs)
           X == UNION {Range(artifacts[inputs[i]]) : i \in DOMAIN inputs}
<1>1. m \in Nat /\ DOMAIN inputs = 1..m
  BY ElementsOf
<1>2. LoadRecords = FlattenSeq(seqs)
  BY DEF LoadRecords
<1>3. ASSUME NEW i \in 1..m PROVE IsSequence(seqs[i])
  BY <1>1 DEF Loadable, Sequences
<1>4. DOMAIN seqs = 1..m /\ \A i \in 1..m : seqs[i] = artifacts[inputs[i]]
  BY <1>1
<1>5. m = 1 \/ (Request.operator = "aggregate_artifacts" /\ m # 0)
  <2>1. m = 0 => inputs = <<>>
    BY DEF IsSequence
  <2> QED BY <2>1 DEF Loadable, ArgumentsAreValid
<1>6. CASE m = 1
  <2>1. seqs \in [1..1 -> {seqs[1]}]
    <3>1. \A i \in 1..1 : i = 1
      OBVIOUS
    <3> QED BY <1>1, <1>6, <3>1
  <2> HIDE DEF seqs
  <2>2. FlattenSeq(seqs) = seqs[1] /\ 1 \in 1..m
    <3>1. FlattenSeq(seqs) = seqs[1]
      BY <2>1, FlattenOne, Zenon
    <3> QED BY <1>6, <3>1
  <2> QED BY <1>2, <1>3, <1>4, <2>2
<1>7. CASE Request.operator = "aggregate_artifacts" /\ m # 0
  <2>1. \A i \in 1..m : seqs[i] \in Seq(X)
    <3> SUFFICES ASSUME NEW i \in 1..m PROVE seqs[i] \in Seq(X)
      BY Zenon
    <3> DEFINE Y == Range(seqs[i])
    <3>1. Y \in SUBSET X
      BY <1>1, <1>4
    <3>2. Len(seqs[i]) \in Nat /\ seqs[i] \in [1..Len(seqs[i]) -> Y]
      BY <1>3, ElementsOf
    <3> HIDE DEF X, Y, seqs
    <3>3. seqs[i] \in [1..Len(seqs[i]) -> X]
      BY <3>1, <3>2
    <3> QED BY <3>2, <3>3, SequenceOf
  <2>2. seqs \in [1..m -> Seq(X)] /\ m \in Nat \ {0}
    <3>1. seqs = [i \in 1..m |-> seqs[i]]
      BY <1>1
    <3> HIDE DEF X, seqs
    <3> QED BY <1>1, <1>7, <2>1, <3>1
  <2> HIDE DEF X, seqs, m
  <2>3. FlattenSeq(seqs) \in Seq(X)
    BY <2>2, FlattenMany
  <2> DEFINE flat == FlattenSeq(seqs)
  <2>4. Len(flat) \in Nat /\ flat \in [1..Len(flat) -> X]
    <3> HIDE DEF flat
    <3> QED BY <2>3 DEF flat
  <2>5. IsSequence(flat)
    <3> HIDE DEF flat
    <3> QED BY <2>4, SequenceOf, Zenon
  <2> QED BY <1>2, <1>7, <2>5
<1> QED BY <1>5, <1>6, <1>7

\* What an operator computes of the inputs of a request.
Fits(operator, result) ==
  Loadable(Request) /\ result.status = "success" =>
    /\ IsSequence(result.records)
    /\ operator \in Spoken => result = Computed(Request, artifacts[Request.inputs[1]])

\* The request that is answered next.
LEMMA NextRecordRequest ==
  ASSUME RecordInv, Len(answers) < Len(requests)
  PROVE  /\ IsRecordRequest(Request) /\ IsSequence(Request.inputs)
         /\ Len(answers) \in Nat /\ Len(answers) + 1 \in 1..Len(requests)
         /\ \A n \in 1..Len(requests) : IsRecordRequest(requests[n])
<1>1. RecordRequestsValid /\ Len(answers) \in Nat /\ Len(requests) \in Nat /\ DOMAIN requests = 1..Len(requests)
  BY ElementsOf DEF RecordInv, RecordAnswersValid, RecordRequestsValid
<1>2. \A n \in 1..Len(requests) : IsRecordRequest(requests[n])
  BY <1>1 DEF RecordRequestsValid, Range
<1>3. Len(answers) + 1 \in 1..Len(requests)
  BY <1>1
<1>4. IsRecordRequest(Request)
  BY <1>2, <1>3 DEF Request
<1> QED BY <1>1, <1>2, <1>3, <1>4 DEF IsRecordRequest, IsSequence

\* A step of the worker, whatever its operator computes.
LEMMA RecordStep ==
  ASSUME RecordInv, Len(answers) < Len(requests), NEW operator, NEW result,
         Execute(operator, result), Fits(operator, result)
  PROVE  RecordInv'
<1> DEFINE next == Len(answers) + 1
           request == Request
<1>1. /\ IsRecordRequest(request) /\ IsSequence(request.inputs) /\ IsSequence(answers)
      /\ Len(answers) \in Nat /\ next \in 1..Len(requests)
      /\ \A n \in 1..Len(requests) : IsRecordRequest(requests[n])
  BY NextRecordRequest DEF RecordInv, RecordAnswersValid
<1>2. /\ request.operator = operator /\ requests' = requests
      /\ Grows
      /\ \A id \in DOMAIN artifacts' \ DOMAIN artifacts :
           Loadable(request) /\ result.status = "success" /\ artifacts'[id] = result.records
      /\ IsSequence(answers') /\ Len(answers') = next
      /\ \A n \in 1..Len(answers) : answers'[n] = answers[n]
      /\ answers'[next] = "success" =>
           /\ Loadable(request) /\ result.status = "success"
           /\ request.output \in DOMAIN artifacts'
           /\ artifacts'[request.output] = result.records
  BY <1>1, ExecuteWrites
<1>3. RecordRequestsValid'
  BY <1>2 DEF RecordInv, RecordRequestsValid, IsSequence, IsRecordRequest
<1>4. Sequences'
  <2>1. \A id \in DOMAIN artifacts : artifacts'[id] = Opaque \/ IsSequence(artifacts'[id])
    BY <1>2 DEF RecordInv, Sequences, Grows
  <2>2. \A id \in DOMAIN artifacts' \ DOMAIN artifacts : IsSequence(artifacts'[id])
    BY <1>2, Zenon DEF Fits
  <2>3. \A id \in DOMAIN artifacts' : artifacts'[id] = Opaque \/ IsSequence(artifacts'[id])
    BY <2>1, <2>2, Zenon
  <2> QED BY <2>3, Zenon DEF Sequences, IsSequence, Range
<1>5. RecordAnswersValid'
  <2>1. IsSequence(answers)'
    BY <1>2, Zenon DEF IsSequence, Range
  <2> QED BY <1>1, <1>2, <2>1 DEF RecordAnswersValid
<1>6. ASSUME NEW n \in 1..Len(answers'), requests[n].operator \in Spoken,
             answers'[n] = "success"
      PROVE  Produced(requests[n])'
  <2>1. CASE n \in 1..Len(answers)
    <3>1. answers[n] = "success" /\ n \in 1..Len(requests)
      BY <1>1, <1>2, <1>6, <2>1
    <3>2. Produced(requests[n]) /\ IsRecordRequest(requests[n])
      BY <1>1, <1>6, <2>1, <3>1 DEF RecordInv, Succeeded
    <3>3. ASSUME NEW r, r = requests[n] PROVE Produced(r)'
      <4>1. Produced(r) /\ r.operator \in Spoken /\ IsSequence(r.inputs)
        BY <1>6, <3>2, <3>3 DEF IsRecordRequest, IsSequence
      <4> QED BY <1>2, <4>1, ProducedStays
    <3> QED BY <1>2, <3>3
  <2>2. CASE n = next
    <3>1. requests[n] = request
      BY <2>2 DEF Request
    <3>2. /\ Loadable(request) /\ result.status = "success"
          /\ request.output \in DOMAIN artifacts'
          /\ artifacts'[request.output] = result.records
          /\ request.operator \in Spoken
      BY <1>2, <1>6, <2>2, <3>1
    <3> DEFINE records == artifacts[request.inputs[1]]
    <3>3. result = Computed(request, records)
      BY <1>2, <3>2, Zenon DEF Fits
    <3>4. request.inputs[1] \in DOMAIN artifacts
      <4>1. Len(request.inputs) = 1
        BY <3>2 DEF Loadable, ArgumentsAreValid, Ranking, Grouping, Retrieving, Spoken
      <4>2. 1 \in DOMAIN request.inputs
        <5> HIDE DEF request
        <5> QED BY <1>1, <4>1, ElementsOf
      <4> QED BY <3>2, <4>2 DEF Loadable
    <3>5. artifacts'[request.inputs[1]] = records
      BY <1>2, <3>4 DEF Grows
    <3> HIDE DEF request
    <3>6. ASSUME NEW r, r = request PROVE Produced(r)'
      <4>1. Loadable(r)'
        BY <1>2, <3>2, <3>6 DEF Loadable, Grows, ArgumentsAreValid
      <4>2. Computed(r, artifacts[r.inputs[1]])' = Computed(request, records)
        BY <3>5, <3>6, Zenon DEF Computed
      <4>3. /\ r.output \in DOMAIN artifacts' /\ result.status = "success"
            /\ artifacts'[r.output] = result.records
        BY <3>2, <3>6
      <4> HIDE DEF records
      <4> QED BY <3>3, <4>1, <4>2, <4>3, Zenon DEF Produced, Writes
    <3> QED BY <1>2, <3>1, <3>6
  <2>3. n \in 1..Len(answers) \/ n = next
    BY <1>1, <1>2
  <2> QED BY <2>1, <2>2, <2>3
<1>7. \A n \in 1..Len(answers') :
        requests'[n].operator \in Spoken /\ answers'[n] = "success" => Produced(requests[n])'
  BY <1>2, <1>6
<1> QED BY <1>3, <1>4, <1>5, <1>7, Zenon DEF RecordInv, Succeeded, Ranking, Grouping, Retrieving, Spoken

\* The seven operators compute what they should.
LEMMA RecordResultsFit ==
  ASSUME RecordInv, Len(answers) < Len(requests)
  PROVE  /\ Request.operator = "filter_records" =>
              Fits("filter_records", Filtered(LoadRecords, Request.arguments))
         /\ Request.operator = "select_fields" =>
              Fits("select_fields", Selected(LoadRecords, Request.arguments))
         /\ Request.operator = "derive_fields" =>
              Fits("derive_fields", WithDerivedFields(LoadRecords, Request.arguments))
         /\ Request.operator = "aggregate_records" =>
              Fits("aggregate_records", WithAggregations(LoadRecords, Request.arguments))
         /\ Request.operator = "top_k_records" =>
              Fits("top_k_records", TopK(LoadRecords, Request.arguments))
         /\ Request.operator = "aggregate_artifacts" =>
              Fits("aggregate_artifacts", Success(LoadRecords))
         /\ Request.operator = "bm25_retrieve" =>
              Fits("bm25_retrieve", Retrieved(LoadRecords, Request.arguments))
<1> DEFINE a == Request.arguments
           records == LoadRecords
           source == artifacts[Request.inputs[1]]
<1>1. /\ IsRecordRequest(Request)
      /\ Loadable(Request) =>
           /\ IsSequence(records)
           /\ Request.operator # "aggregate_artifacts" => records = source
  <2>1. IsRecordRequest(Request) /\ IsSequence(Request.inputs) /\ Sequences
    BY NextRecordRequest DEF RecordInv
  <2> QED BY <2>1, LoadedSequence
<1>2. /\ Request.operator = "top_k_records" => a.k \in Nat
      /\ Request.operator = "bm25_retrieve" => a.top_k \in Nat
  BY <1>1 DEF IsRecordRequest
<1> HIDE DEF a, records, source
<1>3. ASSUME Loadable(Request)
      PROVE  /\ IsSequence(Filtered(records, a).records)
             /\ IsSequence(Selected(records, a).records)
             /\ IsSequence(WithDerivedFields(records, a).records)
             /\ IsSequence(WithAggregations(records, a).records)
             /\ a.k \in Nat => IsSequence(TopK(records, a).records)
             /\ a.top_k \in Nat => IsSequence(Retrieved(records, a).records)
  BY <1>1, <1>3, ResultsAreSequences, Zenon
<1>4. Fits("filter_records", Filtered(records, a))
      /\ Fits("select_fields", Selected(records, a))
      /\ Fits("derive_fields", WithDerivedFields(records, a))
  <2>1. "filter_records" \notin Spoken /\ "select_fields" \notin Spoken
        /\ "derive_fields" \notin Spoken
    BY DEF Ranking, Grouping, Retrieving, Spoken
  <2> QED BY <1>3, <2>1, Zenon DEF Fits
<1>5. Fits("aggregate_artifacts", Success(records))
  <2>1. "aggregate_artifacts" \notin Spoken
    BY DEF Ranking, Grouping, Retrieving, Spoken
  <2>2. Success(records).records = records
    BY DEF Success
  <2> QED BY <1>1, <2>1, <2>2, Zenon DEF Fits
<1>6. ASSUME Request.operator = "bm25_retrieve"
      PROVE  Fits("bm25_retrieve", Retrieved(records, a))
  <2>1. Loadable(Request) => records = source
    BY <1>1, <1>6
  <2>2. Computed(Request, source) = Retrieved(source, a)
    BY <1>6 DEF Computed, Ranking, Grouping, Retrieving, Spoken, a
  <2> QED BY <1>2, <1>3, <1>6, <2>1, <2>2, Zenon DEF Fits, source
<1>7. ASSUME Request.operator = "aggregate_records"
      PROVE  Fits("aggregate_records", WithAggregations(records, a))
  <2>1. Loadable(Request) => records = source
    BY <1>1, <1>7
  <2>2. Computed(Request, source) = WithAggregations(source, a)
    BY <1>7 DEF Computed, Ranking, Grouping, a
  <2> QED BY <1>3, <2>1, <2>2, Zenon DEF Fits, source
<1>8. ASSUME Request.operator = "top_k_records"
      PROVE  Fits("top_k_records", TopK(records, a))
  <2>1. Loadable(Request) => records = source
    BY <1>1, <1>8
  <2>2. Computed(Request, source) = TopK(source, a)
    BY <1>8 DEF Computed, Ranking, Grouping, a
  <2> QED BY <1>2, <1>3, <1>8, <2>1, <2>2, Zenon DEF Fits, source
<1> QED BY <1>4, <1>5, <1>6, <1>7, <1>8, Zenon DEF a, records

\* A worker that has answered nothing.
LEMMA RecordInit == OperatorInit(RecordWorkloads) => RecordInv
<1> SUFFICES ASSUME NEW workload \in RecordWorkloads,
                    artifacts = workload.store, requests = workload.requests, answers = <<>>
             PROVE  RecordInv
  BY DEF OperatorInit
<1>1. RecordRequestsValid
  BY RecordAssumption DEF RecordRequestsValid, IsSequence
<1>2. Sequences
  BY RecordAssumption DEF Sequences, IsRecords, IsSequence
<1>3. RecordAnswersValid /\ Len(answers) = 0
  <2>1. IsSequence(answers) /\ Len(answers) = 0
    BY DEF IsSequence, Range
  <2>2. Len(requests) \in Nat
    BY <1>1, ElementsOf DEF RecordRequestsValid
  <2> QED BY <2>1, <2>2 DEF RecordAnswersValid
<1> QED BY <1>1, <1>2, <1>3 DEF RecordInv

\* A step of the worker keeps the invariant.
LEMMA RecordNextPreserves == RecordInv /\ [RecordNext]_operatorVars => RecordInv'
<1> SUFFICES ASSUME RecordInv, [RecordNext]_operatorVars PROVE RecordInv'
  OBVIOUS
<1>1. CASE UNCHANGED operatorVars
  <2>1. artifacts' = artifacts /\ requests' = requests /\ answers' = answers
    BY <1>1 DEF operatorVars
  <2>2. RecordRequestsValid' /\ Sequences' /\ RecordAnswersValid'
    BY <2>1 DEF RecordInv, RecordRequestsValid, Sequences, RecordAnswersValid, IsSequence,
                IsRecordRequest
  <2>3. Grows
    BY <2>1 DEF Grows
  <2>4. ASSUME NEW n \in 1..Len(answers), requests[n].operator \in Spoken,
               Succeeded(answers[n])
        PROVE  Produced(requests[n])'
    <3>1. Produced(requests[n])
      BY <2>4 DEF RecordInv
    <3>2. IsSequence(requests[n].inputs)
      <4>1. n \in DOMAIN requests
        BY ElementsOf DEF RecordInv, RecordAnswersValid, RecordRequestsValid
      <4> QED BY <4>1 DEF RecordInv, RecordRequestsValid, IsRecordRequest, IsSequence, Range
    <3>3. ASSUME NEW r, r = requests[n] PROVE Produced(r)'
      <4>1. Produced(r) /\ r.operator \in Spoken /\ IsSequence(r.inputs)
        BY <2>4, <3>1, <3>2, <3>3
      <4> QED BY <2>3, <4>1, ProducedStays
    <3> QED BY <2>1, <3>3
  <2> QED BY <2>1, <2>2, <2>4, Zenon DEF RecordInv, Succeeded, Ranking, Grouping, Retrieving, Spoken
<1>2. CASE RecordNext
  <2>1. Len(answers) < Len(requests)
    BY <1>2 DEF RecordNext
  <2>2. ASSUME NEW operator, NEW result, Execute(operator, result),
               Request.operator = operator => Fits(operator, result)
        PROVE  RecordInv'
    BY <2>1, <2>2, RecordStep, Zenon DEF Execute
  <2>3. CASE FilterRecords
    BY <2>1, <2>2, <2>3, RecordResultsFit, Zenon DEF FilterRecords
  <2>4. CASE SelectFields
    BY <2>1, <2>2, <2>4, RecordResultsFit, Zenon DEF SelectFields
  <2>5. CASE DeriveFields
    BY <2>1, <2>2, <2>5, RecordResultsFit, Zenon DEF DeriveFields
  <2>6. CASE AggregateRecords
    BY <2>1, <2>2, <2>6, RecordResultsFit, Zenon DEF AggregateRecords
  <2>7. CASE TopKRecords
    BY <2>1, <2>2, <2>7, RecordResultsFit, Zenon DEF TopKRecords
  <2>8. CASE AggregateArtifacts
    BY <2>1, <2>2, <2>8, RecordResultsFit, Zenon DEF AggregateArtifacts
  <2>9. CASE Bm25Retrieve
    BY <2>1, <2>2, <2>9, RecordResultsFit, Zenon DEF Bm25Retrieve
  <2> QED BY <1>2, <2>3, <2>4, <2>5, <2>6, <2>7, <2>8, <2>9 DEF RecordNext
<1> QED BY <1>1, <1>2

\* What was grouped or ranked is what the operator computes of its input, which is
\* still there: no artifact is overwritten (artifact_store.py:59-67, 93-118).
THEOREM RecordInvariant == RecordSpec => []RecordInv
<1> QED BY RecordInit, RecordNextPreserves, PTL DEF RecordSpec

-----------------------------------------------------------------------------
(* aggregate_records: the groups partition the records. *)

\* Two records have the same values in the fields of a group.
SameGroup(first, second, group_by) ==
  \A field \in Range(group_by) : Equal(first[field], second[field])

\* The key of a record are its values in the fields of the group.
LEMMA SameKey ==
  ASSUME NEW first, NEW second, NEW group_by
  PROVE  SameGroup(first, second, group_by) <=> Key(first, group_by) = Key(second, group_by)
<1>1. ASSUME SameGroup(first, second, group_by)
      PROVE  Key(first, group_by) = Key(second, group_by)
  <2>1. \A i \in DOMAIN group_by : Plain(first[group_by[i]]) = Plain(second[group_by[i]])
    BY <1>1, Zenon DEF SameGroup, Equal, Range
  <2> HIDE DEF Plain
  <2> QED BY <2>1 DEF Key
<1>2. ASSUME Key(first, group_by) = Key(second, group_by)
      PROVE  SameGroup(first, second, group_by)
  <2> SUFFICES ASSUME NEW i \in DOMAIN group_by
               PROVE  Equal(first[group_by[i]], second[group_by[i]])
    BY Zenon DEF SameGroup, Range
  <2>1. Key(first, group_by)[i] = Plain(first[group_by[i]])
        /\ Key(second, group_by)[i] = Plain(second[group_by[i]])
    BY Zenon DEF Key
  <2> QED BY <1>2, <2>1, Zenon DEF Equal
<1> QED BY <1>1, <1>2

\* The first records of the groups.
Heads(records, group_by) ==
  {i \in DOMAIN records : \A j \in 1..(i - 1) : Key(records[j], group_by) # Key(records[i], group_by)}

\* Every record has one record that its group starts with.
LEMMA OneStart ==
  ASSUME NEW records, IsSequence(records), NEW group_by, NEW i \in DOMAIN records
  PROVE  \E start \in Heads(records, group_by) :
           \A j \in Heads(records, group_by) :
             Key(records[j], group_by) = Key(records[i], group_by) <=> j = start
<1> DEFINE n == Len(records)
           key(j) == Key(records[j], group_by)
           same == {j \in 1..n : key(j) = key(i)}
           start == Min(same)
<1>1. n \in Nat /\ DOMAIN records = 1..n
  BY ElementsOf
<1> HIDE DEF n, key
<1>2. start \in same /\ \A j \in same : start <= j
  <2>1. same \in SUBSET (1..n) /\ same # {}
    BY <1>1
  <2> HIDE DEF same
  <2> QED BY <1>1, <2>1, MinExists, Zenon
<1> HIDE DEF start
<1>3. ASSUME NEW j \in 1..(start - 1) PROVE key(j) # key(start)
  <2>1. j \in 1..n /\ j < start
    BY <1>1, <1>2
  <2> QED BY <1>1, <1>2, <2>1
<1>4. start \in Heads(records, group_by)
  BY <1>1, <1>2, <1>3, Zenon DEF Heads, key
<1>5. ASSUME NEW j \in Heads(records, group_by), key(j) = key(i) PROVE j = start
  <2>1. j \in 1..n /\ \A k \in 1..(j - 1) : key(k) # key(j)
    BY <1>1, Zenon DEF Heads, key
  <2>2. start <= j /\ start \in 1..n /\ key(start) = key(i)
    BY <1>2, <1>5, <2>1
  <2>3. start \notin 1..(j - 1)
    BY <1>5, <2>1, <2>2
  <2> QED BY <1>1, <2>1, <2>2, <2>3
<1>6. key(start) = key(i)
  BY <1>2
<1> QED BY <1>4, <1>5, <1>6, Zenon DEF key

\* Aggregations that overwrite neither each other's fields nor those of the groups.
Separate(a) ==
  /\ IsInjective([m \in DOMAIN a.aggregations |-> a.aggregations[m].output_field])
  /\ \A m \in DOMAIN a.aggregations : a.aggregations[m].output_field \notin Range(a.group_by)

\* A row keeps the fields of the group, and counts it.
IsRowOf(row, record, group, a) ==
  /\ IsSequence(a.aggregations) /\ Separate(a)
  /\ row = Row(Restrict(record, Range(a.group_by)), group, a.aggregations)

\* aggregate_records makes such a row.
LEMMA RowOfGroup ==
  ASSUME NEW record, NEW group, NEW a, NEW row, IsRowOf(row, record, group, a)
  PROVE  /\ \A field \in Range(a.group_by) : row[field] = record[field]
         /\ \A m \in DOMAIN a.aggregations :
              row[a.aggregations[m].output_field] = Aggregated(group, a.aggregations[m])
<1> DEFINE aggregations == a.aggregations
           group_by == a.group_by
           key == Restrict(record, Range(group_by))
           last(field) == Max({n \in DOMAIN aggregations : aggregations[n].output_field = field})
           outputs == {aggregations[n].output_field : n \in DOMAIN aggregations}
<1>1. row = [field \in DOMAIN key \cup outputs |->
               IF field \in outputs THEN Aggregated(group, aggregations[last(field)]) ELSE key[field]]
  BY Zenon DEF Row, IsRowOf
<1>2. DOMAIN key = Range(group_by) /\ \A field \in Range(group_by) : key[field] = record[field]
  BY DEF Restrict
<1>3. \A field \in Range(group_by) : field \notin outputs
  BY DEF Separate, IsRowOf
<1>4. ASSUME NEW m \in DOMAIN aggregations
      PROVE  aggregations[m].output_field \in outputs /\ last(aggregations[m].output_field) = m
  <2> DEFINE S == {n \in DOMAIN aggregations :
                     aggregations[n].output_field = aggregations[m].output_field}
  <2>1. S = {m}
    BY Zenon DEF Separate, IsInjective, IsRowOf
  <2>2. m \in Int
    BY ElementsOf DEF IsRowOf
  <2>3. Max({m}) = m
    BY <2>2 DEF Max
  <2> QED BY <2>1, <2>3
<1> HIDE DEF key, last, outputs
<1>5. \A field \in Range(group_by) : row[field] = record[field]
  BY <1>1, <1>2, <1>3, Zenon
<1>6. \A m \in DOMAIN aggregations :
        row[aggregations[m].output_field] = Aggregated(group, aggregations[m])
  <2> SUFFICES ASSUME NEW m \in DOMAIN aggregations
               PROVE  row[aggregations[m].output_field] = Aggregated(group, aggregations[m])
    OBVIOUS
  <2> DEFINE field == aggregations[m].output_field
  <2>1. field \in outputs /\ last(field) = m
    BY <1>4
  <2> HIDE DEF field
  <2>2. row[field] = Aggregated(group, aggregations[last(field)])
    BY <1>1, <2>1, Zenon
  <2> QED BY <2>1, <2>2 DEF field
<1> QED BY <1>5, <1>6

\* A row counts the records that have its values.
CountsItself(row, records, a) ==
  \A m \in DOMAIN a.aggregations : a.aggregations[m].operation = "count" =>
    row[a.aggregations[m].output_field] =
      Integer(Unit * Cardinality({i \in DOMAIN records : SameGroup(row, records[i], a.group_by)}))

\* aggregate_records, whatever the records and the aggregations.
LEMMA GroupsOfRecords ==
  ASSUME NEW records, IsSequence(records), NEW a, IsSequence(a.aggregations), IsSequence(a.group_by),
         Separate(a), WithAggregations(records, a).status = "success"
  PROVE  LET rows == WithAggregations(records, a).records
         IN  /\ \A i \in DOMAIN records :
                  Cardinality({r \in DOMAIN rows : SameGroup(rows[r], records[i], a.group_by)}) = 1
             /\ \A r \in DOMAIN rows : CountsItself(rows[r], records, a)
<1> DEFINE n == Len(records)
           I == Heads(records, a.group_by)
           m == Cardinality(I)
           starts == GroupStarts(records, a.group_by)
           row(g) == Row(Restrict(records[starts[g]], Range(a.group_by)),
                         Group(records, a.group_by, starts[g]), a.aggregations)
           all == [g \in DOMAIN starts |-> row(g)]
           only == <<Row(<<>>, <<>>, a.aggregations)>>
           rows == WithAggregations(records, a).records
<1>1. n \in Nat /\ DOMAIN records = 1..n
  BY ElementsOf
<1>2. m \in 0..n /\ starts \in Bijection(1..m, I)
  <2>1. I \in SUBSET (1..n)
    BY <1>1 DEF Heads
  <2>2. starts = Listed(I)
    BY DEF GroupStarts, Heads
  <2> HIDE DEF I, n, starts
  <2> QED BY <1>1, <2>1, <2>2, ListedInOrder
<1>3. (records = <<>> /\ a.group_by = <<>> /\ rows = only) \/ rows = all
  <2> DEFINE result == WithAggregations(records, a)
  <2>1. result = Invalid \/ (records = <<>> /\ a.group_by = <<>> /\ result = Success(only))
          \/ result = Success(all)
    <3> HIDE DEF only
    <3> QED BY Zenon DEF WithAggregations, only
  <2>2. result.status = "success"
    OBVIOUS
  <2> HIDE DEF result, only, all
  <2> QED BY <2>1, <2>2 DEF Invalid, Failure, Success, result
<1>4. CASE records = <<>> /\ a.group_by = <<>> /\ rows = only
  <2>1. DOMAIN records = {} /\ DOMAIN rows = {1} /\ Range(a.group_by) = {}
    <3> DEFINE other == Row(<<>>, <<>>, a.aggregations)
    <3> HIDE DEF other
    <3>1. DOMAIN <<other>> = {1}
      OBVIOUS
    <3> QED BY <1>4, <3>1 DEF other, Range
  <2>2. rows[1] = Row(<<>>, <<>>, a.aggregations)
    <3> DEFINE other == Row(<<>>, <<>>, a.aggregations)
    <3> HIDE DEF other
    <3>1. <<other>>[1] = other
      OBVIOUS
    <3> QED BY <1>4, <3>1 DEF other
  <2>3. Restrict(<<>>, Range(a.group_by)) = <<>>
    BY <2>1 DEF Restrict
  <2>4. \A k \in DOMAIN a.aggregations :
          rows[1][a.aggregations[k].output_field] = Aggregated(<<>>, a.aggregations[k])
    <3> DEFINE first == rows[1]
    <3>1. IsRowOf(first, <<>>, <<>>, a)
      BY <2>2, <2>3 DEF IsRowOf
    <3> HIDE DEF first
    <3>2. \A k \in DOMAIN a.aggregations :
            first[a.aggregations[k].output_field] = Aggregated(<<>>, a.aggregations[k])
      BY <3>1, RowOfGroup
    <3> QED BY <3>2 DEF first
  <2>5. CountsItself(rows[1], records, a)
    <3>1. {i \in DOMAIN records : SameGroup(rows[1], records[i], a.group_by)} = {}
      BY <2>1
    <3>2. Cardinality({}) = 0 /\ Unit * 0 = 0 /\ Len(<<>>) * Unit = 0
      BY FS_EmptySet, UnitAssumption
    <3>3. \A k \in DOMAIN a.aggregations :
            a.aggregations[k].operation = "count" => Aggregated(<<>>, a.aggregations[k]) = Integer(0)
      BY <3>2 DEF Aggregated
    <3> HIDE DEF rows
    <3> QED BY <2>4, <3>1, <3>2, <3>3, Zenon DEF CountsItself
  <2> HIDE DEF rows
  <2> QED BY <2>1, <2>5 DEF rows
<1>5. CASE rows = all
  <2> HIDE DEF n, I
  <2>1. /\ DOMAIN starts = 1..m /\ \A g \in 1..m : starts[g] \in I
        /\ \A start \in I : \E g \in 1..m : starts[g] = start
        /\ \A g, h \in 1..m : starts[g] = starts[h] => g = h
    BY <1>2, Zenon DEF Bijection, Injection, Surjection, IsInjective
  <2>2. DOMAIN rows = 1..m /\ \A g \in 1..m : rows[g] = row(g)
    <3> HIDE DEF row, m, starts
    <3> QED BY <1>5, <2>1
  <2> HIDE DEF m, starts, rows
  <2>3. ASSUME NEW g \in 1..m
        PROVE  /\ \A field \in Range(a.group_by) : rows[g][field] = records[starts[g]][field]
               /\ \A k \in DOMAIN a.aggregations :
                    rows[g][a.aggregations[k].output_field] =
                      Aggregated(Group(records, a.group_by, starts[g]), a.aggregations[k])
    <3> DEFINE first == rows[g]
    <3>1. IsRowOf(first, records[starts[g]], Group(records, a.group_by, starts[g]), a)
      BY <2>2 DEF IsRowOf
    <3> HIDE DEF first
    <3>2. /\ \A field \in Range(a.group_by) : first[field] = records[starts[g]][field]
          /\ \A k \in DOMAIN a.aggregations :
               first[a.aggregations[k].output_field] =
                 Aggregated(Group(records, a.group_by, starts[g]), a.aggregations[k])
      BY <3>1, RowOfGroup
    <3> QED BY <3>2 DEF first
  <2>4. ASSUME NEW g \in 1..m, NEW i \in DOMAIN records
        PROVE  SameGroup(rows[g], records[i], a.group_by)
                 <=> Key(records[starts[g]], a.group_by) = Key(records[i], a.group_by)
    <3>1. SameGroup(rows[g], records[i], a.group_by)
            <=> SameGroup(records[starts[g]], records[i], a.group_by)
      BY <2>3, Zenon DEF SameGroup
    <3> QED BY <3>1, SameKey
  <2>5. ASSUME NEW i \in DOMAIN records
        PROVE  Cardinality({r \in DOMAIN rows : SameGroup(rows[r], records[i], a.group_by)}) = 1
    <3>1. PICK start \in I :
            \A j \in I : Key(records[j], a.group_by) = Key(records[i], a.group_by) <=> j = start
      BY OneStart DEF I
    <3>2. PICK g \in 1..m : starts[g] = start
      BY <2>1
    <3>3. ASSUME NEW r \in DOMAIN rows
          PROVE  SameGroup(rows[r], records[i], a.group_by) <=> r = g
      <4>1. r \in 1..m /\ starts[r] \in I
        BY <2>1, <2>2
      <4>2. SameGroup(rows[r], records[i], a.group_by) <=> starts[r] = start
        BY <2>4, <3>1, <4>1
      <4> QED BY <2>1, <3>2, <4>1, <4>2
    <3>4. {r \in DOMAIN rows : SameGroup(rows[r], records[i], a.group_by)} = {g}
      BY <2>2, <3>3
    <3> QED BY <3>4, FS_Singleton
  <2>6. ASSUME NEW r \in DOMAIN rows PROVE CountsItself(rows[r], records, a)
    <3> SUFFICES ASSUME NEW k \in DOMAIN a.aggregations, a.aggregations[k].operation = "count"
                 PROVE  rows[r][a.aggregations[k].output_field] =
                          Integer(Unit * Cardinality({i \in DOMAIN records :
                                                       SameGroup(rows[r], records[i], a.group_by)}))
      BY DEF CountsItself
    <3> DEFINE J == {i \in DOMAIN records :
                       Key(records[i], a.group_by) = Key(records[starts[r]], a.group_by)}
               group == Group(records, a.group_by, starts[r])
    <3>1. r \in 1..m
      BY <2>2
    <3>2. {i \in DOMAIN records : SameGroup(rows[r], records[i], a.group_by)} = J
      BY <2>4, <3>1
    <3>3. group = Kept(records, J)
      BY DEF Group
    <3>4. J \in SUBSET (1..n)
      BY <1>1
    <3> HIDE DEF J, group
    <3>5. Cardinality(J) \in 0..n /\ group \in [1..Cardinality(J) -> {records[i] : i \in J}]
      BY <1>1, <3>3, <3>4, KeptOfSequence
    <3>6. Cardinality(J) \in Nat /\ Len(group) = Cardinality(J)
      BY <1>1, <3>5, SequenceOf
    <3>7. Len(group) * Unit = Unit * Cardinality(J)
      BY <3>6, UnitAssumption
    <3>8. Aggregated(group, a.aggregations[k]) = Integer(Len(group) * Unit)
      BY DEF Aggregated
    <3>9. rows[r][a.aggregations[k].output_field] = Aggregated(group, a.aggregations[k])
      BY <2>3, <3>1 DEF group
    <3> QED BY <3>2, <3>7, <3>8, <3>9, Zenon
  <2> QED BY <2>5, <2>6 DEF rows
<1> HIDE DEF rows, only, all
<1> QED BY <1>3, <1>4, <1>5, Zenon DEF rows

\* What a success has read and written.
LEMMA InputAndOutput ==
  ASSUME RecordInv, NEW n \in DOMAIN answers, requests[n].operator \in Spoken,
         Succeeded(answers[n])
  PROVE  /\ IsRecordRequest(requests[n]) /\ IsSequence(Input(n))
         /\ Computed(requests[n], Input(n)).status = "success"
         /\ Output(n) = Computed(requests[n], Input(n)).records
         /\ Input(n) = artifacts[requests[n].inputs[1]]
         /\ requests[n].inputs[1] \in DOMAIN artifacts /\ artifacts[requests[n].inputs[1]] # Opaque
<1> DEFINE request == requests[n]
           source == artifacts[request.inputs[1]]
<1>1. n \in 1..Len(answers) /\ n \in DOMAIN requests
  BY ElementsOf DEF RecordInv, RecordAnswersValid, RecordRequestsValid
<1>2. IsRecordRequest(request) /\ IsSequence(request.inputs)
  <2>1. request \in Range(requests)
    BY <1>1 DEF Range
  <2>2. IsRecordRequest(request)
    BY <2>1 DEF RecordInv, RecordRequestsValid
  <2> HIDE DEF request
  <2> QED BY <2>2 DEF IsRecordRequest, IsSequence
<1>3. Loadable(request) /\ Writes(request, Computed(request, source))
  BY <1>1 DEF RecordInv, Produced
<1>4. Len(request.inputs) = 1 /\ DOMAIN request.inputs = 1..1
  <2>1. Len(request.inputs) = 1
    BY <1>3 DEF Loadable, ArgumentsAreValid, Ranking, Grouping, Retrieving, Spoken
  <2> HIDE DEF request
  <2>2. DOMAIN request.inputs = 1..Len(request.inputs)
    BY <1>2, ElementsOf
  <2> QED BY <2>1, <2>2
<1>5. IsSequence(source) /\ request.inputs[1] \in DOMAIN artifacts /\ source # Opaque
  BY <1>3, <1>4 DEF Loadable, RecordInv, Sequences
<1>6. Input(n) = source
  <2> DEFINE seqs == [i \in DOMAIN request.inputs |-> artifacts[request.inputs[i]]]
  <2>1. Input(n) = FlattenSeq(seqs)
    BY DEF Input
  <2>2. seqs \in [1..1 -> {source}] /\ seqs[1] = source
    <3>1. \A i \in 1..1 : i = 1
      OBVIOUS
    <3> HIDE DEF request
    <3> QED BY <1>4, <3>1
  <2> HIDE DEF seqs, source
  <2>3. FlattenSeq(seqs) = seqs[1]
    BY <2>2, FlattenOne, Zenon
  <2> QED BY <2>1, <2>2, <2>3
<1> HIDE DEF source
<1>7. Output(n) = artifacts[request.output]
  BY DEF Output
<1> HIDE DEF request
<1>8. Computed(request, source).status = "success" /\ Output(n) = Computed(request, source).records
  BY <1>3, <1>7 DEF Writes
<1> QED BY <1>2, <1>5, <1>6, <1>8, Zenon DEF request, source

\* The invariant says that of every request that was answered.
LEMMA GroupsPartitioned == RecordInv => GroupsPartitionTheRecords
<1> SUFFICES ASSUME RecordInv, NEW n \in DOMAIN answers, Answered(n, "aggregate_records")
             PROVE
    LET a == requests[n].arguments
        agree(row, record) == \A field \in Range(a.group_by) : Equal(row[field], record[field])
        outputs == [m \in DOMAIN a.aggregations |-> a.aggregations[m].output_field]
    IN  IsInjective(outputs) /\ Range(outputs) \cap Range(a.group_by) = {} =>
          /\ \A record \in Range(Input(n)) :
               Cardinality({r \in DOMAIN Output(n) : agree(Output(n)[r], record)}) = 1
          /\ \A row \in Range(Output(n)) :
               \A aggregation \in Range(a.aggregations) :
                 aggregation.operation = "count" =>
                   Equal(row[aggregation.output_field],
                         Integer(Unit * Cardinality({i \in DOMAIN Input(n) : agree(row, Input(n)[i])})))
  BY DEF GroupsPartitionTheRecords
<1> DEFINE a == requests[n].arguments
           outputs == [m \in DOMAIN a.aggregations |-> a.aggregations[m].output_field]
           records == Input(n)
           rows == Output(n)
<1>1. SUFFICES ASSUME IsInjective(outputs), Range(outputs) \cap Range(a.group_by) = {}
      PROVE
          /\ \A record \in Range(records) :
               Cardinality({r \in DOMAIN rows : SameGroup(rows[r], record, a.group_by)}) = 1
          /\ \A row \in Range(rows) :
               \A aggregation \in Range(a.aggregations) :
                 aggregation.operation = "count" =>
                   Equal(row[aggregation.output_field],
                         Integer(Unit * Cardinality({i \in DOMAIN records :
                                                      SameGroup(row, records[i], a.group_by)})))
  BY DEF SameGroup
<1>2. requests[n].operator = "aggregate_records" /\ Succeeded(answers[n])
  BY DEF Answered
<1>3. /\ IsRecordRequest(requests[n]) /\ IsSequence(records)
      /\ Computed(requests[n], records).status = "success"
      /\ rows = Computed(requests[n], records).records
  BY <1>2, InputAndOutput DEF Grouping, Spoken
<1>4. Computed(requests[n], records) = WithAggregations(records, a)
  BY <1>2 DEF Computed, Ranking, Grouping
<1>5. IsSequence(a.aggregations) /\ IsSequence(a.group_by)
  BY <1>2, <1>3 DEF IsRecordRequest, IsSequence
<1>6. Separate(a)
  BY <1>1, Zenon DEF Separate, Range
<1> HIDE DEF a, records, rows, outputs
<1>7. /\ \A i \in DOMAIN records :
           Cardinality({r \in DOMAIN rows : SameGroup(rows[r], records[i], a.group_by)}) = 1
      /\ \A r \in DOMAIN rows : CountsItself(rows[r], records, a)
  BY <1>3, <1>4, <1>5, <1>6, GroupsOfRecords
<1>8. ASSUME NEW record \in Range(records)
      PROVE  Cardinality({r \in DOMAIN rows : SameGroup(rows[r], record, a.group_by)}) = 1
  BY <1>7, Zenon DEF Range
<1>9. ASSUME NEW row \in Range(rows), NEW aggregation \in Range(a.aggregations),
             aggregation.operation = "count"
      PROVE  Equal(row[aggregation.output_field],
                   Integer(Unit * Cardinality({i \in DOMAIN records :
                                                SameGroup(row, records[i], a.group_by)})))
  <2>1. CountsItself(row, records, a)
    BY <1>7, Zenon DEF Range
  <2>2. PICK m \in DOMAIN a.aggregations : a.aggregations[m] = aggregation
    BY Zenon DEF Range
  <2> QED BY <1>9, <2>1, <2>2, Zenon DEF CountsItself, Equal
<1> QED BY <1>8, <1>9

\* aggregate_records counts every record in one row, the row that has its values in the
\* fields of the group, and every row counts the records it has been made of, for
\* every store, every list of fields and every list of aggregations that overwrite
\* neither the group's fields nor each other's (structured.py:254-275).
THEOREM GroupsPartition == RecordSpec => []GroupsPartitionTheRecords
<1> QED BY RecordInvariant, GroupsPartitioned, PTL

-----------------------------------------------------------------------------
(* The orders of values and of scores. *)

\* No sequence is before itself.
LEMMA LessIrreflexive ==
  ASSUME NEW s \in Seq(Int)
  PROVE  ~Less(s, s)
BY DEF Less

\* The order of sequences is transitive.
LEMMA LessTransitive ==
  ASSUME NEW s \in Seq(Int), NEW t \in Seq(Int), NEW u \in Seq(Int), Less(s, t), Less(t, u)
  PROVE  Less(s, u)
<1>1. PICK i \in 1..Len(t) : /\ i <= Len(s) + 1
                             /\ \A k \in 1..(i - 1) : s[k] = t[k]
                             /\ i <= Len(s) => s[i] < t[i]
  BY Zenon DEF Less
<1>2. PICK j \in 1..Len(u) : /\ j <= Len(t) + 1
                             /\ \A k \in 1..(j - 1) : t[k] = u[k]
                             /\ j <= Len(t) => t[j] < u[j]
  BY Zenon DEF Less
<1>3. Len(s) \in Nat /\ Len(t) \in Nat /\ Len(u) \in Nat
  OBVIOUS
<1>4. /\ \A k \in 1..Len(s) : s[k] \in Int
      /\ \A k \in 1..Len(t) : t[k] \in Int
      /\ \A k \in 1..Len(u) : u[k] \in Int
  OBVIOUS
<1>5. CASE i < j
  <2>1. i \in 1..Len(u) /\ i \in 1..(j - 1)
    BY <1>3, <1>5
  <2>2. \A k \in 1..(i - 1) : k \in 1..(j - 1)
    BY <1>5
  <2>3. \A k \in 1..(i - 1) : s[k] = u[k]
    BY <1>1, <1>2, <2>2, Zenon
  <2>4. i <= Len(s) => s[i] < u[i]
    BY <1>1, <1>2, <2>1
  <2> QED BY <1>1, <2>1, <2>3, <2>4, Zenon DEF Less
<1>6. CASE i = j
  <2>1. i \in 1..Len(u) /\ t[i] < u[i]
    BY <1>2, <1>3, <1>6
  <2>2. \A k \in 1..(i - 1) : s[k] = u[k]
    BY <1>1, <1>2, <1>6
  <2>3. i <= Len(s) => s[i] < u[i]
    <3> SUFFICES ASSUME i <= Len(s) PROVE s[i] < u[i]
      OBVIOUS
    <3>1. s[i] < t[i] /\ s[i] \in Int /\ t[i] \in Int /\ u[i] \in Int
      BY <1>1, <1>3, <1>4, <2>1
    <3> QED BY <2>1, <3>1
  <2> QED BY <1>1, <2>1, <2>2, <2>3, Zenon DEF Less
<1>7. CASE j < i
  <2>1. j <= Len(s) + 1 /\ j \in 1..(i - 1) /\ j <= Len(t)
    <3>1. i \in Int /\ j \in Int /\ 1 <= j /\ j < i /\ i <= Len(s) + 1 /\ i <= Len(t)
          /\ Len(s) \in Int /\ Len(t) \in Int
      BY <1>1, <1>3, <1>7
    <3> QED BY <3>1
  <2>2. \A k \in 1..(j - 1) : k \in 1..(i - 1)
    BY <1>7
  <2>3. \A k \in 1..(j - 1) : s[k] = u[k]
    BY <1>1, <1>2, <2>2, Zenon
  <2>4. j <= Len(s) => s[j] < u[j]
    BY <1>1, <1>2, <2>1
  <2> QED BY <2>1, <2>3, <2>4, Zenon DEF Less
<1>8. i \in Int /\ j \in Int
  OBVIOUS
<1> QED BY <1>5, <1>6, <1>7, <1>8

\* Of two sequences one is before the other.
LEMMA LessTotal ==
  ASSUME NEW s \in Seq(Int), NEW t \in Seq(Int), s # t
  PROVE  Less(s, t) \/ Less(t, s)
<1> DEFINE m == Len(s)
           n == Len(t)
           both == {i \in 1..m : i <= n}
           D == {i \in both : s[i] # t[i]}
<1>1. m \in Nat /\ n \in Nat
  OBVIOUS
<1>2. CASE D = {}
  <2>1. \A i \in 1..m : i <= n => s[i] = t[i]
    BY <1>2, Zenon
  <2>2. m # n
    <3> SUFFICES ASSUME m = n PROVE FALSE
      OBVIOUS
    <3>1. \A i \in 1..m : s[i] = t[i]
      BY <1>1, <2>1
    <3>2. Len(s) = Len(t) /\ \A i \in 1..Len(s) : s[i] = t[i]
      BY <3>1
    <3> HIDE DEF m, n, both, D
    <3>3. s = t
      BY <3>2, SMTT(30)
    <3> QED BY <3>3
  <2>3. CASE m < n
    <3>1. m + 1 \in 1..Len(t) /\ m + 1 <= Len(s) + 1 /\ ~(m + 1 <= Len(s))
      BY <1>1, <2>3
    <3>2. \A k \in 1..((m + 1) - 1) : s[k] = t[k]
      BY <1>1, <2>1, <2>3
    <3> HIDE DEF m
    <3>3. Less(s, t)
      BY <3>1, <3>2 DEF Less
    <3> QED BY <3>3
  <2>4. CASE n < m
    <3>1. n + 1 \in 1..Len(s) /\ n + 1 <= Len(t) + 1 /\ ~(n + 1 <= Len(t))
      BY <1>1, <2>4
    <3>2. \A k \in 1..((n + 1) - 1) : t[k] = s[k]
      BY <1>1, <2>1, <2>4
    <3> HIDE DEF n
    <3>3. Less(t, s)
      BY <3>1, <3>2 DEF Less
    <3> QED BY <3>3
  <2> QED BY <1>1, <2>2, <2>3, <2>4
<1>3. CASE D # {}
  <2>1. PICK i \in D : \A k \in D : i <= k
    <3>1. D \in SUBSET (1..m)
      OBVIOUS
    <3> HIDE DEF D, m
    <3>2. Min(D) \in D /\ \A k \in D : Min(D) <= k
      BY <1>1, <1>3, <3>1, MinExists, Zenon
    <3> QED BY <3>2
  <2>2. i \in 1..m /\ i \in 1..n /\ s[i] # t[i] /\ s[i] \in Int /\ t[i] \in Int
    <3>1. i \in 1..m /\ i \in 1..n /\ s[i] # t[i]
      BY <1>1
    <3> QED BY <3>1
  <2>3. \A k \in 1..(i - 1) : s[k] = t[k]
    <3> SUFFICES ASSUME NEW k \in 1..(i - 1), s[k] # t[k] PROVE FALSE
      OBVIOUS
    <3>1. k \in 1..m /\ k <= n /\ ~(i <= k)
      <4> HIDE DEF D, m, n, both
      <4> QED BY <1>1, <2>2
    <3>2. k \in D
      BY <3>1
    <3> QED
      <4> HIDE DEF D, m, n, both
      <4> QED BY <2>1, <3>1, <3>2
  <2>4. i \in 1..Len(s) /\ i \in 1..Len(t) /\ i <= Len(s) + 1 /\ i <= Len(t) + 1
    BY <1>1, <2>2
  <2> HIDE DEF D, m, n, both
  <2>5. CASE s[i] < t[i]
    BY <2>3, <2>4, <2>5 DEF Less
  <2>6. CASE t[i] < s[i]
    <3>1. \A k \in 1..(i - 1) : t[k] = s[k]
      BY <2>3
    <3> QED BY <2>4, <2>6, <3>1 DEF Less
  <2> QED BY <2>2, <2>5, <2>6
<1> QED BY <1>2, <1>3

\* What of floats is needed: those that ints become, and sums of them, are counted in the
\* same units.
FloatsAreNumbers ==
  /\ \A units \in Int : AsFloat(units) \in Int
  /\ \A numbers \in Seq(Int) : FloatSum(numbers) \in Int

\* Numbers are values.
LEMMA NumberIsValue ==
  ASSUME NEW units \in Int
  PROVE  Integer(units) \in Values /\ Float(units) \in Values
<1> DEFINE w == <<units>>
<1>1. w \in Seq(Int) /\ Len(w) = 1
  OBVIOUS
<1>2. Integer(units) = [type |-> "int", value |-> w] /\ Float(units) = [type |-> "float", value |-> w]
  BY DEF Integer, Float
<1> HIDE DEF w
<1>3. "int" \in Types /\ "float" \in Types
  BY DEF Types
<1>4. ASSUME NEW type \in Types, NEW v, v = [type |-> type, value |-> w] PROVE v \in Values
  <2>1. v \in [type : Types, value : Seq(Int)] /\ v.value = w
    BY <1>1, <1>4
  <2> QED BY <1>1, <2>1 DEF Values
<1> QED BY <1>2, <1>3, <1>4

\* A value that is a number has one, also as a float.
LEMMA UnitsOfValue ==
  ASSUME FloatsAreNumbers, NEW v \in Values, v.type \in {"int", "float"}
  PROVE  FloatOf(v) \in Int
<1>1. v.value \in Seq(Int) /\ Len(v.value) = 1
  BY DEF Values
<1>2. v.value[1] \in Int
  BY <1>1
<1> QED BY <1>2 DEF FloatsAreNumbers, FloatOf

\* The order of values that is asked for.
Better(a, v, w) == IF a.descending THEN Less(w, v) ELSE Less(v, w)

\* It orders values, ascending or descending.
LEMMA BetterOrders ==
  ASSUME NEW a
  PROVE  /\ \A v \in Seq(Int) : ~Better(a, v, v)
         /\ \A u, v, w \in Seq(Int) : Better(a, u, v) /\ Better(a, v, w) => Better(a, u, w)
         /\ \A v, w \in Seq(Int) : v = w \/ Better(a, v, w) \/ Better(a, w, v)
<1>1. \A v \in Seq(Int) : ~Better(a, v, v)
  BY LessIrreflexive, Zenon DEF Better
<1>2. \A u, v, w \in Seq(Int) : Better(a, u, v) /\ Better(a, v, w) => Better(a, u, w)
  BY LessTransitive, Zenon DEF Better
<1>3. \A v, w \in Seq(Int) : v = w \/ Better(a, v, w) \/ Better(a, w, v)
  BY LessTotal, Zenon DEF Better
<1> QED BY <1>1, <1>2, <1>3

\* Of numbers up to n, those before each of them.
Ahead(n, before) == [i \in 1..n |-> {j \in 1..n : <<j, i>> \in before}]

\* They are ordered if `before` is a strict total order.
LEMMA AheadOrders ==
  ASSUME NEW n \in Nat, NEW before,
         \A i \in 1..n : <<i, i>> \notin before,
         \A i, j, k \in 1..n : <<i, j>> \in before /\ <<j, k>> \in before => <<i, k>> \in before,
         \A i, j \in 1..n : i = j \/ <<i, j>> \in before \/ <<j, i>> \in before
  PROVE  Orders(Ahead(n, before)) /\ DOMAIN Ahead(n, before) = 1..n
<1> DEFINE ahead == Ahead(n, before)
<1>1. DOMAIN ahead = 1..n /\ \A i \in 1..n : ahead[i] = {j \in 1..n : <<j, i>> \in before}
  BY DEF Ahead
<1>2. IsFiniteSet(1..n)
  BY FS_Interval
<1>3. ahead \in [1..n -> SUBSET (1..n)]
  BY DEF Ahead
<1>4. ASSUME NEW x \in 1..n, NEW y \in 1..n PROVE x \in ahead[y] <=> <<x, y>> \in before
  <2>1. ahead[y] = {j \in 1..n : <<j, y>> \in before}
    BY <1>1
  <2> HIDE DEF ahead
  <2> QED BY <2>1
<1> HIDE DEF ahead
<1>5. ASSUME NEW x \in 1..n, NEW y \in 1..n, x \in ahead[y] PROVE ahead[x] \subseteq ahead[y]
  <2> SUFFICES ASSUME NEW z \in ahead[x] PROVE z \in ahead[y]
    OBVIOUS
  <2>1. z \in 1..n
    BY <1>3
  <2> QED BY <1>4, <1>5, <2>1, Zenon
<1>6. (\A x \in 1..n : x \notin ahead[x]) /\ \A x, y \in 1..n : x = y \/ x \in ahead[y] \/ y \in ahead[x]
  BY <1>4, Zenon
<1> QED BY <1>1, <1>2, <1>3, <1>5, <1>6, Zenon DEF Orders, ahead

\* Records that have a field to be ranked by.
RankedValues(records, a) ==
  IsSequence(records) /\ \A i \in DOMAIN records : records[i][a.field].value \in Seq(Int)

\* top_k_records orders the records.
LEMMA TopOrders ==
  ASSUME NEW records, NEW a, RankedValues(records, a)
  PROVE  Orders([i \in DOMAIN records |-> {j \in DOMAIN records : Precedes(records, a, j, i)}])
<1> DEFINE n == Len(records)
           before == {p \in (1..n) \X (1..n) : Precedes(records, a, p[1], p[2])}
           v(i) == records[i][a.field].value
<1>1. n \in Nat /\ DOMAIN records = 1..n
  BY ElementsOf DEF RankedValues
<1>2. \A i \in 1..n : v(i) \in Seq(Int)
  BY <1>1 DEF RankedValues
<1> HIDE DEF n
<1>3. \A i, j \in 1..n : <<i, j>> \in before <=> IF v(i) = v(j) THEN i < j ELSE Better(a, v(i), v(j))
  BY DEF Precedes, Better
<1> HIDE DEF before, v
<1>4. \A i \in 1..n : <<i, i>> \notin before
  BY <1>3
<1>5. ASSUME NEW i \in 1..n, NEW j \in 1..n, NEW k \in 1..n, <<i, j>> \in before, <<j, k>> \in before
      PROVE  <<i, k>> \in before
  <2>1. /\ IF v(i) = v(j) THEN i < j ELSE Better(a, v(i), v(j))
        /\ IF v(j) = v(k) THEN j < k ELSE Better(a, v(j), v(k))
    BY <1>3, <1>5
  <2>2. v(i) \in Seq(Int) /\ v(j) \in Seq(Int) /\ v(k) \in Seq(Int)
    BY <1>2
  <2>3. CASE v(i) = v(j) /\ v(j) = v(k)
    BY <1>3, <2>1, <2>3
  <2>4. CASE ~(v(i) = v(j) /\ v(j) = v(k))
    <3>1. Better(a, v(i), v(k))
      BY <2>1, <2>2, <2>4, BetterOrders, Zenon
    <3>2. v(i) # v(k)
      BY <2>2, <3>1, BetterOrders, Zenon
    <3> QED BY <1>3, <3>1, <3>2, Zenon
  <2> QED BY <2>3, <2>4
<1>6. ASSUME NEW i \in 1..n, NEW j \in 1..n PROVE i = j \/ <<i, j>> \in before \/ <<j, i>> \in before
  <2>1. CASE v(i) = v(j)
    <3>1. i = j \/ i < j \/ j < i
      OBVIOUS
    <3> QED BY <1>3, <2>1, <3>1, Zenon
  <2>2. CASE v(i) # v(j)
    <3>1. Better(a, v(i), v(j)) \/ Better(a, v(j), v(i))
      BY <1>2, <2>2, BetterOrders, Zenon
    <3> QED BY <1>3, <2>2, <3>1, Zenon
  <2> QED BY <2>1, <2>2
<1>7. Orders(Ahead(n, before))
  BY <1>1, <1>4, <1>5, <1>6, AheadOrders
<1>8. Ahead(n, before) = [i \in DOMAIN records |-> {j \in DOMAIN records : Precedes(records, a, j, i)}]
  BY <1>1 DEF Ahead, before
<1> QED BY <1>7, <1>8, Zenon

\* bm25_retrieve orders the records.
LEMMA ScoreOrders ==
  ASSUME NEW n \in Nat, NEW score \in [1..n -> Int]
  PROVE  Orders([i \in 1..n |->
                   {j \in 1..n : score[j] > score[i] \/ (score[j] = score[i] /\ j < i)}])
<1> DEFINE before == {p \in (1..n) \X (1..n) :
                        score[p[1]] > score[p[2]] \/ (score[p[1]] = score[p[2]] /\ p[1] < p[2])}
<1>1. \A i, j \in 1..n :
        <<i, j>> \in before <=> score[i] > score[j] \/ (score[i] = score[j] /\ i < j)
  OBVIOUS
<1>2. \A i \in 1..n : score[i] \in Int
  OBVIOUS
<1>3. Ahead(n, before) = [i \in 1..n |->
                            {j \in 1..n : score[j] > score[i] \/ (score[j] = score[i] /\ j < i)}]
  BY DEF Ahead
<1> HIDE DEF before
<1>4. \A i \in 1..n : <<i, i>> \notin before
  BY <1>1, <1>2
<1>5. \A i, j, k \in 1..n : <<i, j>> \in before /\ <<j, k>> \in before => <<i, k>> \in before
  BY <1>1, <1>2
<1>6. ASSUME NEW i \in 1..n, NEW j \in 1..n PROVE i = j \/ <<i, j>> \in before \/ <<j, i>> \in before
  <2>1. score[i] \in Int /\ score[j] \in Int
    BY <1>2
  <2>2. score[i] > score[j] \/ score[j] > score[i] \/ score[i] = score[j]
    BY <2>1
  <2>3. i = j \/ i < j \/ j < i
    OBVIOUS
  <2> QED BY <1>1, <2>2, <2>3, Zenon
<1>7. Orders(Ahead(n, before))
  BY <1>4, <1>5, <1>6, AheadOrders
<1> QED BY <1>3, <1>7, Zenon

-----------------------------------------------------------------------------
(* What is stored are records. *)

\* What a derivation's schema lets through (structured.py:44-57).
IsDerivation(d) ==
  IsSequence(d.sources) /\ (d.operation \in {"subtract", "divide"} => Len(d.sources) = 2)

\* A derivation of a record's numbers.
LEMMA DerivedIsValue ==
  ASSUME FloatsAreNumbers, NEW record, IsRecord(record), NEW d, IsDerivation(d)
  PROVE  Derived(record, d) \in Values
<1> DEFINE units == [i \in DOMAIN d.sources |-> FloatOf(record[d.sources[i]])]
           n == Len(d.sources)
<1>1. n \in Nat /\ DOMAIN d.sources = 1..n
  BY ElementsOf DEF IsDerivation
<1>2. Undefined \in Values
  <2>1. <<>> \in Seq(Int) /\ "undefined" \in Types /\ "undefined" \notin {"int", "float"}
    BY DEF Types
  <2> DEFINE w == <<>>
  <2> HIDE DEF w
  <2>2. Undefined = [type |-> "undefined", value |-> w] /\ w \in Seq(Int)
    BY <2>1 DEF Undefined, w
  <2>3. Undefined \in [type : Types, value : Seq(Int)] /\ Undefined.type = "undefined"
    BY <2>1, <2>2
  <2> QED BY <2>1, <2>3 DEF Values
<1>3. CASE \E source \in Range(d.sources) : ~Numeric(record, source)
  BY <1>2, <1>3 DEF Derived
<1>4. CASE ~\E source \in Range(d.sources) : ~Numeric(record, source)
  <2>1. units \in [1..n -> Int]
    <3>1. ASSUME NEW i \in 1..n PROVE FloatOf(record[d.sources[i]]) \in Int
      <4>1. Numeric(record, d.sources[i])
        BY <1>1, <1>4, Zenon DEF Range
      <4>2. record[d.sources[i]] \in Values /\ record[d.sources[i]].type \in {"int", "float"}
        BY <4>1 DEF Numeric, IsRecord
      <4> QED BY <4>2, UnitsOfValue
    <3> QED BY <1>1, <3>1
  <2> DEFINE result == Derived(record, d)
  <2>2. result = CASE d.operation = "add" -> Float(FloatSum(units))
                   [] d.operation = "subtract" -> Float(FloatSum(<<units[1], -units[2]>>))
                   [] d.operation = "multiply" -> Float(Product(units))
                   [] d.operation = "divide" /\ units[2] # 0 -> Float(Quotient(units[1], units[2]))
                   [] OTHER -> Undefined
    BY <1>4, Zenon DEF Derived
  <2> HIDE DEF units, n, result
  <2>3. FloatSum(units) \in Int /\ Product(units) \in Int
    <3>1. units \in Seq(Int)
      BY <1>1, <2>1
    <3>2. FloatSum(units) \in Int
      BY <3>1 DEF FloatsAreNumbers
    <3> QED BY <1>1, <2>1, <3>2, ProductIsNumber
  <2>4. ASSUME d.operation \in {"subtract", "divide"} PROVE units[1] \in Int /\ units[2] \in Int
    <3>1. n = 2
      BY <2>4 DEF IsDerivation, n
    <3> QED BY <2>1, <3>1
  <2>5. ASSUME d.operation = "divide", units[2] # 0 PROVE Quotient(units[1], units[2]) \in Int
    <3> DEFINE p == units[1]
               q == units[2]
    <3>1. p \in Int /\ q \in Int /\ q # 0 /\ Unit \in Int
      BY <2>4, <2>5, UnitAssumption
    <3> HIDE DEF p, q
    <3>2. p * Unit \in Int /\ -p * Unit \in Int
      BY <3>1, Multiplies
    <3>3. CASE q > 0
      <4>1. q \in Nat \ {0}
        BY <3>1, <3>3
      <4>2. (p * Unit) \div q \in Int
        BY <3>2, <4>1, Divides
      <4> QED BY <3>3, <4>2 DEF Quotient, p, q
    <3>4. CASE ~(q > 0)
      <4>1. -q \in Nat \ {0}
        BY <3>1, <3>4
      <4>2. (-p * Unit) \div (-q) \in Int
        BY <3>2, <4>1, Divides
      <4> QED BY <3>4, <4>2 DEF Quotient, p, q
    <3> QED BY <3>3, <3>4
  <2>6. CASE d.operation = "add"
    BY <2>2, <2>3, <2>6, NumberIsValue DEF result
  <2>7. CASE d.operation = "subtract"
    <3>1. FloatSum(<<units[1], -units[2]>>) \in Int
      <4> DEFINE p == units[1]
                 q == units[2]
      <4>1. p \in Int /\ q \in Int
        BY <2>4, <2>7
      <4> HIDE DEF p, q
      <4>2. <<p, -q>> \in Seq(Int)
        BY <4>1
      <4> QED BY <4>2 DEF FloatsAreNumbers, p, q
    <3>2. result = Float(FloatSum(<<units[1], -units[2]>>))
      BY <2>2, <2>7
    <3> QED BY <3>1, <3>2, NumberIsValue DEF result
  <2>8. CASE d.operation = "multiply"
    BY <2>2, <2>3, <2>8, NumberIsValue DEF result
  <2>9. CASE d.operation = "divide" /\ units[2] # 0
    <3>1. result = Float(Quotient(units[1], units[2]))
      BY <2>2, <2>9
    <3> QED BY <2>5, <2>9, <3>1, NumberIsValue DEF result
  <2>10. CASE /\ d.operation \notin {"add", "subtract", "multiply"}
              /\ ~(d.operation = "divide" /\ units[2] # 0)
    BY <1>2, <2>2, <2>10 DEF result
  <2> QED BY <2>6, <2>7, <2>8, <2>9, <2>10 DEF result
<1> QED BY <1>3, <1>4

\* Records over a set of fields.
RecordsOver(D) == UNION {[S -> Values] : S \in SUBSET D}

\* They are the records with no other fields.
LEMMA RecordOver ==
  ASSUME NEW D, NEW record
  PROVE  record \in RecordsOver(D) <=> IsRecord(record) /\ DOMAIN record \subseteq D
<1>1. ASSUME record \in RecordsOver(D) PROVE IsRecord(record) /\ DOMAIN record \subseteq D
  <2>1. PICK S \in SUBSET D : record \in [S -> Values]
    BY <1>1 DEF RecordsOver
  <2>2. DOMAIN record = S
    BY <2>1
  <2> QED BY <2>1, <2>2 DEF IsRecord
<1>2. ASSUME IsRecord(record), DOMAIN record \subseteq D PROVE record \in RecordsOver(D)
  BY <1>2, Zenon DEF IsRecord, RecordsOver
<1> QED BY <1>1, <1>2

\* A record that a field is written to.
LEMMA MergedIsRecord ==
  ASSUME NEW f, NEW v \in Values, NEW record, IsRecord(record)
  PROVE  /\ IsRecord(Merged(Single(f, v), record))
         /\ DOMAIN Merged(Single(f, v), record) = {f} \cup DOMAIN record
<1> DEFINE S == {f} \cup DOMAIN record
           merged == Merged(Single(f, v), record)
<1>1. merged = [x \in S |-> IF x \in {f} THEN v ELSE record[x]]
  BY DEF Merged, Single
<1>2. \A x \in DOMAIN record : record[x] \in Values
  BY DEF IsRecord
<1>3. \A x \in S : x \in {f} \/ record[x] \in Values
  BY <1>2
<1> HIDE DEF merged, S
<1>4. merged \in [S -> Values] /\ DOMAIN merged = S
  BY <1>1, <1>3
<1> QED BY <1>4, Zenon DEF IsRecord, merged, S

\* The recursion of WithDerivations.
DerivationsOver(record, derivations, g) ==
  g = [T \in SUBSET DOMAIN derivations |->
         IF T = {} THEN record
         ELSE Merged(Single(derivations[Max(T)].target,
                            Derived(g[T \ {Max(T)}], derivations[Max(T)])), g[T \ {Max(T)}])]

\* derive_fields makes a record of a record.
LEMMA DerivationsMakeRecords ==
  ASSUME FloatsAreNumbers, NEW record, IsRecord(record), NEW derivations, IsSequence(derivations),
         \A k \in DOMAIN derivations : IsDerivation(derivations[k])
  PROVE  IsRecord(WithDerivations(record, derivations))
<1> DEFINE n == Len(derivations)
           D == DOMAIN record \cup {derivations[k].target : k \in 1..n}
           X == RecordsOver(D)
           after(done, k) == Merged(Single(derivations[k].target, Derived(done, derivations[k])), done)
           step == [k \in 1..n |-> [done \in X |-> after(done, k)]]
           iter == CHOOSE g : DerivationsOver(record, derivations, g)
<1>1. n \in Nat /\ DOMAIN derivations = 1..n
  BY ElementsOf
<1>2. WithDerivations(record, derivations) = iter[DOMAIN derivations]
  BY DEF WithDerivations, FoldLeft, MapThenFoldSet, DerivationsOver
<1> HIDE DEF n
<1>3. ASSUME NEW done \in X, NEW k \in 1..n PROVE after(done, k) \in X
  <2>1. IsRecord(done) /\ DOMAIN done \subseteq D
    BY RecordOver
  <2>2. Derived(done, derivations[k]) \in Values
    BY <1>1, <2>1, DerivedIsValue
  <2>3. IsRecord(after(done, k)) /\ DOMAIN after(done, k) = {derivations[k].target} \cup DOMAIN done
    BY <2>1, <2>2, MergedIsRecord, Zenon
  <2>4. DOMAIN after(done, k) \subseteq D
    BY <2>1, <2>3
  <2> HIDE DEF after, D
  <2> QED BY <2>3, <2>4, RecordOver
<1>4. record \in X
  <2>1. DOMAIN record \subseteq D
    OBVIOUS
  <2> HIDE DEF D
  <2> QED BY <2>1, RecordOver
<1> HIDE DEF X, after
<1>5. \A k \in 1..n : step[k] \in [X -> X] /\ \A done \in X : step[k][done] = after(done, k)
  BY <1>3
<1> HIDE DEF step
<1>6. PICK g : Folds(X, step, record, n, g)
  BY <1>1, <1>4, <1>5, FoldsExist, Zenon
<1>7. ASSUME NEW T \in SUBSET (1..n)
      PROVE  g[T] = IF T = {} THEN record ELSE after(g[T \ {Max(T)}], Max(T))
  <2>1. CASE T = {}
    BY <1>6, <2>1, Zenon DEF Folds
  <2>2. CASE T # {}
    <3>1. g[T] = step[Max(T)][g[T \ {Max(T)}]]
      BY <1>6, <2>2, Zenon DEF Folds
    <3>2. g[T \ {Max(T)}] \in X /\ Max(T) \in 1..n
      <4>1. Max(T) \in T /\ T \ {Max(T)} \in SUBSET (1..n)
        BY <1>1, <2>2, MaxExists, Zenon
      <4> QED BY <1>6, <4>1 DEF Folds
    <3>3. step[Max(T)][g[T \ {Max(T)}]] = after(g[T \ {Max(T)}], Max(T))
      BY <1>5, <3>2, Zenon
    <3> QED BY <2>2, <3>1, <3>3, Zenon
  <2> QED BY <2>1, <2>2
<1>8. g = [T \in SUBSET (1..n) |-> g[T]]
  BY <1>6 DEF Folds
<1>9. DerivationsOver(record, derivations, g)
  BY <1>1, <1>7, <1>8, Zenon DEF DerivationsOver, after
<1>10. DerivationsOver(record, derivations, iter)
  BY <1>9, Zenon
<1> HIDE DEF iter
<1>11. \A T \in SUBSET (1..n) :
         iter[T] = IF T = {} THEN record ELSE after(iter[T \ {Max(T)}], Max(T))
  BY <1>1, <1>10, Zenon DEF DerivationsOver, after
<1>12. iter[{}] \in X
  <2>1. {} \in SUBSET (1..n)
    OBVIOUS
  <2>2. iter[{}] = record
    BY <1>11, <2>1, Zenon
  <2> QED BY <1>4, <2>2
<1>13. ASSUME NEW k \in 1..n, iter[(1..k) \ {Max(1..k)}] \in X PROVE iter[1..k] \in X
  <2>1. 1..k \in SUBSET (1..n) /\ Max(1..k) \in 1..n /\ 1..k # {}
    <3>1. k \in Nat \ {0} /\ 1..k \in SUBSET (1..n)
      BY <1>1
    <3> QED BY <3>1, MaxOfInterval
  <2>2. iter[1..k] = after(iter[(1..k) \ {Max(1..k)}], Max(1..k))
    BY <1>11, <2>1, Zenon
  <2> QED BY <1>3, <1>13, <2>1, <2>2
<1>14. iter[1..n] \in X
  BY <1>1, <1>12, <1>13, FoldStays, Zenon
<1> QED BY <1>1, <1>2, <1>14, RecordOver DEF X

\* The least and the greatest of some numbers.
LEMMA Extremes ==
  ASSUME NEW n \in Nat \ {0}, NEW numbers \in [1..n -> Int]
  PROVE  /\ Min(Range(numbers)) \in Int /\ Min(Range(numbers)) \in Range(numbers)
         /\ Max(Range(numbers)) \in Int /\ Max(Range(numbers)) \in Range(numbers)
         /\ \A y \in Range(numbers) : Min(Range(numbers)) <= y /\ y <= Max(Range(numbers))
<1> DEFINE G == {k \in 0..n : k = 0 \/ \E least, most \in 1..k : \A x \in 1..k :
                                 numbers[least] <= numbers[x] /\ numbers[x] <= numbers[most]}
<1>1. 0 \in G
  OBVIOUS
<1>2. ASSUME NEW k \in 1..n, k - 1 \in G PROVE k \in G
  <2>1. CASE k = 1
    <3>1. \A x \in 1..k : x = 1
      BY <2>1
    <3>2. 1 \in 1..k /\ numbers[1] \in Int
      BY <2>1
    <3>3. \A x \in 1..k : numbers[1] <= numbers[x] /\ numbers[x] <= numbers[1]
      BY <3>1, <3>2
    <3>4. k \in 0..n
      OBVIOUS
    <3> QED BY <3>2, <3>3, <3>4
  <2>2. CASE k # 1
    <3>1. PICK least, most \in 1..(k - 1) : \A x \in 1..(k - 1) :
            numbers[least] <= numbers[x] /\ numbers[x] <= numbers[most]
      BY <1>2, <2>2
    <3> DEFINE low == IF numbers[k] <= numbers[least] THEN k ELSE least
               high == IF numbers[most] <= numbers[k] THEN k ELSE most
    <3>2. low \in 1..k /\ high \in 1..k
      OBVIOUS
    <3>3. ASSUME NEW x \in 1..k
          PROVE  numbers[low] <= numbers[x] /\ numbers[x] <= numbers[high]
      <4>1. numbers[x] \in Int /\ numbers[k] \in Int /\ numbers[least] \in Int /\ numbers[most] \in Int
        OBVIOUS
      <4>2. CASE x = k
        BY <4>1, <4>2
      <4>3. CASE x # k
        <5>1. numbers[least] <= numbers[x] /\ numbers[x] <= numbers[most]
          BY <3>1, <4>3
        <5> QED BY <4>1, <5>1
      <4> QED BY <4>2, <4>3
    <3> HIDE DEF low, high
    <3>4. k \in 0..n
      OBVIOUS
    <3> QED BY <3>2, <3>3, <3>4, Zenon
  <2> QED BY <2>1, <2>2
<1> HIDE DEF G
<1>3. n \in G
  <2>1. n \in 0..n /\ n \in Nat
    OBVIOUS
  <2> QED BY <1>1, <1>2, <2>1, Induction, Zenon
<1>4. PICK least, most \in 1..n : \A x \in 1..n :
        numbers[least] <= numbers[x] /\ numbers[x] <= numbers[most]
  BY <1>3 DEF G
<1> DEFINE S == Range(numbers)
<1>5. /\ numbers[least] \in S /\ \A y \in S : numbers[least] <= y
      /\ numbers[most] \in S /\ \A y \in S : numbers[most] >= y
  <2>1. \A y \in S : \E x \in 1..n : y = numbers[x] /\ numbers[x] \in Int
    BY DEF Range
  <2>2. numbers[least] \in S /\ numbers[most] \in S /\ numbers[most] \in Int
    BY DEF Range
  <2> HIDE DEF S
  <2> QED BY <1>4, <2>1, <2>2
<1>6. \A y \in S : y \in Int
  BY DEF Range
<1> HIDE DEF S
<1>7. Min(S) \in S /\ \A y \in S : Min(S) <= y
  BY <1>5 DEF Min
<1>8. Max(S) \in S /\ \A y \in S : Max(S) >= y
  BY <1>5 DEF Max
<1>9. \A y \in S : y <= Max(S)
  BY <1>6, <1>8
<1> QED BY <1>6, <1>7, <1>8, <1>9 DEF S

\* The records of a group, with numbers in a field.
HasNumbers(group, field) ==
  IsRecords(group) /\ \A record \in Range(group) : Numeric(record, field)

\* An aggregation of a group is a value.
LEMMA AggregatedIsValue ==
  ASSUME FloatsAreNumbers, NEW group, NEW aggregation, IsRecords(group),
         aggregation.operation \in {"count", "sum", "min", "max", "avg"},
         aggregation.operation # "count" => HasNumbers(group, aggregation.field)
  PROVE  Aggregated(group, aggregation) \in Values
<1> DEFINE n == Len(group)
           units == Units(group, aggregation.field)
           result == Aggregated(group, aggregation)
<1>1. n \in Nat /\ DOMAIN group = 1..n
  BY ElementsOf DEF IsRecords, IsSequence
<1>2. CASE aggregation.operation = "count"
  <2>1. n * Unit \in Int
    BY <1>1, Multiplies, UnitAssumption
  <2>2. result = Integer(n * Unit)
    BY <1>2 DEF Aggregated
  <2> HIDE DEF n, result
  <2> QED BY <2>1, <2>2, NumberIsValue DEF result
<1>3. CASE aggregation.operation # "count" /\ group = <<>>
  <2>1. result = Null
    BY <1>3 DEF Aggregated
  <2> DEFINE w == <<>>
  <2>2. w \in Seq(Int) /\ Null = [type |-> "null", value |-> w]
    BY DEF Null
  <2> HIDE DEF w, result
  <2>3. "null" \in Types /\ "null" \notin {"int", "float"}
    BY DEF Types
  <2>4. Null \in [type : Types, value : Seq(Int)] /\ Null.type = "null"
    BY <2>2, <2>3
  <2>5. Null \in Values
    BY <2>3, <2>4 DEF Values
  <2> QED BY <2>1, <2>5 DEF result
<1>4. CASE aggregation.operation # "count" /\ group # <<>>
  <2>1. n \in Nat \ {0}
    <3>1. group \in Seq(Range(group))
      BY DEF IsRecords
    <3>2. n # 0
      BY <1>4, <3>1
    <3> QED BY <1>1, <3>2
  <2>2. units \in [1..n -> Int]
    <3>1. ASSUME NEW i \in 1..n PROVE FloatOf(group[i][aggregation.field]) \in Int
      <4> DEFINE record == group[i]
      <4>1. record \in Range(group)
        BY <1>1 DEF Range
      <4> HIDE DEF record
      <4>2. Numeric(record, aggregation.field) /\ IsRecord(record)
        BY <1>4, <4>1 DEF HasNumbers, IsRecords
      <4>3. record[aggregation.field] \in Values /\ record[aggregation.field].type \in {"int", "float"}
        BY <4>2 DEF Numeric, IsRecord
      <4>4. FloatOf(record[aggregation.field]) \in Int
        BY <4>3, UnitsOfValue
      <4> QED BY <4>4 DEF record
    <3> QED BY <1>1, <3>1 DEF Units
  <2>3. result = CASE aggregation.operation = "sum" -> Float(FloatSum(units))
                   [] aggregation.operation = "min" -> Float(Min(Range(units)))
                   [] aggregation.operation = "max" -> Float(Max(Range(units)))
                   [] aggregation.operation = "avg" -> Float(FloatSum(units) \div Len(units))
    BY <1>4, Zenon DEF Aggregated
  <2> HIDE DEF n, units, result
  <2>4. Len(units) = n
    BY <2>1, <2>2
  <2>5. FloatSum(units) \in Int /\ Min(Range(units)) \in Int /\ Max(Range(units)) \in Int
    <3>1. units \in Seq(Int)
      BY <2>1, <2>2
    <3>2. FloatSum(units) \in Int
      BY <3>1 DEF FloatsAreNumbers
    <3> QED BY <2>1, <2>2, <3>2, Extremes
  <2>6. FloatSum(units) \div Len(units) \in Int
    BY <2>1, <2>4, <2>5, Divides
  <2>7. \E number \in Int : result = Float(number)
    BY <1>4, <2>3, <2>5, <2>6
  <2> QED BY <2>7, NumberIsValue DEF result
<1> QED BY <1>2, <1>3, <1>4

\* A function to records is a sequence of records.
LEMMA RecordsOf ==
  ASSUME NEW m \in Nat, NEW Y, NEW s \in [1..m -> Y], \A y \in Y : IsRecord(y)
  PROVE  IsRecords(s)
<1>1. IsSequence(s) /\ DOMAIN s = 1..m
  BY SequenceOf
<1>2. \A record \in Range(s) : IsRecord(record)
  BY <1>1 DEF Range
<1> QED BY <1>1, <1>2 DEF IsRecords, IsSequence

\* Records are a sequence of them.
LEMMA RecordsHave ==
  ASSUME NEW records, IsRecords(records)
  PROVE  /\ IsSequence(records) /\ Len(records) \in Nat /\ DOMAIN records = 1..Len(records)
         /\ \A i \in 1..Len(records) : records[i] \in Range(records) /\ IsRecord(records[i])
<1>1. IsSequence(records)
  BY DEF IsRecords, IsSequence
<1>2. Len(records) \in Nat /\ DOMAIN records = 1..Len(records)
  BY <1>1, ElementsOf
<1>3. \A i \in 1..Len(records) : records[i] \in Range(records)
  BY <1>2 DEF Range
<1> QED BY <1>1, <1>2, <1>3 DEF IsRecords

\* No records are records.
LEMMA NoRecords == IsRecords(<<>>)
BY DEF IsRecords, Range

\* What is kept of records are records.
LEMMA KeptRecords ==
  ASSUME NEW records, IsRecords(records), NEW I \in SUBSET DOMAIN records
  PROVE  IsRecords(Kept(records, I))
<1> DEFINE n == Len(records)
<1>1. /\ n \in Nat /\ DOMAIN records = 1..n
      /\ \A i \in 1..n : records[i] \in Range(records) /\ IsRecord(records[i])
  BY RecordsHave
<1> HIDE DEF n
<1>2. Cardinality(I) \in 0..n /\ Kept(records, I) \in [1..Cardinality(I) -> {records[i] : i \in I}]
  BY <1>1, KeptOfSequence
<1>3. \A y \in {records[i] : i \in I} : IsRecord(y)
  BY <1>1
<1>4. Cardinality(I) \in Nat
  BY <1>1, <1>2
<1> QED BY <1>2, <1>3, <1>4, RecordsOf, Zenon

\* filter_records writes records.
LEMMA FilteredRecords ==
  ASSUME NEW records, IsRecords(records), NEW a
  PROVE  IsRecords(Filtered(records, a).records)
<1> DEFINE I == {i \in DOMAIN records : Compare(records[i][a.field], a.op, a.value)}
           kept == Kept(records, I)
<1>1. IsRecords(kept)
  <2>1. I \in SUBSET DOMAIN records
    OBVIOUS
  <2> HIDE DEF I
  <2> QED BY <2>1, KeptRecords
<1>2. Filtered(records, a).records = <<>> \/ Filtered(records, a).records = kept
  <2> HIDE DEF kept
  <2> QED BY DEF Filtered, Invalid, Failure, Success, kept
<1> QED BY <1>1, <1>2, NoRecords

\* A part of a record is a record.
LEMMA RestrictedRecord ==
  ASSUME NEW record, IsRecord(record), NEW F, F \subseteq DOMAIN record
  PROVE  IsRecord(Restrict(record, F))
<1>1. \A x \in F : record[x] \in Values
  BY DEF IsRecord
<1>2. Restrict(record, F) \in [F -> Values] /\ DOMAIN Restrict(record, F) = F
  BY <1>1 DEF Restrict
<1> QED BY <1>2, Zenon DEF IsRecord

\* select_fields writes records.
LEMMA SelectedRecords ==
  ASSUME NEW records, IsRecords(records), NEW a
  PROVE  IsRecords(Selected(records, a).records)
<1> DEFINE n == Len(records)
           F == Range(a.fields)
           s == [i \in 1..n |-> Restrict(records[i], F)]
           Y == {s[i] : i \in 1..n}
<1>1. /\ n \in Nat /\ DOMAIN records = 1..n
      /\ \A i \in 1..n : records[i] \in Range(records) /\ IsRecord(records[i])
  BY RecordsHave
<1> HIDE DEF n
<1>2. CASE Missing(records, F)
  BY <1>2, NoRecords DEF Selected, Invalid, Failure
<1>3. CASE ~Missing(records, F)
  <2>1. \A i \in 1..n : F \subseteq DOMAIN records[i]
    BY <1>1, <1>3 DEF Missing
  <2> HIDE DEF F
  <2>2. \A i \in 1..n : IsRecord(s[i])
    BY <1>1, <2>1, RestrictedRecord
  <2>3. s \in [1..n -> Y] /\ \A y \in Y : IsRecord(y)
    BY <2>2
  <2>4. Selected(records, a).records = s
    BY <1>1, <1>3 DEF Selected, Success, F
  <2> HIDE DEF s, Y
  <2> QED BY <1>1, <2>3, <2>4, RecordsOf, Zenon
<1> QED BY <1>2, <1>3

\* derive_fields writes records.
LEMMA DerivedRecords ==
  ASSUME FloatsAreNumbers, NEW records, IsRecords(records), NEW a, IsSequence(a.derivations),
         \A k \in DOMAIN a.derivations : IsDerivation(a.derivations[k])
  PROVE  IsRecords(WithDerivedFields(records, a).records)
<1> DEFINE n == Len(records)
           s == [i \in 1..n |-> WithDerivations(records[i], a.derivations)]
           Y == {s[i] : i \in 1..n}
<1>1. /\ n \in Nat /\ DOMAIN records = 1..n /\ \A i \in 1..n : IsRecord(records[i])
  BY RecordsHave
<1> HIDE DEF n
<1>2. \A i \in 1..n : IsRecord(WithDerivations(records[i], a.derivations))
  BY <1>1, DerivationsMakeRecords
<1>3. s \in [1..n -> Y] /\ \A y \in Y : IsRecord(y)
  BY <1>2
<1>4. WithDerivedFields(records, a).records = <<>> \/ WithDerivedFields(records, a).records = s
  BY <1>1 DEF WithDerivedFields, Invalid, Failure, Success
<1> HIDE DEF s, Y
<1>5. IsRecords(s)
  BY <1>1, <1>3, RecordsOf
<1> QED BY <1>4, <1>5, NoRecords

\* What the schema of aggregate_records lets through.
IsAggregation(a) ==
  /\ IsSequence(a.aggregations)
  /\ \A m \in DOMAIN a.aggregations :
       a.aggregations[m].operation \in {"count", "sum", "min", "max", "avg"}

\* A row of a group is a record.
LEMMA RowIsRecord ==
  ASSUME NEW key, IsRecord(key), NEW group, NEW a, IsAggregation(a),
         \A m \in DOMAIN a.aggregations : Aggregated(group, a.aggregations[m]) \in Values
  PROVE  IsRecord(Row(key, group, a.aggregations))
<1> DEFINE aggregations == a.aggregations
           of(field) == {n \in DOMAIN aggregations : aggregations[n].output_field = field}
           last(field) == Max(of(field))
           outputs == {aggregations[n].output_field : n \in DOMAIN aggregations}
           S == DOMAIN key \cup outputs
           row == Row(key, group, aggregations)
<1>1. row = [field \in S |->
               IF field \in outputs THEN Aggregated(group, aggregations[last(field)]) ELSE key[field]]
  BY Zenon DEF Row
<1>2. PICK n \in Nat : DOMAIN aggregations = 1..n
  BY ElementsOf DEF IsAggregation
<1>3. ASSUME NEW field \in outputs PROVE last(field) \in DOMAIN aggregations
  <2>1. of(field) \in SUBSET (1..n) /\ of(field) # {}
    BY <1>2
  <2> HIDE DEF of
  <2> QED BY <1>2, <2>1, MaxExists, Zenon
<1>4. \A field \in DOMAIN key : key[field] \in Values
  BY DEF IsRecord
<1> HIDE DEF last
<1>5. \A field \in S : IF field \in outputs THEN Aggregated(group, aggregations[last(field)]) \in Values
                       ELSE key[field] \in Values
  BY <1>3, <1>4
<1> HIDE DEF outputs, S, row
<1>6. row \in [S -> Values] /\ DOMAIN row = S
  BY <1>1, <1>5
<1> QED BY <1>6, Zenon DEF IsRecord, row

\* aggregate_records writes records.
LEMMA AggregatedRecords ==
  ASSUME FloatsAreNumbers, NEW records, IsRecords(records), NEW a, IsAggregation(a)
  PROVE  IsRecords(WithAggregations(records, a).records)
<1> DEFINE n == Len(records)
           I == Heads(records, a.group_by)
           m == Cardinality(I)
           F == Range(a.group_by)
           starts == GroupStarts(records, a.group_by)
           row(g) == Row(Restrict(records[starts[g]], F),
                         Group(records, a.group_by, starts[g]), a.aggregations)
           s == [g \in DOMAIN starts |-> row(g)]
           one == <<Row(<<>>, <<>>, a.aggregations)>>
           result == WithAggregations(records, a)
<1>1. /\ n \in Nat /\ DOMAIN records = 1..n
      /\ \A i \in 1..n : records[i] \in Range(records) /\ IsRecord(records[i])
  BY RecordsHave
<1>2. m \in Nat /\ starts \in [1..m -> I] /\ I \in SUBSET (1..n)
  <2>1. I \in SUBSET (1..n)
    BY <1>1 DEF Heads
  <2>2. starts = Listed(I)
    BY DEF GroupStarts, Heads
  <2> HIDE DEF I, n, starts
  <2>3. m \in 0..n /\ starts \in [1..m -> I]
    BY <1>1, <2>1, <2>2, ListedInOrder DEF Bijection, Injection
  <2> QED BY <1>1, <2>1, <2>3
<1> HIDE DEF n, I, m, starts
<1>3. CASE Unaggregatable(records, a)
  BY <1>3, NoRecords DEF WithAggregations, Invalid, Failure
<1>4. CASE ~Unaggregatable(records, a) /\ records = <<>> /\ a.group_by = <<>>
  <2>1. result.records = one
    <3> HIDE DEF one
    <3> QED BY <1>4 DEF WithAggregations, Success, one
  <2>2. IsRecord(<<>>)
    BY DEF IsRecord
  <2>3. ASSUME NEW k \in DOMAIN a.aggregations PROVE Aggregated(<<>>, a.aggregations[k]) \in Values
    <3>1. \A field : HasNumbers(<<>>, field)
      BY NoRecords DEF HasNumbers, Range
    <3>2. a.aggregations[k].operation \in {"count", "sum", "min", "max", "avg"}
      BY DEF IsAggregation
    <3> QED BY <3>1, <3>2, NoRecords, AggregatedIsValue
  <2> DEFINE first == Row(<<>>, <<>>, a.aggregations)
  <2>4. IsRecord(first)
    BY <2>2, <2>3, RowIsRecord, Zenon
  <2>5. IsRecords(<<first>>)
    <3> HIDE DEF first
    <3> DEFINE Y == {first}
    <3>1. <<first>> \in [1..1 -> Y] /\ 1 \in Nat
      OBVIOUS
    <3>2. \A y \in Y : IsRecord(y)
      BY <2>4
    <3> HIDE DEF Y
    <3> QED BY <3>1, <3>2, RecordsOf, Zenon
  <2> QED BY <2>1, <2>5
<1>5. CASE ~Unaggregatable(records, a) /\ ~(records = <<>> /\ a.group_by = <<>>)
  <2>1. result.records = s
    <3> HIDE DEF s
    <3> QED BY <1>5 DEF WithAggregations, Success, s, starts
  <2>2. ASSUME NEW g \in 1..m PROVE IsRecord(row(g))
    <3> DEFINE i == starts[g]
               J == {j \in DOMAIN records :
                       Key(records[j], a.group_by) = Key(records[i], a.group_by)}
               group == Group(records, a.group_by, i)
    <3>1. i \in 1..n
      BY <1>2, Zenon
    <3> HIDE DEF i
    <3>2. IsRecords(group)
      <4>1. group = Kept(records, J) /\ J \in SUBSET DOMAIN records
        BY DEF Group
      <4> HIDE DEF J, group
      <4> QED BY <4>1, KeptRecords
    <3>3. \A record \in Range(group) : record \in Range(records)
      <4>1. group = Kept(records, J) /\ J \in SUBSET (1..n)
        BY <1>1 DEF Group
      <4> HIDE DEF J, group
      <4>2. group \in [1..Cardinality(J) -> {records[j] : j \in J}]
        <5>1. J \in SUBSET (1..n)
          BY <4>1
        <5>2. Kept(records, J) \in [1..Cardinality(J) -> {records[j] : j \in J}]
          BY <1>1, <5>1, KeptOfSequence
        <5> QED BY <4>1, <5>2
      <4>3. \A record \in Range(group) : record \in {records[j] : j \in J}
        BY <4>2 DEF Range
      <4> QED BY <1>1, <4>1, <4>3
    <3> HIDE DEF group
    <3>4. ASSUME NEW k \in DOMAIN a.aggregations PROVE Aggregated(group, a.aggregations[k]) \in Values
      <4>1. a.aggregations[k].operation \in {"count", "sum", "min", "max", "avg"}
        BY DEF IsAggregation
      <4>2. a.aggregations[k].operation # "count" =>
              \A record \in Range(records) : Numeric(record, a.aggregations[k].field)
        BY <1>5 DEF Unaggregatable, Range
      <4>3. a.aggregations[k].operation # "count" => HasNumbers(group, a.aggregations[k].field)
        BY <3>2, <3>3, <4>2 DEF HasNumbers
      <4> QED BY <3>2, <4>1, <4>3, AggregatedIsValue
    <3>5. IsRecord(Restrict(records[i], F))
      <4>1. F \subseteq DOMAIN records[i]
        BY <1>1, <1>5, <3>1 DEF Unaggregatable, Missing
      <4> HIDE DEF F
      <4> QED BY <1>1, <3>1, <4>1, RestrictedRecord
    <3>6. IsRecord(Row(Restrict(records[i], F), group, a.aggregations))
      BY <3>4, <3>5, RowIsRecord
    <3> QED BY <3>6 DEF group, i
  <2> DEFINE Y == {row(g) : g \in 1..m}
  <2> HIDE DEF row
  <2>3. s \in [1..m -> Y] /\ \A y \in Y : IsRecord(y)
    BY <1>2, <2>2
  <2> HIDE DEF s, Y, result
  <2>4. IsRecords(s)
    BY <1>2, <2>3, RecordsOf
  <2> QED BY <2>1, <2>4 DEF result
<1> QED BY <1>3, <1>4, <1>5

\* The best are some of the records.
LEMMA TopRecords ==
  ASSUME NEW records, IsRecords(records), NEW ahead, Orders(ahead), DOMAIN ahead = DOMAIN records,
         NEW k \in Nat
  PROVE  IsRecords(Top(records, InOrder(ahead), k))
<1> DEFINE n == Len(records)
           m == Min({k, n})
           order == InOrder(ahead)
           top == Top(records, order, k)
           Y == {records[i] : i \in 1..n}
<1>1. n \in Nat /\ DOMAIN records = 1..n /\ \A i \in 1..n : IsRecord(records[i])
  BY RecordsHave
<1>2. m \in 0..n
  <2>1. \A x, y \in Nat : Min({x, y}) \in 0..y
    BY MinOfTwo
  <2> QED BY <1>1, <2>1, Zenon
<1>3. order \in [1..n -> 1..n]
  <2>1. Cardinality(1..n) = n
    <3>1. Cardinality(1..n) = IF 1 > n THEN 0 ELSE n - 1 + 1
      BY <1>1, FS_Interval
    <3> QED BY <1>1, <3>1
  <2>2. order \in [1..Cardinality(1..n) -> 1..n]
    BY <1>1, Arranged
  <2> QED BY <2>1, <2>2
<1>4. top = [r \in 1..m |-> records[order[r]]]
  BY DEF Top
<1> HIDE DEF n, m, order, top
<1>5. \A r \in 1..m : order[r] \in 1..n
  BY <1>1, <1>2, <1>3
<1>6. top \in [1..m -> Y] /\ m \in Nat
  BY <1>1, <1>2, <1>4, <1>5
<1>7. \A y \in Y : IsRecord(y)
  BY <1>1
<1> HIDE DEF Y
<1>8. IsRecords(top)
  BY <1>6, <1>7, RecordsOf, Zenon
<1> QED BY <1>8 DEF top, order

\* The values by which records are ranked.
LEMMA RankedAreValues ==
  ASSUME NEW records, IsRecords(records), NEW a, ~Missing(records, {a.field})
  PROVE  RankedValues(records, a)
<1>1. /\ IsSequence(records) /\ DOMAIN records = 1..Len(records)
      /\ \A i \in 1..Len(records) : records[i] \in Range(records) /\ IsRecord(records[i])
  BY RecordsHave
<1>2. ASSUME NEW i \in DOMAIN records PROVE records[i][a.field].value \in Seq(Int)
  <2>1. a.field \in DOMAIN records[i] /\ IsRecord(records[i])
    BY <1>1 DEF Missing
  <2>2. records[i][a.field] \in Values
    BY <2>1 DEF IsRecord
  <2> QED BY <2>2 DEF Values
<1> QED BY <1>1, <1>2 DEF RankedValues

\* top_k_records writes records.
LEMMA RankedRecords ==
  ASSUME NEW records, IsRecords(records), NEW a, a.k \in Nat
  PROVE  IsRecords(TopK(records, a).records)
<1> DEFINE ahead == [i \in DOMAIN records |-> {j \in DOMAIN records : Precedes(records, a, j, i)}]
           top == Top(records, InOrder(ahead), a.k)
           result == TopK(records, a)
<1>1. result = Invalid \/ (~Missing(records, {a.field}) /\ result = Success(top))
  BY Zenon DEF TopK
<1>2. ASSUME ~Missing(records, {a.field}) PROVE IsRecords(top)
  <2>1. Orders(ahead)
    BY <1>2, RankedAreValues, TopOrders
  <2>2. DOMAIN ahead = DOMAIN records
    OBVIOUS
  <2> HIDE DEF ahead
  <2> QED BY <2>1, <2>2, TopRecords
<1> HIDE DEF top, result
<1>3. result.records = <<>> \/ (~Missing(records, {a.field}) /\ result.records = top)
  BY <1>1 DEF Invalid, Failure, Success
<1> QED BY <1>2, <1>3, NoRecords DEF result

\* What of the formula for scores is needed (retrieval.py:31-53): both factors of a
\* token's gain are positive numbers where the token occurs.
ScoresArePositive ==
  /\ \A documents \in Nat : \A holding \in 1..documents :
       InverseFrequency(documents, holding) \in Nat \ {0}
  /\ \A frequency, length \in Nat \ {0}, lengths \in Nat :
       Saturation(frequency, length, lengths) \in Nat \ {0}

\* Some of the first n numbers.
LEMMA SomeOf ==
  ASSUME NEW n \in Nat, NEW S \in SUBSET (1..n), NEW x \in S
  PROVE  Cardinality(S) \in 1..n
<1>1. IsFiniteSet(1..n) /\ Cardinality(1..n) = n
  <2>1. IsFiniteSet(1..n) /\ Cardinality(1..n) = IF 1 > n THEN 0 ELSE n - 1 + 1
    BY FS_Interval
  <2> QED BY <2>1
<1>2. IsFiniteSet(S) /\ Cardinality(S) <= n
  BY <1>1, FS_Subset
<1>3. Cardinality(S) \in Nat
  BY <1>2, FS_CardinalityType
<1>4. Cardinality(S) # 0
  BY <1>2, FS_EmptySet
<1> QED BY <1>2, <1>3, <1>4

\* The score of a document is positive if it has a token of the query.
LEMMA ScoreIsPositive ==
  ASSUME ScoresArePositive, NEW n \in Nat, NEW documents, DOMAIN documents = 1..n,
         IsSequence(documents),
         \A i \in 1..n : IsSequence(documents[i]), NEW i \in 1..n, NEW query, IsSequence(query)
  PROVE  /\ Score(documents[i], documents, query) \in Nat
         /\ Score(documents[i], documents, query) > 0 <=> Range(documents[i]) \cap Range(query) # {}
<1> DEFINE document == documents[i]
           sizes == [j \in DOMAIN documents |-> Len(documents[j])]
           lengths == Total(sizes)
           holding(token) == DocumentFrequency(token, documents)
           gain(token) ==
             IF token \notin Range(document) THEN 0
             ELSE InverseFrequency(Len(documents), holding(token))
                    * Saturation(Frequency(token, document), Len(document), lengths)
           m == Len(query)
           gains == [q \in DOMAIN query |-> gain(query[q])]
<1>1. m \in Nat /\ DOMAIN query = 1..m
  BY ElementsOf
<1>2. Len(document) \in Nat /\ DOMAIN document = 1..Len(document)
  BY ElementsOf
<1>3. Len(documents) = n
  <2>1. Len(documents) \in Nat /\ DOMAIN documents = 1..Len(documents)
    BY ElementsOf
  <2> QED BY <2>1
<1>4. lengths \in Nat
  <2>1. \A j \in 1..n : Len(documents[j]) \in Nat
    BY ElementsOf
  <2>2. sizes \in [1..n -> Nat]
    BY <2>1
  <2> HIDE DEF sizes
  <2> QED BY <2>2, TotalIsPositive
<1>5. ASSUME NEW token \in Range(document)
      PROVE  /\ holding(token) \in 1..n
             /\ Frequency(token, document) \in Nat \ {0} /\ Len(document) \in Nat \ {0}
  <2> DEFINE S == {j \in DOMAIN documents : token \in Range(documents[j])}
             P == {p \in DOMAIN document : document[p] = token}
  <2>1. S \in SUBSET (1..n) /\ i \in S
    OBVIOUS
  <2>2. PICK p \in DOMAIN document : document[p] = token
    BY Zenon DEF Range
  <2>3. P \in SUBSET (1..Len(document)) /\ p \in P
    BY <1>2, <2>2
  <2>4. holding(token) = Cardinality(S) /\ Frequency(token, document) = Cardinality(P)
    BY DEF DocumentFrequency, Frequency
  <2> HIDE DEF S, P, holding, document
  <2>5. Cardinality(S) \in 1..n
    BY <2>1, SomeOf
  <2>6. Cardinality(P) \in 1..Len(document)
    BY <1>2, <2>3, SomeOf
  <2> QED BY <1>2, <2>4, <2>5, <2>6
<1>6. Score(document, documents, query) = Total(gains)
  BY Zenon DEF Score
<1> HIDE DEF lengths, holding, m
<1>7. ASSUME NEW token PROVE gain(token) \in Nat /\ (gain(token) > 0 <=> token \in Range(document))
  <2>1. CASE token \notin Range(document)
    BY <2>1
  <2>2. CASE token \in Range(document)
    <3> DEFINE x == InverseFrequency(n, holding(token))
               y == Saturation(Frequency(token, document), Len(document), lengths)
    <3>1. gain(token) = x * y
      BY <1>3, <2>2
    <3>2. x \in Nat \ {0} /\ y \in Nat \ {0}
      BY <1>4, <1>5, <2>2, Zenon DEF ScoresArePositive
    <3> HIDE DEF x, y, gain
    <3>3. x * y \in Nat /\ x * y > 0
      BY <3>2
    <3> QED BY <2>2, <3>1, <3>3
  <2> QED BY <2>1, <2>2
<1> HIDE DEF gain
<1>8. gains \in [1..m -> Nat] /\ \A q \in 1..m : gains[q] > 0 <=> query[q] \in Range(document)
  BY <1>1, <1>7
<1> HIDE DEF gains
<1>9. Total(gains) \in Nat /\ (Total(gains) > 0 <=> \E q \in 1..m : gains[q] > 0)
  BY <1>1, <1>8, TotalIsPositive, Zenon
<1>10. (\E q \in 1..m : query[q] \in Range(document)) <=> Range(document) \cap Range(query) # {}
  BY <1>1, Zenon DEF Range
<1> QED BY <1>6, <1>8, <1>9, <1>10

\* Every record has a text where a names it.
HaveTexts(records, a) ==
  \A record \in Range(records) :
    a.text_field \in DOMAIN record /\ record[a.text_field].type = "string"

\* The texts that are ranked.
Texts(records, a) == [i \in DOMAIN records |-> records[i][a.text_field].value]

\* The score of a record's text.
ScoreOf(records, a, i) == Score(Texts(records, a)[i], Texts(records, a), a.query)

\* The score of a record is positive if its text has a token of the query.
LEMMA ScoresOfRecords ==
  ASSUME ScoresArePositive, NEW records, IsRecords(records), NEW a, IsSequence(a.query),
         HaveTexts(records, a), NEW i \in DOMAIN records
  PROVE  /\ ScoreOf(records, a, i) \in Nat
         /\ ScoreOf(records, a, i) > 0 <=>
              Range(records[i][a.text_field].value) \cap Range(a.query) # {}
<1> DEFINE n == Len(records)
           documents == Texts(records, a)
<1>1. /\ n \in Nat /\ DOMAIN records = 1..n
      /\ \A j \in 1..n : records[j] \in Range(records) /\ IsRecord(records[j])
      /\ documents = [j \in 1..n |-> records[j][a.text_field].value]
  BY RecordsHave DEF Texts
<1> HIDE DEF n, documents
<1>2. \A j \in 1..n : documents[j] \in Seq(Int)
  <2> SUFFICES ASSUME NEW j \in 1..n PROVE documents[j] \in Seq(Int)
    OBVIOUS
  <2>1. a.text_field \in DOMAIN records[j] /\ IsRecord(records[j])
    BY <1>1 DEF HaveTexts
  <2>2. records[j][a.text_field] \in Values
    BY <2>1 DEF IsRecord
  <2> QED BY <1>1, <2>2 DEF Values
<1>3. documents \in [1..n -> Seq(Int)] /\ DOMAIN documents = 1..n
  <2>1. documents = [j \in 1..n |-> documents[j]]
    BY <1>1
  <2> QED BY <1>2, <2>1
<1>4. IsSequence(documents) /\ \A j \in 1..n : IsSequence(documents[j])
  <2>1. IsSequence(documents)
    BY <1>1, <1>3, SequenceOf, Zenon
  <2>2. ASSUME NEW j \in 1..n PROVE IsSequence(documents[j])
    <3> DEFINE d == documents[j]
    <3>1. d \in Seq(Int)
      BY <1>3
    <3> HIDE DEF d
    <3>2. Len(d) \in Nat /\ d \in [1..Len(d) -> Int]
      BY <3>1
    <3>3. IsSequence(d)
      BY <3>2, SequenceOf, Zenon
    <3> QED BY <3>3 DEF d
  <2> QED BY <2>1, <2>2
<1>5. i \in 1..n /\ documents[i] = records[i][a.text_field].value
  BY <1>1
<1>6. /\ Score(documents[i], documents, a.query) \in Nat
      /\ Score(documents[i], documents, a.query) > 0 <=> Range(documents[i]) \cap Range(a.query) # {}
  BY <1>1, <1>3, <1>4, <1>5, ScoreIsPositive, Zenon
<1> QED BY <1>5, <1>6 DEF ScoreOf, documents

\* The records with their scores.
Scored(records, a) ==
  [i \in DOMAIN records |->
     Merged(Single("_bm25_score", Float(ScoreOf(records, a, i))), records[i])]

\* What is preferred to each record.
Outscoring(records, a) ==
  [i \in DOMAIN records |->
     {j \in DOMAIN records :
        \/ ScoreOf(records, a, j) > ScoreOf(records, a, i)
        \/ ScoreOf(records, a, j) = ScoreOf(records, a, i) /\ j < i}]

\* bm25_retrieve fails, or writes the first of the records in that order.
LEMMA RetrievedOrFailed ==
  ASSUME NEW records, NEW a
  PROVE  \/ Retrieved(records, a) = Invalid
         \/ /\ HaveTexts(records, a)
            /\ Retrieved(records, a) =
                 Success(Top(Scored(records, a), InOrder(Outscoring(records, a)), a.top_k))
<1> DEFINE documents == [i \in DOMAIN records |-> records[i][a.text_field].value]
           score == [i \in DOMAIN records |-> Score(documents[i], documents, a.query)]
           scored == [i \in DOMAIN records |-> Merged(Single("_bm25_score", Float(score[i])), records[i])]
           ahead == [i \in DOMAIN records |->
                       {j \in DOMAIN records :
                          score[j] > score[i] \/ (score[j] = score[i] /\ j < i)}]
<1>1. \/ Retrieved(records, a) = Invalid
      \/ HaveTexts(records, a) /\ Retrieved(records, a) = Success(Top(scored, InOrder(ahead), a.top_k))
  BY Zenon DEF Retrieved, HaveTexts
<1>2. \A i \in DOMAIN records : score[i] = ScoreOf(records, a, i)
  <2>1. documents = Texts(records, a)
    BY DEF Texts
  <2> HIDE DEF documents
  <2> QED BY <2>1 DEF ScoreOf
<1> HIDE DEF score
<1>3. scored = Scored(records, a)
  BY <1>2 DEF Scored
<1>4. ahead = Outscoring(records, a)
  BY <1>2 DEF Outscoring
<1> HIDE DEF scored, ahead
<1> QED BY <1>1, <1>3, <1>4

\* The records with their scores are records, and the scores order them.
LEMMA ScoredInOrder ==
  ASSUME ScoresArePositive, NEW records, IsRecords(records), NEW a, IsSequence(a.query),
         HaveTexts(records, a)
  PROVE  /\ IsRecords(Scored(records, a)) /\ DOMAIN Scored(records, a) = DOMAIN records
         /\ Orders(Outscoring(records, a)) /\ DOMAIN Outscoring(records, a) = DOMAIN records
<1> DEFINE n == Len(records)
           score == [i \in 1..n |-> ScoreOf(records, a, i)]
           scored == Scored(records, a)
           ahead == Outscoring(records, a)
           Y == {scored[i] : i \in 1..n}
<1>1. /\ n \in Nat /\ DOMAIN records = 1..n
      /\ \A i \in 1..n : records[i] \in Range(records) /\ IsRecord(records[i])
  BY RecordsHave
<1> HIDE DEF n
<1>2. score \in [1..n -> Int]
  <2>1. ASSUME NEW i \in 1..n PROVE ScoreOf(records, a, i) \in Int
    <3>1. ScoreOf(records, a, i) \in Nat
      BY <1>1, ScoresOfRecords
    <3> QED BY <3>1
  <2> QED BY <2>1
<1>3. ahead = [i \in 1..n |-> {j \in 1..n : score[j] > score[i] \/ (score[j] = score[i] /\ j < i)}]
  BY <1>1 DEF Outscoring
<1>4. \A i \in 1..n : scored[i] = Merged(Single("_bm25_score", Float(score[i])), records[i])
  BY <1>1 DEF Scored
<1>5. DOMAIN scored = 1..n
  BY <1>1 DEF Scored
<1>6. scored = [i \in 1..n |-> scored[i]]
  BY <1>1 DEF Scored
<1> HIDE DEF score, scored, ahead
<1>7. ASSUME NEW i \in 1..n PROVE IsRecord(scored[i])
  <2>1. score[i] \in Int
    BY <1>2
  <2>2. Float(score[i]) \in Values
    BY <2>1, NumberIsValue
  <2>3. IsRecord(Merged(Single("_bm25_score", Float(score[i])), records[i]))
    BY <1>1, <2>2, MergedIsRecord, Zenon
  <2> QED BY <1>4, <2>3
<1>8. scored \in [1..n -> Y] /\ \A y \in Y : IsRecord(y)
  BY <1>6, <1>7
<1> HIDE DEF Y
<1>9. IsRecords(scored)
  BY <1>1, <1>8, RecordsOf, Zenon
<1>10. Orders(ahead)
  BY <1>1, <1>2, <1>3, ScoreOrders, Zenon
<1>11. DOMAIN ahead = 1..n
  BY <1>3
<1> QED BY <1>1, <1>5, <1>9, <1>10, <1>11 DEF scored, ahead

\* bm25_retrieve writes records.
LEMMA RetrievedRecords ==
  ASSUME ScoresArePositive, NEW records, IsRecords(records), NEW a, a.top_k \in Nat,
         IsSequence(a.query)
  PROVE  IsRecords(Retrieved(records, a).records)
<1> DEFINE top == Top(Scored(records, a), InOrder(Outscoring(records, a)), a.top_k)
           result == Retrieved(records, a)
<1>1. result = Invalid \/ (HaveTexts(records, a) /\ result = Success(top))
  BY RetrievedOrFailed
<1>2. HaveTexts(records, a) => IsRecords(top)
  BY ScoredInOrder, TopRecords
<1> HIDE DEF top, result
<1>3. result.records = <<>> \/ (HaveTexts(records, a) /\ result.records = top)
  BY <1>1 DEF Invalid, Failure, Success
<1> QED BY <1>2, <1>3, NoRecords DEF result

\* What is stored is opaque or records.
RecordsAreTyped == \A id \in DOMAIN artifacts : artifacts[id] = Opaque \/ IsRecords(artifacts[id])

\* What is loaded are records, also when several artifacts are merged.
LEMMA LoadedRecords ==
  ASSUME Sequences, RecordsAreTyped, Loadable(Request), IsSequence(Request.inputs)
  PROVE  IsRecords(LoadRecords)
<1> DEFINE inputs == Request.inputs
           seqs == [i \in DOMAIN inputs |-> artifacts[inputs[i]]]
           m == Len(inputs)
           X == UNION {Range(artifacts[inputs[i]]) : i \in DOMAIN inputs}
<1>1. m \in Nat /\ DOMAIN inputs = 1..m
  BY ElementsOf
<1>2. ASSUME NEW i \in 1..m PROVE IsRecords(artifacts[inputs[i]])
  BY <1>1 DEF Loadable, RecordsAreTyped
<1>3. CASE Request.operator # "aggregate_artifacts"
  <2>1. m = 1
    BY <1>3 DEF Loadable, ArgumentsAreValid
  <2>2. LoadRecords = artifacts[inputs[1]]
    BY <1>3, LoadedSequence
  <2>3. IsRecords(artifacts[inputs[1]])
    <3>1. 1 \in 1..m
      BY <2>1
    <3> QED BY <1>2, <3>1
  <2> QED BY <2>2, <2>3
<1>4. CASE Request.operator = "aggregate_artifacts"
  <2>1. m # 0
    <3>1. m = 0 => inputs = <<>>
      BY DEF IsSequence
    <3> QED BY <1>4, <3>1 DEF Loadable, ArgumentsAreValid
  <2>2. \A i \in 1..m : seqs[i] \in Seq(X)
    <3> SUFFICES ASSUME NEW i \in 1..m PROVE seqs[i] \in Seq(X)
      BY Zenon
    <3> DEFINE Y == Range(seqs[i])
    <3>1. Y \in SUBSET X
      BY <1>1
    <3>2. Len(seqs[i]) \in Nat /\ seqs[i] \in [1..Len(seqs[i]) -> Y]
      <4>1. IsSequence(seqs[i])
        BY <1>1, <1>2 DEF IsRecords, IsSequence
      <4> QED BY <4>1, ElementsOf
    <3> HIDE DEF X, Y, seqs
    <3>3. seqs[i] \in [1..Len(seqs[i]) -> X]
      BY <3>1, <3>2
    <3> QED BY <3>2, <3>3, SequenceOf
  <2>3. \A x \in X : IsRecord(x)
    <3> SUFFICES ASSUME NEW i \in DOMAIN inputs, NEW x \in Range(artifacts[inputs[i]])
                 PROVE  IsRecord(x)
      OBVIOUS
    <3>1. IsRecords(artifacts[inputs[i]])
      BY <1>1, <1>2
    <3> QED BY <3>1 DEF IsRecords
  <2>4. seqs \in [1..m -> Seq(X)] /\ m \in Nat \ {0}
    <3>1. seqs = [i \in 1..m |-> seqs[i]]
      BY <1>1
    <3> HIDE DEF X, seqs
    <3> QED BY <1>1, <2>1, <2>2, <3>1
  <2> DEFINE flat == FlattenSeq(seqs)
  <2>5. LoadRecords = flat
    BY DEF LoadRecords
  <2> HIDE DEF X, seqs, m
  <2>6. flat \in Seq(X)
    BY <2>4, FlattenMany
  <2> HIDE DEF flat
  <2>7. Len(flat) \in Nat /\ flat \in [1..Len(flat) -> X]
    BY <2>6
  <2>8. IsRecords(flat)
    BY <2>3, <2>7, RecordsOf, Zenon
  <2> QED BY <2>5, <2>8
<1> QED BY <1>3, <1>4

\* A request that writes records keeps them records.
LEMMA RecordsStayTyped ==
  ASSUME RecordInv, RecordsAreTyped, Len(answers) < Len(requests), NEW operator, NEW result,
         Execute(operator, result), Loadable(Request) => IsRecords(result.records)
  PROVE  RecordsAreTyped'
<1>1. IsSequence(Request.inputs) /\ IsSequence(answers)
  BY NextRecordRequest DEF RecordInv, RecordAnswersValid
<1>2. /\ Grows
      /\ \A id \in DOMAIN artifacts' \ DOMAIN artifacts :
           Loadable(Request) /\ result.status = "success" /\ artifacts'[id] = result.records
  BY <1>1, ExecuteWrites
<1>3. \A id \in DOMAIN artifacts : artifacts'[id] = Opaque \/ IsRecords(artifacts'[id])
  BY <1>2 DEF RecordsAreTyped, Grows
<1>4. \A id \in DOMAIN artifacts' \ DOMAIN artifacts : IsRecords(artifacts'[id])
  BY <1>2, Zenon
<1>5. \A id \in DOMAIN artifacts' : artifacts'[id] = Opaque \/ IsRecords(artifacts'[id])
  BY <1>3, <1>4, Zenon
<1> QED BY <1>5, Zenon DEF RecordsAreTyped, IsRecords, IsRecord, Range

\* What the schemas of the arguments and validate_derive_fields let through.
LEMMA ArgumentsFit ==
  ASSUME IsRecordRequest(Request), ArgumentsAreValid(Request)
  PROVE  /\ Request.operator = "derive_fields" =>
              /\ IsSequence(Request.arguments.derivations)
              /\ \A k \in DOMAIN Request.arguments.derivations :
                   IsDerivation(Request.arguments.derivations[k])
         /\ Request.operator = "aggregate_records" => IsAggregation(Request.arguments)
         /\ Request.operator = "top_k_records" => Request.arguments.k \in Nat
         /\ Request.operator = "bm25_retrieve" =>
              Request.arguments.top_k \in Nat /\ IsSequence(Request.arguments.query)
<1> DEFINE request == Request
           a == request.arguments
<1>1. IsRecordRequest(request) /\ ArgumentsAreValid(request)
  OBVIOUS
<1> HIDE DEF request
<1>2. ASSUME request.operator = "derive_fields"
      PROVE  IsSequence(a.derivations) /\ \A k \in DOMAIN a.derivations : IsDerivation(a.derivations[k])
  <2>1. /\ IsSequence(a.derivations)
        /\ \A d \in Range(a.derivations) : IsSequence(d.sources)
        /\ \A d \in Range(a.derivations) : d.operation \in {"subtract", "divide"} => Len(d.sources) = 2
    BY <1>1, <1>2 DEF IsRecordRequest, ArgumentsAreValid, IsSequence
  <2>2. \A k \in DOMAIN a.derivations : a.derivations[k] \in Range(a.derivations)
    BY DEF Range
  <2> QED BY <2>1, <2>2, Zenon DEF IsDerivation
<1>3. ASSUME request.operator = "aggregate_records" PROVE IsAggregation(a)
  <2>1. /\ IsSequence(a.aggregations)
        /\ \A b \in Range(a.aggregations) : b.operation \in {"count", "sum", "min", "max", "avg"}
    BY <1>1, <1>3 DEF IsRecordRequest, IsSequence
  <2>2. \A k \in DOMAIN a.aggregations : a.aggregations[k] \in Range(a.aggregations)
    BY DEF Range
  <2> QED BY <2>1, <2>2, Zenon DEF IsAggregation
<1>4. request.operator = "top_k_records" => a.k \in Nat
  BY <1>1 DEF IsRecordRequest
<1>5. request.operator = "bm25_retrieve" => a.top_k \in Nat /\ IsSequence(a.query)
  BY <1>1 DEF IsRecordRequest, IsSequence
<1> QED BY <1>2, <1>3, <1>4, <1>5 DEF request

\* Every operator writes records.
LEMMA RecordNextKeepsTypes ==
  ASSUME ScoresArePositive, FloatsAreNumbers, RecordInv, RecordsAreTyped, [RecordNext]_operatorVars
  PROVE  RecordsAreTyped'
<1>1. CASE UNCHANGED operatorVars
  <2>1. artifacts' = artifacts
    BY <1>1 DEF operatorVars
  <2>2. \A id \in DOMAIN artifacts' : artifacts'[id] = Opaque \/ IsRecords(artifacts'[id])
    BY <2>1 DEF RecordsAreTyped
  <2> QED BY <2>2, Zenon DEF RecordsAreTyped, IsRecords, IsRecord, Range
<1>2. CASE RecordNext
  <2>1. Len(answers) < Len(requests)
    BY <1>2 DEF RecordNext
  <2> DEFINE a == Request.arguments
             records == LoadRecords
  <2>2. ASSUME Loadable(Request)
        PROVE  /\ IsRecords(records)
               /\ Request.operator = "derive_fields" =>
                    /\ IsSequence(a.derivations)
                    /\ \A k \in DOMAIN a.derivations : IsDerivation(a.derivations[k])
               /\ Request.operator = "aggregate_records" => IsAggregation(a)
               /\ Request.operator = "top_k_records" => a.k \in Nat
               /\ Request.operator = "bm25_retrieve" => a.top_k \in Nat /\ IsSequence(a.query)
    <3>1. IsRecordRequest(Request) /\ IsSequence(Request.inputs) /\ Sequences
      BY <2>1, NextRecordRequest DEF RecordInv
    <3>2. IsRecords(records)
      BY <2>2, <3>1, LoadedRecords
    <3>3. ArgumentsAreValid(Request)
      BY <2>2 DEF Loadable
    <3> QED BY <3>1, <3>2, <3>3, ArgumentsFit
  <2>3. ASSUME NEW operator, NEW result, Execute(operator, result),
               Loadable(Request) /\ Request.operator = operator => IsRecords(result.records)
        PROVE  RecordsAreTyped'
    <3>1. Request.operator = operator
      BY <2>3 DEF Execute
    <3> QED BY <2>1, <2>3, <3>1, RecordsStayTyped, Zenon
  <2> HIDE DEF a, records
  <2>4. CASE FilterRecords
    BY <2>2, <2>3, <2>4, FilteredRecords, Zenon DEF FilterRecords, a, records
  <2>5. CASE SelectFields
    BY <2>2, <2>3, <2>5, SelectedRecords, Zenon DEF SelectFields, a, records
  <2>6. CASE DeriveFields
    <3>1. Loadable(Request) /\ Request.operator = "derive_fields" =>
            IsRecords(WithDerivedFields(records, a).records)
      BY <2>2, DerivedRecords
    <3> QED BY <2>3, <2>6, <3>1, Zenon DEF DeriveFields, a, records
  <2>7. CASE AggregateRecords
    <3>1. Loadable(Request) /\ Request.operator = "aggregate_records" =>
            IsRecords(WithAggregations(records, a).records)
      BY <2>2, AggregatedRecords
    <3> QED BY <2>3, <2>7, <3>1, Zenon DEF AggregateRecords, a, records
  <2>8. CASE TopKRecords
    <3>1. Loadable(Request) /\ Request.operator = "top_k_records" =>
            IsRecords(TopK(records, a).records)
      BY <2>2, RankedRecords
    <3> QED BY <2>3, <2>8, <3>1, Zenon DEF TopKRecords, a, records
  <2>9. CASE AggregateArtifacts
    <3>1. Success(records).records = records
      BY DEF Success
    <3> QED BY <2>2, <2>3, <2>9, <3>1, Zenon DEF AggregateArtifacts, records
  <2>10. CASE Bm25Retrieve
    <3>1. Loadable(Request) /\ Request.operator = "bm25_retrieve" =>
            IsRecords(Retrieved(records, a).records)
      BY <2>2, RetrievedRecords
    <3> QED BY <2>3, <2>10, <3>1, Zenon DEF Bm25Retrieve, a, records
  <2> QED BY <1>2, <2>4, <2>5, <2>6, <2>7, <2>8, <2>9, <2>10 DEF RecordNext
<1> QED BY <1>1, <1>2

-----------------------------------------------------------------------------
(* top_k_records: the best come first. *)

\* The first k have every record that fewer than k others are before.
LEMMA TopHasTheBest ==
  ASSUME NEW records, IsSequence(records), NEW ahead, Orders(ahead), DOMAIN ahead = DOMAIN records,
         NEW k \in Nat
  PROVE  /\ Len(Top(records, InOrder(ahead), k)) = Min({k, Len(records)})
         /\ \A i \in DOMAIN records : Cardinality(ahead[i]) < k =>
              Top(records, InOrder(ahead), k)[Cardinality(ahead[i]) + 1] = records[i]
<1> DEFINE n == Len(records)
           order == InOrder(ahead)
           m == Min({k, n})
           top == Top(records, order, k)
<1>1. n \in Nat /\ DOMAIN records = 1..n
  BY ElementsOf
<1> HIDE DEF order
<1>2. /\ Len(top) = m
      /\ \A r \in 1..m : top[r] = records[order[r]]
  <2>1. Len(Top(records, order, k)) = Min({k, Len(records)})
    BY TopIsSequence
  <2>2. \A r \in 1..Min({k, Len(records)}) : Top(records, order, k)[r] = records[order[r]]
    BY TopIsSequence
  <2> QED BY <2>1, <2>2, Zenon
<1> HIDE DEF n
<1>3. ASSUME NEW i \in DOMAIN records
      PROVE  Cardinality(ahead[i]) + 1 \in 1..n /\ order[Cardinality(ahead[i]) + 1] = i
  <2>1. Cardinality(1..n) = n
    <3>1. Cardinality(1..n) = IF 1 > n THEN 0 ELSE n - 1 + 1
      BY <1>1, FS_Interval
    <3> QED BY <1>1, <3>1
  <2>2. DOMAIN ahead = 1..n /\ i \in DOMAIN ahead
    BY <1>1
  <2>3. /\ Cardinality(ahead[i]) + 1 \in 1..Cardinality(DOMAIN ahead)
        /\ order[Cardinality(ahead[i]) + 1] = i
    BY <2>2, Arranged, Zenon DEF order
  <2> QED BY <2>1, <2>2, <2>3
<1>4. m \in {k, n}
  BY <1>1, MinOfTwo
<1> HIDE DEF top, order, m
<1>5. ASSUME NEW i \in DOMAIN records, Cardinality(ahead[i]) < k
      PROVE  top[Cardinality(ahead[i]) + 1] = records[i]
  <2> DEFINE r == Cardinality(ahead[i]) + 1
  <2>1. r \in 1..n /\ order[r] = i
    BY <1>3
  <2>2. Cardinality(ahead[i]) \in Int
    <3>1. ahead[i] \in SUBSET DOMAIN ahead /\ IsFiniteSet(DOMAIN ahead)
      BY DEF Orders
    <3>2. IsFiniteSet(ahead[i])
      BY <3>1, FS_Subset
    <3> QED BY <3>2, FS_CardinalityType
  <2>3. r \in 1..m
    BY <1>1, <1>4, <1>5, <2>1, <2>2
  <2> HIDE DEF r
  <2>4. top[r] = records[order[r]]
    BY <1>2, <2>3
  <2> QED BY <2>1, <2>4 DEF r
<1> QED BY <1>2, <1>5, Zenon DEF top, order, m, n

\* What comes before a record.
Preferred(records, a, i) ==
  {j \in DOMAIN records :
     \/ Better(a, records[j][a.field].value, records[i][a.field].value)
     \/ records[j][a.field].value = records[i][a.field].value /\ j < i}

\* top_k_records, whatever the records and the field.
LEMMA TopKRanked ==
  ASSUME NEW records, IsRecords(records), NEW a, a.k \in Nat, TopK(records, a).status = "success"
  PROVE  /\ Len(TopK(records, a).records) = Min({a.k, Len(records)})
         /\ \A i \in DOMAIN records : Cardinality(Preferred(records, a, i)) < a.k =>
              TopK(records, a).records[Cardinality(Preferred(records, a, i)) + 1] = records[i]
<1> DEFINE ahead == [i \in DOMAIN records |-> {j \in DOMAIN records : Precedes(records, a, j, i)}]
           top == Top(records, InOrder(ahead), a.k)
           value(i) == records[i][a.field].value
           result == TopK(records, a)
<1>1. result = Invalid \/ (~Missing(records, {a.field}) /\ result = Success(top))
  BY Zenon DEF TopK
<1>2. IsSequence(records)
  BY RecordsHave
<1> HIDE DEF top, result
<1>3. ~Missing(records, {a.field}) /\ result.records = top
  BY <1>1 DEF Invalid, Failure, Success, result
<1>4. RankedValues(records, a)
  BY <1>3, RankedAreValues
<1>5. Orders(ahead) /\ DOMAIN ahead = DOMAIN records
  BY <1>4, TopOrders
<1>6. ASSUME NEW i \in DOMAIN records PROVE ahead[i] = Preferred(records, a, i)
  <2>1. ASSUME NEW j \in DOMAIN records
        PROVE  Precedes(records, a, j, i) <=>
                 Better(a, value(j), value(i)) \/ (value(j) = value(i) /\ j < i)
    <3>1. ~Better(a, value(i), value(i))
      <4>1. value(i) \in Seq(Int)
        BY <1>4 DEF RankedValues
      <4> HIDE DEF value
      <4> QED BY <4>1, BetterOrders
    <3>2. Precedes(records, a, j, i) <=>
            IF value(j) = value(i) THEN j < i ELSE Better(a, value(j), value(i))
      BY DEF Precedes, Better
    <3> HIDE DEF value
    <3> QED BY <3>1, <3>2
  <2>2. Preferred(records, a, i) =
          {j \in DOMAIN records : Better(a, value(j), value(i)) \/ (value(j) = value(i) /\ j < i)}
    BY DEF Preferred
  <2> HIDE DEF value
  <2> QED BY <2>1, <2>2
<1> HIDE DEF ahead
<1>7. /\ Len(top) = Min({a.k, Len(records)})
      /\ \A i \in DOMAIN records : Cardinality(ahead[i]) < a.k =>
           top[Cardinality(ahead[i]) + 1] = records[i]
  BY <1>2, <1>5, TopHasTheBest, Zenon DEF top
<1>8. \A i \in DOMAIN records : Cardinality(Preferred(records, a, i)) < a.k =>
        top[Cardinality(Preferred(records, a, i)) + 1] = records[i]
  BY <1>6, <1>7, Zenon
<1> QED BY <1>3, <1>7, <1>8, Zenon DEF result

\* The invariants say that of every request that was answered.
LEMMA TopKHolds == RecordInv /\ RecordsAreTyped => TopKIsTheBest
<1> SUFFICES ASSUME RecordInv, RecordsAreTyped, NEW n \in DOMAIN answers,
                    Answered(n, "top_k_records")
             PROVE
    LET a == requests[n].arguments
        value(i) == Input(n)[i][a.field].value
        better(i, j) == IF a.descending THEN Less(value(j), value(i)) ELSE Less(value(i), value(j))
        before(i) == {j \in DOMAIN Input(n) : better(j, i) \/ (value(j) = value(i) /\ j < i)}
    IN  /\ Len(Output(n)) = Min({a.k, Len(Input(n))})
        /\ \A i \in DOMAIN Input(n) :
             Cardinality(before(i)) < a.k => Output(n)[Cardinality(before(i)) + 1] = Input(n)[i]
  BY Zenon DEF TopKIsTheBest
<1> DEFINE a == requests[n].arguments
           records == Input(n)
           top == Output(n)
<1>1. requests[n].operator = "top_k_records" /\ Succeeded(answers[n])
  BY DEF Answered
<1>2. /\ IsRecordRequest(requests[n])
      /\ Computed(requests[n], records).status = "success"
      /\ top = Computed(requests[n], records).records
      /\ records = artifacts[requests[n].inputs[1]]
      /\ requests[n].inputs[1] \in DOMAIN artifacts
      /\ artifacts[requests[n].inputs[1]] # Opaque
  BY <1>1, InputAndOutput DEF Ranking, Spoken
<1>3. Computed(requests[n], records) = TopK(records, a)
  BY <1>1 DEF Computed, Ranking
<1>4. IsRecords(records)
  BY <1>2 DEF RecordsAreTyped
<1>5. a.k \in Nat
  BY <1>1, <1>2 DEF IsRecordRequest
<1> HIDE DEF a, records, top
<1>6. TopK(records, a).status = "success" /\ top = TopK(records, a).records
  BY <1>2, <1>3
<1>7. /\ Len(top) = Min({a.k, Len(records)})
      /\ \A i \in DOMAIN records : Cardinality(Preferred(records, a, i)) < a.k =>
           top[Cardinality(Preferred(records, a, i)) + 1] = records[i]
  BY <1>4, <1>5, <1>6, TopKRanked
<1> QED BY <1>7, Zenon DEF a, records, top, Better, Preferred

\* top_k_records puts a record at the rank that the number of records before it gives,
\* by value and then by position, whether ascending or descending, and leaves out no
\* better one, for every store, field and k; the records may have been computed by the
\* other operators, bm25_retrieve's scores among them (structured.py:277-294).
THEOREM TopKBest ==
  ASSUME ScoresArePositive, FloatsAreNumbers
  PROVE  RecordSpec => []TopKIsTheBest
<1>1. OperatorInit(RecordWorkloads) => RecordsAreTyped
  BY RecordAssumption DEF OperatorInit, RecordsAreTyped
<1>2. RecordInv /\ RecordsAreTyped /\ [RecordNext]_operatorVars => RecordsAreTyped'
  BY RecordNextKeepsTypes
<1> QED BY <1>1, <1>2, RecordInvariant, TopKHolds, PTL DEF RecordSpec

-----------------------------------------------------------------------------
(* bm25_retrieve: what matches comes first. *)

\* The element of a rank is the one that so many others are before.
LEMMA PlaceOfElement ==
  ASSUME NEW ahead, Orders(ahead), NEW r \in 1..Cardinality(DOMAIN ahead)
  PROVE  InOrder(ahead)[r] \in DOMAIN ahead /\ Cardinality(ahead[InOrder(ahead)[r]]) = r - 1
<1>1. PICK x \in DOMAIN ahead : Cardinality(ahead[x]) = r - 1
  BY ElementOfRank
<1>2. Cardinality(DOMAIN ahead) \in Nat
  BY Arranged
<1>3. InOrder(ahead)[Cardinality(ahead[x]) + 1] = x
  BY Arranged
<1>4. Cardinality(ahead[x]) + 1 = r
  BY <1>1, <1>2
<1> QED BY <1>1, <1>3, <1>4

\* Scores that are positive where something matches.
ScoresMatch(n, score, M) ==
  /\ n \in Nat /\ score \in [1..n -> Nat] /\ M \in SUBSET (1..n)
  /\ \A i \in 1..n : score[i] > 0 <=> i \in M

\* Those of M come first, the others of S follow in their order.
Stands(r, i, S, M) ==
  IF i \in M THEN r <= Cardinality(M)
  ELSE r = Cardinality(M) + Cardinality({j \in S \ M : j <= i})

\* What scores higher, or as high and stands before.
Higher(n, score, i) == {j \in 1..n : score[j] > score[i] \/ (score[j] = score[i] /\ j < i)}

\* In the order of such scores, those that match come first.
LEMMA MatchesCounted ==
  ASSUME NEW n, NEW score, NEW M, ScoresMatch(n, score, M), NEW i \in 1..n,
         NEW before, before = Higher(n, score, i)
  PROVE  Stands(Cardinality(before) + 1, i, 1..n, M)
<1> SUFFICES IF i \in M THEN Cardinality(before) + 1 <= Cardinality(M)
             ELSE Cardinality(before) + 1 = Cardinality(M) + Cardinality({j \in (1..n) \ M : j <= i})
  BY DEF Stands
<1> n \in Nat /\ score \in [1..n -> Nat] /\ M \in SUBSET (1..n)
  BY DEF ScoresMatch
<1> \A j \in 1..n : score[j] > 0 <=> j \in M
  BY DEF ScoresMatch
<1> before = {j \in 1..n : score[j] > score[i] \/ (score[j] = score[i] /\ j < i)}
  BY DEF Higher
<1>1. IsFiniteSet(1..n)
  BY FS_Interval
<1>2. IsFiniteSet(M) /\ Cardinality(M) \in Nat
  BY <1>1, FS_Subset, FS_CardinalityType, Zenon
<1>3. CASE i \in M
  <2>1. before \in SUBSET (M \ {i})
    BY <1>3
  <2>2. IsFiniteSet(M \ {i}) /\ Cardinality(M \ {i}) = Cardinality(M) - 1
    BY <1>2, <1>3, FS_RemoveElement
  <2>3. Cardinality(before) <= Cardinality(M \ {i}) /\ IsFiniteSet(before)
    BY <2>1, <2>2, FS_Subset
  <2>4. Cardinality(before) \in Nat
    BY <2>3, FS_CardinalityType
  <2> QED BY <1>2, <1>3, <2>2, <2>3, <2>4
<1>4. CASE i \notin M
  <2> DEFINE L == {j \in (1..n) \ M : j < i}
             E == {j \in (1..n) \ M : j <= i}
  <2>1. before = M \cup L /\ M \cap L = {}
    <3>1. \A j \in 1..n : score[j] \in Nat
      OBVIOUS
    <3>2. score[i] = 0
      BY <1>4, <3>1
    <3>3. before = {j \in 1..n : score[j] > 0 \/ (score[j] = 0 /\ j < i)}
      BY <3>2
    <3>4. \A j \in 1..n : j \notin M <=> score[j] = 0
      BY <3>1
    <3>5. \A j : j \in before <=> j \in M \/ j \in L
      BY <3>1, <3>3, <3>4, Zenon
    <3>6. M \cap L = {}
      OBVIOUS
    <3> HIDE DEF L
    <3> QED BY <3>5, <3>6
  <2>2. E = L \cup {i} /\ i \notin L
    BY <1>4
  <2>3. IsFiniteSet(L)
    <3>1. L \in SUBSET (1..n)
      OBVIOUS
    <3> HIDE DEF L
    <3> QED BY <1>1, <3>1, FS_Subset, Zenon
  <2> HIDE DEF L, E
  <2>4. Cardinality(L) \in Nat
    BY <2>3, FS_CardinalityType
  <2>5. Cardinality(E) = Cardinality(L) + 1
    BY <2>2, <2>3, FS_AddElement, Zenon
  <2>6. Cardinality(before) = Cardinality(M) + Cardinality(L)
    <3>1. Cardinality(M \cup L) = Cardinality(M) + Cardinality(L) - Cardinality(M \cap L)
      BY <1>2, <2>3, FS_Union
    <3>2. Cardinality(M \cap L) = 0
      <4>1. Cardinality({}) = 0
        BY FS_EmptySet
      <4> QED BY <2>1, <4>1, Zenon
    <3>3. Cardinality(M) + Cardinality(L) - 0 = Cardinality(M) + Cardinality(L)
      BY <1>2, <2>4
    <3> QED BY <2>1, <3>1, <3>2, <3>3, Zenon
  <2>7. Cardinality(before) + 1 = Cardinality(M) + Cardinality(E)
    BY <1>2, <2>4, <2>5, <2>6
  <2> QED BY <1>4, <2>7 DEF E
<1> QED BY <1>3, <1>4

\* A record without its score.
Unscored(record) == Restrict(record, DOMAIN record \ {"_bm25_score"})

\* A score changes nothing else of a record.
LEMMA ScoredKeeps ==
  ASSUME NEW v, NEW record, IsRecord(record)
  PROVE  Unscored(Merged(Single("_bm25_score", v), record)) = Unscored(record)
<1> DEFINE f == "_bm25_score"
           merged == Merged(Single(f, v), record)
<1>1. merged = [x \in {f} \cup DOMAIN record |-> IF x \in {f} THEN v ELSE record[x]]
  BY DEF Merged, Single
<1> HIDE DEF merged, f
<1>2. DOMAIN merged \ {f} = DOMAIN record \ {f}
  BY <1>1
<1>3. \A x \in DOMAIN record \ {f} : merged[x] = record[x]
  BY <1>1
<1>4. Restrict(merged, DOMAIN merged \ {f}) = Restrict(record, DOMAIN record \ {f})
  BY <1>2, <1>3 DEF Restrict
<1> QED BY <1>4 DEF merged, f, Unscored

\* The records that have a token of the query.
Matching(records, a) ==
  {i \in DOMAIN records : Range(records[i][a.text_field].value) \cap Range(a.query) # {}}

\* bm25_retrieve, whatever the records and the query.
LEMMA RetrievedRanked ==
  ASSUME ScoresArePositive, NEW records, IsRecords(records), NEW a, a.top_k \in Nat,
         IsSequence(a.query), Retrieved(records, a).status = "success"
  PROVE  LET hits == Retrieved(records, a).records
         IN  /\ Len(hits) = Min({a.top_k, Len(records)})
             /\ \E hit \in [DOMAIN hits -> DOMAIN records] :
                  /\ IsInjective(hit)
                  /\ \A r \in DOMAIN hit : Unscored(hits[r]) = Unscored(records[hit[r]])
                                          /\ Stands(r, hit[r], DOMAIN records, Matching(records, a))
<1> DEFINE n == Len(records)
           m == Min({a.top_k, n})
           M == Matching(records, a)
           scored == Scored(records, a)
           ahead == Outscoring(records, a)
           order == InOrder(ahead)
           hits == Retrieved(records, a).records
           score == [i \in 1..n |-> ScoreOf(records, a, i)]
           hit == [r \in 1..m |-> order[r]]
<1>1. /\ n \in Nat /\ DOMAIN records = 1..n
      /\ \A i \in 1..n : records[i] \in Range(records) /\ IsRecord(records[i])
  BY RecordsHave
<1>2. HaveTexts(records, a) /\ hits = Top(scored, order, a.top_k)
  <2> DEFINE result == Retrieved(records, a)
             top == Top(scored, order, a.top_k)
  <2>1. result = Invalid \/ (HaveTexts(records, a) /\ result = Success(top))
    BY RetrievedOrFailed
  <2>2. result.status = "success"
    OBVIOUS
  <2> HIDE DEF result, top
  <2> QED BY <2>1, <2>2 DEF Invalid, Failure, Success, result, top
<1>3. /\ IsRecords(scored) /\ DOMAIN scored = 1..n
      /\ Orders(ahead) /\ DOMAIN ahead = 1..n
  BY <1>1, <1>2, ScoredInOrder
<1>4. Cardinality(1..n) = n
  <2>1. Cardinality(1..n) = IF 1 > n THEN 0 ELSE n - 1 + 1
    <3> HIDE DEF n
    <3> QED BY <1>1, FS_Interval
  <2> HIDE DEF n
  <2> QED BY <1>1, <2>1
<1>5. IsSequence(scored) /\ Len(scored) = n
  BY <1>1, <1>3, RecordsHave
<1>6. score \in [1..n -> Nat] /\ \A i \in 1..n : score[i] > 0 <=> i \in M
  BY <1>1, <1>2, ScoresOfRecords, Zenon DEF Matching
<1>7. M \in SUBSET (1..n)
  BY <1>1 DEF Matching
<1>8. \A i \in 1..n : ahead[i] = {j \in 1..n : score[j] > score[i] \/ (score[j] = score[i] /\ j < i)}
  BY <1>1 DEF Outscoring
<1>9. \A i \in 1..n : Unscored(scored[i]) = Unscored(records[i])
  BY <1>1, ScoredKeeps DEF Scored
<1> HIDE DEF n, scored, ahead, score, M
<1>10. Len(hits) = m /\ m \in 0..n /\ \A r \in 1..m : hits[r] = scored[order[r]]
  <2>1. Len(Top(scored, order, a.top_k)) = Min({a.top_k, Len(scored)})
    BY <1>5, TopIsSequence, Zenon
  <2>2. \A r \in 1..Min({a.top_k, Len(scored)}) : Top(scored, order, a.top_k)[r] = scored[order[r]]
    BY <1>5, TopIsSequence
  <2>3. m \in {a.top_k, n} /\ m <= n
    <3> DEFINE k == a.top_k
    <3>1. k \in Int /\ n \in Int
      BY <1>1
    <3> HIDE DEF k
    <3>2. Min({k, n}) \in {k, n} /\ Min({k, n}) <= n
      BY <3>1, MinOfTwo
    <3> QED BY <3>2 DEF k
  <2>4. m = Min({a.top_k, Len(scored)})
    BY <1>5
  <2> HIDE DEF hits, order, m
  <2>5. m \in 0..n
    BY <1>1, <2>3
  <2> QED BY <1>2, <2>1, <2>2, <2>4, <2>5, Zenon
<1>11. DOMAIN hits = 1..m
  <2>1. IsSequence(Top(scored, order, a.top_k))
    BY <1>5, TopIsSequence, Zenon
  <2> HIDE DEF hits, order, m
  <2>2. IsSequence(hits)
    BY <1>2, <2>1
  <2> QED BY <1>10, <2>2, ElementsOf
<1> HIDE DEF hits, m
<1>12. ASSUME NEW r \in 1..m PROVE order[r] \in 1..n /\ Cardinality(ahead[order[r]]) = r - 1
  <2>1. r \in 1..Cardinality(DOMAIN ahead)
    BY <1>1, <1>3, <1>4, <1>10
  <2> QED BY <1>3, <2>1, PlaceOfElement, Zenon
<1> HIDE DEF order
<1>13. hit \in [DOMAIN hits -> DOMAIN records]
  BY <1>1, <1>11, <1>12
<1>14. IsInjective(hit)
  <2> SUFFICES ASSUME NEW q \in 1..m, NEW r \in 1..m, hit[q] = hit[r] PROVE q = r
    BY DEF IsInjective
  <2>1. order[q] = order[r]
    OBVIOUS
  <2>2. Cardinality(ahead[order[q]]) = q - 1 /\ Cardinality(ahead[order[r]]) = r - 1
    BY <1>12, Zenon
  <2>3. q \in Int /\ r \in Int
    BY <1>10
  <2> HIDE DEF hit
  <2> QED BY <2>1, <2>2, <2>3
<1>15. ASSUME NEW r \in 1..m
       PROVE  Unscored(hits[r]) = Unscored(records[hit[r]]) /\ Stands(r, hit[r], DOMAIN records, M)
  <2> DEFINE i == order[r]
             before == ahead[i]
  <2>1. i \in 1..n /\ Cardinality(before) + 1 = r
    <3>1. Cardinality(before) = r - 1 /\ r \in Int
      BY <1>10, <1>12
    <3> HIDE DEF before
    <3> QED BY <1>12, <3>1
  <2>2. hit[r] = i
    OBVIOUS
  <2>3. Unscored(hits[r]) = Unscored(records[i])
    BY <1>9, <1>10, <2>1
  <2> HIDE DEF i
  <2>4. before = Higher(n, score, i)
    BY <1>8, <2>1 DEF Higher
  <2> HIDE DEF before
  <2>5. Stands(Cardinality(before) + 1, i, 1..n, M)
    <3>1. ScoresMatch(n, score, M)
      BY <1>1, <1>6, <1>7 DEF ScoresMatch
    <3> QED BY <2>1, <2>4, <3>1, MatchesCounted, Zenon
  <2>6. Stands(r, i, DOMAIN records, M)
    BY <1>1, <2>1, <2>5
  <2> QED BY <2>2, <2>3, <2>6
<1>16. DOMAIN hit = 1..m
  OBVIOUS
<1> HIDE DEF hit
<1>17. \E h \in [DOMAIN hits -> DOMAIN records] :
         /\ IsInjective(h)
         /\ \A r \in DOMAIN h : Unscored(hits[r]) = Unscored(records[h[r]])
                                 /\ Stands(r, h[r], DOMAIN records, M)
  BY <1>13, <1>14, <1>15, <1>16, Zenon
<1> QED BY <1>10, <1>17, Zenon DEF hits, m, n, M

\* The invariants say that of every request that was answered.
LEMMA MatchesHold ==
  ASSUME ScoresArePositive
  PROVE  RecordInv /\ RecordsAreTyped => MatchesComeFirst
<1> SUFFICES ASSUME RecordInv, RecordsAreTyped, NEW n \in DOMAIN answers,
                    Answered(n, "bm25_retrieve")
             PROVE
    LET a == requests[n].arguments
        matching == {i \in DOMAIN Input(n) :
                       Range(Input(n)[i][a.text_field].value) \cap Range(a.query) # {}}
        unscored(record) == Restrict(record, DOMAIN record \ {"_bm25_score"})
    IN  /\ Len(Output(n)) = Min({a.top_k, Len(Input(n))})
        /\ \E hit \in [DOMAIN Output(n) -> DOMAIN Input(n)] :
             /\ IsInjective(hit)
             /\ \A r \in DOMAIN hit :
                  /\ unscored(Output(n)[r]) = unscored(Input(n)[hit[r]])
                  /\ IF hit[r] \in matching THEN r <= Cardinality(matching)
                     ELSE r = Cardinality(matching)
                                + Cardinality({i \in DOMAIN Input(n) \ matching : i <= hit[r]})
  BY Zenon DEF MatchesComeFirst
<1> DEFINE a == requests[n].arguments
           records == Input(n)
           hits == Output(n)
<1>1. requests[n].operator = "bm25_retrieve" /\ Succeeded(answers[n])
  BY DEF Answered
<1>2. /\ IsRecordRequest(requests[n])
      /\ Computed(requests[n], records).status = "success"
      /\ hits = Computed(requests[n], records).records
      /\ records = artifacts[requests[n].inputs[1]]
      /\ requests[n].inputs[1] \in DOMAIN artifacts
      /\ artifacts[requests[n].inputs[1]] # Opaque
  BY <1>1, InputAndOutput DEF Retrieving, Spoken
<1>3. Computed(requests[n], records) = Retrieved(records, a)
  BY <1>1 DEF Computed, Ranking, Grouping, Retrieving
<1>4. IsRecords(records)
  BY <1>2 DEF RecordsAreTyped
<1>5. a.top_k \in Nat /\ IsSequence(a.query)
  BY <1>1, <1>2 DEF IsRecordRequest, IsSequence
<1> HIDE DEF a, records, hits
<1>6. Retrieved(records, a).status = "success" /\ hits = Retrieved(records, a).records
  BY <1>2, <1>3
<1>7. /\ Len(hits) = Min({a.top_k, Len(records)})
      /\ \E hit \in [DOMAIN hits -> DOMAIN records] :
           /\ IsInjective(hit)
           /\ \A r \in DOMAIN hit : Unscored(hits[r]) = Unscored(records[hit[r]])
                                   /\ Stands(r, hit[r], DOMAIN records, Matching(records, a))
  BY <1>4, <1>5, <1>6, RetrievedRanked, Zenon
<1> QED BY <1>7, Zenon DEF a, records, hits, Unscored, Stands, Matching

\* bm25_retrieve's hits are different documents, as many as asked for or as there
\* are; those with a token of the query come before those without one, which keep the
\* corpus's order, for every store, query and top_k and for every formula whose factors
\* are positive (retrieval.py:21-95).
THEOREM MatchesFirst ==
  ASSUME ScoresArePositive, FloatsAreNumbers
  PROVE  RecordSpec => []MatchesComeFirst
<1>1. OperatorInit(RecordWorkloads) => RecordsAreTyped
  BY RecordAssumption DEF OperatorInit, RecordsAreTyped
<1>2. RecordInv /\ RecordsAreTyped /\ [RecordNext]_operatorVars => RecordsAreTyped'
  BY RecordNextKeepsTypes
<1> QED BY <1>1, <1>2, RecordInvariant, MatchesHold, PTL DEF RecordSpec

-----------------------------------------------------------------------------
(* LongBench v2: the matches of a delimiter and the documents between them. *)

\* The recursion of Matches.
MatchesOver(text, delimiter, g) ==
  LET places == [p \in 1..Len(text) |-> p]
  IN  g = [T \in SUBSET DOMAIN places |->
             IF T = {} THEN <<>>
             ELSE IF IsMatch(text, delimiter, g[T \ {Max(T)}], places[Max(T)])
             THEN Append(g[T \ {Max(T)}], places[Max(T)]) ELSE g[T \ {Max(T)}]]

\* The matches up to each place.
MatchSteps(text, delimiter, n, found) ==
  /\ found \in [0..n -> Seq(1..n)]
  /\ found[0] = <<>> /\ Matches(text, delimiter) = found[n]
  /\ \A k \in 1..n : found[k] = IF IsMatch(text, delimiter, found[k - 1], k)
                                THEN Append(found[k - 1], k) ELSE found[k - 1]

\* Matches goes through the text from the left.
LEMMA MatchesGrow ==
  ASSUME NEW text, NEW n \in Nat, Len(text) = n, NEW delimiter
  PROVE  \E found : MatchSteps(text, delimiter, n, found)
<1> DEFINE X == Seq(1..n)
           places == [p \in 1..Len(text) |-> p]
           after(list, k) == IF IsMatch(text, delimiter, list, k) THEN Append(list, k) ELSE list
           step == [k \in 1..n |-> [list \in X |-> after(list, k)]]
           iter == CHOOSE g : MatchesOver(text, delimiter, g)
<1>0. places = [p \in 1..n |-> p] /\ DOMAIN places = 1..n /\ \A k \in 1..n : places[k] = k
  OBVIOUS
<1>1. Matches(text, delimiter) = iter[DOMAIN places]
  BY Zenon DEF Matches, FoldLeft, MapThenFoldSet, MatchesOver
<1> HIDE DEF places
<1>2. ASSUME NEW list \in X, NEW k \in 1..n PROVE after(list, k) \in X
  <2>1. Append(list, k) \in X
    <3> DEFINE S == 1..n
    <3>1. list \in Seq(S) /\ k \in S
      OBVIOUS
    <3> HIDE DEF S
    <3>2. Append(list, k) \in Seq(S)
      BY <3>1
    <3> QED BY <3>2 DEF S
  <2> HIDE DEF X
  <2> QED BY <2>1
<1>3. <<>> \in X
  OBVIOUS
<1> HIDE DEF X, after
<1>4. \A k \in 1..n : step[k] \in [X -> X] /\ \A list \in X : step[k][list] = after(list, k)
  BY <1>2
<1> HIDE DEF step
<1>5. PICK g : Folds(X, step, <<>>, n, g)
  BY <1>3, <1>4, FoldsExist, Zenon
<1>6. ASSUME NEW T \in SUBSET (1..n)
      PROVE  g[T] = IF T = {} THEN <<>> ELSE after(g[T \ {Max(T)}], Max(T))
  <2>1. CASE T = {}
    BY <1>5, <2>1 DEF Folds
  <2>2. CASE T # {}
    <3>1. g[T] = step[Max(T)][g[T \ {Max(T)}]]
      BY <1>5, <2>2, Zenon DEF Folds
    <3>2. g[T \ {Max(T)}] \in X /\ Max(T) \in 1..n
      <4>1. Max(T) \in T /\ T \ {Max(T)} \in SUBSET (1..n)
        BY <2>2, MaxExists, Zenon
      <4> QED BY <1>5, <4>1, Zenon DEF Folds
    <3>3. step[Max(T)][g[T \ {Max(T)}]] = after(g[T \ {Max(T)}], Max(T))
      BY <1>4, <3>2, Zenon
    <3> QED BY <2>2, <3>1, <3>3, Zenon
  <2> QED BY <2>1, <2>2
<1>7. MatchesOver(text, delimiter, g)
  <2> DEFINE result(h, T) == IF T = {} THEN <<>>
                             ELSE IF IsMatch(text, delimiter, h[T \ {Max(T)}], places[Max(T)])
                             THEN Append(h[T \ {Max(T)}], places[Max(T)]) ELSE h[T \ {Max(T)}]
  <2>1. g = [T \in SUBSET (1..n) |-> g[T]]
    BY <1>5 DEF Folds
  <2>2. ASSUME NEW T \in SUBSET (1..n) PROVE g[T] = result(g, T)
    <3>1. CASE T = {}
      BY <1>6, <3>1, Zenon
    <3>2. CASE T # {}
      <4>1. places[Max(T)] = Max(T)
        <5>1. Max(T) \in 1..n
          BY <3>2, MaxExists, Zenon
        <5> QED BY <1>0, <5>1
      <4> QED BY <1>6, <3>2, <4>1, Zenon DEF after
    <3> QED BY <3>1, <3>2
  <2> HIDE DEF result
  <2>3. g = [T \in SUBSET DOMAIN places |-> result(g, T)]
    BY <1>0, <2>1, <2>2, Zenon
  <2> QED BY <2>3, Zenon DEF MatchesOver, result, places
<1>8. MatchesOver(text, delimiter, iter)
  BY <1>7, Zenon
<1> HIDE DEF iter
<1>9. \A T \in SUBSET (1..n) :
        iter[T] = IF T = {} THEN <<>> ELSE after(iter[T \ {Max(T)}], Max(T))
  <2> SUFFICES ASSUME NEW T \in SUBSET (1..n)
               PROVE  iter[T] = IF T = {} THEN <<>> ELSE after(iter[T \ {Max(T)}], Max(T))
    OBVIOUS
  <2> DEFINE result(h, S) == IF S = {} THEN <<>>
                             ELSE IF IsMatch(text, delimiter, h[S \ {Max(S)}], places[Max(S)])
                             THEN Append(h[S \ {Max(S)}], places[Max(S)]) ELSE h[S \ {Max(S)}]
  <2>1. iter = [S \in SUBSET DOMAIN places |-> result(iter, S)]
    BY <1>8, Zenon DEF MatchesOver, places
  <2> HIDE DEF result
  <2>2. iter[T] = result(iter, T)
    BY <1>0, <2>1
  <2>3. CASE T = {}
    BY <2>2, <2>3 DEF result
  <2>4. CASE T # {}
    <3>1. places[Max(T)] = Max(T)
      <4>1. Max(T) \in 1..n
        BY <2>4, MaxExists, Zenon
      <4> QED BY <1>0, <4>1
    <3> QED BY <2>2, <2>4, <3>1, Zenon DEF after, result
  <2> QED BY <2>3, <2>4
<1>10. iter[1..0] = <<>>
  <2>1. 1..0 = {} /\ {} \in SUBSET (1..n)
    OBVIOUS
  <2>2. iter[{}] = <<>>
    BY <1>9, <2>1, Zenon
  <2> QED BY <2>1, <2>2
<1>11. ASSUME NEW k \in 1..n PROVE iter[1..k] = after(iter[1..(k - 1)], k)
  <2>1. Max(1..k) = k /\ (1..k) \ {k} = 1..(k - 1) /\ 1..k # {} /\ 1..k \in SUBSET (1..n)
    <3>1. k \in Nat \ {0} /\ 1..k \in SUBSET (1..n)
      OBVIOUS
    <3> QED BY <3>1, MaxOfInterval, Zenon
  <2> QED BY <1>9, <2>1, Zenon
<1>12. \A k \in 0..n : iter[1..k] \in X
  <2> DEFINE G == {k \in 0..n : iter[1..k] \in X}
  <2>1. 0 \in G
    <3>1. 0 \in 0..n
      OBVIOUS
    <3> QED BY <1>3, <1>10, <3>1
  <2>2. ASSUME NEW k \in 1..n, k - 1 \in G PROVE k \in G
    <3>1. iter[1..(k - 1)] \in X
      BY <2>2
    <3>2. iter[1..k] \in X
      BY <1>2, <1>11, <3>1
    <3> QED BY <3>2
  <2> HIDE DEF G
  <2>3. \A k \in 0..n : k \in G
    BY <2>1, <2>2, Induction, Zenon
  <2> QED BY <2>3 DEF G
<1> DEFINE found == [k \in 0..n |-> iter[1..k]]
<1>13. found \in [0..n -> X] /\ \A k \in 0..n : found[k] = iter[1..k]
  BY <1>12
<1> HIDE DEF found
<1>14. found[0] = <<>> /\ Matches(text, delimiter) = found[n]
  <2>1. 0 \in 0..n /\ n \in 0..n
    OBVIOUS
  <2> QED BY <1>0, <1>1, <1>10, <1>13, <2>1
<1>15. ASSUME NEW k \in 1..n PROVE found[k] = after(found[k - 1], k)
  <2>1. k \in 0..n /\ k - 1 \in 0..n
    OBVIOUS
  <2> QED BY <1>11, <1>13, <2>1
<1>16. MatchSteps(text, delimiter, n, found)
  BY <1>13, <1>14, <1>15, Zenon DEF MatchSteps, X, after
<1> QED BY <1>16

\* Places up to k of a delimiter of length d: apart, and all others overlap one of them.
Found(list, k, d, text, delimiter) ==
  /\ list \in Seq(1..k)
  /\ \A i \in 1..Len(list) : DelimiterAt(text, delimiter, list[i])
  /\ \A i, j \in 1..Len(list) : i < j => list[i] + d <= list[j]
  /\ \A p \in 1..k : DelimiterAt(text, delimiter, p) =>
       \E i \in 1..Len(list) : list[i] <= p /\ p < list[i] + d

\* One place further.
LEMMA FoundNext ==
  ASSUME NEW k \in Nat \ {0}, NEW d \in Nat \ {0}, NEW text, NEW delimiter, Len(delimiter) = d,
         NEW list, Found(list, k - 1, d, text, delimiter)
  PROVE  Found(IF IsMatch(text, delimiter, list, k) THEN Append(list, k) ELSE list, k, d,
               text, delimiter)
<1> DEFINE m == Len(list)
           Here(p) == DelimiterAt(text, delimiter, p)
<1>1. /\ m \in Nat /\ list \in Seq(1..k) /\ \A i \in 1..m : list[i] \in 1..(k - 1)
      /\ \A i \in 1..m : Here(list[i])
      /\ \A i, j \in 1..m : i < j => list[i] + d <= list[j]
      /\ \A p \in 1..(k - 1) : Here(p) => \E i \in 1..m : list[i] <= p /\ p < list[i] + d
  <2>1. list \in Seq(1..(k - 1))
    BY DEF Found
  <2>2. m \in Nat /\ \A i \in 1..m : list[i] \in 1..(k - 1)
    BY <2>1
  <2>3. list \in Seq(1..k)
    <3>1. list = [i \in 1..m |-> list[i]]
      BY <2>1
    <3>2. \A i \in 1..m : list[i] \in 1..k
      BY <2>2
    <3>3. list \in [1..m -> 1..k]
      <4> HIDE DEF m
      <4> QED BY <3>1, <3>2
    <3> QED BY <2>2, <3>3, SequenceOf
  <2> QED BY <2>2, <2>3 DEF Found
<1>2. IsMatch(text, delimiter, list, k) <=> Here(k) /\ (m # 0 => list[m] + d <= k)
  BY <1>1 DEF IsMatch, Last
<1> HIDE DEF Here
<1>3. CASE IsMatch(text, delimiter, list, k)
  <2> DEFINE more == Append(list, k)
  <2>1. /\ more \in Seq(1..k) /\ Len(more) = m + 1 /\ more[m + 1] = k
        /\ \A i \in 1..m : more[i] = list[i]
    <3>1. k \in 1..k
      OBVIOUS
    <3> QED BY <1>1, <3>1
  <2> HIDE DEF more, m
  <2>2. \A i \in 1..(m + 1) : i \in 1..m \/ i = m + 1
    BY <1>1
  <2>3. \A i \in 1..(m + 1) : Here(more[i])
    BY <1>1, <1>2, <1>3, <2>1, <2>2, Zenon
  <2>4. ASSUME NEW i \in 1..(m + 1), NEW j \in 1..(m + 1), i < j PROVE more[i] + d <= more[j]
    <3>1. CASE j = m + 1
      <4>1. i \in 1..m /\ m \in 1..m /\ m # 0
        BY <1>1, <2>4, <3>1
      <4>2. list[i] \in Int /\ list[m] \in Int /\ list[m] + d <= k
        BY <1>1, <1>2, <1>3, <4>1
      <4>3. i = m \/ list[i] + d <= list[m]
        BY <1>1, <4>1
      <4>4. list[i] + d <= k
        BY <4>2, <4>3
      <4> QED BY <2>1, <3>1, <4>1, <4>4, Zenon
    <3>2. CASE j # m + 1
      <4>1. i \in 1..m /\ j \in 1..m
        BY <1>1, <2>4, <3>2
      <4> QED BY <1>1, <2>1, <2>4, <4>1, Zenon
    <3> QED BY <3>1, <3>2
  <2>5. ASSUME NEW p \in 1..k, Here(p)
        PROVE  \E i \in 1..(m + 1) : more[i] <= p /\ p < more[i] + d
    <3>1. CASE p = k
      <4>1. m + 1 \in 1..(m + 1) /\ more[m + 1] <= p /\ p < more[m + 1] + d
        BY <1>1, <2>1, <3>1
      <4> QED BY <4>1
    <3>2. CASE p # k
      <4>1. p \in 1..(k - 1)
        BY <3>2
      <4>2. PICK i \in 1..m : list[i] <= p /\ p < list[i] + d
        BY <1>1, <2>5, <4>1
      <4>3. i \in 1..(m + 1) /\ more[i] = list[i]
        BY <1>1, <2>1
      <4> QED BY <4>2, <4>3
    <3> QED BY <3>1, <3>2
  <2>6. Found(more, k, d, text, delimiter)
    BY <2>1, <2>3, <2>4, <2>5 DEF Found, Here
  <2> QED BY <1>3, <2>6 DEF more
<1>4. CASE ~IsMatch(text, delimiter, list, k)
  <2>1. ASSUME NEW p \in 1..k, Here(p)
        PROVE  \E i \in 1..m : list[i] <= p /\ p < list[i] + d
    <3>1. CASE p = k
      <4>1. m # 0 /\ ~(list[m] + d <= k)
        BY <1>2, <1>4, <2>1, <3>1
      <4>2. m \in 1..m /\ list[m] \in 1..(k - 1)
        BY <1>1, <4>1
      <4>3. list[m] <= p /\ p < list[m] + d
        BY <3>1, <4>1, <4>2
      <4> QED BY <4>2, <4>3
    <3>2. CASE p # k
      <4>1. p \in 1..(k - 1)
        BY <3>2
      <4> QED BY <1>1, <2>1, <4>1
    <3> QED BY <3>1, <3>2
  <2>2. Found(list, k, d, text, delimiter)
    BY <1>1, <2>1 DEF Found, Here
  <2> QED BY <1>4, <2>2
<1> QED BY <1>3, <1>4

\* Matches are apart, and every other occurrence overlaps one of them.
LEMMA MatchesFound ==
  ASSUME NEW text, NEW n \in Nat, Len(text) = n, NEW delimiter, NEW d \in Nat \ {0},
         Len(delimiter) = d
  PROVE  Found(Matches(text, delimiter), n, d, text, delimiter)
<1>0. PICK found : MatchSteps(text, delimiter, n, found)
  BY MatchesGrow
<1>1. /\ found[0] = <<>> /\ Matches(text, delimiter) = found[n]
      /\ \A k \in 1..n : found[k] = IF IsMatch(text, delimiter, found[k - 1], k)
                                    THEN Append(found[k - 1], k) ELSE found[k - 1]
  BY <1>0 DEF MatchSteps
<1> DEFINE G == {k \in 0..n : Found(found[k], k, d, text, delimiter)}
<1>2. 0 \in G
  <2>1. Len(<<>>) = 0 /\ <<>> \in Seq(1..0) /\ 1..0 = {} /\ 0 \in 0..n
    OBVIOUS
  <2>2. Found(<<>>, 0, d, text, delimiter)
    BY <2>1 DEF Found
  <2> QED BY <1>1, <2>1, <2>2
<1>3. ASSUME NEW k \in 1..n, k - 1 \in G PROVE k \in G
  <2>1. Found(found[k - 1], k - 1, d, text, delimiter) /\ k \in Nat \ {0} /\ k \in 0..n
    BY <1>3
  <2>2. Found(IF IsMatch(text, delimiter, found[k - 1], k) THEN Append(found[k - 1], k)
              ELSE found[k - 1], k, d, text, delimiter)
    BY <2>1, FoundNext
  <2>3. Found(found[k], k, d, text, delimiter)
    BY <1>1, <2>2
  <2> QED BY <2>1, <2>3
<1> HIDE DEF G
<1>4. n \in G
  <2>1. n \in 0..n
    OBVIOUS
  <2> QED BY <1>2, <1>3, <2>1, Induction, Zenon
<1> QED BY <1>1, <1>4 DEF G

\* Places that cut a text of n into q parts.
Cuts(b, q, n) ==
  /\ q \in Nat \ {0} /\ n \in Nat
  /\ b[1] = 1 /\ b[q + 1] = n + 1
  /\ \A i \in 1..(q + 1) : b[i] \in 1..(n + 1)
  /\ \A i \in 1..q : b[i] <= b[i + 1]

\* The parts of a text, one after the other, are the text.
LEMMA PartsOfText ==
  ASSUME NEW X, NEW text \in Seq(X), NEW b, NEW q, Cuts(b, q, Len(text))
  PROVE  FlattenSeq([i \in 1..q |-> SubSeq(text, b[i], b[i + 1] - 1)]) = text
<1> DEFINE n == Len(text)
           part == [i \in 1..q |-> SubSeq(text, b[i], b[i + 1] - 1)]
<1>1. /\ q \in Nat \ {0} /\ n \in Nat /\ b[1] = 1 /\ b[q + 1] = n + 1
      /\ \A i \in 1..(q + 1) : b[i] \in 1..(n + 1)
      /\ \A i \in 1..q : b[i] <= b[i + 1]
  BY DEF Cuts
<1>2. ASSUME NEW i \in 1..q
      PROVE  /\ b[i] \in 1..(n + 1) /\ b[i + 1] \in 1..(n + 1)
             /\ b[i + 1] - 1 \in (b[i] - 1)..n /\ b[i] - 1 \in 0..n
  <2>1. i \in 1..(q + 1) /\ i + 1 \in 1..(q + 1)
    BY <1>1
  <2> HIDE DEF n
  <2>2. b[i] \in 1..(n + 1)
    BY <1>1, <2>1
  <2>3. b[i + 1] \in 1..(n + 1)
    BY <1>1, <2>1
  <2>4. PICK x \in 1..(n + 1) : x = b[i]
    BY <2>2
  <2>5. PICK y \in 1..(n + 1) : y = b[i + 1]
    BY <2>3
  <2>6. x <= y
    BY <1>1, <2>4, <2>5
  <2>7. y - 1 \in (x - 1)..n /\ x - 1 \in 0..n
    BY <1>1, <2>6
  <2> QED BY <2>4, <2>5, <2>7
<1>3. part \in [1..q -> Seq(X)]
  <2>1. ASSUME NEW i \in 1..q PROVE part[i] \in Seq(X)
    <3>1. \A k \in b[i]..(b[i + 1] - 1) : text[k] \in X
      <4>1. \A k \in b[i]..(b[i + 1] - 1) : k \in 1..n
        <5> HIDE DEF n, part
        <5>1. PICK x \in 1..(n + 1) : x = b[i]
          BY <1>2
        <5>2. PICK y \in 1..(n + 1) : y = b[i + 1]
          BY <1>2
        <5>3. \A k \in x..(y - 1) : k \in 1..n
          BY <1>1
        <5> QED BY <5>1, <5>2, <5>3
      <4>2. \A k \in 1..n : text[k] \in X
        OBVIOUS
      <4> QED BY <4>1, <4>2
    <3>2. b[i] \in Int /\ b[i + 1] - 1 \in Int
      BY <1>2
    <3> QED BY <3>1, <3>2, SubSeqProperties
  <2> QED BY <2>1
<1>4. PICK flat : FlattenSteps(X, q, part, flat)
  <2> HIDE DEF part
  <2> QED BY <1>1, <1>3, Flattened, Zenon
<1>5. \A k \in 1..q : part[k] = SubSeq(text, b[k], b[k + 1] - 1)
  BY Zenon
<1> HIDE DEF part
<1> DEFINE G == {k \in 0..q : k = 0 \/ flat[k] = SubSeq(text, 1, b[k + 1] - 1)}
<1>6. 0 \in G
  BY <1>1
<1>7. ASSUME NEW k \in 1..q, k - 1 \in G PROVE k \in G
  <2>1. flat[k] = IF k = 1 THEN part[k] ELSE flat[k - 1] \o part[k]
    BY <1>4 DEF FlattenSteps
  <2>2. k \in 0..q /\ part[k] = SubSeq(text, b[k], b[k + 1] - 1)
    BY <1>1, <1>5
  <2>3. CASE k = 1
    BY <1>1, <2>1, <2>2, <2>3, Zenon
  <2>4. CASE k # 1
    <3>1. k - 1 \in 1..q /\ (k - 1) + 1 = k
      BY <1>1, <2>4
    <3>2. flat[k - 1] = SubSeq(text, 1, b[k] - 1)
      BY <1>7, <2>4, <3>1
    <3> DEFINE x == b[k] - 1
               y == b[k + 1] - 1
    <3>3. x \in 0..n /\ y \in x..n /\ x + 1 = b[k]
      <4> HIDE DEF n, G
      <4>1. PICK v \in 1..(n + 1) : v = b[k]
        BY <1>2
      <4>2. PICK w \in 1..(n + 1) : w = b[k + 1]
        BY <1>2
      <4>3. w - 1 \in (v - 1)..n /\ v - 1 \in 0..n
        BY <1>2, <4>1, <4>2
      <4>4. v - 1 \in 0..n /\ w - 1 \in (v - 1)..n /\ (v - 1) + 1 = v
        BY <4>3
      <4> QED BY <4>1, <4>2, <4>4
    <3> HIDE DEF x, y
    <3>4. SubSeq(text, 1, x) \o SubSeq(text, x + 1, y) = SubSeq(text, 1, y)
      <4>1. 1 \in 1..(n + 1) /\ x \in (1 - 1)..n
        <5> HIDE DEF n
        <5> QED BY <1>1, <3>3
      <4> QED BY <3>3, <4>1, ConcatAdjacentSubSeq
    <3>5. flat[k] = SubSeq(text, 1, y)
      BY <2>1, <2>2, <2>4, <3>2, <3>3, <3>4, Zenon DEF x, y
    <3> QED BY <2>2, <3>5 DEF y
  <2> QED BY <2>3, <2>4
<1> HIDE DEF G
<1>8. q \in G
  <2>1. q \in 0..q /\ q \in Nat
    BY <1>1
  <2> QED BY <1>6, <1>7, <2>1, Induction, Zenon
<1>9. flat[q] = SubSeq(text, 1, n)
  <2>1. flat[q] = SubSeq(text, 1, b[q + 1] - 1)
    BY <1>1, <1>8 DEF G
  <2>2. b[q + 1] - 1 = n
    <3> HIDE DEF n
    <3> QED BY <1>1
  <2> QED BY <2>1, <2>2
<1>10. FlattenSeq(part) = flat[q]
  BY <1>4 DEF FlattenSteps
<1>11. SubSeq(text, 1, n) = text
  BY SubSeqFull
<1> QED BY <1>9, <1>10, <1>11, Zenon DEF part

\* Where the documents of a text begin.
Divided(s, n, d, text, delimiter) ==
  /\ s \in Seq(1..n) /\ s # <<>> /\ s[1] = 1
  /\ \A i, j \in 1..Len(s) : i < j => s[i] < s[j]
  /\ \A i \in 1..Len(s) : i > 1 => DelimiterAt(text, delimiter, s[i])
  /\ \A i, j \in 1..Len(s) : i < j /\ DelimiterAt(text, delimiter, s[i]) => s[i] + d <= s[j]
  /\ \A p \in 1..n : DelimiterAt(text, delimiter, p) =>
       \E i \in 1..Len(s) : DelimiterAt(text, delimiter, s[i]) /\ s[i] <= p /\ p < s[i] + d

\* The first document begins with the text, each other with a match.
LEMMA StartsDivide ==
  ASSUME NEW text, NEW n \in Nat \ {0}, Len(text) = n, NEW delimiter, NEW d \in Nat \ {0},
         Len(delimiter) = d
  PROVE  Divided(Starts(text, delimiter), n, d, text, delimiter)
<1> DEFINE list == Matches(text, delimiter)
           m == Len(list)
           s == Starts(text, delimiter)
           Here(p) == DelimiterAt(text, delimiter, p)
<1>0. Found(list, n, d, text, delimiter)
  BY MatchesFound
<1>1. /\ list \in Seq(1..n) /\ m \in Nat /\ \A i \in 1..m : list[i] \in 1..n
      /\ \A i \in 1..m : Here(list[i])
      /\ \A i, j \in 1..m : i < j => list[i] + d <= list[j]
      /\ \A p \in 1..n : Here(p) => \E i \in 1..m : list[i] <= p /\ p < list[i] + d
  <2>1. list \in Seq(1..n)
    BY <1>0 DEF Found
  <2>2. m \in Nat /\ \A i \in 1..m : list[i] \in 1..n
    BY <2>1
  <2> QED BY <1>0, <2>1, <2>2 DEF Found
<1>2. s = <<1>> \o (IF list # <<>> /\ Head(list) = 1 THEN Tail(list) ELSE list)
  BY DEF Starts
<1>3. 1 \in 1..n /\ <<1>> \in Seq(1..n)
  OBVIOUS
<1> HIDE DEF s, list, Here
<1>4. CASE list # <<>> /\ Head(list) = 1
  <2>1. m # 0 /\ list[1] = 1 /\ 1 \in 1..m /\ Tail(list) \in Seq(1..n)
    BY <1>1, <1>4
  <2>2. s = <<1>> \o Tail(list)
    BY <1>2, <1>4
  <2>3. Len(Tail(list)) = m - 1 /\ \A i \in 1..(m - 1) : Tail(list)[i] = list[i + 1]
    BY <1>1, <1>4, HeadTailProperties
  <2>4. Len(s) = m /\ s \in Seq(1..n)
    <3> DEFINE S == 1..n
    <3>1. <<1>> \in Seq(S) /\ Tail(list) \in Seq(S)
      BY <1>3, <2>1
    <3> HIDE DEF S
    <3>2. s \in Seq(S)
      BY <2>2, <3>1, ConcatProperties
    <3>3. Len(<<1>>) = 1
      OBVIOUS
    <3>4. Len(s) = Len(<<1>>) + Len(Tail(list))
      BY <2>2, <3>1, ConcatProperties
    <3>5. Len(s) = m
      <4> HIDE DEF m
      <4> QED BY <1>1, <2>3, <3>3, <3>4
    <3> QED BY <3>2, <3>5 DEF S
  <2>5. ASSUME NEW i \in 1..m PROVE s[i] = list[i]
    <3>1. s[i] = IF i <= Len(<<1>>) THEN <<1>>[i] ELSE Tail(list)[i - Len(<<1>>)]
      <4> DEFINE S == 1..n
      <4>1. <<1>> \in Seq(S) /\ Tail(list) \in Seq(S)
        BY <1>3, <2>1
      <4> HIDE DEF S, m
      <4>2. i \in 1..(Len(<<1>>) + Len(Tail(list)))
        <5>1. Len(<<1>>) = 1
          OBVIOUS
        <5> QED BY <1>1, <2>3, <5>1
      <4> QED BY <2>2, <4>1, <4>2, ConcatProperties
    <3>2. Len(<<1>>) = 1 /\ <<1>>[1] = 1
      OBVIOUS
    <3>3. CASE i = 1
      BY <2>1, <3>1, <3>2, <3>3
    <3>4. CASE i # 1
      <4>1. i - 1 \in 1..(m - 1) /\ (i - 1) + 1 = i /\ ~(i <= 1)
        BY <1>1, <3>4
      <4>2. s[i] = Tail(list)[i - 1]
        BY <3>1, <3>2, <4>1
      <4> QED BY <2>3, <4>1, <4>2
    <3> QED BY <3>3, <3>4
  <2> HIDE DEF m
  <2>6. \A i, j \in 1..m : i < j => s[i] + d <= s[j] /\ s[i] < s[j]
    <3> SUFFICES ASSUME NEW i \in 1..m, NEW j \in 1..m, i < j
                 PROVE  s[i] + d <= s[j] /\ s[i] < s[j]
      OBVIOUS
    <3>1. list[i] + d <= list[j] /\ list[i] \in Int /\ list[j] \in Int
      BY <1>1
    <3> QED BY <2>5, <3>1
  <2>7. s # <<>> /\ s[1] = 1
    BY <2>1, <2>4, <2>5
  <2>8. \A i \in 1..m : Here(s[i])
    BY <1>1, <2>5
  <2>9. \A p \in 1..n : Here(p) => \E i \in 1..m : Here(s[i]) /\ s[i] <= p /\ p < s[i] + d
    BY <1>1, <2>5, Zenon
  <2> QED BY <2>4, <2>6, <2>7, <2>8, <2>9 DEF Divided, Here, s
<1>5. CASE ~(list # <<>> /\ Head(list) = 1)
  <2>1. s = <<1>> \o list
    BY <1>2, <1>5
  <2>2. Len(s) = m + 1 /\ s \in Seq(1..n)
    <3> DEFINE S == 1..n
    <3>1. <<1>> \in Seq(S) /\ list \in Seq(S)
      BY <1>1, <1>3
    <3> HIDE DEF S
    <3>2. s \in Seq(S)
      BY <2>1, <3>1, ConcatProperties
    <3>3. Len(<<1>>) = 1
      OBVIOUS
    <3>4. Len(s) = Len(<<1>>) + Len(list)
      BY <2>1, <3>1, ConcatProperties
    <3>5. Len(s) = m + 1
      BY <1>1, <3>3, <3>4
    <3> QED BY <3>2, <3>5 DEF S
  <2>3. ASSUME NEW i \in 1..(m + 1) PROVE s[i] = IF i = 1 THEN 1 ELSE list[i - 1]
    <3>1. s[i] = IF i <= Len(<<1>>) THEN <<1>>[i] ELSE list[i - Len(<<1>>)]
      <4> DEFINE S == 1..n
      <4>1. <<1>> \in Seq(S) /\ list \in Seq(S)
        BY <1>1, <1>3
      <4> HIDE DEF S
      <4>2. i \in 1..(Len(<<1>>) + Len(list))
        <5>1. Len(<<1>>) = 1
          OBVIOUS
        <5> QED BY <1>1, <5>1
      <4> QED BY <2>1, <4>1, <4>2, ConcatProperties
    <3>2. Len(<<1>>) = 1 /\ <<1>>[1] = 1
      OBVIOUS
    <3> QED BY <3>1, <3>2
  <2>4. \A i \in 1..m : list[i] >= 2
    <3> SUFFICES ASSUME NEW i \in 1..m PROVE list[i] >= 2
      OBVIOUS
    <3>1. 1 \in 1..m /\ list[1] # 1
      BY <1>1, <1>5
    <3>2. list[1] \in 1..n /\ list[i] \in 1..n
      BY <1>1, <3>1
    <3>3. i = 1 \/ list[1] + d <= list[i]
      BY <1>1, <3>1
    <3> QED BY <3>1, <3>2, <3>3
  <2>5. ~Here(1)
    <3> SUFFICES ASSUME Here(1) PROVE FALSE
      OBVIOUS
    <3>1. PICK i \in 1..m : list[i] <= 1
      BY <1>1, <1>3
    <3>2. list[i] \in Int /\ list[i] >= 2
      BY <1>1, <2>4
    <3> QED BY <3>1, <3>2
  <2> HIDE DEF m
  <2>6. ASSUME NEW i \in 1..(m + 1), i # 1
        PROVE  i - 1 \in 1..m /\ s[i] = list[i - 1] /\ s[i] \in Int /\ s[i] >= 2 /\ Here(s[i])
    <3>1. i - 1 \in 1..m
      BY <1>1, <2>6
    <3>2. s[i] = list[i - 1]
      BY <2>3, <2>6
    <3> QED BY <1>1, <2>4, <3>1, <3>2
  <2>7. s[1] = 1 /\ 1 \in 1..(m + 1)
    BY <1>1, <2>3
  <2>8. ASSUME NEW i \in 1..(m + 1), NEW j \in 1..(m + 1), i < j
        PROVE  s[i] < s[j] /\ (Here(s[i]) => s[i] + d <= s[j])
    <3>0. j # 1
      BY <1>1, <2>8
    <3>1. CASE i = 1
      BY <2>5, <2>6, <2>7, <3>0, <3>1
    <3>2. CASE i # 1
      <4>1. list[i - 1] + d <= list[j - 1]
        <5>1. i - 1 \in 1..m /\ j - 1 \in 1..m /\ i - 1 < j - 1
          BY <1>1, <2>8, <3>2
        <5> QED BY <1>1, <5>1
      <4> QED BY <2>6, <3>0, <3>2, <4>1
    <3> QED BY <3>1, <3>2
  <2>9. s # <<>>
    BY <1>1, <2>2
  <2>10. ASSUME NEW p \in 1..n, Here(p)
         PROVE  \E i \in 1..(m + 1) : Here(s[i]) /\ s[i] <= p /\ p < s[i] + d
    <3>1. PICK i \in 1..m : list[i] <= p /\ p < list[i] + d
      BY <1>1, <2>10
    <3>2. i + 1 \in 1..(m + 1) /\ i + 1 # 1 /\ (i + 1) - 1 = i
      BY <1>1
    <3>3. Here(s[i + 1]) /\ s[i + 1] = list[i]
      BY <2>6, <3>2
    <3> QED BY <3>1, <3>2, <3>3
  <2>11. \A i \in 1..(m + 1) : i > 1 => Here(s[i])
    BY <2>6
  <2> QED BY <2>2, <2>7, <2>8, <2>9, <2>10, <2>11 DEF Divided, Here, s
<1> QED BY <1>4, <1>5

\* An occurrence in a part of a text is one in the text.
LEMMA DelimiterInPart ==
  ASSUME NEW X, NEW text \in Seq(X), NEW delimiter, NEW d \in Nat \ {0}, Len(delimiter) = d,
         NEW x \in 1..Len(text), NEW y \in x..Len(text), NEW p \in 1..(y - x + 1)
  PROVE  DelimiterAt(SubSeq(text, x, y), delimiter, p) <=>
           p + d - 1 <= y - x + 1 /\ DelimiterAt(text, delimiter, x + p - 1)
<1> DEFINE n == Len(text)
           e == p + d - 1
           part == SubSeq(text, x, y)
<1>1. n \in Nat /\ x \in Nat \ {0} /\ y \in Int /\ x <= y /\ y <= n /\ e \in Int /\ p <= e
      /\ p \in Nat \ {0} /\ p <= y - x + 1
  OBVIOUS
<1>2. Len(part) = y - x + 1
  <2>1. \A k \in x..y : text[k] \in X
    <3>1. \A k \in x..y : k \in 1..n
      <4> HIDE DEF n
      <4> QED BY <1>1
    <3>2. \A k \in 1..n : text[k] \in X
      OBVIOUS
    <3> QED BY <3>1, <3>2
  <2>2. Len(part) = IF x <= y THEN y - x + 1 ELSE 0
    BY <1>1, <2>1, SubSeqProperties
  <2> QED BY <1>1, <2>2
<1>3. DelimiterAt(part, delimiter, p) <=> e <= y - x + 1 /\ SubSeq(part, p, e) = delimiter
  BY <1>2 DEF DelimiterAt
<1>4. (x + p - 1) + d - 1 = x + e - 1
  BY <1>1
<1>5. DelimiterAt(text, delimiter, x + p - 1) <=>
        x + e - 1 <= n /\ SubSeq(text, x + p - 1, x + e - 1) = delimiter
  BY <1>4 DEF DelimiterAt
<1>6. ASSUME e <= y - x + 1
      PROVE  SubSeq(part, p, e) = SubSeq(text, x + p - 1, x + e - 1)
  <2>1. x \in 1..n /\ y \in 1..n
    <3> HIDE DEF n
    <3> QED BY <1>1
  <2>2. p \in 1..(y - x + 1) /\ e \in 1..(y - x + 1)
    <3> HIDE DEF n, e
    <3> QED BY <1>1, <1>6
  <2> HIDE DEF e, n
  <2> QED BY <2>1, <2>2, SubSeqOfSubSeq DEF n
<1>7. e <= y - x + 1 => x + e - 1 <= n
  <2> HIDE DEF n, e
  <2> QED BY <1>1
<1> HIDE DEF e, n, part
<1>8. DelimiterAt(part, delimiter, p) <=>
        e <= y - x + 1 /\ DelimiterAt(text, delimiter, x + p - 1)
  BY <1>3, <1>5, <1>6, <1>7, Zenon
<1> QED BY <1>8 DEF e, part

\* Parts of a text between the occurrences of a delimiter.
Restored(parts, text, delimiter) ==
  /\ FlattenSeq(parts) = text
  /\ \A i \in DOMAIN parts :
       LET part == parts[i]
           starts == DelimiterAt(part, delimiter, 1)
       IN  /\ part # <<>>
           /\ i > 1 => starts
           /\ \A p \in 2..Len(part) :
                DelimiterAt(part, delimiter, p) => starts /\ p <= Len(delimiter)

\* _split_documents, whatever the text and the delimiter.
LEMMA DocumentsApart ==
  ASSUME NEW X, NEW text \in Seq(X), text # <<>>, NEW Y, NEW delimiter \in Seq(Y), delimiter # <<>>
  PROVE  Restored(Documents(text, delimiter), text, delimiter)
<1> DEFINE n == Len(text)
           d == Len(delimiter)
           s == Starts(text, delimiter)
           q == Len(s)
           b == Append(s, n + 1)
           parts == [i \in 1..q |-> SubSeq(text, b[i], b[i + 1] - 1)]
           Here(p) == DelimiterAt(text, delimiter, p)
<1>1. n \in Nat \ {0} /\ d \in Nat \ {0}
  OBVIOUS
<1>2. Divided(s, n, d, text, delimiter)
  BY <1>1, StartsDivide
<1>3. Documents(text, delimiter) = parts
  BY DEF Documents
<1> HIDE DEF s
<1>4. /\ s \in Seq(1..n) /\ q \in Nat \ {0} /\ s[1] = 1
      /\ \A i \in 1..q : s[i] \in 1..n
      /\ \A i, j \in 1..q : i < j => s[i] < s[j]
      /\ \A i \in 1..q : i > 1 => Here(s[i])
      /\ \A i, j \in 1..q : i < j /\ Here(s[i]) => s[i] + d <= s[j]
      /\ \A p \in 1..n : Here(p) => \E i \in 1..q : Here(s[i]) /\ s[i] <= p /\ p < s[i] + d
  <2>1. s \in Seq(1..n) /\ s # <<>>
    BY <1>2 DEF Divided
  <2>2. q \in Nat \ {0} /\ \A i \in 1..q : s[i] \in 1..n
    <3> DEFINE S == 1..n
    <3>1. s \in Seq(S) /\ s # <<>>
      BY <2>1
    <3> HIDE DEF S
    <3>2. Len(s) \in Nat \ {0} /\ \A i \in 1..Len(s) : s[i] \in S
      BY <3>1
    <3> QED BY <3>2 DEF S
  <2> HIDE DEF n, d, q
  <2>3. s[1] = 1 /\ \A i, j \in 1..q : i < j => s[i] < s[j]
    BY <1>2 DEF Divided, q
  <2>4. \A i \in 1..q : i > 1 => Here(s[i])
    BY <1>2 DEF Divided, q
  <2>5. \A i, j \in 1..q : i < j /\ Here(s[i]) => s[i] + d <= s[j]
    BY <1>2 DEF Divided, q
  <2>6. \A p \in 1..n : Here(p) => \E i \in 1..q : Here(s[i]) /\ s[i] <= p /\ p < s[i] + d
    BY <1>2 DEF Divided, q
  <2> QED BY <2>1, <2>2, <2>3, <2>4, <2>5, <2>6
<1> HIDE DEF Here
<1>5. b[q + 1] = n + 1 /\ \A i \in 1..q : b[i] = s[i]
  <2> HIDE DEF n
  <2> QED BY <1>4
<1> HIDE DEF b
<1>6. ASSUME NEW i \in 1..q
      PROVE  /\ b[i] \in 1..n /\ b[i + 1] \in 1..(n + 1) /\ b[i] < b[i + 1] /\ b[i] = s[i]
             /\ b[i + 1] - 1 \in b[i]..n
  <2> HIDE DEF n, q
  <2>1. b[i] = s[i] /\ s[i] \in 1..n
    BY <1>4, <1>5
  <2>2. CASE i = q
    <3>1. b[i + 1] = n + 1
      BY <1>5, <2>2
    <3> QED BY <1>1, <2>1, <3>1
  <2>3. CASE i # q
    <3>1. i + 1 \in 1..q /\ i < i + 1
      BY <1>4, <2>3
    <3>2. b[i + 1] = s[i + 1] /\ s[i + 1] \in 1..n /\ s[i] < s[i + 1]
      BY <1>4, <1>5, <3>1
    <3> QED BY <1>1, <2>1, <3>2
  <2> QED BY <2>2, <2>3
<1>7. Cuts(b, q, n)
  <2> HIDE DEF n, q
  <2>1. b[1] = 1
    BY <1>4, <1>5
  <2>2. \A i \in 1..(q + 1) : b[i] \in 1..(n + 1)
    <3> SUFFICES ASSUME NEW i \in 1..(q + 1) PROVE b[i] \in 1..(n + 1)
      OBVIOUS
    <3>1. CASE i = q + 1
      BY <1>1, <1>5, <3>1
    <3>2. CASE i # q + 1
      <4>1. i \in 1..q
        BY <1>4, <3>2
      <4> QED BY <1>1, <1>6, <4>1
    <3> QED BY <3>1, <3>2
  <2>3. \A i \in 1..q : b[i] <= b[i + 1]
    BY <1>1, <1>6
  <2> QED BY <1>1, <1>4, <1>5, <2>1, <2>2, <2>3 DEF Cuts
<1>8. FlattenSeq(parts) = text
  BY <1>7, PartsOfText
<1>9. ASSUME NEW i \in 1..q
      PROVE  /\ Len(parts[i]) = b[i + 1] - b[i] /\ parts[i] # <<>>
             /\ \A p \in 1..(b[i + 1] - b[i]) :
                  DelimiterAt(parts[i], delimiter, p) <=>
                    p + d - 1 <= b[i + 1] - b[i] /\ Here(b[i] + p - 1)
  <2> DEFINE x == b[i]
             y == b[i + 1] - 1
  <2>1. parts[i] = SubSeq(text, x, y)
    BY Zenon
  <2>2. x \in 1..n /\ y \in x..n /\ y - x + 1 = b[i + 1] - b[i] /\ x <= y /\ b[i + 1] - b[i] > 0
    <3>1. b[i] \in 1..n /\ b[i + 1] \in 1..(n + 1) /\ b[i + 1] - 1 \in b[i]..n /\ b[i] < b[i + 1]
      BY <1>6
    <3> HIDE DEF n
    <3> QED BY <1>1, <3>1
  <2> HIDE DEF x, y, parts
  <2>3. Len(parts[i]) = y - x + 1
    <3>1. \A k \in x..y : text[k] \in X
      <4>1. \A k \in x..y : k \in 1..n
        <5> HIDE DEF n
        <5> QED BY <1>1, <2>2
      <4>2. \A k \in 1..n : text[k] \in X
        OBVIOUS
      <4> QED BY <4>1, <4>2
    <3>2. Len(SubSeq(text, x, y)) = IF x <= y THEN y - x + 1 ELSE 0
      <4>1. x \in Int /\ y \in Int
        <5> HIDE DEF n
        <5> QED BY <1>1, <2>2
      <4> QED BY <3>1, <4>1, SubSeqProperties
    <3> QED BY <2>1, <2>2, <3>2
  <2>4. parts[i] # <<>>
    <3>1. Len(<<>>) = 0
      OBVIOUS
    <3> QED BY <2>2, <2>3, <3>1
  <2>5. ASSUME NEW p \in 1..(y - x + 1)
        PROVE  DelimiterAt(parts[i], delimiter, p) <=> p + d - 1 <= y - x + 1 /\ Here(x + p - 1)
    <3>1. DelimiterAt(SubSeq(text, x, y), delimiter, p) <=>
            p + d - 1 <= y - x + 1 /\ DelimiterAt(text, delimiter, x + p - 1)
      <4> HIDE DEF d
      <4> QED BY <1>1, <2>2, DelimiterInPart DEF d
    <3> QED BY <2>1, <3>1 DEF Here
  <2> QED BY <2>2, <2>3, <2>4, <2>5, Zenon DEF x
<1>10. \A i \in 1..q : Here(b[i]) => b[i] + d <= b[i + 1]
  <2> SUFFICES ASSUME NEW i \in 1..q, Here(b[i]) PROVE b[i] + d <= b[i + 1]
    OBVIOUS
  <2>0. b[i] \in 1..n /\ b[i] = s[i]
    BY <1>6
  <2>1. CASE i = q
    <3>1. b[i] + d - 1 <= n
      BY DEF Here, DelimiterAt
    <3>2. b[i + 1] = n + 1
      BY <1>5, <2>1
    <3> HIDE DEF n, d
    <3> QED BY <1>1, <2>0, <3>1, <3>2
  <2>2. CASE i # q
    <3>1. i + 1 \in 1..q /\ i < i + 1
      <4> HIDE DEF q
      <4> QED BY <1>4, <2>2
    <3>2. b[i + 1] = s[i + 1]
      BY <1>5, <3>1
    <3>3. s[i] + d <= s[i + 1]
      <4>1. Here(s[i])
        BY <2>0
      <4> HIDE DEF q, n, d
      <4> QED BY <1>4, <3>1, <4>1
    <3> QED BY <2>0, <3>2, <3>3
  <2> QED BY <2>1, <2>2
<1> HIDE DEF parts, n, d, q
<1>11. ASSUME NEW i \in 1..q
       PROVE  DelimiterAt(parts[i], delimiter, 1) <=> Here(b[i])
  <2>1. 1 \in 1..(b[i + 1] - b[i]) /\ 1 + d - 1 = d /\ b[i] + 1 - 1 = b[i] /\ b[i] \in Int
        /\ b[i + 1] \in Int
    BY <1>1, <1>6
  <2>2. DelimiterAt(parts[i], delimiter, 1) <=> d <= b[i + 1] - b[i] /\ Here(b[i])
    BY <1>9, <2>1
  <2>3. Here(b[i]) => d <= b[i + 1] - b[i]
    BY <1>1, <1>10, <2>1
  <2> QED BY <2>2, <2>3
<1>12. ASSUME NEW i \in 1..q, NEW p \in 2..Len(parts[i]), DelimiterAt(parts[i], delimiter, p)
       PROVE  Here(b[i]) /\ p <= d
  <2>1. /\ b[i] \in 1..n /\ b[i + 1] \in 1..(n + 1) /\ b[i] = s[i]
        /\ Len(parts[i]) = b[i + 1] - b[i]
    BY <1>6, <1>9
  <2>2. p \in Int /\ p >= 2 /\ p <= b[i + 1] - b[i] /\ p \in 1..(b[i + 1] - b[i])
        /\ b[i] \in Int /\ b[i + 1] \in Int
    BY <1>1, <2>1
  <2>3. Here(b[i] + p - 1) /\ p + d - 1 <= b[i + 1] - b[i]
    BY <1>9, <1>12, <2>2, Zenon
  <2>4. b[i] + p - 1 \in 1..n
    <3>1. PICK x \in 1..n : x = b[i]
      BY <2>1
    <3>2. PICK y \in 1..(n + 1) : y = b[i + 1]
      BY <2>1
    <3>3. p \in Int /\ p >= 2 /\ p <= y - x
      BY <2>2, <3>1, <3>2
    <3>4. x + p - 1 \in 1..n
      BY <1>1, <3>3
    <3> QED BY <3>1, <3>4
  <2>5. PICK j \in 1..q : Here(s[j]) /\ s[j] <= b[i] + p - 1 /\ b[i] + p - 1 < s[j] + d
    BY <1>4, <2>3, <2>4, Zenon
  <2>6. s[j] \in 1..n /\ b[j] = s[j]
    BY <1>4, <1>5
  <2>7. j <= i
    <3> SUFFICES ASSUME i < j PROVE FALSE
      BY <1>4
    <3>1. i + 1 \in 1..q
      BY <1>4
    <3>2. b[i + 1] = s[i + 1] /\ (j = i + 1 \/ s[i + 1] < s[j]) /\ s[i + 1] \in 1..n
      BY <1>4, <1>5, <3>1
    <3>3. PICK x \in Int : x = b[i]
      BY <2>2
    <3>4. PICK y \in Int : y = b[i + 1]
      BY <2>2
    <3>5. PICK z \in Int : z = s[j]
      BY <2>6
    <3>6. y <= z
      BY <1>1, <3>2, <3>4, <3>5
    <3>7. z <= x + p - 1 /\ p <= y - x /\ p \in Int
      BY <2>2, <2>5, <3>3, <3>4, <3>5
    <3> QED BY <3>6, <3>7
  <2>8. ~(j < i)
    <3> SUFFICES ASSUME j < i PROVE FALSE
      OBVIOUS
    <3>1. s[j] + d <= s[i]
      BY <1>4, <2>5
    <3>2. PICK x \in Int : x = b[i]
      BY <2>2
    <3>3. PICK z \in Int : z = s[j]
      BY <2>6
    <3>4. z + d <= x /\ x + p - 1 < z + d /\ p \in Int /\ p >= 2
      BY <2>1, <2>2, <2>5, <3>1, <3>2, <3>3
    <3> QED BY <1>1, <3>4
  <2>9. j = i
    BY <1>4, <2>7, <2>8
  <2> QED BY <1>1, <2>1, <2>2, <2>5, <2>6, <2>9
<1>13. DOMAIN parts = 1..q
  BY DEF parts
<1>14. ASSUME NEW i \in 1..q, i > 1 PROVE Here(b[i])
  <2>1. b[i] = s[i]
    BY <1>6
  <2> QED BY <1>4, <1>14, <2>1
<1>15. Restored(parts, text, delimiter)
  BY <1>8, <1>9, <1>11, <1>12, <1>13, <1>14, Zenon DEF Restored, d
<1> QED BY <1>3, <1>15

\* What SplitDocuments leaves.
DocumentsInv ==
  /\ sample.kind = "multi_document" => sample \in Contexts
  /\ Adapted("multi_document") =>
       LET documents == Documents(sample.text, sample.delimiter)
       IN  prepared = Prepared(documents, FlattenSeq(documents) = sample.text)

\* _split_documents restores the boundaries of every text (longbench_v2.py:182-218): the
\* documents in their order are the text, every document but the first starts with
\* the delimiter, and any other occurrence in a document overlaps that one.
THEOREM DocumentsRestored == AdapterSpec => []DocumentsRestoreBoundaries
<1>1. AdapterInit => DocumentsInv
  BY KindsAssumption DEF AdapterInit, DocumentsInv, Adapted, Unprepared
<1>2. DocumentsInv /\ [AdapterNext]_adapterVars => DocumentsInv'
  <2> SUFFICES ASSUME DocumentsInv, [AdapterNext]_adapterVars PROVE DocumentsInv'
    OBVIOUS
  <2>1. CASE UNCHANGED adapterVars
    BY <2>1, Zenon DEF adapterVars, DocumentsInv, Adapted
  <2>2. CASE AdapterNext
    <3>1. sample' = sample
      BY <2>2 DEF AdapterNext
    <3>2. SplitDocuments \/ sample.kind # "multi_document"
      BY <2>2, Zenon DEF AdapterNext, ConvertFixedWidth, SegmentVideo, PrepareFullCorpus, PrepareCandidates
    <3>3. CASE SplitDocuments
      BY <3>1, <3>3, Zenon DEF SplitDocuments, DocumentsInv
    <3>4. CASE sample.kind # "multi_document"
      BY <3>1, <3>4 DEF DocumentsInv, Adapted
    <3> QED BY <3>2, <3>3, <3>4
  <2> QED BY <2>1, <2>2
<1>3. DocumentsInv => DocumentsRestoreBoundaries
  <2> SUFFICES ASSUME DocumentsInv, Adapted("multi_document") PROVE DocumentsRestoreBoundaries
    BY DEF DocumentsRestoreBoundaries
  <2> DEFINE documents == Documents(sample.text, sample.delimiter)
  <2>1. sample \in Contexts /\ prepared = Prepared(documents, FlattenSeq(documents) = sample.text)
    BY DEF DocumentsInv, Adapted
  <2>2. Restored(documents, sample.text, sample.delimiter)
    BY <2>1, ContextsAssumption, DocumentsApart
  <2>3. prepared.artifacts = documents
    BY <2>1 DEF Prepared
  <2>4. prepared.setting = "official_equivalent"
    BY <2>1, <2>2 DEF Prepared, Restored
  <2> HIDE DEF documents
  <2> QED BY <2>2, <2>3, <2>4, Zenon DEF DocumentsRestoreBoundaries, Restored
<1> QED BY <1>1, <1>2, <1>3, PTL DEF AdapterSpec

-----------------------------------------------------------------------------
(* LongBench v2: the lines and the columns of a table. *)

\* Columns that the validator accepted.
AreColumns(columns) ==
  /\ columns \in Seq(Range(columns))
  /\ \A i \in DOMAIN columns : columns[i].from \in Nat /\ columns[i].to \in Nat
  /\ ColumnsAreValid(columns)

\* The columns that start before each column.
StartingBefore(columns, m) ==
  [i \in 1..m |-> {j \in 1..m : \/ columns[j].from < columns[i].from
                                \/ columns[j].from = columns[i].from /\ j < i}]

\* The order of the columns' starts.
LEMMA ColumnOrders ==
  ASSUME NEW columns, NEW m \in Nat, \A i \in 1..m : columns[i].from \in Nat
  PROVE  Orders(StartingBefore(columns, m)) /\ DOMAIN StartingBefore(columns, m) = 1..m
<1> DEFINE score == [i \in 1..m |-> 0 - columns[i].from]
           ahead == [i \in 1..m |-> {j \in 1..m : score[j] > score[i]
                                                    \/ (score[j] = score[i] /\ j < i)}]
           starting == StartingBefore(columns, m)
<1>1. score \in [1..m -> Int] /\ \A i \in 1..m : score[i] = 0 - columns[i].from
  OBVIOUS
<1> HIDE DEF score
<1>2. Orders(ahead)
  BY <1>1, ScoreOrders, Zenon
<1>3. ASSUME NEW i \in 1..m PROVE ahead[i] = starting[i]
  <2>1. \A j \in 1..m : /\ score[j] > score[i] <=> columns[j].from < columns[i].from
                        /\ score[j] = score[i] <=> columns[j].from = columns[i].from
    <3> SUFFICES ASSUME NEW j \in 1..m
                 PROVE  /\ score[j] > score[i] <=> columns[j].from < columns[i].from
                        /\ score[j] = score[i] <=> columns[j].from = columns[i].from
      OBVIOUS
    <3> HIDE DEF ahead, starting
    <3>1. PICK x \in Nat : x = columns[i].from
      OBVIOUS
    <3>2. PICK y \in Nat : y = columns[j].from
      OBVIOUS
    <3>3. score[i] = 0 - x /\ score[j] = 0 - y
      BY <1>1, <3>1, <3>2
    <3> QED BY <3>1, <3>2, <3>3
  <2>2. ahead[i] = {j \in 1..m : score[j] > score[i] \/ (score[j] = score[i] /\ j < i)}
    OBVIOUS
  <2>3. starting[i] = {j \in 1..m : \/ columns[j].from < columns[i].from
                                    \/ columns[j].from = columns[i].from /\ j < i}
    BY DEF StartingBefore
  <2> HIDE DEF ahead, starting
  <2>4. \A j \in 1..m : j \in ahead[i] <=> j \in starting[i]
    BY <2>1, <2>2, <2>3
  <2>5. ahead[i] \subseteq 1..m /\ starting[i] \subseteq 1..m
    BY <2>2, <2>3
  <2> QED BY <2>4, <2>5, Zenon
<1>4. ahead = [i \in 1..m |-> ahead[i]]
  OBVIOUS
<1>5. starting = [i \in 1..m |-> starting[i]] /\ DOMAIN starting = 1..m
  BY DEF StartingBefore
<1> HIDE DEF ahead, starting
<1>6. ahead = starting
  BY <1>3, <1>4, <1>5
<1> QED BY <1>2, <1>5, <1>6 DEF starting

\* Comparing neighbours in the order of their starts compares all columns.
LEMMA ColumnsApart ==
  ASSUME NEW columns, AreColumns(columns)
  PROVE  \A i, j \in DOMAIN columns :
           i # j => columns[i].to <= columns[j].from \/ columns[j].to <= columns[i].from
<1> DEFINE m == Len(columns)
           ahead == StartingBefore(columns, m)
           order == InOrder(ahead)
<1>1. m \in Nat /\ DOMAIN columns = 1..m
  BY DEF AreColumns
<1>2. /\ \A i \in 1..m : columns[i].from \in Nat /\ columns[i].to \in Nat
      /\ \A i \in 1..m : columns[i].from < columns[i].to
  BY <1>1 DEF AreColumns, ColumnsAreValid
<1>3. \A r \in 1..(m - 1) : columns[order[r]].to <= columns[order[r + 1]].from
  BY <1>1, Zenon DEF AreColumns, ColumnsAreValid, ColumnsAreDisjoint, StartingBefore
<1>4. Orders(ahead) /\ DOMAIN ahead = 1..m
  <2> HIDE DEF m
  <2>1. \A i \in 1..m : columns[i].from \in Nat
    BY <1>2
  <2> QED BY <1>1, <2>1, ColumnOrders
<1>5. \A i, j \in 1..m : i \in ahead[j] => columns[i].from <= columns[j].from
  <2> HIDE DEF m
  <2> QED BY <1>2 DEF StartingBefore
<1> HIDE DEF ahead, m
<1>6. Cardinality(1..m) = m
  <2>1. Cardinality(1..m) = IF 1 > m THEN 0 ELSE m - 1 + 1
    BY <1>1, FS_Interval
  <2> QED BY <1>1, <2>1
<1>7. \A r \in 1..m : order[r] \in 1..m /\ Ranks(ahead)[order[r]] = r
  <2> SUFFICES ASSUME NEW r \in 1..m PROVE order[r] \in 1..m /\ Ranks(ahead)[order[r]] = r
    OBVIOUS
  <2>1. order[r] \in 1..m /\ Cardinality(ahead[order[r]]) = r - 1
    BY <1>4, <1>6, PlaceOfElement, Zenon
  <2> HIDE DEF order
  <2>2. Ranks(ahead)[order[r]] = Cardinality(ahead[order[r]]) + 1
    BY <1>4, <2>1 DEF Ranks
  <2> QED BY <2>1, <2>2
<1>8. \A x, y \in 1..m : x \in ahead[y] <=> Ranks(ahead)[x] < Ranks(ahead)[y]
  BY <1>4, RanksAreNumbers, Zenon
<1>9. \A i \in 1..m : \E r \in 1..m : order[r] = i
  <2> SUFFICES ASSUME NEW i \in 1..m PROVE \E r \in 1..m : order[r] = i
    OBVIOUS
  <2>1. Cardinality(ahead[i]) + 1 \in 1..m /\ order[Cardinality(ahead[i]) + 1] = i
    BY <1>4, <1>6, Arranged
  <2> QED BY <2>1
<1> HIDE DEF order
<1>10. ASSUME NEW r \in 1..m, NEW q \in 1..m, q < r
       PROVE  columns[order[q]].to <= columns[order[r]].from
  <2>1. q \in 1..(m - 1) /\ q + 1 \in 1..m
    BY <1>1, <1>10
  <2>2. columns[order[q]].to <= columns[order[q + 1]].from
    BY <1>3, <2>1
  <2>3. CASE q + 1 = r
    BY <2>2, <2>3
  <2>4. CASE q + 1 # r
    <3>1. q + 1 < r
      BY <1>10, <2>4
    <3>2. order[q + 1] \in 1..m /\ order[r] \in 1..m /\ order[q + 1] \in ahead[order[r]]
      BY <1>7, <1>8, <2>1, <3>1
    <3>3. columns[order[q + 1]].from <= columns[order[r]].from
      BY <1>5, <3>2
    <3>4. order[q] \in 1..m
      BY <1>7
    <3>5. columns[order[q]].to \in Nat /\ columns[order[q + 1]].from \in Nat
          /\ columns[order[r]].from \in Nat
      BY <1>2, <3>2, <3>4
    <3> QED BY <2>2, <3>3, <3>5
  <2> QED BY <2>3, <2>4
<1>11. ASSUME NEW i \in 1..m, NEW j \in 1..m, i # j
       PROVE  columns[i].to <= columns[j].from \/ columns[j].to <= columns[i].from
  <2>1. PICK q \in 1..m : order[q] = i
    BY <1>9
  <2>2. PICK r \in 1..m : order[r] = j
    BY <1>9
  <2>3. q < r \/ r < q
    BY <1>11, <2>1, <2>2
  <2> QED BY <1>10, <2>1, <2>2, <2>3
<1> QED BY <1>1, <1>11

\* A map of a finite set onto one of the same size sends no two elements to the same one.
LEMMA OntoSameSizeIsOneToOne ==
  ASSUME NEW S, NEW T, NEW f, f \in Surjection(S, T), IsFiniteSet(S),
         Cardinality(T) = Cardinality(S)
  PROVE  f \in Injection(S, T)
<1>1. (Cardinality(T) = Cardinality(S)) <=> (f \in Injection(S, T))
  BY FS_Surjection, Zenon
<1> QED BY <1>1

\* A name is that of one column.
LEMMA NamesDiffer ==
  ASSUME NEW columns, AreColumns(columns)
  PROVE  \A i, j \in DOMAIN columns : columns[i].name = columns[j].name => i = j
<1> DEFINE m == Len(columns)
           S == 1..m
           T == {columns[i].name : i \in S}
           name == [i \in S |-> columns[i].name]
<1>1. m \in Nat /\ DOMAIN columns = S
  BY DEF AreColumns
<1>2. Cardinality(T) = m
  BY <1>1, Zenon DEF AreColumns, ColumnsAreValid
<1>3. IsFiniteSet(S) /\ Cardinality(S) = m
  <2> HIDE DEF m
  <2>1. IsFiniteSet(1..m) /\ Cardinality(1..m) = IF 1 > m THEN 0 ELSE m - 1 + 1
    BY <1>1, FS_Interval
  <2> QED BY <1>1, <2>1
<1> HIDE DEF m, S
<1>4. name \in Surjection(S, T)
  BY DEF Surjection
<1>5. \A i \in S : name[i] = columns[i].name
  OBVIOUS
<1> HIDE DEF name, T
<1>6. name \in Injection(S, T)
  <2>1. IsFiniteSet(S) /\ Cardinality(T) = Cardinality(S)
    BY <1>2, <1>3
  <2> QED BY <1>4, <2>1, OntoSameSizeIsOneToOne, Zenon
<1>7. \A i, j \in S : name[i] = name[j] => i = j
  BY <1>6 DEF Injection, IsInjective
<1>8. \A i, j \in S : columns[i].name = columns[j].name => i = j
  BY <1>5, <1>7
<1> QED BY <1>1, <1>8

\* A text has the characters of another's places S, so many places further left.
Shifts(text, part, S, off) ==
  /\ off \in Int
  /\ Solid(part) = {i - off : i \in S}
  /\ \A i \in S : part[i - off] = text[i]

\* A character that is no space.
Inked(character) == character # " "

\* The characters of a text that are no spaces.
LEMMA SolidOf ==
  ASSUME NEW n, NEW text, DOMAIN text = 1..n
  PROVE  /\ Solid(text) = {i \in 1..n : Inked(text[i])}
         /\ \A i \in 1..n : i \in Solid(text) <=> Inked(text[i])
BY Zenon DEF Solid, Inked

\* Strip keeps them.
LEMMA StripShifts ==
  ASSUME NEW X, NEW text \in Seq(X)
  PROVE  \E off : Shifts(text, Strip(text), Solid(text), off)
<1> DEFINE n == Len(text)
           S == Solid(text)
           off == Min(S) - 1
           part == Strip(text)
<1>0. n \in Nat /\ DOMAIN text = 1..n /\ \A k \in 1..n : text[k] \in X
  OBVIOUS
<1>1. /\ n \in Nat /\ S \in SUBSET (1..n) /\ \A k \in 1..n : text[k] \in X
      /\ \A i \in 1..n : i \in S <=> Inked(text[i])
  <2>1. S = {i \in 1..n : Inked(text[i])} /\ \A i \in 1..n : i \in S <=> Inked(text[i])
    <3> HIDE DEF n
    <3> QED BY <1>0, SolidOf
  <2> HIDE DEF S, n
  <2> QED BY <1>0, <2>1
<1>2. CASE S = {}
  <2>1. part = <<>>
    BY <1>2 DEF Strip
  <2>2. Solid(<<>>) = {}
    BY DEF Solid
  <2> HIDE DEF part, S
  <2>3. Shifts(text, part, S, 0)
    BY <1>2, <2>1, <2>2 DEF Shifts
  <2> QED BY <2>3 DEF part, S
<1>3. CASE S # {}
  <2> DEFINE x == Min(S)
             y == Max(S)
  <2>1. part = SubSeq(text, x, y)
    BY <1>3, Zenon DEF Strip
  <2> HIDE DEF S, n, part
  <2>2. \A i \in S : i \in 1..n /\ Inked(text[i])
    BY <1>1
  <2>3. \A i \in 1..n : Inked(text[i]) => i \in S
    BY <1>1
  <2>4. x \in S /\ y \in S /\ \A i \in S : x <= i /\ i <= y
    BY <1>1, <1>3, MinExists, MaxExists, Zenon
  <2> HIDE DEF x, y
  <2>5. x \in 1..n /\ y \in x..n /\ \A k \in x..y : k \in 1..n
    BY <1>1, <2>4
  <2>6. /\ part \in Seq(X) /\ Len(part) = y - x + 1
        /\ \A k \in 1..(y - x + 1) : part[k] = text[x + k - 1]
    <3>1. \A k \in x..y : text[k] \in X
      BY <1>1, <2>5
    <3>2. x \in Int /\ y \in Int /\ x <= y
      BY <1>1, <2>5
    <3>3. part \in Seq(X) /\ Len(part) = IF x <= y THEN y - x + 1 ELSE 0
      BY <2>1, <3>1, <3>2, SubSeqProperties
    <3>4. \A k \in 1..(y - x + 1) : SubSeq(text, x, y)[k] = text[x + k - 1]
      BY <3>1, <3>2, SubSeqProperties
    <3> QED BY <2>1, <3>2, <3>3, <3>4, Zenon
  <2>7. ASSUME NEW i \in S
        PROVE  i - (x - 1) \in 1..(y - x + 1) /\ part[i - (x - 1)] = text[i]
    <3>1. i \in Int /\ x \in Int /\ y \in Int /\ x <= i /\ i <= y
      BY <1>1, <2>4
    <3>2. i - (x - 1) \in 1..(y - x + 1) /\ x + (i - (x - 1)) - 1 = i
      BY <3>1
    <3> QED BY <2>6, <3>2
  <2>8. Solid(part) = {k \in 1..(y - x + 1) : Inked(part[k])}
    <3>1. DOMAIN part = 1..(y - x + 1)
      BY <2>6
    <3> QED BY <3>1, SolidOf, Zenon
  <2>9. ASSUME NEW k \in Solid(part) PROVE \E i \in S : k = i - (x - 1)
    <3>1. k \in 1..(y - x + 1) /\ Inked(part[k])
      BY <2>8
    <3>2. x \in Int /\ y \in Int /\ k \in Int
      BY <1>1, <2>5, <3>1
    <3>3. x + k - 1 \in x..y /\ k = (x + k - 1) - (x - 1)
      BY <3>1, <3>2
    <3>4. Inked(text[x + k - 1]) /\ x + k - 1 \in 1..n
      BY <2>5, <2>6, <3>1, <3>3
    <3> QED BY <2>3, <3>3, <3>4
  <2>10. \A i \in S : i - (x - 1) \in Solid(part)
    BY <2>2, <2>7, <2>8
  <2>11. Solid(part) = {i - (x - 1) : i \in S}
    BY <2>9, <2>10
  <2>12. x - 1 \in Int
    BY <2>5
  <2>13. Shifts(text, part, S, x - 1)
    BY <2>7, <2>11, <2>12, Zenon DEF Shifts
  <2> QED BY <2>13 DEF S, part
<1> QED BY <1>2, <1>3

\* A field has those of its column.
LEMMA FieldShifts ==
  ASSUME NEW X, NEW line \in Seq(X), NEW column, column.from \in Nat, column.to \in Nat
  PROVE  \E off : Shifts(line, Field(line, column),
                         {i \in Solid(line) : column.from < i /\ i <= column.to}, off)
<1> DEFINE n == Len(line)
           a == column.from
           b == column.to
           e == Min({b, n})
           part == SubSeq(line, a + 1, e)
           field == Field(line, column)
           S == {i \in Solid(line) : a < i /\ i <= b}
<1>1. n \in Nat /\ a \in Nat /\ b \in Nat /\ \A k \in 1..n : line[k] \in X
  OBVIOUS
<1>2. e = IF b <= n THEN b ELSE n
  <2> HIDE DEF n, b
  <2>1. b \in Int /\ n \in Int
    BY <1>1
  <2> HIDE DEF e
  <2>2. Min({b, n}) = IF b <= n THEN b ELSE n
    BY <2>1, MinOfTwo, Zenon
  <2> QED BY <2>2, Zenon DEF e
<1>3. field = Strip(part)
  BY DEF Field
<1>4. \A i : i \in S <=> i \in 1..n /\ Inked(line[i]) /\ a < i /\ i <= b
  <2>1. DOMAIN line = 1..n
    OBVIOUS
  <2>2. Solid(line) = {i \in 1..n : Inked(line[i])}
    <3> HIDE DEF n
    <3> QED BY <2>1, SolidOf, Zenon
  <2> HIDE DEF n, a, b
  <2> QED BY <2>2
<1> DEFINE f == a + 1
<1>5. part = SubSeq(line, f, e) /\ f = a + 1
  OBVIOUS
<1> HIDE DEF n, a, b, e, part, field, S, f
<1>6. /\ e \in Int /\ f \in Int /\ \A k \in f..e : k \in 1..n
      /\ \A i \in S : i \in f..e /\ Inked(line[i])
      /\ \A i \in f..e : Inked(line[i]) => i \in S
  <2>1. e \in Int /\ f \in Int /\ e <= n /\ e <= b /\ (e = b \/ e = n)
    BY <1>1, <1>2, <1>5
  <2>2. \A k \in f..e : k \in 1..n /\ a < k /\ k <= b
    BY <1>1, <1>5, <2>1
  <2>3. \A i \in 1..n : a < i /\ i <= b => i \in f..e
    BY <1>1, <1>5, <2>1
  <2> QED BY <1>4, <2>1, <2>2, <2>3
<1>7. /\ part \in Seq(X) /\ DOMAIN part = 1..(e - a)
      /\ \A k \in 1..(e - a) : part[k] = line[a + k]
  <2>1. \A k \in f..e : line[k] \in X
    BY <1>1, <1>6, Zenon
  <2>2. part \in Seq(X) /\ Len(part) = IF f <= e THEN e - f + 1 ELSE 0
    BY <1>5, <1>6, <2>1, SubSeqProperties
  <2>3. \A k \in 1..(e - f + 1) : SubSeq(line, f, e)[k] = line[f + k - 1]
    BY <1>6, <2>1, SubSeqProperties
  <2>4. Len(part) = IF f <= e THEN e - a ELSE 0
    BY <1>1, <1>5, <1>6, <2>2
  <2>5. \A k : k \in 1..Len(part) <=> k \in 1..(e - a)
    BY <1>1, <1>5, <1>6, <2>4
  <2>6. DOMAIN part = 1..Len(part)
    BY <2>2
  <2>7. ASSUME NEW k \in 1..(e - a) PROVE part[k] = line[a + k]
    <3>1. k \in 1..(e - f + 1) /\ f + k - 1 = a + k
      BY <1>1, <1>5, <1>6
    <3> QED BY <1>5, <2>3, <3>1, Zenon
  <2> QED BY <2>2, <2>5, <2>6, <2>7, Zenon
<1>8. PICK off : Shifts(part, Strip(part), Solid(part), off)
  BY <1>7, StripShifts
<1>9. /\ off \in Int /\ Solid(field) = {k - off : k \in Solid(part)}
      /\ \A k \in Solid(part) : field[k - off] = part[k]
  BY <1>3, <1>8 DEF Shifts
<1>10. ASSUME NEW i \in S
       PROVE  i - a \in Solid(part) /\ part[i - a] = line[i] /\ (i - a) - off = i - (a + off)
  <2>1. i \in f..e /\ Inked(line[i])
    BY <1>6
  <2>2. i - a \in 1..(e - a) /\ a + (i - a) = i /\ i \in Int
    BY <1>1, <1>5, <1>6, <2>1
  <2>3. part[i - a] = line[i]
    BY <1>7, <2>2
  <2>4. i - a \in Solid(part)
    BY <1>7, <2>1, <2>2, <2>3, SolidOf, Zenon
  <2> QED BY <1>1, <1>9, <2>2, <2>3, <2>4
<1>11. ASSUME NEW k \in Solid(part) PROVE \E i \in S : k = i - a
  <2>1. k \in 1..(e - a) /\ Inked(part[k])
    <3>1. Solid(part) = {i \in 1..(e - a) : Inked(part[i])}
      BY <1>7, SolidOf, Zenon
    <3> QED BY <3>1
  <2>2. a + k \in f..e /\ k = (a + k) - a
    BY <1>1, <1>5, <1>6, <2>1
  <2>3. Inked(line[a + k])
    BY <1>7, <2>1
  <2> QED BY <1>6, <2>2, <2>3
<1>12. Solid(field) = {i - (a + off) : i \in S}
  <2>1. ASSUME NEW j \in Solid(field) PROVE \E i \in S : j = i - (a + off)
    <3>1. PICK k \in Solid(part) : j = k - off
      BY <1>9
    <3>2. PICK i \in S : k = i - a
      BY <1>11
    <3> QED BY <1>10, <3>1, <3>2
  <2>2. \A i \in S : i - (a + off) \in Solid(field)
    BY <1>9, <1>10
  <2> QED BY <2>1, <2>2
<1>13. \A i \in S : field[i - (a + off)] = line[i]
  BY <1>9, <1>10
<1>14. a + off \in Int
  BY <1>1, <1>9
<1>15. Shifts(line, field, S, a + off)
  BY <1>12, <1>13, <1>14, Zenon DEF Shifts
<1> QED BY <1>15, Zenon DEF S, field, a, b

\* A field is empty where its column has no character of the line.
LEMMA FieldIsEmpty ==
  ASSUME NEW X, NEW line \in Seq(X), NEW column, column.from \in Nat, column.to \in Nat,
         Solid(Field(line, column)) = {}
  PROVE  Field(line, column) = <<>>
<1> DEFINE n == Len(line)
           e == Min({column.to, n})
           part == SubSeq(line, column.from + 1, e)
<1>1. n \in Nat /\ \A k \in 1..n : line[k] \in X
  OBVIOUS
<1>2. e \in Int /\ e <= n
  <2> HIDE DEF n
  <2>1. column.to \in Int /\ n \in Int
    BY <1>1
  <2>2. e = IF column.to <= n THEN column.to ELSE n
    BY <2>1, MinOfTwo, Zenon
  <2> HIDE DEF e
  <2> QED BY <2>1, <2>2
<1>3. Field(line, column) = Strip(part)
  BY DEF Field
<1> HIDE DEF e
<1>4. part \in Seq(X)
  <2>1. \A k \in (column.from + 1)..e : line[k] \in X
    BY <1>1, <1>2
  <2> QED BY <1>2, <2>1, SubSeqProperties
<1> HIDE DEF part
<1>5. PICK off : Shifts(part, Strip(part), Solid(part), off)
  BY <1>4, StripShifts
<1>6. Solid(part) = {}
  BY <1>3, <1>5, Zenon DEF Shifts
<1> QED BY <1>3, <1>6 DEF Strip

\* Numbers that are moved are as many.
LEMMA MovedCounts ==
  ASSUME NEW A \in SUBSET Int, IsFiniteSet(A), NEW off \in Int
  PROVE  Cardinality({i - off : i \in A}) = Cardinality(A)
<1> DEFINE T == {i - off : i \in A}
           move == [i \in A |-> i - off]
<1>1. move \in [A -> T] /\ \A i \in A : move[i] = i - off
  OBVIOUS
<1>2. \A i, j \in A : i - off = j - off => i = j
  OBVIOUS
<1>3. \A x \in T : \E i \in A : i - off = x
  OBVIOUS
<1> HIDE DEF move, T
<1>4. move \in Bijection(A, T)
  <2>1. \A i, j \in A : move[i] = move[j] => i = j
    BY <1>1, <1>2
  <2>2. \A x \in T : \E i \in A : move[i] = x
    BY <1>1, <1>3
  <2>3. DOMAIN move = A
    BY <1>1
  <2> QED BY <1>1, <2>1, <2>2, <2>3, Zenon DEF Bijection, Injection, Surjection, IsInjective
<1>5. Cardinality(T) = Cardinality(A)
  <2>1. ExistsBijection(A, T)
    BY <1>4, Zenon DEF ExistsBijection
  <2> QED BY <2>1, FS_Bijection, Zenon
<1> QED BY <1>5 DEF T

\* A character that is a digit.
IsDigit(character) == character \in DigitCharacters

\* What NumberAt makes of the characters at the places S.
DigitsAt(text, S) == {i \in S : IsDigit(text[i])}
FractionAt(text, S) == {i \in DigitsAt(text, S) : \E point \in S : point < i /\ text[point] = "."}
PowerAt(text, S, i) ==
  Cardinality({j \in DigitsAt(text, S) : i < j}) - Cardinality(FractionAt(text, S))
CountingAt(text, S) == {<<PowerAt(text, S, i), text[i]>> : i \in {j \in DigitsAt(text, S) : text[j] # "0"}}

LEMMA NumberIs ==
  ASSUME NEW text, NEW S
  PROVE  NumberAt(text, S) = [negative |-> CountingAt(text, S) # {} /\ \E i \in S : text[i] = "-",
                              digits |-> CountingAt(text, S)]
BY Zenon DEF NumberAt, CountingAt, PowerAt, FractionAt, DigitsAt, IsDigit

\* The number that a text spells is spelled by its characters that are no spaces.
LEMMA NumberIsInked ==
  ASSUME NEW text
  PROVE  NumberAt(text, DOMAIN text) = NumberAt(text, Solid(text))
<1> DEFINE D == DOMAIN text
           P == Solid(text)
<1>1. /\ \A i : i \in P <=> i \in D /\ text[i] # " "
      /\ \A character : IsDigit(character) \/ character = "." \/ character = "-" => character # " "
  BY DEF Solid, IsDigit, DigitCharacters
<1> HIDE DEF D, P
<1>2. DigitsAt(text, D) = DigitsAt(text, P)
  BY <1>1 DEF DigitsAt
<1>3. FractionAt(text, D) = FractionAt(text, P)
  BY <1>1, <1>2 DEF FractionAt
<1>4. CountingAt(text, D) = CountingAt(text, P)
  BY <1>2, <1>3, Zenon DEF CountingAt, PowerAt
<1>5. (\E i \in D : text[i] = "-") <=> (\E i \in P : text[i] = "-")
  BY <1>1
<1>6. NumberAt(text, D) = NumberAt(text, P)
  BY <1>4, <1>5, NumberIs, Zenon
<1> QED BY <1>6 DEF D, P

\* A text spells the same number wherever it stands.
LEMMA NumberShifts ==
  ASSUME NEW text, NEW part, NEW S \in SUBSET Int, IsFiniteSet(S), NEW off,
         Shifts(text, part, S, off)
  PROVE  NumberAt(part, Solid(part)) = NumberAt(text, S)
<1> DEFINE P == Solid(part)
           D == DigitsAt(text, S)
           E == DigitsAt(part, P)
           F == FractionAt(text, S)
           G == FractionAt(part, P)
           moved(A) == {i - off : i \in A}
<1>1. off \in Int /\ P = moved(S) /\ \A i \in S : part[i - off] = text[i]
  BY Zenon DEF Shifts
<1>2. /\ \A i : i \in D <=> i \in S /\ IsDigit(text[i])
      /\ \A k : k \in E <=> k \in P /\ IsDigit(part[k])
  BY DEF DigitsAt
<1>3. /\ \A i : i \in F <=> i \in D /\ \E point \in S : point < i /\ text[point] = "."
      /\ \A k : k \in G <=> k \in E /\ \E point \in P : point < k /\ part[point] = "."
  BY DEF FractionAt
<1> HIDE DEF P, D, E, F, G
<1>4. /\ \A i \in S : i \in Int /\ i - off \in P
      /\ \A k \in P : \E i \in S : k = i - off
  BY <1>1
<1>5. /\ \A i \in D : i - off \in E
      /\ \A k \in E : \E i \in D : k = i - off
  BY <1>1, <1>2, <1>4
<1>6. E = moved(D) /\ D \in SUBSET Int /\ IsFiniteSet(D)
  <2>1. D \in SUBSET S
    BY <1>2
  <2>2. IsFiniteSet(D)
    BY <2>1, FS_Subset, Zenon
  <2> QED BY <1>5, <2>1, <2>2
<1>7. ASSUME NEW i \in S PROVE (\E point \in P : point < i - off /\ part[point] = ".")
                                 <=> (\E point \in S : point < i /\ text[point] = ".")
  <2>1. ASSUME NEW p \in S PROVE /\ p < i <=> p - off < i - off
                                 /\ p - off \in P /\ part[p - off] = text[p]
    BY <1>1, <1>4
  <2> QED BY <1>4, <2>1
<1>8. G = moved(F) /\ F \in SUBSET Int /\ IsFiniteSet(F)
  <2>1. F \in SUBSET D
    BY <1>3
  <2>2. IsFiniteSet(F)
    BY <1>6, <2>1, FS_Subset, Zenon
  <2>3. \A i \in F : i \in D /\ i \in S /\ i - off \in G
    BY <1>2, <1>3, <1>5, <1>7
  <2>4. \A k \in G : \E i \in F : k = i - off
    <3> SUFFICES ASSUME NEW k \in G PROVE \E i \in F : k = i - off
      OBVIOUS
    <3>1. PICK i \in D : k = i - off
      BY <1>3, <1>5
    <3>2. i \in S /\ \E point \in P : point < i - off /\ part[point] = "."
      BY <1>2, <1>3, <3>1
    <3>3. \E point \in S : point < i /\ text[point] = "."
      BY <1>7, <3>2
    <3> QED BY <1>3, <3>1, <3>3
  <2> QED BY <1>6, <2>1, <2>2, <2>3, <2>4
<1>9. Cardinality(G) = Cardinality(F)
  BY <1>1, <1>8, MovedCounts
<1>10. ASSUME NEW i \in S PROVE PowerAt(part, P, i - off) = PowerAt(text, S, i)
  <2> DEFINE A == {j \in D : i < j}
             B == {j \in E : i - off < j}
  <2>1. A \in SUBSET D /\ \A j : j \in A <=> j \in D /\ i < j
    OBVIOUS
  <2>2. \A k : k \in B <=> k \in E /\ i - off < k
    OBVIOUS
  <2>3. PowerAt(part, P, i - off) = Cardinality(B) - Cardinality(G)
        /\ PowerAt(text, S, i) = Cardinality(A) - Cardinality(F)
    BY DEF PowerAt, D, E, F, G
  <2> HIDE DEF A, B
  <2>4. IsFiniteSet(A) /\ A \in SUBSET Int
    <3>1. IsFiniteSet(A)
      BY <1>6, <2>1, FS_Subset, Zenon
    <3> QED BY <1>6, <2>1, <3>1
  <2>5. B = moved(A)
    <3>1. \A j \in D : j \in Int /\ (i < j <=> i - off < j - off)
      BY <1>1, <1>4, <1>6
    <3>2. \A j \in A : j - off \in B
      BY <1>5, <2>1, <2>2, <3>1
    <3>3. \A k \in B : \E j \in A : k = j - off
      BY <1>5, <2>1, <2>2, <3>1
    <3> QED BY <3>2, <3>3
  <2>6. Cardinality(B) = Cardinality(A)
    BY <1>1, <2>4, <2>5, MovedCounts
  <2> QED BY <1>9, <2>3, <2>6
<1>11. ASSUME NEW i \in S PROVE <<PowerAt(part, P, i - off), part[i - off]>> = <<PowerAt(text, S, i), text[i]>>
  BY <1>1, <1>10
<1>12. CountingAt(part, P) = CountingAt(text, S)
  <2>1. \A x : x \in CountingAt(text, S) <=>
              \E i \in D : text[i] # "0" /\ x = <<PowerAt(text, S, i), text[i]>>
    BY DEF CountingAt, D
  <2>2. \A x : x \in CountingAt(part, P) <=>
              \E k \in E : part[k] # "0" /\ x = <<PowerAt(part, P, k), part[k]>>
    BY DEF CountingAt, E
  <2>3. \A i \in D : i \in S
    BY <1>2
  <2>4. ASSUME NEW x \in CountingAt(text, S) PROVE x \in CountingAt(part, P)
    <3>1. PICK i \in D : text[i] # "0" /\ x = <<PowerAt(text, S, i), text[i]>>
      BY <2>1, Zenon
    <3>2. i \in S /\ i - off \in E
      BY <1>5, <2>3
    <3>3. part[i - off] # "0" /\ x = <<PowerAt(part, P, i - off), part[i - off]>>
      BY <1>1, <1>11, <3>1, <3>2, Zenon
    <3> QED BY <2>2, <3>2, <3>3, Zenon
  <2>5. ASSUME NEW x \in CountingAt(part, P) PROVE x \in CountingAt(text, S)
    <3>1. PICK k \in E : part[k] # "0" /\ x = <<PowerAt(part, P, k), part[k]>>
      BY <2>2, Zenon
    <3>2. PICK i \in D : k = i - off
      BY <1>5
    <3>3. i \in S
      BY <2>3
    <3>4. text[i] # "0" /\ x = <<PowerAt(text, S, i), text[i]>>
      BY <1>1, <1>11, <3>1, <3>2, <3>3, Zenon
    <3> QED BY <2>1, <3>4, Zenon
  <2> QED BY <2>4, <2>5, Zenon
<1>13. (\E i \in P : part[i] = "-") <=> (\E i \in S : text[i] = "-")
  BY <1>1, <1>4
<1>14. NumberAt(part, P) = NumberAt(text, S)
  BY <1>12, <1>13, NumberIs, Zenon
<1> QED BY <1>14 DEF P

\* The places of a line in a column, and in no column of numbers.
Within(line, column) == {i \in Solid(line) : column.from < i /\ i <= column.to}
NumberColumns(columns) == {column \in Range(columns) : column.type # "string"}
Words(line, columns) == Solid(line) \ UNION {Within(line, column) : column \in NumberColumns(columns)}

\* The characters of a record's texts that are no spaces.
TextNames(record) == {name \in DOMAIN record : record[name].type = "string"}
Characters(record) == UNION {{name} \X Solid(record[name].value) : name \in TextNames(record)}

\* A record that has every such character of a line once.
KeepsWords(line, columns, record) ==
  \E place \in Bijection(Words(line, columns), Characters(record)) :
    \A i \in DOMAIN place : line[i] = record[place[i][1]].value[place[i][2]]

\* A record that has a line's numbers.
KeepsNumbers(line, columns, record) ==
  \A column \in NumberColumns(columns) :
    IF Within(line, column) = {} THEN record[column.name].type = "null"
    ELSE record[column.name] =
           [type |-> column.type, value |-> NumberAt(line, Within(line, column))]

\* A record has the values of its columns.
LEMMA RecordOfColumns ==
  ASSUME NEW columns, AreColumns(columns), NEW line
  PROVE  /\ DOMAIN RecordOf(line, columns) = {columns[c].name : c \in DOMAIN columns}
         /\ \A c \in DOMAIN columns :
              RecordOf(line, columns)[columns[c].name] = Parsed(Field(line, columns[c]), columns[c])
<1> DEFINE record == RecordOf(line, columns)
           names == ColumnNames(columns)
           value(column) == Parsed(Field(line, column), column)
<1>1. Range(columns) = {columns[c] : c \in DOMAIN columns}
  BY DEF Range
<1>2. names = {columns[c].name : c \in DOMAIN columns}
  BY <1>1 DEF ColumnNames
<1>3. record = [name \in names |->
                  value(CHOOSE column \in Range(columns) : column.name = name)]
  BY DEF RecordOf
<1> HIDE DEF record, names, value
<1>4. ASSUME NEW c \in DOMAIN columns PROVE record[columns[c].name] = value(columns[c])
  <2> DEFINE found == CHOOSE column \in Range(columns) : column.name = columns[c].name
  <2>1. columns[c].name \in names
    BY <1>2
  <2>2. found = columns[c]
    <3>1. columns[c] \in Range(columns)
      BY <1>1
    <3>2. found \in Range(columns) /\ found.name = columns[c].name
      BY <3>1
    <3> HIDE DEF found
    <3>3. PICK i \in DOMAIN columns : found = columns[i]
      BY <1>1, <3>2
    <3>4. i = c
      BY <3>2, <3>3, NamesDiffer
    <3> QED BY <3>3, <3>4
  <2>3. record[columns[c].name] = value(found)
    BY <1>3, <2>1, Zenon
  <2> QED BY <2>2, <2>3, Zenon
<1> QED BY <1>2, <1>3, <1>4 DEF record, value

\* The places that two columns have in a line are different ones.
LEMMA WithinApart ==
  ASSUME NEW columns, AreColumns(columns), NEW X, NEW line \in Seq(X)
  PROVE  \A c, e \in DOMAIN columns :
           c # e => Within(line, columns[c]) \cap Within(line, columns[e]) = {}
<1>1. \A c \in DOMAIN columns : columns[c].from \in Nat /\ columns[c].to \in Nat
  BY DEF AreColumns
<1> SUFFICES ASSUME NEW c \in DOMAIN columns, NEW e \in DOMAIN columns, c # e,
                    NEW i \in Within(line, columns[c]), i \in Within(line, columns[e])
             PROVE  FALSE
  OBVIOUS
<1>2. columns[c].to <= columns[e].from \/ columns[e].to <= columns[c].from
  BY ColumnsApart
<1>3. /\ columns[c].from < i /\ i <= columns[c].to
      /\ columns[e].from < i /\ i <= columns[e].to
      /\ i \in DOMAIN line
  BY Zenon DEF Within, Solid
<1>4. i \in Int
  BY <1>3
<1> QED BY <1>1, <1>2, <1>3, <1>4

\* A record has its line's numbers.
LEMMA RecordKeepsNumbers ==
  ASSUME NEW columns, AreColumns(columns), NEW X, NEW line \in Seq(X)
  PROVE  KeepsNumbers(line, columns, RecordOf(line, columns))
<1> DEFINE record == RecordOf(line, columns)
<1> SUFFICES ASSUME NEW column \in NumberColumns(columns)
             PROVE  IF Within(line, column) = {} THEN record[column.name].type = "null"
                    ELSE record[column.name] =
                           [type |-> column.type, value |-> NumberAt(line, Within(line, column))]
  BY DEF KeepsNumbers
<1> DEFINE raw == Field(line, column)
           S == Within(line, column)
<1>1. PICK c \in DOMAIN columns : column = columns[c]
  BY DEF NumberColumns, Range
<1>2. column.type # "string"
  BY DEF NumberColumns
<1>3. column.from \in Nat /\ column.to \in Nat
  BY <1>1 DEF AreColumns
<1>4. record[column.name] = Parsed(raw, column)
  BY <1>1, RecordOfColumns, Zenon
<1>5. PICK off : Shifts(line, raw, S, off)
  BY <1>3, FieldShifts, Zenon DEF Within
<1>6. S \in SUBSET Int /\ IsFiniteSet(S)
  <2>1. S \in SUBSET (1..Len(line))
    <3>1. \A i \in S : i \in DOMAIN line
      BY Zenon DEF Within, Solid
    <3> HIDE DEF S
    <3> QED BY <3>1
  <2>2. IsFiniteSet(1..Len(line))
    BY FS_Interval
  <2>3. IsFiniteSet(S)
    BY <2>1, <2>2, FS_Subset, Zenon
  <2> QED BY <2>1, <2>3
<1> HIDE DEF record, raw, S
<1>7. CASE S = {}
  <2>1. Solid(raw) = {}
    BY <1>5, <1>7, Zenon DEF Shifts
  <2>2. raw = <<>>
    BY <1>3, <2>1, FieldIsEmpty, Zenon DEF raw
  <2>3. record[column.name] = [type |-> "null", value |-> <<>>]
    BY <1>2, <1>4, <2>2 DEF Parsed
  <2> QED BY <1>7, <2>3 DEF record, S
<1>8. CASE S # {}
  <2>1. Solid(raw) # {}
    BY <1>5, <1>8, Zenon DEF Shifts
  <2>2. raw # <<>>
    <3>1. Solid(<<>>) = {}
      BY DEF Solid
    <3> QED BY <2>1, <3>1, Zenon
  <2>3. record[column.name] = [type |-> column.type, value |-> NumberAt(raw, DOMAIN raw)]
    BY <1>2, <1>4, <2>2 DEF Parsed
  <2>4. NumberAt(raw, Solid(raw)) = NumberAt(line, S)
    BY <1>5, <1>6, NumberShifts, Zenon
  <2>5. record[column.name] = [type |-> column.type, value |-> NumberAt(line, S)]
    BY <2>3, <2>4, NumberIsInked
  <2> QED BY <1>8, <2>5 DEF record, S
<1> QED BY <1>7, <1>8

\* A record has every character once that no column of numbers has, if the columns
\* cover its line.
LEMMA RecordKeepsWords ==
  ASSUME NEW columns, AreColumns(columns), NEW X, NEW line \in Seq(X),
         ColumnsCoverLine(line, columns)
  PROVE  KeepsWords(line, columns, RecordOf(line, columns))
<1> DEFINE C == {c \in DOMAIN columns : columns[c].type = "string"}
           S == Words(line, columns)
           record == RecordOf(line, columns)
           name(c) == columns[c].name
           text(c) == record[columns[c].name].value
           P == Characters(record)
<1>1. \A c \in C : c \in DOMAIN columns /\ columns[c].from \in Nat /\ columns[c].to \in Nat
  BY DEF AreColumns
<1>2. \A c, e \in DOMAIN columns : c # e => Within(line, columns[c]) \cap Within(line, columns[e]) = {}
  BY WithinApart, Zenon
<1>3. \A c \in C : Within(line, columns[c]) \in SUBSET S
  <2> SUFFICES ASSUME NEW c \in C, NEW i \in Within(line, columns[c]),
                      NEW column \in NumberColumns(columns), i \in Within(line, column)
               PROVE  FALSE
    BY DEF Words, Within
  <2>1. PICK e \in DOMAIN columns : column = columns[e] /\ columns[e].type # "string"
    BY DEF NumberColumns, Range
  <2>2. c \in DOMAIN columns /\ c # e
    BY <2>1
  <2> QED BY <1>2, <2>1, <2>2
<1>4. \A i \in S : \E c \in C : i \in Within(line, columns[c])
  <2> SUFFICES ASSUME NEW i \in S PROVE \E c \in C : i \in Within(line, columns[c])
    OBVIOUS
  <2>1. i \in Solid(line) /\ \A column \in NumberColumns(columns) : i \notin Within(line, column)
    BY DEF Words
  <2>2. PICK column \in Range(columns) : column.from < i /\ i <= column.to
    BY <2>1 DEF ColumnsCoverLine
  <2>3. PICK c \in DOMAIN columns : column = columns[c]
    BY DEF Range
  <2>4. i \in Within(line, column)
    BY <2>1, <2>2 DEF Within
  <2>5. column.type = "string"
    BY <2>1, <2>4 DEF NumberColumns
  <2> QED BY <2>3, <2>4, <2>5
<1>5. \A c \in C : \E off : Shifts(line, Field(line, columns[c]), Within(line, columns[c]), off)
  BY <1>1, FieldShifts, Zenon DEF Within
<1> DEFINE off == [c \in C |-> CHOOSE o : Shifts(line, Field(line, columns[c]), Within(line, columns[c]), o)]
<1>6. \A c \in C : Shifts(line, Field(line, columns[c]), Within(line, columns[c]), off[c])
  BY <1>5
<1>7. /\ TextNames(record) = {name(c) : c \in C}
      /\ \A c \in C : text(c) = Field(line, columns[c])
  <2>1. /\ DOMAIN record = {columns[c].name : c \in DOMAIN columns}
        /\ \A c \in DOMAIN columns : record[columns[c].name] = Parsed(Field(line, columns[c]), columns[c])
    BY RecordOfColumns, Zenon
  <2> HIDE DEF record
  <2>2. ASSUME NEW c \in DOMAIN columns
        PROVE  /\ record[columns[c].name].type = "string" <=> columns[c].type = "string"
               /\ columns[c].type = "string" =>
                    record[columns[c].name].value = Field(line, columns[c])
    <3>1. record[columns[c].name] = Parsed(Field(line, columns[c]), columns[c])
      BY <2>1
    <3> QED BY <3>1 DEF Parsed
  <2> QED BY <2>1, <2>2 DEF TextNames
<1>8. \A c, e \in C : name(c) = name(e) => c = e
  BY NamesDiffer
<1>0. \A c \in C : text(c) = record[name(c)].value /\ c \in DOMAIN columns
  OBVIOUS
<1> HIDE DEF off, S, text, name, record, C
<1>9. ASSUME NEW c \in C
      PROVE  /\ off[c] \in Int
             /\ Solid(text(c)) = {i - off[c] : i \in Within(line, columns[c])}
             /\ \A i \in Within(line, columns[c]) : text(c)[i - off[c]] = line[i]
  BY <1>6, <1>7, Zenon DEF Shifts
<1> DEFINE at == [i \in S |-> CHOOSE c \in C : i \in Within(line, columns[c])]
           place == [i \in S |-> <<name(at[i]), i - off[at[i]]>>]
<1>10. \A i \in S : at[i] \in C /\ i \in Within(line, columns[at[i]])
  BY <1>4
<1>11. ASSUME NEW c \in C, NEW i \in Within(line, columns[c]) PROVE i \in S /\ at[i] = c
  <2>1. i \in S
    BY <1>3
  <2> HIDE DEF at
  <2> QED BY <1>0, <1>2, <1>10, <2>1, Zenon
<1>12. \A i \in S : i \in Int
  <2>1. \A i \in S : i \in DOMAIN line
    BY Zenon DEF S, Words, Solid
  <2> QED BY <2>1
<1> HIDE DEF at
<1>13. DOMAIN place = S /\ \A i \in S : place[i] = <<name(at[i]), i - off[at[i]]>>
  OBVIOUS
<1> HIDE DEF place
<1>14. \A p : p \in P <=> \E c \in C : p \in {name(c)} \X Solid(text(c))
  BY <1>0, <1>7 DEF Characters
<1> HIDE DEF P
<1>15. ASSUME NEW i \in S
       PROVE  /\ place[i] \in P /\ line[i] = record[place[i][1]].value[place[i][2]]
  <2> DEFINE c == at[i]
             k == i - off[c]
  <2>1. c \in C /\ i \in Within(line, columns[c])
    BY <1>10
  <2>2. k \in Solid(text(c)) /\ text(c)[k] = line[i] /\ text(c) = record[name(c)].value
    BY <1>0, <1>9, <2>1
  <2>3. place[i] = <<name(c), k>>
    BY <1>13
  <2> HIDE DEF c, k
  <2>4. place[i] \in {name(c)} \X Solid(text(c))
    BY <2>2, <2>3
  <2>5. place[i][1] = name(c) /\ place[i][2] = k
    BY <2>3
  <2> QED BY <1>14, <2>1, <2>2, <2>4, <2>5
<1>16. ASSUME NEW i \in S, NEW j \in S, place[i] = place[j] PROVE i = j
  <2>1. name(at[i]) = name(at[j]) /\ i - off[at[i]] = j - off[at[j]]
    BY <1>13, <1>16
  <2>2. at[i] \in C /\ at[j] \in C /\ at[i] = at[j]
    BY <1>8, <1>10, <2>1
  <2>3. off[at[i]] \in Int /\ i - off[at[i]] = j - off[at[i]] /\ i \in Int /\ j \in Int
    BY <1>9, <1>12, <2>1, <2>2
  <2> QED BY <2>3
<1>17. ASSUME NEW p \in P PROVE \E i \in S : place[i] = p
  <2>1. PICK c \in C : p \in {name(c)} \X Solid(text(c))
    BY <1>14
  <2>2. PICK k \in Solid(text(c)) : p = <<name(c), k>>
    BY <2>1
  <2>3. PICK i \in Within(line, columns[c]) : k = i - off[c]
    BY <1>9
  <2>4. i \in S /\ at[i] = c
    BY <1>11
  <2>5. place[i] = p
    BY <1>13, <2>2, <2>3, <2>4
  <2> QED BY <2>4, <2>5
<1>18. place \in [S -> P]
  <2>1. place = [i \in S |-> place[i]]
    BY DEF place
  <2> QED BY <1>15, <2>1
<1>19. place \in Bijection(S, P)
  BY <1>13, <1>16, <1>17, <1>18, Zenon DEF Bijection, Injection, Surjection, IsInjective
<1>20. \E way \in Bijection(S, P) : \A i \in DOMAIN way : line[i] = record[way[i][1]].value[way[i][2]]
  BY <1>13, <1>15, <1>19
<1> QED BY <1>20 DEF KeepsWords, S, P, record

\* What ConvertFixedWidth leaves.
TableInv ==
  /\ sample.kind = "fixed_width_structured" => sample \in Tables
  /\ Adapted("fixed_width_structured") =>
       /\ Convertible(sample)
       /\ prepared.artifacts = [k \in DOMAIN DataLines(sample) |->
                                  RecordOf(DataLines(sample)[k], sample.columns)]

\* Records that are, in order, those of the lines I of a text.
RecordsOfLines(records, columns, lines, I) ==
  \E of \in Bijection(DOMAIN records, I) :
    \A k \in DOMAIN of :
      /\ \A l \in 1..(k - 1) : of[l] < of[k]
      /\ KeepsWords(lines[of[k]], columns, records[k])
      /\ KeepsNumbers(lines[of[k]], columns, records[k])

\* _convert_fixed_width, whatever the table.
LEMMA TableConverted ==
  ASSUME NEW table \in Tables, Convertible(table)
  PROVE  RecordsOfLines([k \in DOMAIN DataLines(table) |-> RecordOf(DataLines(table)[k], table.columns)],
                        table.columns, table.lines, Data(table))
<1> DEFINE lines == table.lines
           columns == table.columns
           n == Len(lines)
           I == Data(table)
           m == Cardinality(I)
           of == Listed(I)
           data == DataLines(table)
           records == [k \in DOMAIN data |-> RecordOf(data[k], columns)]
<1>1. /\ lines \in Seq(Range(lines)) /\ \A line \in Range(lines) : line \in Seq(Range(line))
      /\ columns \in Seq(Range(columns))
      /\ \A column \in Range(columns) : column.from \in Nat /\ column.to \in Nat
  BY TablesAssumption
<1>2. n \in Nat /\ DOMAIN lines = 1..n
  BY <1>1
<1>3. AreColumns(columns)
  <2>1. \A i \in DOMAIN columns : columns[i] \in Range(columns)
    BY DEF Range
  <2>2. ColumnsAreValid(columns)
    BY DEF Convertible
  <2> QED BY <1>1, <2>1, <2>2 DEF AreColumns
<1>4. I \in SUBSET (1..n)
  BY <1>2 DEF Data
<1>5. data = Kept(lines, I)
  BY DEF DataLines
<1>6. \A line \in Range(data) : ColumnsCoverLine(line, columns)
  BY DEF Convertible
<1> HIDE DEF lines, columns, n, I, data
<1>7. /\ m \in Nat /\ of \in Bijection(1..m, I)
      /\ \A r, q \in 1..m : q < r => of[q] < of[r]
  BY <1>2, <1>4, ListedInOrder
<1>8. DOMAIN data = 1..m /\ \A k \in 1..m : data[k] = lines[of[k]]
  BY <1>5 DEF Kept
<1> HIDE DEF of, m
<1>9. DOMAIN of = 1..m /\ \A k \in 1..m : of[k] \in I
  BY <1>7, Zenon DEF Bijection, Injection
<1>10. ASSUME NEW k \in 1..m
       PROVE  /\ \A l \in 1..(k - 1) : of[l] < of[k]
              /\ KeepsWords(lines[of[k]], columns, records[k])
              /\ KeepsNumbers(lines[of[k]], columns, records[k])
  <2>1. \A l \in 1..(k - 1) : l \in 1..m /\ l < k
    BY <1>7
  <2>2. records[k] = RecordOf(data[k], columns)
    BY <1>8
  <2>3. data[k] \in Range(data)
    BY <1>8 DEF Range
  <2>4. data[k] \in Range(lines)
    BY <1>2, <1>4, <1>8, <1>9, Zenon DEF Range
  <2>5. data[k] \in Seq(Range(data[k])) /\ ColumnsCoverLine(data[k], columns)
    BY <1>1, <1>6, <2>3, <2>4
  <2>6. /\ KeepsWords(data[k], columns, RecordOf(data[k], columns))
        /\ KeepsNumbers(data[k], columns, RecordOf(data[k], columns))
    BY <1>3, <2>5, RecordKeepsWords, RecordKeepsNumbers
  <2> HIDE DEF records
  <2> QED BY <1>7, <1>8, <2>1, <2>2, <2>6
<1>11. DOMAIN records = 1..m
  BY <1>8
<1> HIDE DEF records
<1>12. RecordsOfLines(records, columns, lines, I)
  BY <1>7, <1>9, <1>10, <1>11, Zenon DEF RecordsOfLines
<1> QED BY <1>12 DEF records, lines, columns, I, data

\* For every table: the records of a converted one are, in order, those of the lines after
\* the header that are not blank; every character of such a line that no numeric column
\* has is one character of one of the record's texts, and a numeric column has the
\* number that the line's characters in its interval spell (longbench_v2.py:220-328).
THEOREM RecordsKept == AdapterSpec => []RecordsKeepTheirLine
<1>1. AdapterInit => TableInv
  BY KindsAssumption DEF AdapterInit, TableInv, Adapted, Unprepared
<1>2. TableInv /\ [AdapterNext]_adapterVars => TableInv'
  <2> SUFFICES ASSUME TableInv, [AdapterNext]_adapterVars PROVE TableInv'
    OBVIOUS
  <2>1. CASE UNCHANGED adapterVars
    BY <2>1, Zenon DEF adapterVars, TableInv, Adapted
  <2>2. CASE AdapterNext
    <3>1. sample' = sample
      BY <2>2 DEF AdapterNext
    <3>2. ConvertFixedWidth \/ sample.kind # "fixed_width_structured"
      BY <2>2, Zenon DEF AdapterNext, SplitDocuments, SegmentVideo, PrepareFullCorpus, PrepareCandidates
    <3>3. CASE ConvertFixedWidth /\ Convertible(sample)
      <4>1. prepared'.artifacts = [k \in DOMAIN DataLines(sample) |->
                                     RecordOf(DataLines(sample)[k], sample.columns)]
        BY <3>3 DEF ConvertFixedWidth, Prepared
      <4> QED BY <3>1, <3>3, <4>1, Zenon DEF TableInv
    <3>4. CASE ConvertFixedWidth /\ ~Convertible(sample)
      BY <3>1, <3>4 DEF ConvertFixedWidth, TableInv, Adapted, Refused
    <3>5. CASE sample.kind # "fixed_width_structured"
      BY <3>1, <3>5 DEF TableInv, Adapted
    <3> QED BY <3>2, <3>3, <3>4, <3>5
  <2> QED BY <2>1, <2>2
<1>3. TableInv => RecordsKeepTheirLine
  <2> SUFFICES ASSUME TableInv, Adapted("fixed_width_structured") PROVE RecordsKeepTheirLine
    BY Zenon DEF RecordsKeepTheirLine
  <2>1. sample \in Tables /\ Convertible(sample)
    BY DEF TableInv, Adapted
  <2>2. RecordsOfLines(prepared.artifacts, sample.columns, sample.lines, Data(sample))
    <3>1. prepared.artifacts = [k \in DOMAIN DataLines(sample) |->
                                  RecordOf(DataLines(sample)[k], sample.columns)]
      BY DEF TableInv
    <3> QED BY <2>1, <3>1, TableConverted
  <2> QED BY <2>2, Zenon DEF RecordsKeepTheirLine, RecordsOfLines, KeepsWords, KeepsNumbers, Words,
                             Within, NumberColumns, Characters, TextNames, Data
<1> QED BY <1>1, <1>2, <1>3, PTL DEF AdapterSpec
=============================================================================
