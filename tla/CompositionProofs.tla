------------------------- MODULE CompositionProofs -------------------------
(***************************************************************************)
(* Requests over records compose: what the operators of RecordOperators make *)
(* of two parts and then merge is what they make of the whole, and they fail  *)
(* when that fails; derivations can be asked for one after the other.         *)
(***************************************************************************)
EXTENDS AlgorithmProofs

-----------------------------------------------------------------------------
(* Sequences, one after the other. *)

\* u is s, of n elements, and then t, of m.
Joins(u, s, n, t, m) ==
  /\ n \in Nat /\ m \in Nat /\ IsSequence(u) /\ Len(u) = n + m /\ DOMAIN u = 1..(n + m)
  /\ \A i \in 1..n : u[i] = s[i]
  /\ \A j \in 1..m : u[n + j] = t[j]

\* Two sequences, one after the other.
LEMMA Joined ==
  ASSUME NEW s, IsSequence(s), NEW t, IsSequence(t)
  PROVE  Joins(s \o t, s, Len(s), t, Len(t))
<1> DEFINE X == Range(s) \cup Range(t)
<1>1. Len(s) \in Nat /\ Len(t) \in Nat /\ s \in [1..Len(s) -> Range(s)] /\ t \in [1..Len(t) -> Range(t)]
  BY ElementsOf
<1>2. s \in [1..Len(s) -> X] /\ t \in [1..Len(t) -> X]
  BY <1>1
<1> HIDE DEF X
<1>3. s \in Seq(X) /\ t \in Seq(X)
  BY <1>1, <1>2, SequenceOf
<1>4. /\ s \o t \in Seq(X) /\ Len(s \o t) = Len(s) + Len(t)
      /\ \A i \in 1..Len(s) : (s \o t)[i] = s[i]
      /\ \A j \in 1..Len(t) : (s \o t)[Len(s) + j] = t[j]
  BY <1>1, <1>3
<1>5. s \o t \in [1..(Len(s) + Len(t)) -> X] /\ Len(s) + Len(t) \in Nat
  <2>1. \A z, Y : z \in Seq(Y) => z \in [1..Len(z) -> Y]
    OBVIOUS
  <2>2. s \o t \in [1..Len(s \o t) -> X]
    BY <1>4, <2>1, Zenon
  <2>3. Len(s) + Len(t) \in Nat
    BY <1>1
  <2> QED BY <1>4, <2>2, <2>3, Zenon
<1>6. IsSequence(s \o t) /\ DOMAIN (s \o t) = 1..(Len(s) + Len(t))
  BY <1>5, SequenceOf, Zenon
<1> QED BY <1>1, <1>4, <1>6 DEF Joins

\* A place in them is one in the first or in the second.
LEMMA PlacesJoined ==
  ASSUME NEW n \in Nat, NEW m \in Nat
  PROVE  /\ \A i \in 1..(n + m) : i \in 1..n \/ \E j \in 1..m : i = n + j
         /\ \A i \in 1..n : i \in 1..(n + m)
         /\ \A j \in 1..m : n + j \in 1..(n + m)
<1>1. ASSUME NEW i \in 1..(n + m), i \notin 1..n PROVE \E j \in 1..m : i = n + j
  <2>1. i - n \in 1..m /\ i = n + (i - n)
    BY <1>1
  <2> QED BY <2>1
<1> QED BY <1>1

\* They have what either has.
LEMMA RangeJoined ==
  ASSUME NEW s, IsSequence(s), NEW t, IsSequence(t)
  PROVE  Range(s \o t) = Range(s) \cup Range(t)
<1> DEFINE n == Len(s)
           m == Len(t)
           u == s \o t
<1>1. /\ n \in Nat /\ m \in Nat /\ DOMAIN u = 1..(n + m)
      /\ \A i \in 1..n : u[i] = s[i]
      /\ \A j \in 1..m : u[n + j] = t[j]
  BY Joined DEF Joins
<1>2. DOMAIN s = 1..n /\ DOMAIN t = 1..m
  BY ElementsOf
<1> HIDE DEF n, m, u
<1>3. /\ \A i \in 1..(n + m) : i \in 1..n \/ \E j \in 1..m : i = n + j
      /\ \A i \in 1..n : i \in 1..(n + m)
      /\ \A j \in 1..m : n + j \in 1..(n + m)
  BY <1>1, PlacesJoined
<1>4. ASSUME NEW x \in Range(u) PROVE x \in Range(s) \/ x \in Range(t)
  <2>1. PICK i \in 1..(n + m) : u[i] = x
    BY <1>1 DEF Range
  <2>2. CASE i \in 1..n
    BY <1>1, <1>2, <2>1, <2>2, Zenon DEF Range
  <2>3. CASE \E j \in 1..m : i = n + j
    BY <1>1, <1>2, <2>1, <2>3, Zenon DEF Range
  <2> QED BY <1>3, <2>2, <2>3
<1>5. \A x \in Range(s) : x \in Range(u)
  BY <1>1, <1>2, <1>3, Zenon DEF Range
<1>6. \A x \in Range(t) : x \in Range(u)
  BY <1>1, <1>2, <1>3, Zenon DEF Range
<1> QED BY <1>4, <1>5, <1>6 DEF u

\* Sequences of one length with the same elements are the same.
LEMMA SameSequence ==
  ASSUME NEW s, IsSequence(s), NEW t, IsSequence(t), Len(s) = Len(t),
         \A i \in 1..Len(s) : s[i] = t[i]
  PROVE  s = t
<1> DEFINE n == Len(s)
<1>1. s \in [1..n -> Range(s)] /\ t \in [1..n -> Range(t)]
  BY ElementsOf
<1>2. s = [i \in 1..n |-> s[i]] /\ t = [i \in 1..n |-> t[i]]
  BY <1>1
<1>3. \A i \in 1..n : s[i] = t[i]
  OBVIOUS
<1> HIDE DEF n
<1> QED BY <1>2, <1>3

\* What has the elements of both is both, joined.
LEMMA JoinsIsJoined ==
  ASSUME NEW s, IsSequence(s), NEW t, IsSequence(t), NEW u, Joins(u, s, Len(s), t, Len(t))
  PROVE  u = s \o t
<1> DEFINE v == s \o t
           n == Len(s)
           m == Len(t)
<1>1. Joins(u, s, n, t, m) /\ Joins(v, s, n, t, m)
  BY Joined, Zenon
<1> HIDE DEF v, n, m
<1>2. /\ n \in Nat /\ m \in Nat /\ IsSequence(u) /\ Len(u) = n + m
      /\ IsSequence(v) /\ Len(v) = n + m
  BY <1>1, Zenon DEF Joins
<1>3. ASSUME NEW i \in 1..(n + m) PROVE u[i] = v[i]
  <2>1. i \in 1..n \/ \E j \in 1..m : i = n + j
    <3>1. n \in Nat /\ m \in Nat
      BY <1>2
    <3> QED BY <3>1, PlacesJoined, Zenon
  <2>2. CASE i \in 1..n
    BY <1>1, <2>2 DEF Joins
  <2>3. CASE \E j \in 1..m : i = n + j
    <3>1. PICK j \in 1..m : i = n + j
      BY <2>3
    <3>2. u[n + j] = t[j] /\ v[n + j] = t[j]
      BY <1>1 DEF Joins
    <3> QED BY <3>1, <3>2
  <2> QED BY <2>1, <2>2, <2>3
<1>4. u = v
  BY <1>2, <1>3, SameSequence
<1> QED BY <1>4 DEF v

\* A function of the first numbers is a sequence.
LEMMA MadeSequence ==
  ASSUME NEW m \in Nat, NEW s, s = [i \in 1..m |-> s[i]]
  PROVE  IsSequence(s) /\ Len(s) = m /\ DOMAIN s = 1..m
<1>1. s \in [1..m -> Range(s)]
  BY DEF Range
<1> QED BY <1>1, SequenceOf, Zenon

\* A function of the places of a sequence is a sequence.
LEMMA OverPlaces ==
  ASSUME NEW s, IsSequence(s), NEW f, f = [i \in DOMAIN s |-> f[i]]
  PROVE  IsSequence(f) /\ Len(f) = Len(s) /\ DOMAIN f = DOMAIN s
<1> DEFINE n == Len(s)
<1>1. n \in Nat /\ DOMAIN s = 1..n
  BY ElementsOf
<1> HIDE DEF n
<1>2. f = [i \in 1..n |-> f[i]]
  BY <1>1
<1> QED BY <1>1, <1>2, MadeSequence DEF n

\* What is done to every element of both is done to every element of each.
Maps(h, f, s, g, t) ==
  /\ f = [i \in DOMAIN s |-> f[i]] /\ g = [i \in DOMAIN t |-> g[i]]
  /\ h = [i \in DOMAIN (s \o t) |-> h[i]]
  /\ \A i \in DOMAIN s : h[i] = f[i]
  /\ \A j \in DOMAIN t : h[Len(s) + j] = g[j]

\* What is done to every element of both is a sequence, and is what is done to each of them.
LEMMA MapJoined ==
  ASSUME NEW s, IsSequence(s), NEW t, IsSequence(t), NEW f, NEW g, NEW h, Maps(h, f, s, g, t)
  PROVE  h = f \o g /\ IsSequence(f) /\ IsSequence(g)
<1> DEFINE n == Len(s)
           m == Len(t)
<1>1. /\ n \in Nat /\ m \in Nat /\ IsSequence(s \o t) /\ Len(s \o t) = n + m
      /\ DOMAIN (s \o t) = 1..(n + m)
  BY Joined DEF Joins
<1>2. DOMAIN s = 1..n /\ DOMAIN t = 1..m
  BY ElementsOf
<1>3. IsSequence(f) /\ Len(f) = n
  BY OverPlaces DEF Maps
<1>4. IsSequence(g) /\ Len(g) = m
  BY OverPlaces DEF Maps
<1>5. IsSequence(h) /\ Len(h) = n + m /\ DOMAIN h = 1..(n + m)
  <2>1. IsSequence(h) /\ Len(h) = Len(s \o t) /\ DOMAIN h = DOMAIN (s \o t)
    BY <1>1, OverPlaces, Zenon DEF Maps
  <2> QED BY <2>1, <1>1
<1>6. /\ \A i \in 1..n : h[i] = f[i]
      /\ \A j \in 1..m : h[n + j] = g[j]
  BY <1>2, Zenon DEF Maps
<1> HIDE DEF n, m
<1>7. Joins(h, f, n, g, m)
  BY <1>1, <1>5, <1>6, Zenon DEF Joins
<1>8. h = f \o g
  <2>1. Joins(h, f, Len(f), g, Len(g))
    BY <1>3, <1>4, <1>7
  <2> QED BY <1>3, <1>4, <2>1, JoinsIsJoined, Zenon
<1> QED BY <1>3, <1>4, <1>8

\* f names the elements of a set of numbers, ascending.
Ascends(f, c, S) ==
  /\ c \in Nat /\ f \in [1..c -> S]
  /\ \A q, r \in 1..c : q < r => f[q] < f[r]
  /\ \A x \in S : \E r \in 1..c : f[r] = x

\* There is only one way to list the elements of a set of numbers in order.
LEMMA ListedIs ==
  ASSUME NEW n \in Nat, NEW S \in SUBSET (1..n), NEW c, NEW f, Ascends(f, c, S)
  PROVE  Cardinality(S) = c /\ Listed(S) = f
<1>1. /\ c \in Nat /\ f \in [1..c -> S]
      /\ \A q, r \in 1..c : q < r => f[q] < f[r]
      /\ \A x \in S : \E r \in 1..c : f[r] = x
  BY DEF Ascends
<1>2. \A r \in 1..c : f[r] \in 1..n
  BY <1>1, Zenon
<1>3. ASSUME NEW k \in 0..c PROVE Cardinality({f[i] : i \in 1..k}) = k
  <2>1. k \in Nat
    OBVIOUS
  <2>2. 1..k \subseteq DOMAIN f
    BY <1>1
  <2>3. ASSUME NEW i \in 1..k, NEW j \in 1..k, f[i] = f[j] PROVE i = j
    <3>1. i \in 1..c /\ j \in 1..c /\ f[i] \in Int /\ f[j] \in Int
      BY <1>1, <1>2
    <3>2. ~(i < j) /\ ~(j < i)
      BY <1>1, <2>3, <3>1
    <3> QED BY <3>1, <3>2
  <2>4. Differs(f, k)
    BY <2>2, <2>3 DEF Differs
  <2> QED BY <2>1, <2>4, ImageCounts, Zenon
<1>4. S = {f[i] : i \in 1..c}
  BY <1>1, Zenon
<1>5. Cardinality(S) = c
  <2>1. c \in 0..c
    BY <1>1
  <2> QED BY <1>3, <1>4, <2>1
<1>6. ASSUME NEW r \in 1..c PROVE Listed(S)[r] = f[r]
  <2> DEFINE Before(i) == {j \in S : j < i}
             Is(i) == Cardinality(Before(i)) = r - 1
  <2>1. ASSUME NEW q \in 1..c PROVE Cardinality(Before(f[q])) = q - 1
    <3>1. Before(f[q]) = {f[i] : i \in 1..(q - 1)}
      <4>1. ASSUME NEW x \in Before(f[q]) PROVE x \in {f[i] : i \in 1..(q - 1)}
        <5>1. PICK i \in 1..c : f[i] = x
          BY <1>1
        <5>2. x \in Int /\ f[q] \in Int /\ x < f[q]
          BY <1>2, <5>1
        <5>3. ~(q < i) /\ i # q
          BY <1>1, <5>1, <5>2
        <5> QED BY <5>1, <5>3
      <4>2. ASSUME NEW i \in 1..(q - 1) PROVE f[i] \in Before(f[q])
        BY <1>1
      <4> QED BY <4>1, <4>2, Zenon
    <3>2. q - 1 \in 0..c
      BY <1>1
    <3> QED BY <1>3, <3>1, <3>2
  <2>2. f[r] \in S /\ Is(f[r])
    BY <1>1, <2>1
  <2>3. ASSUME NEW i \in S, Is(i) PROVE i = f[r]
    <3>1. PICK q \in 1..c : f[q] = i
      BY <1>1
    <3>2. Cardinality(Before(i)) = q - 1
      BY <2>1, <3>1
    <3>3. q = r
      BY <2>3, <3>2
    <3> QED BY <3>1, <3>3
  <2> HIDE DEF Is
  <2>4. (CHOOSE i \in S : Is(i)) = f[r]
    BY <2>2, <2>3
  <2>5. r \in 1..Cardinality(S)
    BY <1>5
  <2> QED BY <2>4, <2>5 DEF Listed, Is
<1>7. f = [r \in 1..c |-> f[r]]
  BY <1>1
<1>8. Listed(S) = [r \in 1..c |-> Listed(S)[r]]
  <2> DEFINE at(r) == CHOOSE i \in S : Cardinality({j \in S : j < i}) = r - 1
  <2>1. Listed(S) = [r \in 1..c |-> at(r)]
    BY <1>5 DEF Listed
  <2> HIDE DEF at
  <2> QED BY <2>1
<1> QED BY <1>5, <1>6, <1>7, <1>8

\* A selection of both is what is selected of the first, and then of the second.
Selects(S, s, I, t, J) ==
  /\ I \in SUBSET DOMAIN s /\ J \in SUBSET DOMAIN t /\ S \in SUBSET DOMAIN (s \o t)
  /\ \A i \in DOMAIN s : i \in S <=> i \in I
  /\ \A j \in DOMAIN t : Len(s) + j \in S <=> j \in J

\* What is kept of both is what is kept of the first, and then of the second.
LEMMA KeptJoined ==
  ASSUME NEW s, IsSequence(s), NEW t, IsSequence(t), NEW I, NEW J, NEW S, Selects(S, s, I, t, J)
  PROVE  /\ IsSequence(Kept(s, I)) /\ IsSequence(Kept(t, J))
         /\ Kept(s \o t, S) = Kept(s, I) \o Kept(t, J)
<1> DEFINE n == Len(s)
           m == Len(t)
           u == s \o t
           c == Cardinality(I)
           d == Cardinality(J)
           F == Listed(I)
           G == Listed(J)
           f == [r \in 1..(c + d) |-> IF r <= c THEN F[r] ELSE n + G[r - c]]
<1>1. Joins(u, s, n, t, m)
  BY Joined, Zenon
<1>2. /\ n \in Nat /\ m \in Nat /\ DOMAIN u = 1..(n + m)
      /\ \A i \in 1..n : u[i] = s[i]
      /\ \A j \in 1..m : u[n + j] = t[j]
  BY <1>1 DEF Joins
<1>3. DOMAIN s = 1..n /\ DOMAIN t = 1..m
  BY ElementsOf
<1>4. I \in SUBSET (1..n) /\ J \in SUBSET (1..m) /\ S \in SUBSET (1..(n + m))
  BY <1>2, <1>3 DEF Selects
<1>5. /\ \A i \in 1..n : i \in S <=> i \in I
      /\ \A j \in 1..m : n + j \in S <=> j \in J
  BY <1>3 DEF Selects
<1> HIDE DEF n, m, u
<1>6. /\ c \in Nat /\ F \in Bijection(1..c, I)
      /\ \A r, q \in 1..c : q < r => F[q] < F[r]
  <2>1. /\ Cardinality(I) \in 0..n
        /\ Listed(I) \in Bijection(1..Cardinality(I), I)
        /\ \A r, q \in 1..Cardinality(I) : q < r => Listed(I)[q] < Listed(I)[r]
    BY <1>2, <1>4, ListedInOrder
  <2> QED BY <1>2, <2>1
<1>7. /\ d \in Nat /\ G \in Bijection(1..d, J)
      /\ \A r, q \in 1..d : q < r => G[q] < G[r]
  <2>1. /\ Cardinality(J) \in 0..m
        /\ Listed(J) \in Bijection(1..Cardinality(J), J)
        /\ \A r, q \in 1..Cardinality(J) : q < r => Listed(J)[q] < Listed(J)[r]
    BY <1>2, <1>4, ListedInOrder
  <2> QED BY <1>2, <2>1
<1> HIDE DEF c, d, F, G
<1>8. /\ \A r \in 1..c : F[r] \in I /\ F[r] \in 1..n
      /\ \A i \in I : \E r \in 1..c : F[r] = i
  BY <1>4, <1>6, Zenon DEF Bijection, Injection, Surjection
<1>9. /\ \A r \in 1..d : G[r] \in J /\ G[r] \in 1..m
      /\ \A j \in J : \E r \in 1..d : G[r] = j
  BY <1>4, <1>7, Zenon DEF Bijection, Injection, Surjection
<1>10. /\ c + d \in Nat
       /\ \A r \in 1..c : r \in 1..(c + d) /\ f[r] = F[r]
       /\ \A r \in 1..d : c + r \in 1..(c + d) /\ f[c + r] = n + G[r]
  <2>1. c + d \in Nat
    BY <1>6, <1>7
  <2>2. ASSUME NEW r \in 1..c PROVE r \in 1..(c + d) /\ f[r] = F[r]
    BY <1>6, <1>7
  <2>3. ASSUME NEW r \in 1..d PROVE c + r \in 1..(c + d) /\ f[c + r] = n + G[r]
    <3>1. c + r \in 1..(c + d) /\ ~(c + r <= c) /\ (c + r) - c = r
      BY <1>6, <1>7
    <3> QED BY <3>1
  <2> QED BY <2>1, <2>2, <2>3, Zenon
<1>11. DOMAIN f = 1..(c + d) /\ f = [r \in 1..(c + d) |-> f[r]]
  OBVIOUS
<1> HIDE DEF f
<1>12. \A r \in 1..(c + d) : r \in 1..c \/ \E q \in 1..d : r = c + q
  BY <1>6, <1>7, PlacesJoined, Zenon
<1>13. \A r \in 1..(c + d) : f[r] \in S
  <2>1. ASSUME NEW r \in 1..c PROVE f[r] \in S
    BY <1>5, <1>8, <1>10
  <2>2. ASSUME NEW q \in 1..d PROVE f[c + q] \in S
    BY <1>5, <1>9, <1>10
  <2> QED BY <1>12, <2>1, <2>2
<1>14. \A q, r \in 1..(c + d) : q < r => f[q] < f[r]
  <2>1. ASSUME NEW q \in 1..c, NEW r \in 1..c, q < r PROVE f[q] < f[r]
    BY <1>6, <1>10, <2>1
  <2>2. ASSUME NEW q \in 1..c, NEW r \in 1..d PROVE f[q] < f[c + r]
    <3>1. PICK x \in 1..n : x = F[q]
      BY <1>8
    <3>2. PICK y \in 1..m : y = G[r]
      BY <1>9
    <3>3. f[q] = x /\ f[c + r] = n + y
      BY <1>10, <3>1, <3>2
    <3> QED BY <1>2, <3>1, <3>2, <3>3
  <2>3. ASSUME NEW q \in 1..d, NEW r \in 1..d, c + q < c + r PROVE f[c + q] < f[c + r]
    <3>1. PICK x \in 1..m : x = G[q]
      BY <1>9
    <3>2. PICK y \in 1..m : y = G[r]
      BY <1>9
    <3>3. q < r
      BY <1>6, <2>3
    <3>4. x < y
      BY <1>7, <3>1, <3>2, <3>3
    <3>5. f[c + q] = n + x /\ f[c + r] = n + y
      BY <1>10, <3>1, <3>2
    <3> QED BY <1>2, <3>1, <3>2, <3>4, <3>5
  <2>4. ASSUME NEW q \in 1..d, NEW r \in 1..c, c + q < r PROVE FALSE
    BY <1>6, <2>4
  <2>5. ASSUME NEW q \in 1..(c + d), NEW r \in 1..(c + d), q < r PROVE f[q] < f[r]
    <3>1. CASE q \in 1..c /\ r \in 1..c
      BY <2>1, <2>5, <3>1
    <3>2. CASE q \in 1..c /\ \E y \in 1..d : r = c + y
      BY <2>2, <3>2
    <3>3. CASE (\E x \in 1..d : q = c + x) /\ r \in 1..c
      BY <2>4, <2>5, <3>3
    <3>4. CASE (\E x \in 1..d : q = c + x) /\ (\E y \in 1..d : r = c + y)
      BY <2>3, <2>5, <3>4
    <3> QED BY <1>12, <3>1, <3>2, <3>3, <3>4
  <2> QED BY <2>5
<1>15. \A x \in S : \E r \in 1..(c + d) : f[r] = x
  <2>1. ASSUME NEW x \in S PROVE \E r \in 1..(c + d) : f[r] = x
    <3>1. x \in 1..n \/ \E j \in 1..m : x = n + j
      BY <1>2, <1>4, PlacesJoined
    <3>2. CASE x \in 1..n
      BY <1>5, <1>8, <1>10, <3>2
    <3>3. CASE \E j \in 1..m : x = n + j
      BY <1>5, <1>9, <1>10, <3>3
    <3> QED BY <3>1, <3>2, <3>3
  <2> QED BY <2>1
<1>16. Ascends(f, c + d, S)
  BY <1>10, <1>11, <1>13, <1>14, <1>15 DEF Ascends
<1>17. Cardinality(S) = c + d /\ Listed(S) = f
  <2>1. n + m \in Nat
    BY <1>2
  <2> QED BY <1>4, <1>16, <2>1, ListedIs, Zenon
<1> DEFINE K == Kept(u, S)
           A == Kept(s, I)
           B == Kept(t, J)
<1>18. IsSequence(A) /\ Len(A) = c /\ \A r \in 1..c : A[r] = s[F[r]]
  <2>1. A = [r \in 1..c |-> s[F[r]]]
    BY DEF Kept, c, F
  <2> HIDE DEF A
  <2>2. A = [r \in 1..c |-> A[r]] /\ \A r \in 1..c : A[r] = s[F[r]]
    BY <2>1
  <2> QED BY <1>6, <2>2, MadeSequence
<1>19. IsSequence(B) /\ Len(B) = d /\ \A r \in 1..d : B[r] = t[G[r]]
  <2>1. B = [r \in 1..d |-> t[G[r]]]
    BY DEF Kept, d, G
  <2> HIDE DEF B
  <2>2. B = [r \in 1..d |-> B[r]] /\ \A r \in 1..d : B[r] = t[G[r]]
    BY <2>1
  <2> QED BY <1>7, <2>2, MadeSequence
<1>20. IsSequence(K) /\ Len(K) = c + d /\ DOMAIN K = 1..(c + d) /\ \A r \in 1..(c + d) : K[r] = u[f[r]]
  <2>1. K = [r \in 1..(c + d) |-> u[f[r]]]
    BY <1>17 DEF Kept
  <2> HIDE DEF K
  <2>2. K = [r \in 1..(c + d) |-> K[r]] /\ \A r \in 1..(c + d) : K[r] = u[f[r]]
    BY <2>1
  <2>3. IsSequence(K) /\ Len(K) = c + d /\ DOMAIN K = 1..(c + d)
    BY <1>10, <2>2, MadeSequence, Zenon
  <2> QED BY <2>2, <2>3, Zenon
<1> HIDE DEF A, B, K
<1>21. ASSUME NEW r \in 1..c PROVE K[r] = A[r]
  <2>1. K[r] = u[f[r]] /\ f[r] = F[r] /\ F[r] \in 1..n /\ A[r] = s[F[r]]
    BY <1>8, <1>10, <1>18, <1>20, Zenon
  <2>2. u[F[r]] = s[F[r]]
    BY <1>2, <2>1, Zenon
  <2> QED BY <2>1, <2>2, Zenon
<1>22. ASSUME NEW r \in 1..d PROVE K[c + r] = B[r]
  <2>1. K[c + r] = u[f[c + r]] /\ f[c + r] = n + G[r] /\ G[r] \in 1..m /\ B[r] = t[G[r]]
    BY <1>9, <1>10, <1>19, <1>20, Zenon
  <2>2. u[n + G[r]] = t[G[r]]
    BY <1>2, <2>1, Zenon
  <2> QED BY <2>1, <2>2, Zenon
<1>23. Joins(K, A, c, B, d)
  BY <1>6, <1>7, <1>20, <1>21, <1>22, Zenon DEF Joins
<1>24. K = A \o B
  <2>1. Joins(K, A, Len(A), B, Len(B))
    BY <1>18, <1>19, <1>23
  <2> QED BY <1>18, <1>19, <2>1, JoinsIsJoined, Zenon
<1> QED BY <1>18, <1>19, <1>24, Zenon DEF K, A, B, u

-----------------------------------------------------------------------------
(* What is done to record by record. *)

\* What an operator makes of two parts is what it makes of the whole, in two parts.
Composes(whole, first, second) ==
  /\ whole.status = "success" <=> first.status = "success" /\ second.status = "success"
  /\ first.status = "success" /\ second.status = "success" =>
       whole.records = first.records \o second.records

\* An operator that succeeds with these records, if every record is fit for it.
Makes(result, fit, records) ==
  IF fit THEN result = Success(records) ELSE result.status # "success"

\* It is so for an operator that fails for the sake of one record, and otherwise makes a
\* sequence of both.
LEMMA MakesComposes ==
  ASSUME NEW w, NEW p, NEW q, NEW W \in BOOLEAN, NEW P \in BOOLEAN, NEW Q \in BOOLEAN, NEW x, NEW y,
         W <=> P /\ Q, Makes(w, W, x \o y), Makes(p, P, x), Makes(q, Q, y)
  PROVE  Composes(w, p, q)
<1>1. \A z : Success(z).status = "success" /\ Success(z).records = z
  BY DEF Success
<1>2. CASE P /\ Q
  <2>1. w = Success(x \o y) /\ p = Success(x) /\ q = Success(y)
    BY <1>2, Zenon DEF Makes
  <2> QED BY <1>1, <2>1, Zenon DEF Composes
<1>3. CASE ~P
  <2>1. w.status # "success" /\ p.status # "success"
    BY <1>3, Zenon DEF Makes
  <2> QED BY <2>1, Zenon DEF Composes
<1>4. CASE ~Q
  <2>1. w.status # "success" /\ q.status # "success"
    BY <1>4, Zenon DEF Makes
  <2> QED BY <2>1, Zenon DEF Composes
<1> QED BY <1>2, <1>3, <1>4

\* No step fails when none does.
LEMMA AllSucceed ==
  ASSUME NEW n \in Nat, NEW statuses, DOMAIN statuses = 1..n
  PROVE  FirstFailure(statuses) = "success" <=> \A i \in 1..n : statuses[i] = "success"
<1> DEFINE failures == {i \in DOMAIN statuses : ~Succeeded(statuses[i])}
<1>1. CASE failures = {}
  BY <1>1 DEF FirstFailure, Succeeded
<1>2. CASE failures # {}
  <2>1. failures \in SUBSET (1..n)
    OBVIOUS
  <2>2. Min(failures) \in failures
    <3> HIDE DEF failures
    <3> QED BY <1>2, <2>1, MinExists, Zenon
  <2>3. FirstFailure(statuses) = statuses[Min(failures)]
    BY <1>2 DEF FirstFailure
  <2> QED BY <2>2, <2>3 DEF Succeeded
<1> QED BY <1>1, <1>2

\* A record that can be compared.
IsComparable(record, a) ==
  a.field \in DOMAIN record /\ ComparisonStatus(record[a.field], a.op, a.value) = "success"

\* The records that match a filter.
Matched(records, a) == {i \in DOMAIN records : Compare(records[i][a.field], a.op, a.value)}

\* filter_records keeps the records that match, if every one can be compared.
LEMMA FilteredMakes ==
  ASSUME NEW records, IsSequence(records), NEW a
  PROVE  Makes(Filtered(records, a), \A i \in DOMAIN records : IsComparable(records[i], a),
               Kept(records, Matched(records, a)))
<1> DEFINE n == Len(records)
           statuses == [i \in DOMAIN records |-> ComparisonStatus(records[i][a.field], a.op, a.value)]
           fit == \A i \in DOMAIN records : IsComparable(records[i], a)
           kept == Kept(records, Matched(records, a))
<1>1. n \in Nat /\ DOMAIN records = 1..n
  BY ElementsOf
<1> HIDE DEF n
<1>2. FirstFailure(statuses) = "success" <=> \A i \in 1..n : statuses[i] = "success"
  <2>1. DOMAIN statuses = 1..n
    BY <1>1
  <2> HIDE DEF statuses
  <2> QED BY <1>1, <2>1, AllSucceed
<1>3. Missing(records, {a.field}) <=> \E i \in DOMAIN records : a.field \notin DOMAIN records[i]
  BY DEF Missing, Range
<1>4. Filtered(records, a) = IF Missing(records, {a.field}) THEN Invalid
                             ELSE IF ~Succeeded(FirstFailure(statuses)) THEN Failure(FirstFailure(statuses))
                             ELSE Success(kept)
  BY DEF Filtered, Matched
<1>5. \A i \in 1..n : statuses[i] = ComparisonStatus(records[i][a.field], a.op, a.value)
  BY <1>1
<1> HIDE DEF statuses, kept
<1>6. fit <=> ~Missing(records, {a.field}) /\ FirstFailure(statuses) = "success"
  BY <1>1, <1>2, <1>3, <1>5, Zenon DEF IsComparable
<1> HIDE DEF fit
<1>7. Makes(Filtered(records, a), fit, kept)
  BY <1>4, <1>6 DEF Makes, Invalid, Failure, Success, Succeeded
<1> QED BY <1>7, Zenon DEF fit, kept

\* select_fields restricts every record, if every one has the fields.
LEMMA SelectedMakes ==
  ASSUME NEW records, NEW a
  PROVE  Makes(Selected(records, a), ~Missing(records, Range(a.fields)),
               [i \in DOMAIN records |-> Restrict(records[i], Range(a.fields))])
BY DEF Selected, Makes, Success, Invalid, Failure

\* derive_fields derives every record, if every one can be derived.
LEMMA DerivedMakes ==
  ASSUME NEW records, NEW a
  PROVE  Makes(WithDerivedFields(records, a),
               ~\E record \in Range(records) : Underivable(record, a.derivations),
               [i \in DOMAIN records |-> WithDerivations(records[i], a.derivations)])
BY DEF WithDerivedFields, Makes, Success, Invalid, Failure
\* filter_records, select_fields and derive_fields look at one record at a time.
LEMMA FilteredJoined ==
  ASSUME NEW s, IsSequence(s), NEW t, IsSequence(t), NEW a
  PROVE  Composes(Filtered(s \o t, a), Filtered(s, a), Filtered(t, a))
<1> DEFINE u == s \o t
           n == Len(s)
           m == Len(t)
           Fit(records) == \A i \in DOMAIN records : IsComparable(records[i], a)
           I == Matched(s, a)
           J == Matched(t, a)
           S == Matched(u, a)
<1>1. Joins(u, s, n, t, m)
  BY Joined, Zenon
<1>2. DOMAIN s = 1..n /\ DOMAIN t = 1..m
  BY ElementsOf
<1> HIDE DEF u, n, m
<1>3. /\ IsSequence(u) /\ n \in Nat /\ m \in Nat /\ DOMAIN u = 1..(n + m)
      /\ \A i \in 1..n : u[i] = s[i]
      /\ \A j \in 1..m : u[n + j] = t[j]
  BY <1>1 DEF Joins
<1>4. /\ \A i \in 1..(n + m) : i \in 1..n \/ \E j \in 1..m : i = n + j
      /\ \A i \in 1..n : i \in 1..(n + m)
      /\ \A j \in 1..m : n + j \in 1..(n + m)
  BY <1>3, PlacesJoined
<1>5. Fit(u) <=> Fit(s) /\ Fit(t)
  <2> DEFINE P(record) == IsComparable(record, a)
  <2>1. (\A i \in 1..(n + m) : P(u[i])) <=> (\A i \in 1..n : P(s[i])) /\ (\A j \in 1..m : P(t[j]))
    <3> HIDE DEF P
    <3> QED BY <1>3, <1>4
  <2> QED BY <1>2, <1>3, <2>1, Zenon
<1>6. I \in SUBSET DOMAIN s /\ J \in SUBSET DOMAIN t /\ S \in SUBSET DOMAIN u
  BY DEF Matched
<1>7. \A i \in DOMAIN s : i \in S <=> i \in I
  BY <1>2, <1>3, <1>4 DEF Matched
<1>8. \A j \in DOMAIN t : n + j \in S <=> j \in J
  BY <1>2, <1>3, <1>4 DEF Matched
<1> HIDE DEF I, J, S
<1>9. Kept(u, S) = Kept(s, I) \o Kept(t, J)
  <2>1. Selects(S, s, I, t, J)
    BY <1>6, <1>7, <1>8, Zenon DEF u, n, Selects
  <2>2. Kept(s \o t, S) = Kept(s, I) \o Kept(t, J)
    BY <2>1, KeptJoined
  <2> QED BY <2>2, Zenon DEF u
<1>10. /\ Makes(Filtered(u, a), Fit(u), Kept(u, S))
       /\ Makes(Filtered(s, a), Fit(s), Kept(s, I))
       /\ Makes(Filtered(t, a), Fit(t), Kept(t, J))
  BY <1>3, FilteredMakes, Zenon DEF I, J, S
<1> DEFINE W == Fit(u)
           P == Fit(s)
           Q == Fit(t)
           x == Kept(s, I)
           y == Kept(t, J)
<1>11. /\ Makes(Filtered(u, a), W, x \o y) /\ Makes(Filtered(s, a), P, x) /\ Makes(Filtered(t, a), Q, y)
       /\ W \in BOOLEAN /\ P \in BOOLEAN /\ Q \in BOOLEAN
  BY <1>9, <1>10, Zenon
<1>12. W <=> P /\ Q
  BY <1>5
<1> HIDE DEF W, P, Q, x, y
<1>13. Composes(Filtered(u, a), Filtered(s, a), Filtered(t, a))
  BY <1>11, <1>12, MakesComposes, Zenon
<1> QED BY <1>13 DEF u

\* select_fields of both is select_fields of each.
LEMMA SelectedJoined ==
  ASSUME NEW s, IsSequence(s), NEW t, IsSequence(t), NEW a
  PROVE  Composes(Selected(s \o t, a), Selected(s, a), Selected(t, a))
<1> DEFINE F == Range(a.fields)
           u == s \o t
           Of(records) == [i \in DOMAIN records |-> Restrict(records[i], F)]
           W == ~Missing(u, F)
           P == ~Missing(s, F)
           Q == ~Missing(t, F)
           x == Of(s)
           y == Of(t)
           z == Of(u)
<1>1. W <=> P /\ Q
  BY RangeJoined DEF Missing
<1>2. z = x \o y
  <2>1. Joins(u, s, Len(s), t, Len(t))
    BY Joined, Zenon
  <2>2. /\ \A i \in DOMAIN s : i \in DOMAIN u /\ u[i] = s[i]
        /\ \A j \in DOMAIN t : Len(s) + j \in DOMAIN u /\ u[Len(s) + j] = t[j]
    <3>1. DOMAIN s = 1..Len(s) /\ DOMAIN t = 1..Len(t)
      BY ElementsOf
    <3> HIDE DEF u
    <3> QED BY <2>1, <3>1, PlacesJoined DEF Joins
  <2>3. \A i \in DOMAIN s : z[i] = x[i]
    BY <2>2
  <2>4. \A j \in DOMAIN t : z[Len(s) + j] = y[j]
    BY <2>2
  <2>5. /\ x = [i \in DOMAIN s |-> x[i]] /\ y = [i \in DOMAIN t |-> y[i]]
        /\ z = [i \in DOMAIN (s \o t) |-> z[i]]
    OBVIOUS
  <2> HIDE DEF x, y, z
  <2>6. z = x \o y
    <3>1. Maps(z, x, s, y, t)
      BY <2>3, <2>4, <2>5, Zenon DEF Maps
    <3> QED BY <3>1, MapJoined
  <2> QED BY <2>6
<1>3. /\ Makes(Selected(u, a), W, z) /\ Makes(Selected(s, a), P, x) /\ Makes(Selected(t, a), Q, y)
      /\ W \in BOOLEAN /\ P \in BOOLEAN /\ Q \in BOOLEAN
  BY SelectedMakes, Zenon
<1>4. Makes(Selected(u, a), W, x \o y)
  BY <1>2, <1>3, Zenon
<1> HIDE DEF W, P, Q, x, y, z, u
<1>5. Composes(Selected(u, a), Selected(s, a), Selected(t, a))
  BY <1>1, <1>3, <1>4, MakesComposes, Zenon
<1> QED BY <1>5 DEF u

\* derive_fields of both is derive_fields of each.
LEMMA DerivedJoined ==
  ASSUME NEW s, IsSequence(s), NEW t, IsSequence(t), NEW a
  PROVE  Composes(WithDerivedFields(s \o t, a), WithDerivedFields(s, a), WithDerivedFields(t, a))
<1> DEFINE ds == a.derivations
           u == s \o t
           Of(records) == [i \in DOMAIN records |-> WithDerivations(records[i], ds)]
           W == ~\E record \in Range(u) : Underivable(record, ds)
           P == ~\E record \in Range(s) : Underivable(record, ds)
           Q == ~\E record \in Range(t) : Underivable(record, ds)
           x == Of(s)
           y == Of(t)
           z == Of(u)
<1>1. W <=> P /\ Q
  BY RangeJoined
<1>2. z = x \o y
  <2>1. Joins(u, s, Len(s), t, Len(t))
    BY Joined, Zenon
  <2>2. /\ \A i \in DOMAIN s : i \in DOMAIN u /\ u[i] = s[i]
        /\ \A j \in DOMAIN t : Len(s) + j \in DOMAIN u /\ u[Len(s) + j] = t[j]
    <3>1. DOMAIN s = 1..Len(s) /\ DOMAIN t = 1..Len(t)
      BY ElementsOf
    <3> HIDE DEF u
    <3> QED BY <2>1, <3>1, PlacesJoined DEF Joins
  <2>3. \A i \in DOMAIN s : z[i] = x[i]
    BY <2>2
  <2>4. \A j \in DOMAIN t : z[Len(s) + j] = y[j]
    BY <2>2
  <2>5. /\ x = [i \in DOMAIN s |-> x[i]] /\ y = [i \in DOMAIN t |-> y[i]]
        /\ z = [i \in DOMAIN (s \o t) |-> z[i]]
    OBVIOUS
  <2> HIDE DEF x, y, z
  <2>6. z = x \o y
    <3>1. Maps(z, x, s, y, t)
      BY <2>3, <2>4, <2>5, Zenon DEF Maps
    <3> QED BY <3>1, MapJoined
  <2> QED BY <2>6
<1>3. /\ Makes(WithDerivedFields(u, a), W, z) /\ Makes(WithDerivedFields(s, a), P, x)
      /\ Makes(WithDerivedFields(t, a), Q, y)
      /\ W \in BOOLEAN /\ P \in BOOLEAN /\ Q \in BOOLEAN
  BY DerivedMakes, Zenon
<1>4. Makes(WithDerivedFields(u, a), W, x \o y)
  BY <1>2, <1>3, Zenon
<1> HIDE DEF W, P, Q, x, y, z, u
<1>5. Composes(WithDerivedFields(u, a), WithDerivedFields(s, a), WithDerivedFields(t, a))
  BY <1>1, <1>3, <1>4, MakesComposes, Zenon
<1> QED BY <1>5 DEF u

-----------------------------------------------------------------------------
(* Derivations: some and then the others. *)

\* What the schema lets through as the derivations of a request.
AreDerivations(derivations) ==
  IsSequence(derivations) /\ \A k \in DOMAIN derivations : IsDerivation(derivations[k])

\* A record after one more derivation.
After(done, d) == Merged(Single(d.target, Derived(done, d)), done)

\* A record on its way through the first n derivations.
Stages(record, derivations, n, stage) ==
  stage[0] = record /\ \A k \in 1..n : stage[k] = After(stage[k - 1], derivations[k])

\* derive_fields goes through such stages, and all are records.
LEMMA StagesOfDerivations ==
  ASSUME FloatsAreNumbers, NEW record, IsRecord(record), NEW derivations, AreDerivations(derivations)
  PROVE  \E stage : /\ Stages(record, derivations, Len(derivations), stage)
                    /\ \A k \in 0..Len(derivations) : IsRecord(stage[k])
                    /\ stage[Len(derivations)] = WithDerivations(record, derivations)
<1> DEFINE n == Len(derivations)
           D == DOMAIN record \cup {derivations[k].target : k \in 1..n}
           X == RecordsOver(D)
           after(done, k) == Merged(Single(derivations[k].target, Derived(done, derivations[k])), done)
           step == [k \in 1..n |-> [done \in X |-> after(done, k)]]
           iter == CHOOSE g : DerivationsOver(record, derivations, g)
<1>1. n \in Nat /\ DOMAIN derivations = 1..n /\ \A k \in 1..n : IsDerivation(derivations[k])
  BY ElementsOf DEF AreDerivations
<1>2. WithDerivations(record, derivations) = iter[DOMAIN derivations]
  BY DEF WithDerivations, FoldLeft, MapThenFoldSet, DerivationsOver
<1> HIDE DEF n
<1>3. ASSUME NEW done \in X, NEW k \in 1..n PROVE after(done, k) \in X
  <2>1. IsRecord(done) /\ DOMAIN done \subseteq D
    BY RecordOver
  <2>2. Derived(done, derivations[k]) \in Values
    BY <1>1, <2>1, DerivedIsValue
  <2>3. IsRecord(after(done, k)) /\ DOMAIN after(done, k) = {derivations[k].target} \cup DOMAIN done
    BY <2>1, <2>2, MergedIsRecord
  <2>4. DOMAIN after(done, k) \subseteq D
    BY <2>1, <2>3
  <2> HIDE DEF after, D
  <2> QED BY <2>3, <2>4, RecordOver
<1>4. record \in X
  <2>1. DOMAIN record \subseteq D
    OBVIOUS
  <2> HIDE DEF D
  <2> QED BY <2>1, RecordOver
<1> HIDE DEF X, after
<1>5. \A k \in 1..n : step[k] \in [X -> X] /\ \A done \in X : step[k][done] = after(done, k)
  BY <1>3
<1> HIDE DEF step
<1>6. PICK g : Folds(X, step, record, n, g)
  BY <1>1, <1>4, <1>5, FoldsExist, Zenon
<1>7. ASSUME NEW T \in SUBSET (1..n)
      PROVE  g[T] = IF T = {} THEN record ELSE after(g[T \ {Max(T)}], Max(T))
  <2>1. CASE T = {}
    BY <1>6, <2>1, Zenon DEF Folds
  <2>2. CASE T # {}
    <3>1. g[T] = step[Max(T)][g[T \ {Max(T)}]]
      BY <1>6, <2>2, Zenon DEF Folds
    <3>2. g[T \ {Max(T)}] \in X /\ Max(T) \in 1..n
      <4>1. Max(T) \in T /\ T \ {Max(T)} \in SUBSET (1..n)
        BY <1>1, <2>2, MaxExists, Zenon
      <4> QED BY <1>6, <4>1 DEF Folds
    <3>3. step[Max(T)][g[T \ {Max(T)}]] = after(g[T \ {Max(T)}], Max(T))
      BY <1>5, <3>2, Zenon
    <3> QED BY <2>2, <3>1, <3>3, Zenon
  <2> QED BY <2>1, <2>2
<1>8. g = [T \in SUBSET (1..n) |-> g[T]]
  BY <1>6 DEF Folds
<1>9. DerivationsOver(record, derivations, g)
  BY <1>1, <1>7, <1>8, Zenon DEF DerivationsOver, after
<1>10. DerivationsOver(record, derivations, iter)
  BY <1>9, Zenon
<1> HIDE DEF iter
<1>11. \A T \in SUBSET (1..n) :
         iter[T] = IF T = {} THEN record ELSE after(iter[T \ {Max(T)}], Max(T))
  BY <1>1, <1>10, Zenon DEF DerivationsOver, after
<1> DEFINE stage == [k \in 0..n |-> iter[1..k]]
<1>12. stage[0] = record
  <2>1. {} \in SUBSET (1..n) /\ 1..0 = {} /\ 0 \in 0..n
    BY <1>1
  <2>2. iter[{}] = record
    BY <1>11, <2>1, Zenon
  <2> QED BY <2>1, <2>2
<1>13. ASSUME NEW k \in 1..n PROVE stage[k] = after(stage[k - 1], k)
  <2>1. 1..k \in SUBSET (1..n) /\ k \in Nat \ {0} /\ k \in 0..n /\ k - 1 \in 0..n
    BY <1>1
  <2>2. Max(1..k) = k /\ (1..k) \ {k} = 1..(k - 1) /\ 1..k # {}
    BY <2>1, MaxOfInterval
  <2>3. iter[1..k] = after(iter[(1..k) \ {Max(1..k)}], Max(1..k))
    BY <1>11, <2>1, <2>2, Zenon
  <2>4. iter[1..k] = after(iter[1..(k - 1)], k)
    BY <2>2, <2>3, Zenon
  <2> QED BY <2>1, <2>4
<1>14. stage[n] = WithDerivations(record, derivations)
  BY <1>1, <1>2
<1> HIDE DEF stage
<1>15. Stages(record, derivations, n, stage)
  BY <1>12, <1>13, Zenon DEF Stages, After, after
<1>16. ASSUME NEW k \in 0..n PROVE IsRecord(stage[k])
  <2> DEFINE G == {i \in 0..n : stage[i] \in X}
  <2>1. 0 \in G
    BY <1>1, <1>4, <1>12
  <2>2. ASSUME NEW i \in 1..n, i - 1 \in G PROVE i \in G
    <3>1. stage[i] \in X /\ i \in 0..n
      BY <1>3, <1>13, <2>2
    <3> QED BY <3>1
  <2> HIDE DEF G
  <2>3. k \in G
    BY <1>1, <2>1, <2>2, Induction, Zenon
  <2>4. stage[k] \in RecordsOver(D)
    BY <2>3, Zenon DEF G, X
  <2> HIDE DEF D
  <2> QED BY <2>4, RecordOver
<1>17. /\ Stages(record, derivations, n, stage) /\ \A k \in 0..n : IsRecord(stage[k])
       /\ stage[n] = WithDerivations(record, derivations)
  BY <1>14, <1>15, <1>16
<1> QED BY <1>17, Zenon DEF n

\* There is one way through the stages.
LEMMA SameStages ==
  ASSUME NEW record, NEW n \in Nat, NEW d,
         NEW f, Stages(record, d, n, f), NEW g, Stages(record, d, n, g)
  PROVE  \A k \in 0..n : f[k] = g[k]
<1> DEFINE G == {k \in 0..n : f[k] = g[k]}
<1>1. 0 \in G
  BY DEF Stages
<1>2. ASSUME NEW k \in 1..n, k - 1 \in G PROVE k \in G
  <2>1. f[k - 1] = g[k - 1] /\ k \in 0..n
    BY <1>2
  <2>2. f[k] = After(f[k - 1], d[k]) /\ g[k] = After(g[k - 1], d[k])
    BY DEF Stages
  <2> QED BY <2>1, <2>2
<1> HIDE DEF G
<1>3. \A k \in 0..n : k \in G
  BY <1>1, <1>2, Induction
<1> QED BY <1>3 DEF G

\* The first of some derivations.
LEMMA FirstDerivations ==
  ASSUME NEW derivations, AreDerivations(derivations), NEW k \in 0..Len(derivations)
  PROVE  /\ AreDerivations(SubSeq(derivations, 1, k)) /\ Len(SubSeq(derivations, 1, k)) = k
         /\ \A i \in 1..k : SubSeq(derivations, 1, k)[i] = derivations[i]
<1> DEFINE n == Len(derivations)
           part == SubSeq(derivations, 1, k)
<1>1. n \in Nat /\ DOMAIN derivations = 1..n /\ derivations \in [1..n -> Range(derivations)]
      /\ \A i \in 1..n : IsDerivation(derivations[i])
  BY ElementsOf DEF AreDerivations
<1>2. derivations \in Seq(Range(derivations)) /\ k <= n /\ k \in Nat
  BY <1>1 DEF AreDerivations, IsSequence
<1>3. part = [i \in 1..k |-> derivations[i]]
  BY <1>1, <1>2
<1> HIDE DEF part, n
<1>4. part = [i \in 1..k |-> part[i]] /\ \A i \in 1..k : part[i] = derivations[i]
  BY <1>3
<1>5. IsSequence(part) /\ Len(part) = k /\ DOMAIN part = 1..k
  BY <1>2, <1>4, MadeSequence
<1>6. \A i \in 1..k : i \in 1..n
  BY <1>2, <1>1
<1> QED BY <1>1, <1>4, <1>5, <1>6 DEF part, AreDerivations

\* Whatever goes through the stages ends where derive_fields does, and derive_fields
\* fails in one of them.
LEMMA DerivationsAreStages ==
  ASSUME FloatsAreNumbers, NEW record, IsRecord(record), NEW derivations, AreDerivations(derivations),
         NEW stage, Stages(record, derivations, Len(derivations), stage)
  PROVE  /\ WithDerivations(record, derivations) = stage[Len(derivations)]
         /\ Underivable(record, derivations) <=>
              \E k \in 1..Len(derivations) : Derived(stage[k - 1], derivations[k]) = Undefined
<1> DEFINE n == Len(derivations)
<1>1. n \in Nat /\ DOMAIN derivations = 1..n
  BY ElementsOf DEF AreDerivations
<1> HIDE DEF n
<1>2. Stages(record, derivations, n, stage)
  BY DEF n
<1>3. ASSUME NEW k \in 0..n PROVE WithDerivations(record, SubSeq(derivations, 1, k)) = stage[k]
  <2> DEFINE part == SubSeq(derivations, 1, k)
  <2>1. AreDerivations(part) /\ Len(part) = k /\ \A i \in 1..k : part[i] = derivations[i]
    BY FirstDerivations DEF n
  <2> HIDE DEF part
  <2>2. PICK f : Stages(record, part, Len(part), f) /\ f[Len(part)] = WithDerivations(record, part)
    BY <2>1, StagesOfDerivations
  <2>3. Stages(record, part, k, f) /\ f[k] = WithDerivations(record, part) /\ k \in Nat /\ k \in 0..k
    BY <1>1, <2>1, <2>2
  <2>4. Stages(record, derivations, k, stage)
    <3>1. \A i \in 1..k : i \in 1..n
      BY <1>1
    <3> QED BY <1>2, <3>1 DEF Stages
  <2>5. \A i \in 0..k : f[i] = stage[i]
    <3>1. Stages(record, derivations, k, f)
      BY <2>1, <2>3 DEF Stages
    <3> QED BY <2>3, <2>4, <3>1, SameStages
  <2> QED BY <2>3, <2>5 DEF part
<1>4. WithDerivations(record, derivations) = stage[n]
  <2>1. PICK f : Stages(record, derivations, n, f) /\ f[n] = WithDerivations(record, derivations)
    BY StagesOfDerivations DEF n
  <2>2. \A i \in 0..n : f[i] = stage[i]
    BY <1>1, <1>2, <2>1, SameStages
  <2>3. n \in 0..n
    BY <1>1
  <2> QED BY <2>1, <2>2, <2>3
<1>5. Underivable(record, derivations) <=>
        \E k \in 1..n : Derived(stage[k - 1], derivations[k]) = Undefined
  <2>1. \A k \in 1..n : WithDerivations(record, SubSeq(derivations, 1, k - 1)) = stage[k - 1]
    <3>1. \A k \in 1..n : k - 1 \in 0..n
      BY <1>1
    <3> QED BY <1>3, <3>1, Zenon
  <2>2. Underivable(record, derivations) <=>
          \E k \in 1..n : Derived(WithDerivations(record, SubSeq(derivations, 1, k - 1)), derivations[k]) = Undefined
    BY <1>1, Zenon DEF Underivable
  <2> QED BY <2>1, <2>2, Zenon
<1> QED BY <1>4, <1>5, Zenon DEF n

\* Derivations one after the other are those of one request and then those of another.
LEMMA DerivationsJoined ==
  ASSUME FloatsAreNumbers, NEW record, IsRecord(record), NEW d, AreDerivations(d), NEW e, AreDerivations(e)
  PROVE  /\ WithDerivations(record, d \o e) = WithDerivations(WithDerivations(record, d), e)
         /\ Underivable(record, d \o e) <=>
              Underivable(record, d) \/ Underivable(WithDerivations(record, d), e)
<1> DEFINE n == Len(d)
           m == Len(e)
           de == d \o e
<1>1. Joins(de, d, n, e, m)
  BY Joined, Zenon DEF AreDerivations
<1>2. DOMAIN d = 1..n /\ DOMAIN e = 1..m
  BY ElementsOf DEF AreDerivations
<1> HIDE DEF de
<1>3. /\ IsSequence(de) /\ n \in Nat /\ m \in Nat /\ Len(de) = n + m /\ DOMAIN de = 1..(n + m)
      /\ \A i \in 1..n : de[i] = d[i]
      /\ \A j \in 1..m : de[n + j] = e[j]
  BY <1>1 DEF Joins
<1>4. AreDerivations(de)
  <2>1. \A i \in 1..n : IsDerivation(d[i])
    BY <1>2 DEF AreDerivations
  <2>2. \A j \in 1..m : IsDerivation(e[j])
    BY <1>2 DEF AreDerivations
  <2>3. \A i \in 1..(n + m) : i \in 1..n \/ \E j \in 1..m : i = n + j
    BY <1>3, PlacesJoined, Zenon
  <2> HIDE DEF n, m
  <2>4. \A i \in 1..(n + m) : IsDerivation(de[i])
    BY <1>3, <2>1, <2>2, <2>3, Zenon
  <2> QED BY <1>3, <2>4 DEF AreDerivations
<1>5. PICK stage : /\ Stages(record, de, Len(de), stage)
                   /\ \A k \in 0..Len(de) : IsRecord(stage[k])
                   /\ stage[Len(de)] = WithDerivations(record, de)
  BY <1>4, StagesOfDerivations
<1> DEFINE second == [k \in 0..m |-> stage[n + k]]
<1>6. /\ stage[0] = record
      /\ \A k \in 1..(n + m) : stage[k] = After(stage[k - 1], de[k])
  BY <1>3, <1>5 DEF Stages
<1>7. Stages(record, d, n, stage)
  <2>1. ASSUME NEW k \in 1..n PROVE stage[k] = After(stage[k - 1], d[k])
    <3>1. k \in 1..(n + m)
      BY <1>3
    <3> QED BY <1>3, <1>6, <3>1
  <2> QED BY <1>6, <2>1 DEF Stages
<1>8. /\ WithDerivations(record, d) = stage[n]
      /\ Underivable(record, d) <=> \E k \in 1..n : Derived(stage[k - 1], d[k]) = Undefined
  BY <1>7, DerivationsAreStages, Zenon
<1>9. IsRecord(stage[n])
  <2>1. n \in 0..Len(de)
    BY <1>3
  <2> QED BY <1>5, <2>1
<1>10. Stages(stage[n], e, m, second)
  <2>1. second[0] = stage[n]
    BY <1>3
  <2>2. ASSUME NEW k \in 1..m PROVE second[k] = After(second[k - 1], e[k])
    <3>1. n + k \in 1..(n + m) /\ (n + k) - 1 = n + (k - 1) /\ k \in 0..m /\ k - 1 \in 0..m
      BY <1>3
    <3>2. stage[n + k] = After(stage[n + (k - 1)], e[k])
      <4>1. stage[n + k] = After(stage[(n + k) - 1], de[n + k])
        BY <1>6, <3>1, Zenon
      <4>2. de[n + k] = e[k]
        BY <1>3
      <4> QED BY <3>1, <4>1, <4>2
    <3> QED BY <3>1, <3>2
  <2> HIDE DEF second
  <2> QED BY <2>1, <2>2 DEF Stages
<1>11. \A k \in 0..m : second[k] = stage[n + k]
  OBVIOUS
<1> HIDE DEF second
<1>12. /\ WithDerivations(stage[n], e) = second[m]
       /\ Underivable(stage[n], e) <=> \E k \in 1..m : Derived(second[k - 1], e[k]) = Undefined
  BY <1>9, <1>10, DerivationsAreStages, Zenon
<1>13. WithDerivations(record, de) = WithDerivations(WithDerivations(record, d), e)
  <2>1. m \in 0..m
    BY <1>3
  <2> QED BY <1>3, <1>5, <1>8, <1>11, <1>12, <2>1, Zenon
<1>14. Underivable(record, de) <=> \E k \in 1..(n + m) : Derived(stage[k - 1], de[k]) = Undefined
  <2>1. Underivable(record, de) <=> \E k \in 1..Len(de) : Derived(stage[k - 1], de[k]) = Undefined
    BY <1>4, <1>5, DerivationsAreStages, Zenon
  <2> QED BY <1>3, <2>1
<1>15. \A k \in 1..n : Derived(stage[k - 1], de[k]) = Derived(stage[k - 1], d[k])
  BY <1>3
<1>16. ASSUME NEW k \in 1..m PROVE Derived(stage[(n + k) - 1], de[n + k]) = Derived(second[k - 1], e[k])
  <2>1. (n + k) - 1 = n + (k - 1) /\ k - 1 \in 0..m
    BY <1>3
  <2>2. second[k - 1] = stage[(n + k) - 1] /\ de[n + k] = e[k]
    BY <1>3, <1>11, <2>1
  <2> QED BY <2>2
<1>17. (\E k \in 1..(n + m) : Derived(stage[k - 1], de[k]) = Undefined) <=>
         \/ \E k \in 1..n : Derived(stage[k - 1], d[k]) = Undefined
         \/ \E k \in 1..m : Derived(second[k - 1], e[k]) = Undefined
  <2> DEFINE U(k) == Derived(stage[k - 1], de[k]) = Undefined
             V(k) == Derived(stage[k - 1], d[k]) = Undefined
             Z(k) == Derived(second[k - 1], e[k]) = Undefined
  <2>1. \A k \in 1..n : U(k) <=> V(k)
    BY <1>15
  <2>2. \A k \in 1..m : U(n + k) <=> Z(k)
    BY <1>16
  <2>3. /\ \A i \in 1..(n + m) : i \in 1..n \/ \E j \in 1..m : i = n + j
        /\ \A i \in 1..n : i \in 1..(n + m)
        /\ \A j \in 1..m : n + j \in 1..(n + m)
    BY <1>3, PlacesJoined, Zenon
  <2> HIDE DEF U, V, Z, n, m
  <2>4. (\E k \in 1..(n + m) : U(k)) <=> (\E k \in 1..n : V(k)) \/ (\E k \in 1..m : Z(k))
    BY <2>1, <2>2, <2>3
  <2> QED BY <2>4 DEF U, V, Z
<1>18. Underivable(record, de) <=> Underivable(record, d) \/ Underivable(WithDerivations(record, d), e)
  BY <1>8, <1>12, <1>14, <1>17
<1> QED BY <1>13, <1>18 DEF de

-----------------------------------------------------------------------------
(* Rankings of parts, ranked again. *)

\* There are n numbers up to n.
LEMMA CountTo ==
  ASSUME NEW n \in Nat
  PROVE  Cardinality(1..n) = n
<1>1. Cardinality(1..n) = IF 1 > n THEN 0 ELSE n - 1 + 1
  BY FS_Interval
<1> QED BY <1>1

\* The elements of an order, x, are some of another's, u, in its order, and the first k
\* of u are among them.
Embeds(e, x, X, u, U, k) ==
  /\ e \in [DOMAIN x -> DOMAIN u] /\ \A p \in DOMAIN x : x[p] = u[e[p]]
  /\ \A p, q \in DOMAIN x : e[p] = e[q] => p = q
  /\ \A p, q \in DOMAIN x : p \in X[q] <=> e[p] \in U[e[q]]
  /\ \A i \in DOMAIN u : Cardinality(U[i]) < k => \E p \in DOMAIN x : e[p] = i
  /\ Min({k, Len(x)}) = Min({k, Len(u)})

\* What one finds before another has fewer before it.
LEMMA BeforeIsLess ==
  ASSUME NEW U, Orders(U), NEW i \in DOMAIN U
  PROVE  /\ IsFiniteSet(U[i]) /\ Cardinality(U[i]) \in Nat
         /\ \A j \in U[i] : j \in DOMAIN U /\ Cardinality(U[j]) \in Nat /\ Cardinality(U[j]) <= Cardinality(U[i])
<1>1. \A j \in DOMAIN U : IsFiniteSet(U[j]) /\ Cardinality(U[j]) \in Nat
  <2>1. ASSUME NEW j \in DOMAIN U PROVE IsFiniteSet(U[j]) /\ Cardinality(U[j]) \in Nat
    <3>1. U[j] \in SUBSET DOMAIN U /\ IsFiniteSet(DOMAIN U)
      BY DEF Orders
    <3>2. IsFiniteSet(U[j])
      BY <3>1, FS_Subset
    <3> QED BY <3>2, FS_CardinalityType
  <2> QED BY <2>1
<1>2. ASSUME NEW j \in U[i] PROVE j \in DOMAIN U /\ Cardinality(U[j]) <= Cardinality(U[i])
  <2>1. j \in DOMAIN U /\ U[j] \in SUBSET U[i]
    BY DEF Orders
  <2> QED BY <1>1, <2>1, FS_Subset
<1> QED BY <1>1, <1>2

\* As many are before one of them, there and here.
LEMMA EmbeddedBefore ==
  ASSUME NEW u, NEW U, Orders(U), DOMAIN U = DOMAIN u,
         NEW x, NEW X, Orders(X), DOMAIN X = DOMAIN x, NEW k \in Nat,
         NEW e, Embeds(e, x, X, u, U, k), NEW p \in DOMAIN x, Cardinality(U[e[p]]) < k
  PROVE  Cardinality(X[p]) = Cardinality(U[e[p]])
<1> DEFINE i == e[p]
           A == X[p]
           B == U[i]
           f == [q \in A |-> e[q]]
<1>1. i \in DOMAIN U /\ IsFiniteSet(A) /\ A \subseteq DOMAIN x /\ B \subseteq DOMAIN u
  <2>1. i \in DOMAIN U /\ p \in DOMAIN X
    BY DEF Embeds
  <2>2. IsFiniteSet(A)
    BY <2>1, BeforeIsLess
  <2>3. A \in SUBSET DOMAIN X /\ B \in SUBSET DOMAIN U
    BY <2>1 DEF Orders
  <2> QED BY <2>1, <2>2, <2>3
<1>2. \A q \in A : q \in DOMAIN x /\ e[q] \in B
  BY <1>1 DEF Embeds
<1>3. ASSUME NEW j \in B PROVE \E q \in A : e[q] = j
  <2>1. Cardinality(U[j]) < k
    BY <1>1, BeforeIsLess
  <2>2. PICK q \in DOMAIN x : e[q] = j
    BY <1>1, <2>1 DEF Embeds
  <2>3. q \in A
    BY <2>2 DEF Embeds
  <2> QED BY <2>2, <2>3
<1>4. \A q, r \in A : e[q] = e[r] => q = r
  BY <1>2 DEF Embeds
<1> HIDE DEF A, B
<1>5. f \in Bijection(A, B)
  <2>1. f \in [A -> B] /\ \A q \in A : f[q] = e[q]
    BY <1>2
  <2> HIDE DEF f
  <2>2. \A q, r \in A : f[q] = f[r] => q = r
    BY <1>4, <2>1
  <2>3. \A j \in B : \E q \in A : f[q] = j
    BY <1>3, <2>1
  <2>4. DOMAIN f = A
    BY <2>1
  <2> QED BY <2>1, <2>2, <2>3, <2>4 DEF Bijection, Injection, Surjection, IsInjective
<1>6. ExistsBijection(A, B)
  BY <1>5 DEF ExistsBijection
<1> QED BY <1>1, <1>6, FS_Bijection DEF A, B, i

\* The first k of them are the first k.
LEMMA TopEmbedded ==
  ASSUME NEW u, IsSequence(u), NEW U, Orders(U), DOMAIN U = DOMAIN u,
         NEW x, IsSequence(x), NEW X, Orders(X), DOMAIN X = DOMAIN x, NEW k \in Nat,
         NEW e, Embeds(e, x, X, u, U, k)
  PROVE  Top(x, InOrder(X), k) = Top(u, InOrder(U), k)
<1> DEFINE l == Min({k, Len(u)})
           tx == Top(x, InOrder(X), k)
           tu == Top(u, InOrder(U), k)
<1>1. l = Min({k, Len(x)})
  BY DEF Embeds
<1>2. /\ IsSequence(tx) /\ Len(tx) = l
      /\ IsSequence(tu) /\ Len(tu) = l
  BY <1>1, TopIsSequence, Zenon
<1>3. Len(u) \in Nat /\ DOMAIN u = 1..Len(u)
  BY ElementsOf
<1>4. l \in Nat /\ l <= k /\ l <= Len(u)
  BY <1>3, MinOfTwo
<1>5. Cardinality(DOMAIN U) = Len(u)
  BY <1>3, CountTo
<1>6. ASSUME NEW r \in 1..l PROVE tx[r] = tu[r]
  <2> DEFINE i == InOrder(U)[r]
  <2>1. r \in 1..Cardinality(DOMAIN U)
    BY <1>3, <1>4, <1>5
  <2>2. i \in DOMAIN U /\ Cardinality(U[i]) = r - 1
    BY <2>1, PlaceOfElement
  <2> HIDE DEF i
  <2>3. Cardinality(U[i]) < k /\ Cardinality(U[i]) + 1 = r
    BY <1>4, <2>2
  <2>4. PICK p \in DOMAIN x : e[p] = i
    BY <2>2, <2>3 DEF Embeds
  <2>5. Cardinality(X[p]) = Cardinality(U[i])
    BY <2>3, <2>4, EmbeddedBefore
  <2>6. tx[Cardinality(X[p]) + 1] = x[p]
    BY <2>3, <2>5, TopHasTheBest, Zenon
  <2>7. tu[Cardinality(U[i]) + 1] = u[i]
    BY <2>2, <2>3, TopHasTheBest
  <2>8. x[p] = u[i]
    BY <2>4 DEF Embeds
  <2> QED BY <2>3, <2>5, <2>6, <2>7, <2>8
<1> HIDE DEF tx, tu, l
<1>7. tx = tu
  BY <1>2, <1>6, SameSequence
<1> QED BY <1>7 DEF tx, tu

\* What top_k_records puts before each record.
Before(records, a) == [i \in DOMAIN records |-> {j \in DOMAIN records : Precedes(records, a, j, i)}]

\* What it keeps.
Best(records, a) == Top(records, InOrder(Before(records, a)), a.k)

\* The value that records are ranked by.
ValueAt(records, a, i) == records[i][a.field].value

\* An order of the records of a sequence.
Rankable(records, a) ==
  /\ RankedValues(records, a) /\ Orders(Before(records, a))
  /\ DOMAIN Before(records, a) = DOMAIN records

\* The place that the record of a rank has among the others.
PlaceOf(records, a) == InOrder(Before(records, a))

\* The first of s and the first of t, in s \o t.
Origin(s, t, a) ==
  LET c == Min({a.k, Len(s)})
  IN  [p \in 1..(c + Min({a.k, Len(t)})) |->
         IF p <= c THEN PlaceOf(s, a)[p] ELSE Len(s) + PlaceOf(t, a)[p - c]]

\* The places of the first c of n records: different ones, in order where values are
\* equal, and those of all records that fewer than k are before.
Block(s, a, n, c, place) ==
  /\ n \in Nat /\ c \in Nat /\ c <= n /\ c <= a.k /\ (c = a.k \/ c = n) /\ DOMAIN s = 1..n
  /\ \A p \in 1..c : place[p] \in 1..n
  /\ \A p, q \in 1..c : place[p] = place[q] => p = q
  /\ \A p, q \in 1..c : ValueAt(s, a, place[p]) = ValueAt(s, a, place[q]) =>
                          (p < q <=> place[p] < place[q])
  /\ \A i \in 1..n : Cardinality(Before(s, a)[i]) < a.k => \E p \in 1..c : place[p] = i

\* The places of the first k records are such a block.
LEMMA RanksOfRecords ==
  ASSUME NEW s, NEW a, Rankable(s, a), a.k \in Nat
  PROVE  Block(s, a, Len(s), Min({a.k, Len(s)}), PlaceOf(s, a))
<1> DEFINE n == Len(s)
           c == Min({a.k, n})
           place == PlaceOf(s, a)
           S == Before(s, a)
<1>1. n \in Nat /\ DOMAIN s = 1..n /\ DOMAIN S = 1..n /\ Orders(S)
  BY ElementsOf DEF Rankable, RankedValues
<1> HIDE DEF n
<1>2. c \in Nat /\ c <= n /\ c <= a.k /\ (c = a.k \/ c = n)
  BY <1>1, MinOfTwo
<1>3. Cardinality(DOMAIN S) = n
  BY <1>1, CountTo
<1> HIDE DEF c, S
<1>4. ASSUME NEW p \in 1..c PROVE place[p] \in 1..n /\ Cardinality(S[place[p]]) = p - 1
  <2>1. p \in 1..Cardinality(DOMAIN S)
    BY <1>1, <1>2, <1>3
  <2>2. InOrder(S)[p] \in DOMAIN S /\ Cardinality(S[InOrder(S)[p]]) = p - 1
    BY <1>1, <2>1, PlaceOfElement
  <2> QED BY <1>1, <2>2 DEF PlaceOf, S
<1> HIDE DEF place
<1>5. ASSUME NEW p \in 1..c, NEW q \in 1..c PROVE p < q <=> place[p] \in S[place[q]]
  <2>1. /\ Ranks(S)[place[p]] = Cardinality(S[place[p]]) + 1
        /\ Ranks(S)[place[q]] = Cardinality(S[place[q]]) + 1
    BY <1>1, <1>4 DEF Ranks
  <2>2. place[p] \in S[place[q]] <=> Ranks(S)[place[p]] < Ranks(S)[place[q]]
    BY <1>1, <1>4, RanksAreNumbers, Zenon
  <2>3. Ranks(S)[place[p]] = p /\ Ranks(S)[place[q]] = q
    BY <1>4, <2>1
  <2> QED BY <2>2, <2>3
<1>6. ASSUME NEW p \in 1..c, NEW q \in 1..c, place[p] = place[q] PROVE p = q
  <2>1. p - 1 = q - 1
    BY <1>4, <1>6
  <2> QED BY <2>1
<1>7. ASSUME NEW p \in 1..c, NEW q \in 1..c, ValueAt(s, a, place[p]) = ValueAt(s, a, place[q])
      PROVE  p < q <=> place[p] < place[q]
  <2> DEFINE i == place[p]
             j == place[q]
  <2>1. i \in DOMAIN s /\ j \in DOMAIN s
    BY <1>1, <1>4
  <2>2. p < q <=> i \in S[j]
    BY <1>5
  <2> HIDE DEF i, j
  <2>3. i \in S[j] <=> Precedes(s, a, i, j)
    BY <2>1 DEF S, Before
  <2>4. s[i][a.field].value = s[j][a.field].value
    BY <1>7 DEF ValueAt, i, j
  <2>5. Precedes(s, a, i, j) <=> i < j
    BY <2>4 DEF Precedes
  <2> QED BY <2>2, <2>3, <2>5 DEF i, j
<1>8. ASSUME NEW i \in 1..n, Cardinality(S[i]) < a.k PROVE \E p \in 1..c : place[p] = i
  <2>1. Cardinality(S[i]) + 1 \in 1..n /\ InOrder(S)[Cardinality(S[i]) + 1] = i
    BY <1>1, <1>3, Arranged
  <2>2. Cardinality(S[i]) \in Nat
    BY <1>1, BeforeIsLess
  <2>3. Cardinality(S[i]) + 1 \in 1..c
    BY <1>2, <1>8, <2>1, <2>2
  <2> QED BY <2>1, <2>3 DEF place, PlaceOf, S
<1>9. Block(s, a, n, c, place)
  BY <1>1, <1>2, <1>4, <1>6, <1>7, <1>8 DEF Block, S
<1> QED BY <1>9, Zenon DEF n, c, place

\* The same records are before one of s in s \o t, and perhaps others; so of t.
LEMMA BeforeInJoined ==
  ASSUME NEW s, NEW t, NEW a, Rankable(s, a), Rankable(t, a), Rankable(s \o t, a)
  PROVE  LET U == Before(s \o t, a)
         IN  /\ \A i \in DOMAIN s : Cardinality(Before(s, a)[i]) <= Cardinality(U[i])
             /\ \A j \in DOMAIN t : Cardinality(Before(t, a)[j]) <= Cardinality(U[Len(s) + j])
<1> DEFINE n == Len(s)
           m == Len(t)
           u == s \o t
           S == Before(s, a)
           T == Before(t, a)
           U == Before(u, a)
<1>1. Joins(u, s, n, t, m)
  BY Joined, Zenon DEF Rankable, RankedValues
<1>2. DOMAIN s = 1..n /\ DOMAIN t = 1..m
  BY ElementsOf DEF Rankable, RankedValues
<1>3. Orders(S) /\ DOMAIN S = 1..n /\ Orders(T) /\ DOMAIN T = 1..m /\ Orders(U) /\ DOMAIN U = DOMAIN u
  BY <1>2 DEF Rankable
<1> HIDE DEF u, n, m
<1>4. /\ n \in Nat /\ m \in Nat /\ DOMAIN u = 1..(n + m)
      /\ \A i \in 1..n : u[i] = s[i]
      /\ \A j \in 1..m : u[n + j] = t[j]
  BY <1>1 DEF Joins
<1>5. /\ \A i \in 1..n : i \in 1..(n + m)
      /\ \A j \in 1..m : n + j \in 1..(n + m)
  BY <1>4, PlacesJoined
<1>6. /\ \A i \in 1..n : \A j \in 1..n : j \in S[i] <=> Precedes(s, a, j, i)
      /\ \A i \in 1..m : \A j \in 1..m : j \in T[i] <=> Precedes(t, a, j, i)
      /\ \A i \in 1..(n + m) : \A j \in 1..(n + m) : j \in U[i] <=> Precedes(u, a, j, i)
  BY <1>2, <1>4, Zenon DEF Before
<1> HIDE DEF S, T, U
<1>7. ASSUME NEW i \in 1..n PROVE Cardinality(S[i]) <= Cardinality(U[i])
  <2>1. S[i] \subseteq 1..n
    BY <1>3 DEF Orders
  <2>2. ASSUME NEW j \in 1..n PROVE Precedes(s, a, j, i) <=> Precedes(u, a, j, i)
    <3>1. u[i] = s[i] /\ u[j] = s[j]
      BY <1>4
    <3> QED BY <3>1 DEF Precedes
  <2>3. S[i] \in SUBSET U[i]
    BY <1>5, <1>6, <2>1, <2>2
  <2>4. IsFiniteSet(U[i])
    BY <1>3, <1>4, <1>5, BeforeIsLess
  <2> QED BY <2>3, <2>4, FS_Subset
<1>8. ASSUME NEW i \in 1..m PROVE Cardinality(T[i]) <= Cardinality(U[n + i])
  <2> DEFINE A == T[i]
             B == U[n + i]
             f == [j \in A |-> n + j]
  <2>1. A \subseteq 1..m
    BY <1>3 DEF Orders
  <2>2. ASSUME NEW j \in 1..m PROVE Precedes(t, a, j, i) <=> Precedes(u, a, n + j, n + i)
    <3>1. u[n + i] = t[i] /\ u[n + j] = t[j]
      BY <1>4
    <3>2. j < i <=> n + j < n + i
      BY <1>4
    <3> QED BY <3>1, <3>2 DEF Precedes
  <2>3. \A j \in A : n + j \in B
    BY <1>5, <1>6, <2>1, <2>2
  <2>4. IsFiniteSet(B)
    BY <1>3, <1>4, <1>5, BeforeIsLess
  <2> HIDE DEF A, B
  <2>5. f \in [A -> B] /\ DOMAIN f = A /\ \A j \in A : f[j] = n + j
    BY <2>3
  <2> HIDE DEF f
  <2>6. ASSUME NEW j \in A, NEW k \in A, f[j] = f[k] PROVE j = k
    <3>1. n + j = n + k /\ j \in Int /\ k \in Int
      BY <2>1, <2>5, <2>6
    <3> QED BY <1>4, <3>1
  <2>7. f \in Injection(A, B)
    BY <2>5, <2>6 DEF Injection, IsInjective
  <2> QED BY <2>4, <2>7, FS_Injection DEF A, B
<1>9. /\ \A i \in DOMAIN s : Cardinality(S[i]) <= Cardinality(U[i])
      /\ \A j \in DOMAIN t : Cardinality(T[j]) <= Cardinality(U[n + j])
  BY <1>2, <1>7, <1>8
<1> QED BY <1>9 DEF S, T, U, u, n

\* The first of s and the first of t have places in s \o t: different ones, of the same
\* records, in order where values are equal.
Traces(e, x, u, a) ==
  /\ e \in [DOMAIN x -> DOMAIN u] /\ \A p \in DOMAIN x : x[p] = u[e[p]]
  /\ \A p, q \in DOMAIN x : e[p] = e[q] => p = q
  /\ \A p, q \in DOMAIN x : ValueAt(u, a, e[p]) = ValueAt(u, a, e[q]) => (p < q <=> e[p] < e[q])

\* Two blocks of places.
Blocks(e, c, d, n, f, g) ==
  /\ c \in Nat /\ d \in Nat /\ n \in Nat /\ e = [p \in 1..(c + d) |-> e[p]]
  /\ \A p \in 1..c : e[p] = f[p]
  /\ \A p \in 1..d : e[c + p] = n + g[p]

\* The places in s \o t are the two blocks of s and of t.
LEMMA OriginIsBlocks ==
  ASSUME NEW s, NEW t, NEW a, NEW n, NEW m, NEW c, NEW d,
         Block(s, a, n, c, PlaceOf(s, a)), Block(t, a, m, d, PlaceOf(t, a)),
         c = Min({a.k, Len(s)}), d = Min({a.k, Len(t)}), n = Len(s)
  PROVE  Blocks(Origin(s, t, a), c, d, n, PlaceOf(s, a), PlaceOf(t, a))
<1> DEFINE f == PlaceOf(s, a)
           g == PlaceOf(t, a)
           e == Origin(s, t, a)
<1>1. c \in Nat /\ d \in Nat /\ n \in Nat
  BY DEF Block
<1>2. e = [p \in 1..(c + d) |-> IF p <= c THEN f[p] ELSE n + g[p - c]]
  BY DEF Origin
<1> HIDE DEF e, f, g
<1>3. ASSUME NEW p \in 1..c PROVE e[p] = f[p]
  <2>1. p \in 1..(c + d) /\ p <= c
    BY <1>1
  <2> QED BY <1>2, <2>1
<1>4. ASSUME NEW p \in 1..d PROVE e[c + p] = n + g[p]
  <2>1. c + p \in 1..(c + d) /\ ~(c + p <= c) /\ (c + p) - c = p
    BY <1>1
  <2> QED BY <1>2, <2>1
<1>5. e = [p \in 1..(c + d) |-> e[p]]
  BY <1>2
<1>6. Blocks(e, c, d, n, f, g)
  BY <1>1, <1>3, <1>4, <1>5, Zenon DEF Blocks
<1> QED BY <1>6, Zenon DEF e, f, g

\* The blocks keep apart, and keep their orders.
KeptApart(e, c, d, n, m, g) ==
  /\ \A p \in 1..(c + d) : e[p] \in 1..(n + m)
  /\ \A p \in 1..c, q \in 1..d : e[p] < e[c + q] /\ p < c + q
  /\ \A p, q \in 1..d : /\ c + p < c + q <=> p < q
                        /\ e[c + p] < e[c + q] <=> g[p] < g[q]
                        /\ e[c + p] = e[c + q] <=> g[p] = g[q]

\* The second block lies behind the first one and is moved as a whole.
LEMMA BlocksApart ==
  ASSUME NEW s, NEW t, NEW a, NEW e, NEW c, NEW d, NEW n, NEW m, NEW f, NEW g,
         Blocks(e, c, d, n, f, g), Block(s, a, n, c, f), Block(t, a, m, d, g)
  PROVE  KeptApart(e, c, d, n, m, g)
<1>1. /\ c \in Nat /\ d \in Nat /\ n \in Nat /\ m \in Nat
      /\ \A p \in 1..c : e[p] = f[p] /\ f[p] \in 1..n
      /\ \A p \in 1..d : e[c + p] = n + g[p] /\ g[p] \in 1..m
  BY Zenon DEF Blocks, Block
<1>2. ASSUME NEW p \in 1..(c + d) PROVE e[p] \in 1..(n + m)
  <2>1. p \in 1..c \/ \E q \in 1..d : p = c + q
    BY <1>1, PlacesJoined
  <2>2. CASE p \in 1..c
    <3>1. e[p] \in 1..n
      BY <1>1, <2>2
    <3> QED BY <1>1, <3>1
  <2>3. CASE \E q \in 1..d : p = c + q
    <3>1. PICK q \in 1..d : p = c + q
      BY <2>3
    <3>2. PICK y \in 1..m : y = g[q]
      BY <1>1
    <3>3. e[p] = n + y
      BY <1>1, <3>1, <3>2
    <3> QED BY <1>1, <3>2, <3>3
  <2> QED BY <2>1, <2>2, <2>3
<1>3. ASSUME NEW p \in 1..c, NEW q \in 1..d PROVE e[p] < e[c + q] /\ p < c + q
  <2>1. PICK x \in 1..n : x = f[p]
    BY <1>1
  <2>2. PICK y \in 1..m : y = g[q]
    BY <1>1
  <2>3. e[p] = x /\ e[c + q] = n + y
    BY <1>1, <2>1, <2>2
  <2> QED BY <1>1, <2>3
<1>4. ASSUME NEW p \in 1..d, NEW q \in 1..d
      PROVE  /\ c + p < c + q <=> p < q
             /\ e[c + p] < e[c + q] <=> g[p] < g[q]
             /\ e[c + p] = e[c + q] <=> g[p] = g[q]
  <2>1. PICK x \in 1..m : x = g[p]
    BY <1>1
  <2>2. PICK y \in 1..m : y = g[q]
    BY <1>1
  <2>3. e[c + p] = n + x /\ e[c + q] = n + y
    BY <1>1, <2>1, <2>2
  <2>4. c + p < c + q <=> p < q
    BY <1>1
  <2>5. n + x < n + y <=> x < y
    BY <1>1
  <2>6. n + x = n + y <=> x = y
    BY <1>1
  <2> QED BY <2>1, <2>2, <2>3, <2>4, <2>5, <2>6
<1> QED BY <1>2, <1>3, <1>4 DEF KeptApart

\* So the first of s and the first of t have places in s \o t.
LEMMA OriginTraces ==
  ASSUME NEW s, IsSequence(s), NEW t, IsSequence(t), NEW a, NEW n, NEW m, NEW c, NEW d, NEW f, NEW g,
         Block(s, a, n, c, f), Block(t, a, m, d, g),
         NEW u, Joins(u, s, n, t, m), NEW x, NEW e, Blocks(e, c, d, n, f, g),
         DOMAIN x = 1..(c + d), \A p \in 1..c : x[p] = s[f[p]], \A p \in 1..d : x[c + p] = t[g[p]]
  PROVE  Traces(e, x, u, a)
<1>1. /\ n \in Nat /\ m \in Nat /\ c \in Nat /\ d \in Nat
      /\ \A p \in 1..c : f[p] \in 1..n
      /\ \A p \in 1..d : g[p] \in 1..m
  BY DEF Block
<1>2. /\ DOMAIN u = 1..(n + m)
      /\ \A i \in 1..n : u[i] = s[i]
      /\ \A j \in 1..m : u[n + j] = t[j]
  BY DEF Joins
<1>3. /\ e = [p \in 1..(c + d) |-> e[p]]
      /\ \A p \in 1..c : e[p] = f[p]
      /\ \A p \in 1..d : e[c + p] = n + g[p]
  BY Zenon DEF Blocks
<1>4. \A p \in 1..(c + d) : p \in 1..c \/ \E q \in 1..d : p = c + q
  BY <1>1, PlacesJoined
<1>5. KeptApart(e, c, d, n, m, g)
  BY BlocksApart
<1>6. \A p \in 1..c : x[p] = u[e[p]] /\ ValueAt(u, a, e[p]) = ValueAt(s, a, f[p])
  <2>1. ASSUME NEW p \in 1..c PROVE x[p] = u[e[p]] /\ ValueAt(u, a, e[p]) = ValueAt(s, a, f[p])
    <3>1. e[p] = f[p] /\ u[f[p]] = s[f[p]] /\ x[p] = s[f[p]]
      BY <1>1, <1>2, <1>3, Zenon
    <3> QED BY <3>1, Zenon DEF ValueAt
  <2> QED BY <2>1
<1>7. \A p \in 1..d : x[c + p] = u[e[c + p]] /\ ValueAt(u, a, e[c + p]) = ValueAt(t, a, g[p])
  <2>1. ASSUME NEW p \in 1..d PROVE x[c + p] = u[e[c + p]] /\ ValueAt(u, a, e[c + p]) = ValueAt(t, a, g[p])
    <3>1. e[c + p] = n + g[p] /\ u[n + g[p]] = t[g[p]] /\ x[c + p] = t[g[p]]
      BY <1>1, <1>2, <1>3, Zenon
    <3> QED BY <3>1, Zenon DEF ValueAt
  <2> QED BY <2>1
<1>8. e \in [DOMAIN x -> DOMAIN u]
  <2>1. \A p \in 1..(c + d) : e[p] \in 1..(n + m)
    BY <1>5 DEF KeptApart
  <2> QED BY <1>2, <1>3, <2>1
<1>9. \A p \in DOMAIN x : x[p] = u[e[p]]
  <2> DEFINE Is(p) == x[p] = u[e[p]]
  <2>1. \A p \in 1..c : Is(p)
    BY <1>6
  <2>2. \A p \in 1..d : Is(c + p)
    BY <1>7
  <2> HIDE DEF Is
  <2>3. \A p \in 1..(c + d) : Is(p)
    BY <1>4, <2>1, <2>2
  <2>4. \A p \in 1..(c + d) : x[p] = u[e[p]]
    BY <2>3 DEF Is
  <2> QED BY <2>4
<1>10. \A p, q \in 1..c : /\ f[p] = f[q] => p = q
                          /\ ValueAt(s, a, f[p]) = ValueAt(s, a, f[q]) => (p < q <=> f[p] < f[q])
  BY DEF Block
<1>11. \A p, q \in 1..d : /\ g[p] = g[q] => p = q
                          /\ ValueAt(t, a, g[p]) = ValueAt(t, a, g[q]) => (p < q <=> g[p] < g[q])
  BY DEF Block
<1> DEFINE InPlace(p, q) == /\ e[p] = e[q] => p = q
                            /\ ValueAt(u, a, e[p]) = ValueAt(u, a, e[q]) => (p < q <=> e[p] < e[q])
<1>12. ASSUME NEW p \in 1..c, NEW q \in 1..c PROVE InPlace(p, q)
  <2>1. e[p] = f[p] /\ e[q] = f[q]
    BY <1>3
  <2>2. ValueAt(u, a, e[p]) = ValueAt(s, a, f[p]) /\ ValueAt(u, a, e[q]) = ValueAt(s, a, f[q])
    BY <1>6, Zenon
  <2>3. /\ f[p] = f[q] => p = q
        /\ ValueAt(s, a, f[p]) = ValueAt(s, a, f[q]) => (p < q <=> f[p] < f[q])
    BY <1>10, Zenon
  <2> QED BY <2>1, <2>2, <2>3
<1>13. ASSUME NEW p \in 1..c, NEW q \in 1..d PROVE InPlace(p, c + q) /\ InPlace(c + q, p)
  <2>1. e[p] < e[c + q] /\ p < c + q
    BY <1>5 DEF KeptApart
  <2>2. e[p] \in Int /\ e[c + q] \in Int
    <3>1. p \in 1..(c + d) /\ c + q \in 1..(c + d)
      BY <1>1
    <3>2. e[p] \in 1..(n + m) /\ e[c + q] \in 1..(n + m)
      BY <1>5, <3>1 DEF KeptApart
    <3> QED BY <3>2
  <2>3. ~(e[c + q] < e[p]) /\ e[c + q] # e[p] /\ ~(c + q < p)
    BY <1>1, <2>1, <2>2
  <2> QED BY <2>1, <2>3
<1>14. ASSUME NEW p \in 1..d, NEW q \in 1..d PROVE InPlace(c + p, c + q)
  <2>1. /\ c + p < c + q <=> p < q
        /\ e[c + p] < e[c + q] <=> g[p] < g[q]
        /\ e[c + p] = e[c + q] <=> g[p] = g[q]
    BY <1>5, Zenon DEF KeptApart
  <2>2. /\ ValueAt(u, a, e[c + p]) = ValueAt(t, a, g[p])
        /\ ValueAt(u, a, e[c + q]) = ValueAt(t, a, g[q])
    BY <1>7, Zenon
  <2>3. /\ g[p] = g[q] => p = q
        /\ ValueAt(t, a, g[p]) = ValueAt(t, a, g[q]) => (p < q <=> g[p] < g[q])
    BY <1>11, Zenon
  <2> QED BY <2>1, <2>2, <2>3, Zenon
<1> HIDE DEF InPlace
<1>15. \A p, q \in 1..(c + d) : InPlace(p, q)
  <2> SUFFICES ASSUME NEW p \in 1..(c + d), NEW q \in 1..(c + d) PROVE InPlace(p, q)
    OBVIOUS
  <2>1. CASE p \in 1..c
    <3>1. \A l \in 1..d : InPlace(p, c + l)
      BY <1>13, <2>1
    <3> QED BY <1>4, <1>12, <2>1, <3>1, Zenon
  <2>2. ASSUME NEW k \in 1..d, p = c + k PROVE InPlace(p, q)
    <3>1. \A l \in 1..d : InPlace(c + k, c + l)
      BY <1>14
    <3>2. \A l \in 1..c : InPlace(c + k, l)
      BY <1>13
    <3> QED BY <1>4, <2>2, <3>1, <3>2, Zenon
  <2> QED BY <1>4, <2>1, <2>2, Zenon
<1> QED BY <1>8, <1>9, <1>15 DEF Traces, InPlace

\* The best of s are records of s, at the places of their ranks.
LEMMA BestOf ==
  ASSUME NEW s, NEW a, Rankable(s, a), a.k \in Nat
  PROVE  LET c == Min({a.k, Len(s)})
         IN  /\ IsSequence(Best(s, a)) /\ Len(Best(s, a)) = c /\ DOMAIN Best(s, a) = 1..c
             /\ \A p \in 1..c : Best(s, a)[p] = s[PlaceOf(s, a)[p]]
<1> DEFINE c == Min({a.k, Len(s)})
           order == InOrder(Before(s, a))
           best == Top(s, order, a.k)
<1>1. IsSequence(s)
  BY DEF Rankable, RankedValues
<1> HIDE DEF order
<1>2. IsSequence(best) /\ Len(best) = c /\ \A p \in 1..c : best[p] = s[order[p]]
  BY <1>1, TopIsSequence
<1>3. DOMAIN best = 1..c
  BY <1>2, ElementsOf
<1> QED BY <1>2, <1>3, Zenon DEF Best, PlaceOf, order

\* The best of the whole are the best of the best of its parts.
LEMMA BestOfParts ==
  ASSUME NEW s, NEW t, NEW a, Rankable(s, a), Rankable(t, a), Rankable(s \o t, a), a.k \in Nat,
         Rankable(Best(s, a) \o Best(t, a), a)
  PROVE  /\ Best(Best(s, a) \o Best(t, a), a) = Best(s \o t, a)
         /\ \A p \in DOMAIN (Best(s, a) \o Best(t, a)) :
              (Best(s, a) \o Best(t, a))[p] \in Range(s \o t)
<1> DEFINE u == s \o t
           y == Best(s, a)
           z == Best(t, a)
           x == y \o z
           n == Len(s)
           m == Len(t)
           c == Min({a.k, n})
           d == Min({a.k, m})
           f == PlaceOf(s, a)
           g == PlaceOf(t, a)
           e == Origin(s, t, a)
           U == Before(u, a)
           X == Before(x, a)
<1>1. IsSequence(s) /\ IsSequence(t) /\ IsSequence(u) /\ IsSequence(x)
  BY DEF Rankable, RankedValues
<1>2. Joins(u, s, n, t, m)
  BY <1>1, Joined, Zenon
<1>3. Block(s, a, n, c, f)
  BY RanksOfRecords
<1>4. Block(t, a, m, d, g)
  BY RanksOfRecords
<1>5. Blocks(e, c, d, n, f, g)
  BY <1>3, <1>4, OriginIsBlocks, Zenon
<1>6. /\ IsSequence(y) /\ Len(y) = c /\ \A p \in 1..c : y[p] = s[f[p]]
      /\ IsSequence(z) /\ Len(z) = d /\ \A p \in 1..d : z[p] = t[g[p]]
  <2>1. IsSequence(y) /\ Len(y) = c /\ \A p \in 1..c : y[p] = s[f[p]]
    BY BestOf
  <2>2. IsSequence(z) /\ Len(z) = d /\ \A p \in 1..d : z[p] = t[g[p]]
    BY BestOf
  <2> QED BY <2>1, <2>2, Zenon
<1>7. Joins(x, y, c, z, d)
  <2>1. Joins(x, y, Len(y), z, Len(z))
    BY <1>6, Joined, Zenon
  <2> QED BY <1>6, <2>1
<1>8. Orders(U) /\ DOMAIN U = DOMAIN u /\ Orders(X) /\ DOMAIN X = DOMAIN x
  BY DEF Rankable
<1>9. /\ \A i \in DOMAIN s : Cardinality(Before(s, a)[i]) <= Cardinality(U[i])
      /\ \A j \in DOMAIN t : Cardinality(Before(t, a)[j]) <= Cardinality(U[n + j])
  BY BeforeInJoined
<1>10. /\ \A p, q \in DOMAIN x : p \in X[q] <=> Precedes(x, a, p, q)
       /\ \A i, j \in DOMAIN u : i \in U[j] <=> Precedes(u, a, i, j)
  BY DEF Before
<1>11. y = Best(s, a) /\ z = Best(t, a) /\ x = y \o z /\ u = s \o t
  OBVIOUS
<1>12. Best(x, a) = Top(x, InOrder(X), a.k) /\ Best(u, a) = Top(u, InOrder(U), a.k)
  BY DEF Best
<1> HIDE DEF u, x, y, z, n, m, c, d, f, g, e, U, X
<1>13. /\ DOMAIN x = 1..(c + d) /\ Len(x) = c + d
       /\ \A p \in 1..c : x[p] = s[f[p]]
       /\ \A p \in 1..d : x[c + p] = t[g[p]]
  BY <1>6, <1>7 DEF Joins
<1>14. Traces(e, x, u, a)
  BY <1>1, <1>2, <1>3, <1>4, <1>5, <1>13, OriginTraces
<1>15. /\ e \in [DOMAIN x -> DOMAIN u] /\ \A p \in DOMAIN x : x[p] = u[e[p]]
       /\ \A p, q \in DOMAIN x : e[p] = e[q] => p = q
  BY <1>14 DEF Traces
<1>16. ASSUME NEW p \in DOMAIN x, NEW q \in DOMAIN x PROVE p \in X[q] <=> e[p] \in U[e[q]]
  <2>1. x[p] = u[e[p]] /\ x[q] = u[e[q]] /\ e[p] \in DOMAIN u /\ e[q] \in DOMAIN u
    BY <1>15
  <2>2. ValueAt(u, a, e[p]) = ValueAt(u, a, e[q]) => (p < q <=> e[p] < e[q])
    BY <1>14 DEF Traces
  <2>3. Precedes(x, a, p, q) <=> Precedes(u, a, e[p], e[q])
    BY <2>1, <2>2 DEF Precedes, ValueAt
  <2> QED BY <1>10, <2>1, <2>3
<1>17. /\ n \in Nat /\ m \in Nat /\ DOMAIN s = 1..n /\ DOMAIN t = 1..m
       /\ c \in Nat /\ d \in Nat /\ c <= n /\ d <= m /\ c <= a.k /\ d <= a.k
       /\ (c = a.k \/ c = n) /\ (d = a.k \/ d = m)
  BY <1>3, <1>4 DEF Block
<1>18. Len(u) = n + m /\ DOMAIN u = 1..(n + m)
  BY <1>2 DEF Joins
<1>19. ASSUME NEW i \in DOMAIN u, Cardinality(U[i]) < a.k PROVE \E p \in DOMAIN x : e[p] = i
  <2>0. Cardinality(U[i]) \in Nat
    BY <1>8, BeforeIsLess
  <2>1. i \in 1..n \/ \E j \in 1..m : i = n + j
    <3>1. n \in Nat /\ m \in Nat /\ i \in 1..(n + m)
      BY <1>17, <1>18
    <3> QED BY <3>1, PlacesJoined
  <2>2. CASE i \in 1..n
    <3>1. Cardinality(Before(s, a)[i]) < a.k
      <4>1. Cardinality(Before(s, a)[i]) <= Cardinality(U[i])
        BY <1>9, <1>17, <2>2
      <4>2. Cardinality(Before(s, a)[i]) \in Nat
        BY <1>17, <2>2, BeforeIsLess DEF Rankable
      <4> QED BY <1>19, <2>0, <4>1, <4>2
    <3>2. PICK p \in 1..c : f[p] = i
      BY <1>3, <2>2, <3>1 DEF Block
    <3>3. p \in 1..(c + d) /\ e[p] = i
      <4>1. p \in 1..(c + d)
        BY <1>17
      <4>2. e[p] = f[p]
        BY <1>5, Zenon DEF Blocks
      <4> QED BY <3>2, <4>1, <4>2
    <3> QED BY <1>13, <3>3
  <2>3. CASE \E j \in 1..m : i = n + j
    <3>0. PICK j \in 1..m : i = n + j
      BY <2>3
    <3>1. Cardinality(Before(t, a)[j]) < a.k
      <4>1. Cardinality(Before(t, a)[j]) <= Cardinality(U[i])
        BY <1>9, <1>17, <3>0, Zenon
      <4>2. Cardinality(Before(t, a)[j]) \in Nat
        BY <1>17, <3>0, BeforeIsLess DEF Rankable
      <4> QED BY <1>19, <2>0, <4>1, <4>2
    <3>2. PICK p \in 1..d : g[p] = j
      BY <1>4, <3>0, <3>1 DEF Block
    <3>3. e[c + p] = n + g[p]
      BY <1>5, Zenon DEF Blocks
    <3>4. c + p \in 1..(c + d) /\ e[c + p] = i
      BY <1>17, <3>0, <3>2, <3>3
    <3> QED BY <1>13, <3>4
  <2> QED BY <2>1, <2>2, <2>3
<1>20. Min({a.k, Len(x)}) = Min({a.k, Len(u)})
  <2>1. /\ Min({a.k, c + d}) = IF a.k <= c + d THEN a.k ELSE c + d
        /\ Min({a.k, n + m}) = IF a.k <= n + m THEN a.k ELSE n + m
    <3>1. a.k \in Int /\ c + d \in Int /\ n + m \in Int
      BY <1>17
    <3> QED BY <3>1, MinOfTwo
  <2>2. Min({a.k, c + d}) = Min({a.k, n + m})
    BY <1>17, <2>1
  <2> QED BY <1>13, <1>18, <2>2
<1>21. Embeds(e, x, X, u, U, a.k)
  BY <1>15, <1>16, <1>19, <1>20 DEF Embeds
<1>22. Top(x, InOrder(X), a.k) = Top(u, InOrder(U), a.k)
  BY <1>1, <1>8, <1>21, TopEmbedded
<1>23. \A p \in DOMAIN x : x[p] \in Range(u)
  BY <1>15, Zenon DEF Range
<1> QED BY <1>11, <1>12, <1>22, <1>23

\* Records, one sequence after the other.
LEMMA RecordsJoined ==
  ASSUME NEW s, IsRecords(s), NEW t, IsRecords(t)
  PROVE  IsRecords(s \o t) /\ IsSequence(s) /\ IsSequence(t)
<1>1. IsSequence(s) /\ IsSequence(t)
  BY DEF IsRecords, IsSequence
<1>2. Range(s \o t) = Range(s) \cup Range(t)
  BY <1>1, RangeJoined
<1>3. IsSequence(s \o t)
  BY <1>1, Joined DEF Joins
<1> DEFINE u == s \o t
<1>4. (\A record \in Range(s) : IsRecord(record)) /\ (\A record \in Range(t) : IsRecord(record))
  BY DEF IsRecords
<1> HIDE DEF u
<1>5. \A record \in Range(u) : IsRecord(record)
  BY <1>2, <1>4 DEF u
<1>6. IsRecords(u)
  BY <1>3, <1>5 DEF IsRecords, IsSequence, u
<1> QED BY <1>1, <1>6 DEF u

\* What a last step over the merged results of two parts gives, is what the whole gives;
\* and the parts do not fail when the whole does not.
Concludes(whole, first, second, last) ==
  /\ whole.status = "success" => first.status = "success" /\ second.status = "success"
  /\ first.status = "success" /\ second.status = "success" =>
       /\ whole.status = "success" <=> last.status = "success"
       /\ whole.status = "success" => whole.records = last.records

\* The types that records are ranked by.
Kinds(records, a) == {record[a.field].type : record \in Range(records)}

\* Those that can be ranked.
OneKind(types) == types \subseteq {"int", "float"} \/ types \subseteq {"string"}

\* Records that can be ranked.
RankFit(records, a) == ~Missing(records, {a.field}) /\ OneKind(Kinds(records, a))

\* top_k_records keeps the best records, if they can be ranked.
LEMMA TopKMakes ==
  ASSUME NEW records, NEW a
  PROVE  Makes(TopK(records, a), RankFit(records, a), Best(records, a))
<1> DEFINE best == Best(records, a)
           types == {record[a.field].type : record \in Range(records)}
<1>1. TopK(records, a) = IF Missing(records, {a.field}) THEN Invalid
                         ELSE IF ~(types \subseteq {"int", "float"} \/ types \subseteq {"string"}) THEN Invalid
                         ELSE Success(best)
  BY DEF TopK, Best, Before
<1>2. types = Kinds(records, a)
  BY DEF Kinds
<1> HIDE DEF best, types
<1>3. TopK(records, a) = IF RankFit(records, a) THEN Success(best) ELSE Invalid
  BY <1>1, <1>2 DEF RankFit, OneKind
<1> HIDE DEF RankFit
<1>4. Makes(TopK(records, a), RankFit(records, a), best)
  BY <1>3 DEF Makes, Invalid, Failure
<1> QED BY <1>4 DEF best

\* Sets of which each is of one kind, when some of each is in a third.
LEMMA KindsAgree ==
  ASSUME NEW S, NEW T, NEW X, OneKind(S), OneKind(T), OneKind(X),
         S # {} => S \cap X # {}, T # {} => T \cap X # {}
  PROVE  OneKind(S \cup T)
<1>1. ASSUME NEW Z, OneKind(Z), Z # {} => Z \cap X # {}
      PROVE  /\ X \subseteq {"int", "float"} => Z \subseteq {"int", "float"}
             /\ X \subseteq {"string"} => Z \subseteq {"string"}
  <2>1. CASE Z = {}
    BY <2>1
  <2>2. CASE Z # {}
    <3>1. PICK z \in Z : z \in X
      BY <1>1, <2>2
    <3>2. "string" \notin {"int", "float"}
      OBVIOUS
    <3> QED BY <1>1, <3>1, <3>2 DEF OneKind
  <2> QED BY <2>1, <2>2
<1>2. CASE X \subseteq {"int", "float"}
  <2>1. S \subseteq {"int", "float"} /\ T \subseteq {"int", "float"}
    BY <1>1, <1>2, Zenon
  <2> QED BY <2>1 DEF OneKind
<1>3. CASE X \subseteq {"string"}
  <2>1. S \subseteq {"string"} /\ T \subseteq {"string"}
    BY <1>1, <1>3, Zenon
  <2> QED BY <2>1 DEF OneKind
<1> QED BY <1>2, <1>3 DEF OneKind

\* Records with the field can be ranked.
LEMMA CanBeRanked ==
  ASSUME NEW records, IsRecords(records), NEW a, ~Missing(records, {a.field})
  PROVE  Rankable(records, a)
<1>1. RankedValues(records, a)
  BY RankedAreValues
<1>2. Orders(Before(records, a))
  BY <1>1, TopOrders DEF Before
<1> QED BY <1>1, <1>2 DEF Rankable, Before

\* When there are records, there are best ones, and they are among them.
LEMMA BestAmong ==
  ASSUME NEW s, NEW a, Rankable(s, a), a.k \in Nat \ {0}
  PROVE  /\ Range(Best(s, a)) \subseteq Range(s)
         /\ Range(s) # {} => Range(Best(s, a)) # {}
<1> DEFINE c == Min({a.k, Len(s)})
           n == Len(s)
           place == PlaceOf(s, a)
           best == Best(s, a)
<1>1. Block(s, a, n, c, place)
  BY RanksOfRecords
<1>2. DOMAIN best = 1..c /\ \A p \in 1..c : best[p] = s[place[p]]
  BY BestOf
<1> HIDE DEF c, n, place, best
<1>3. /\ DOMAIN s = 1..n /\ n \in Nat /\ c \in Nat /\ (c = a.k \/ c = n)
      /\ \A p \in 1..c : place[p] \in 1..n
  BY <1>1 DEF Block
<1>4. Range(best) \subseteq Range(s)
  BY <1>2, <1>3 DEF Range
<1>5. ASSUME Range(s) # {} PROVE Range(best) # {}
  <2>1. 1..n # {}
    BY <1>3, <1>5 DEF Range
  <2>2. 1 \in 1..c
    BY <1>3, <2>1
  <2>3. best[1] \in Range(best)
    BY <1>2, <2>2 DEF Range
  <2> QED BY <2>3
<1> QED BY <1>4, <1>5 DEF best

\* top_k_records over the best of two parts gives the best of both.
LEMMA TopKJoined ==
  ASSUME NEW s, IsRecords(s), NEW t, IsRecords(t), NEW a, a.k \in Nat \ {0}
  PROVE  Concludes(TopK(s \o t, a), TopK(s, a), TopK(t, a),
                   TopK(TopK(s, a).records \o TopK(t, a).records, a))
<1> DEFINE u == s \o t
           w == TopK(u, a)
           p == TopK(s, a)
           q == TopK(t, a)
           y == Best(s, a)
           z == Best(t, a)
           x == y \o z
           F == {a.field}
<1>1. IsRecords(u) /\ IsSequence(s) /\ IsSequence(t) /\ Range(u) = Range(s) \cup Range(t)
  BY RecordsJoined, RangeJoined
<1>2. /\ Makes(w, RankFit(u, a), Best(u, a)) /\ Makes(p, RankFit(s, a), y)
      /\ Makes(q, RankFit(t, a), z) /\ Makes(TopK(x, a), RankFit(x, a), Best(x, a))
  BY TopKMakes
<1>3. RankFit(s, a) => IsRecords(y)
  <2>1. a.k \in Nat
    OBVIOUS
  <2>2. IsRecords(p.records)
    BY <2>1, RankedRecords
  <2>3. RankFit(s, a) => p.records = y
    <3> HIDE DEF p, y
    <3> QED BY <1>2 DEF Makes, Success
  <2> QED BY <2>2, <2>3
<1>4. RankFit(t, a) => IsRecords(z)
  <2>1. a.k \in Nat
    OBVIOUS
  <2>2. IsRecords(q.records)
    BY <2>1, RankedRecords
  <2>3. RankFit(t, a) => q.records = z
    <3> HIDE DEF q, z
    <3> QED BY <1>2 DEF Makes, Success
  <2> QED BY <2>2, <2>3
<1>5. u = s \o t /\ x = y \o z /\ y = Best(s, a) /\ z = Best(t, a)
  OBVIOUS
<1>6. w = TopK(u, a) /\ p = TopK(s, a) /\ q = TopK(t, a)
  OBVIOUS
<1> HIDE DEF u, w, p, q, x, y, z
<1>7. RankFit(u, a) => RankFit(s, a) /\ RankFit(t, a)
  BY <1>1, Zenon DEF RankFit, Missing, Kinds, OneKind
<1>8. ASSUME RankFit(s, a), RankFit(t, a)
      PROVE  (RankFit(u, a) <=> RankFit(x, a)) /\ (RankFit(u, a) => Best(u, a) = Best(x, a))
  <2>1. ~Missing(s, F) /\ ~Missing(t, F) /\ OneKind(Kinds(s, a)) /\ OneKind(Kinds(t, a))
    BY <1>8 DEF RankFit
  <2>2. ~Missing(u, F)
    BY <1>1, <2>1 DEF Missing
  <2>3. Rankable(s, a) /\ Rankable(t, a) /\ Rankable(u, a)
    BY <1>1, <2>1, <2>2, CanBeRanked
  <2>4. IsRecords(x) /\ Range(x) = Range(y) \cup Range(z)
    <3>1. IsRecords(y) /\ IsRecords(z)
      BY <1>3, <1>4, <1>8
    <3>2. IsSequence(y) /\ IsSequence(z)
      BY <3>1 DEF IsRecords, IsSequence
    <3> QED BY <1>5, <3>1, <3>2, RecordsJoined, RangeJoined, Zenon
  <2>5. /\ Range(y) \subseteq Range(s) /\ (Range(s) # {} => Range(y) # {})
        /\ Range(z) \subseteq Range(t) /\ (Range(t) # {} => Range(z) # {})
    BY <1>5, <2>3, BestAmong, Zenon
  <2>6. ~Missing(x, F)
    BY <2>1, <2>4, <2>5 DEF Missing
  <2>7. Rankable(x, a)
    BY <2>4, <2>6, CanBeRanked
  <2>8. Best(x, a) = Best(u, a)
    <3>1. a.k \in Nat
      OBVIOUS
    <3>2. Rankable(s \o t, a) /\ Rankable(Best(s, a) \o Best(t, a), a)
      BY <1>5, <2>3, <2>7
    <3>3. Best(Best(s, a) \o Best(t, a), a) = Best(s \o t, a)
      BY <2>3, <3>1, <3>2, BestOfParts
    <3> QED BY <1>5, <3>3
  <2>9. /\ Kinds(u, a) = Kinds(s, a) \cup Kinds(t, a)
        /\ Kinds(x, a) = Kinds(y, a) \cup Kinds(z, a)
        /\ Kinds(y, a) \subseteq Kinds(s, a) /\ Kinds(z, a) \subseteq Kinds(t, a)
    BY <1>1, <2>4, <2>5 DEF Kinds
  <2>10. /\ Kinds(s, a) # {} => Kinds(y, a) # {}
         /\ Kinds(t, a) # {} => Kinds(z, a) # {}
    BY <2>5 DEF Kinds
  <2>11. OneKind(Kinds(u, a)) => OneKind(Kinds(x, a))
    BY <2>9 DEF OneKind
  <2>12. ASSUME OneKind(Kinds(x, a)) PROVE OneKind(Kinds(u, a))
    <3> DEFINE S == Kinds(s, a)
               T == Kinds(t, a)
               X == Kinds(x, a)
    <3>1. OneKind(S) /\ OneKind(T) /\ OneKind(X) /\ (S # {} => S \cap X # {}) /\ (T # {} => T \cap X # {})
      BY <2>1, <2>9, <2>10, <2>12
    <3>2. OneKind(S \cup T)
      <4> HIDE DEF S, T, X
      <4> QED BY <3>1, KindsAgree
    <3> QED BY <2>9, <3>2
  <2> QED BY <2>2, <2>6, <2>8, <2>11, <2>12 DEF RankFit
<1>9. ASSUME RankFit(s, a), RankFit(t, a) PROVE p.records = y /\ q.records = z
  BY <1>2, <1>9 DEF Makes, Success
<1> DEFINE l == TopK(p.records \o q.records, a)
<1>10. ASSUME RankFit(s, a), RankFit(t, a) PROVE l = TopK(x, a)
  BY <1>5, <1>9, <1>10
<1> HIDE DEF l, RankFit
<1>11. /\ w.status = "success" <=> RankFit(u, a)
       /\ p.status = "success" <=> RankFit(s, a)
       /\ q.status = "success" <=> RankFit(t, a)
       /\ TopK(x, a).status = "success" <=> RankFit(x, a)
       /\ RankFit(u, a) => w.records = Best(u, a)
       /\ RankFit(x, a) => TopK(x, a).records = Best(x, a)
  BY <1>2 DEF Makes, Success
<1>12. Concludes(w, p, q, l)
  BY <1>7, <1>8, <1>10, <1>11 DEF Concludes
<1> QED BY <1>5, <1>6, <1>12 DEF l

-----------------------------------------------------------------------------
(* The groups of parts, grouped again. *)

\* The row of the group that starts with a record, and all rows.
RowAt(records, a, i) ==
  Row(Restrict(records[i], Range(a.group_by)), Group(records, a.group_by, i), a.aggregations)

\* All rows, in the order of the groups.
GroupRows(records, a) ==
  LET heads == Heads(records, a.group_by)
  IN  [g \in 1..Cardinality(heads) |-> RowAt(records, a, Listed(heads)[g])]

\* aggregate_records with fields to group by.
LEMMA AggregateMakes ==
  ASSUME NEW records, NEW a, a.group_by # <<>>
  PROVE  Makes(WithAggregations(records, a), ~Unaggregatable(records, a), GroupRows(records, a))
<1> DEFINE starts == GroupStarts(records, a.group_by)
           heads == Heads(records, a.group_by)
           rows == [g \in DOMAIN starts |-> RowAt(records, a, starts[g])]
<1>1. WithAggregations(records, a) = IF Unaggregatable(records, a) THEN Invalid ELSE Success(rows)
  BY Zenon DEF WithAggregations, RowAt
<1>2. starts = Listed(heads)
  BY DEF GroupStarts, Heads
<1>3. DOMAIN Listed(heads) = 1..Cardinality(heads)
  <2> HIDE DEF heads
  <2> QED BY DEF Listed
<1>4. rows = GroupRows(records, a)
  <2> HIDE DEF heads, starts
  <2> QED BY <1>2, <1>3 DEF GroupRows, heads
<1> HIDE DEF rows
<1> QED BY <1>1, <1>4 DEF Makes, Invalid, Failure

\* x has one element for each of some places of u, in their order, with its key, and for
\* each that a group of u starts at.
Leads(e, c, x, n, u, group_by) ==
  /\ c \in Nat /\ n \in Nat /\ DOMAIN x = 1..c /\ DOMAIN u = 1..n /\ e \in [1..c -> 1..n]
  /\ \A p, q \in 1..c : p < q => e[p] < e[q]
  /\ \A p \in 1..c : Key(x[p], group_by) = Key(u[e[p]], group_by)
  /\ \A i \in Heads(u, group_by) : \E p \in 1..c : e[p] = i

\* The groups of u start where those of x do, by way of e.
StartsBy(e, c, x, u, group_by) ==
  LET H == Heads(x, group_by)
  IN  /\ Cardinality(Heads(u, group_by)) = Cardinality(H)
      /\ Listed(Heads(u, group_by)) = [r \in 1..Cardinality(H) |-> e[Listed(H)[r]]]
      /\ H \in SUBSET (1..c) /\ Listed(H) \in [1..Cardinality(H) -> H]

\* A list whose elements lead the groups of u starts them.
LEMMA HeadsLed ==
  ASSUME NEW e, NEW c, NEW x, NEW n, NEW u, IsSequence(u), NEW group_by, Leads(e, c, x, n, u, group_by)
  PROVE  StartsBy(e, c, x, u, group_by)
<1> DEFINE H == Heads(x, group_by)
           U == Heads(u, group_by)
           h == Cardinality(H)
           L == Listed(H)
           f == [r \in 1..h |-> e[L[r]]]
           k(i) == Key(u[i], group_by)
           l(p) == Key(x[p], group_by)
<1>1. /\ c \in Nat /\ n \in Nat /\ DOMAIN x = 1..c /\ DOMAIN u = 1..n
      /\ \A p \in 1..c : e[p] \in 1..n /\ l(p) = k(e[p])
      /\ \A p, q \in 1..c : p < q => e[p] < e[q]
      /\ \A i \in U : \E p \in 1..c : e[p] = i
  BY DEF Leads
<1>2. /\ \A i : i \in U <=> i \in 1..n /\ \A j \in 1..(i - 1) : k(j) # k(i)
      /\ \A p : p \in H <=> p \in 1..c /\ \A q \in 1..(p - 1) : l(q) # l(p)
  BY <1>1 DEF Heads
<1>3. ASSUME NEW i \in 1..n PROVE \E start \in U : k(start) = k(i)
  <2>1. i \in DOMAIN u
    BY <1>1
  <2> HIDE DEF k
  <2>2. PICK start \in U : \A j \in U : k(j) = k(i) <=> j = start
    <3>1. \E start \in Heads(u, group_by) :
            \A j \in Heads(u, group_by) : Key(u[j], group_by) = Key(u[i], group_by) <=> j = start
      BY <2>1, OneStart
    <3> QED BY <3>1, Zenon DEF k
  <2> QED BY <2>2
<1>4. H \in SUBSET (1..c) /\ U \in SUBSET (1..n)
  BY <1>2
<1> HIDE DEF H, U, k, l
<1>5. h \in Nat /\ L \in Bijection(1..h, H) /\ \A r, q \in 1..h : q < r => L[q] < L[r]
  <2>1. Cardinality(H) \in 0..c /\ Listed(H) \in Bijection(1..Cardinality(H), H)
        /\ \A r, q \in 1..Cardinality(H) : q < r => Listed(H)[q] < Listed(H)[r]
    BY <1>1, <1>4, ListedInOrder
  <2> QED BY <1>1, <2>1
<1> HIDE DEF h, L
<1>6. \A p, q \in 1..c : e[p] < e[q] => p < q
  <2> SUFFICES ASSUME NEW p \in 1..c, NEW q \in 1..c, e[p] < e[q], ~(p < q) PROVE FALSE
    OBVIOUS
  <2>1. e[p] \in 1..n /\ e[q] \in 1..n
    BY <1>1
  <2>2. p = q \/ q < p
    OBVIOUS
  <2>3. CASE p = q
    BY <2>1, <2>3
  <2>4. CASE q < p
    <3>1. e[q] < e[p]
      BY <1>1, <2>4
    <3> QED BY <2>1, <3>1
  <2> QED BY <2>2, <2>3, <2>4
<1>7. ASSUME NEW p \in H PROVE e[p] \in U
  <2>1. p \in 1..c /\ e[p] \in 1..n
    BY <1>1, <1>2
  <2> SUFFICES ASSUME NEW j \in 1..(e[p] - 1), k(j) = k(e[p]) PROVE FALSE
    BY <1>2, <2>1
  <2>2. j \in 1..n
    BY <1>1, <2>1
  <2> DEFINE same == {i \in 1..n : k(i) = k(e[p])}
             first == Min(same)
  <2>3. first \in same /\ \A i \in same : first <= i
    <3>1. same \in SUBSET (1..n) /\ same # {}
      BY <2>2
    <3> HIDE DEF same
    <3> QED BY <1>1, <3>1, MinExists, Zenon
  <2> HIDE DEF first
  <2>4. first \in 1..n /\ k(first) = k(e[p]) /\ first <= j
    BY <2>2, <2>3
  <2>5. first \in U
    <3> SUFFICES ASSUME NEW i \in 1..(first - 1), k(i) = k(first) PROVE FALSE
      BY <1>2, <2>4
    <3>1. i \in 1..n /\ i < first
      BY <1>1, <2>4
    <3>2. first <= i
      BY <2>3, <2>4, <3>1
    <3> QED BY <2>4, <3>1, <3>2
  <2>6. PICK q \in 1..c : e[q] = first
    BY <1>1, <2>5
  <2>7. e[q] < e[p]
    BY <2>1, <2>4, <2>6
  <2>8. q < p
    BY <1>6, <2>1, <2>7
  <2>9. q \in 1..(p - 1)
    BY <2>1, <2>8
  <2>10. l(q) = l(p)
    BY <1>1, <2>1, <2>4, <2>6
  <2> QED BY <1>2, <2>9, <2>10
<1>8. ASSUME NEW p \in 1..c, e[p] \in U PROVE p \in H
  <2> SUFFICES ASSUME NEW q \in 1..(p - 1) PROVE l(q) # l(p)
    BY <1>2
  <2>1. q \in 1..c /\ q < p
    BY <1>1
  <2>2. e[q] < e[p] /\ e[q] \in 1..n /\ e[p] \in 1..n
    BY <1>1, <2>1
  <2>3. e[q] \in 1..(e[p] - 1)
    BY <2>2
  <2>4. k(e[q]) # k(e[p])
    BY <1>2, <1>8, <2>3
  <2> QED BY <1>1, <2>1, <2>4
<1>9. f \in [1..h -> U] /\ \A r \in 1..h : f[r] = e[L[r]]
  BY <1>5, <1>7 DEF Bijection, Injection
<1>10. \A q, r \in 1..h : q < r => f[q] < f[r]
  <2> SUFFICES ASSUME NEW q \in 1..h, NEW r \in 1..h, q < r PROVE f[q] < f[r]
    OBVIOUS
  <2>1. L[q] < L[r] /\ L[q] \in 1..c /\ L[r] \in 1..c
    BY <1>4, <1>5, Zenon DEF Bijection, Injection
  <2>2. e[L[q]] < e[L[r]]
    BY <1>1, <2>1
  <2> QED BY <1>9, <2>2
<1>11. \A i \in U : \E r \in 1..h : f[r] = i
  <2> SUFFICES ASSUME NEW i \in U PROVE \E r \in 1..h : f[r] = i
    OBVIOUS
  <2>1. PICK p \in 1..c : e[p] = i
    BY <1>1
  <2>2. p \in H
    BY <1>8, <2>1
  <2>3. PICK r \in 1..h : L[r] = p
    BY <1>5, <2>2 DEF Bijection, Surjection
  <2> QED BY <1>9, <2>1, <2>3
<1>12. Ascends(f, h, U)
  BY <1>5, <1>9, <1>10, <1>11 DEF Ascends
<1>13. Cardinality(U) = h /\ Listed(U) = f
  BY <1>1, <1>4, <1>12, ListedIs, Zenon
<1>14. L \in [1..h -> H]
  BY <1>5 DEF Bijection, Injection
<1> QED BY <1>4, <1>13, <1>14 DEF StartsBy, H, U, h, L

\* One element for each group of a sequence, with its key, in the order of the groups.
Heading(y, c, f, s, n, group_by) ==
  /\ n \in Nat /\ DOMAIN s = 1..n /\ Ascends(f, c, Heads(s, group_by))
  /\ \A p \in 1..c : Key(y[p], group_by) = Key(s[f[p]], group_by)

\* The places of two such lists, one after the other.
Chained(f, c, g, d, n) == [p \in 1..(c + d) |-> IF p <= c THEN f[p] ELSE n + g[p - c]]

\* They are two blocks.
LEMMA ChainedBlocks ==
  ASSUME NEW c \in Nat, NEW d \in Nat, NEW n \in Nat, NEW f, NEW g
  PROVE  Blocks(Chained(f, c, g, d, n), c, d, n, f, g)
<1> DEFINE e == Chained(f, c, g, d, n)
<1>1. ASSUME NEW p \in 1..c PROVE e[p] = f[p]
  <2>1. p \in 1..(c + d) /\ p <= c
    OBVIOUS
  <2> QED BY <2>1 DEF Chained
<1>2. ASSUME NEW p \in 1..d PROVE e[c + p] = n + g[p]
  <2>1. c + p \in 1..(c + d) /\ ~(c + p <= c) /\ (c + p) - c = p
    OBVIOUS
  <2> QED BY <2>1 DEF Chained
<1>3. e = [p \in 1..(c + d) |-> e[p]]
  BY DEF Chained
<1> HIDE DEF e
<1>4. Blocks(e, c, d, n, f, g)
  BY <1>1, <1>2, <1>3, Zenon DEF Blocks
<1> QED BY <1>4 DEF e

\* The groups of both parts, and no others, start in the whole where they start in them.
LEMMA PartsLead ==
  ASSUME NEW s, NEW t, NEW u, NEW n, NEW m, Joins(u, s, n, t, m),
         NEW y, NEW z, NEW x, NEW c, NEW d, Joins(x, y, c, z, d),
         NEW f, NEW g, NEW group_by,
         Heading(y, c, f, s, n, group_by), Heading(z, d, g, t, m, group_by)
  PROVE  Leads(Chained(f, c, g, d, n), c + d, x, n + m, u, group_by)
<1> DEFINE e == Chained(f, c, g, d, n)
           k(record) == Key(record, group_by)
<1>1. /\ n \in Nat /\ m \in Nat /\ DOMAIN u = 1..(n + m)
      /\ \A i \in 1..n : u[i] = s[i]
      /\ \A j \in 1..m : u[n + j] = t[j]
  BY DEF Joins
<1>2. /\ c \in Nat /\ d \in Nat /\ DOMAIN x = 1..(c + d)
      /\ \A i \in 1..c : x[i] = y[i]
      /\ \A j \in 1..d : x[c + j] = z[j]
  BY DEF Joins
<1>3. Blocks(e, c, d, n, f, g)
  BY <1>1, <1>2, ChainedBlocks
<1> HIDE DEF e
<1>4. /\ e = [p \in 1..(c + d) |-> e[p]]
      /\ \A p \in 1..c : e[p] = f[p]
      /\ \A p \in 1..d : e[c + p] = n + g[p]
  BY <1>3, Zenon DEF Blocks
<1> HIDE DEF k
<1>5. /\ \A p \in 1..c : f[p] \in Heads(s, group_by) /\ f[p] \in 1..n
      /\ \A p, q \in 1..c : p < q => f[p] < f[q]
      /\ \A i \in Heads(s, group_by) : \E p \in 1..c : f[p] = i
      /\ \A p \in 1..c : k(y[p]) = k(s[f[p]])
  BY DEF Heading, Ascends, Heads, k
<1>6. /\ \A p \in 1..d : g[p] \in Heads(t, group_by) /\ g[p] \in 1..m
      /\ \A p, q \in 1..d : p < q => g[p] < g[q]
      /\ \A i \in Heads(t, group_by) : \E p \in 1..d : g[p] = i
      /\ \A p \in 1..d : k(z[p]) = k(t[g[p]])
  BY DEF Heading, Ascends, Heads, k
<1>7. /\ DOMAIN s = 1..n /\ DOMAIN t = 1..m
  BY DEF Heading
<1>8. \A p \in 1..(c + d) : p \in 1..c \/ \E q \in 1..d : p = c + q
  BY <1>2, PlacesJoined
<1>9. /\ \A i \in 1..(n + m) : i \in 1..n \/ \E j \in 1..m : i = n + j
      /\ \A i \in 1..n : i \in 1..(n + m)
      /\ \A j \in 1..m : n + j \in 1..(n + m)
  BY <1>1, PlacesJoined
<1> DEFINE Good(p) == e[p] \in 1..(n + m) /\ k(x[p]) = k(u[e[p]])
<1>10. ASSUME NEW p \in 1..c PROVE Good(p)
  <2>1. e[p] = f[p] /\ f[p] \in 1..n /\ x[p] = y[p] /\ k(y[p]) = k(s[f[p]])
    BY <1>2, <1>4, <1>5, Zenon
  <2>2. u[f[p]] = s[f[p]] /\ f[p] \in 1..(n + m)
    BY <1>1, <1>9, <2>1, Zenon
  <2> QED BY <2>1, <2>2, Zenon
<1>11. ASSUME NEW p \in 1..d PROVE Good(c + p)
  <2>1. e[c + p] = n + g[p] /\ g[p] \in 1..m /\ x[c + p] = z[p] /\ k(z[p]) = k(t[g[p]])
    BY <1>2, <1>4, <1>6, Zenon
  <2>2. u[n + g[p]] = t[g[p]] /\ n + g[p] \in 1..(n + m)
    BY <1>1, <1>9, <2>1, Zenon
  <2> QED BY <2>1, <2>2, Zenon
<1> HIDE DEF Good
<1>12. \A p \in 1..(c + d) : Good(p)
  BY <1>8, <1>10, <1>11
<1>13. ASSUME NEW p \in 1..(c + d), NEW q \in 1..(c + d), p < q PROVE e[p] < e[q]
  <2>1. ASSUME NEW i \in 1..c, NEW j \in 1..c, i < j PROVE e[i] < e[j]
    BY <1>4, <1>5, <2>1, Zenon
  <2>2. ASSUME NEW i \in 1..c, NEW j \in 1..d PROVE e[i] < e[c + j]
    <3>1. PICK a \in 1..n : a = f[i]
      BY <1>5
    <3>2. PICK b \in 1..m : b = g[j]
      BY <1>6
    <3>3. e[i] = a /\ e[c + j] = n + b
      BY <1>4, <3>1, <3>2, Zenon
    <3> QED BY <1>1, <3>3
  <2>3. ASSUME NEW i \in 1..d, NEW j \in 1..d, c + i < c + j PROVE e[c + i] < e[c + j]
    <3>1. PICK a \in 1..m : a = g[i]
      BY <1>6
    <3>2. PICK b \in 1..m : b = g[j]
      BY <1>6
    <3>3. i < j
      BY <1>2, <2>3
    <3>4. a < b
      BY <1>6, <3>1, <3>2, <3>3
    <3>5. e[c + i] = n + a /\ e[c + j] = n + b
      BY <1>4, <3>1, <3>2, Zenon
    <3> QED BY <1>1, <3>4, <3>5
  <2>4. ASSUME NEW i \in 1..d, NEW j \in 1..c, c + i < j PROVE FALSE
    BY <1>2, <2>4
  <2>5. CASE p \in 1..c /\ q \in 1..c
    BY <1>13, <2>1, <2>5
  <2>6. CASE p \in 1..c /\ \E j \in 1..d : q = c + j
    BY <2>2, <2>6
  <2>7. CASE (\E i \in 1..d : p = c + i) /\ q \in 1..c
    BY <1>13, <2>4, <2>7
  <2>8. CASE (\E i \in 1..d : p = c + i) /\ (\E j \in 1..d : q = c + j)
    BY <1>13, <2>3, <2>8
  <2> QED BY <1>8, <2>5, <2>6, <2>7, <2>8
<1>14. ASSUME NEW i \in Heads(u, group_by) PROVE \E p \in 1..(c + d) : e[p] = i
  <2>1. i \in 1..(n + m) /\ \A j \in 1..(i - 1) : k(u[j]) # k(u[i])
    BY <1>1 DEF Heads, k
  <2>2. CASE i \in 1..n
    <3>1. ASSUME NEW j \in 1..(i - 1) PROVE k(s[j]) # k(s[i])
      <4>1. j \in 1..n
        BY <1>1, <2>2
      <4>2. u[j] = s[j] /\ u[i] = s[i]
        BY <1>1, <2>2, <4>1
      <4> QED BY <2>1, <4>2
    <3>2. i \in Heads(s, group_by)
      BY <1>7, <2>2, <3>1 DEF Heads, k
    <3>3. PICK p \in 1..c : f[p] = i
      BY <1>5, <3>2
    <3>4. p \in 1..(c + d)
      BY <1>2
    <3> QED BY <1>4, <3>3, <3>4, Zenon
  <2>3. CASE \E j \in 1..m : i = n + j
    <3>1. PICK j \in 1..m : i = n + j
      BY <2>3
    <3>2. ASSUME NEW b \in 1..(j - 1) PROVE k(t[b]) # k(t[j])
      <4>1. b \in 1..m /\ n + b \in 1..(i - 1)
        BY <1>1, <3>1
      <4>2. u[n + b] = t[b] /\ u[i] = t[j]
        BY <1>1, <3>1, <4>1
      <4> QED BY <2>1, <4>1, <4>2
    <3>3. j \in Heads(t, group_by)
      BY <1>7, <3>1, <3>2 DEF Heads, k
    <3>4. PICK q \in 1..d : g[q] = j
      BY <1>6, <3>3
    <3>5. c + q \in 1..(c + d)
      BY <1>2
    <3>6. e[c + q] = n + g[q]
      BY <1>4
    <3>7. e[c + q] = i
      BY <3>1, <3>4, <3>6
    <3> QED BY <3>5, <3>7
  <2> QED BY <1>9, <2>1, <2>2, <2>3
<1>15. e \in [1..(c + d) -> 1..(n + m)]
  BY <1>4, <1>12 DEF Good
<1>16. \A p \in 1..(c + d) : Key(x[p], group_by) = Key(u[e[p]], group_by)
  BY <1>12 DEF Good, k
<1>17. c + d \in Nat /\ n + m \in Nat
  BY <1>1, <1>2
<1>18. Leads(e, c + d, x, n + m, u, group_by)
  BY <1>1, <1>2, <1>13, <1>14, <1>15, <1>16, <1>17 DEF Leads
<1> QED BY <1>18 DEF e

\* The records that have a key.
OfKey(records, group_by, key) ==
  Kept(records, {i \in DOMAIN records : Key(records[i], group_by) = key})

\* Those of two sequences are those of the first, and then those of the second.
Splits(s, t, group_by, key) ==
  OfKey(s \o t, group_by, key) = OfKey(s, group_by, key) \o OfKey(t, group_by, key)

\* The records of a key in both are those of the first and then those of the second.
LEMMA OfKeyJoined ==
  ASSUME NEW s, IsSequence(s), NEW t, IsSequence(t), NEW group_by, NEW key
  PROVE  Splits(s, t, group_by, key)
<1> DEFINE u == s \o t
           n == Len(s)
           m == Len(t)
           I == {i \in DOMAIN s : Key(s[i], group_by) = key}
           J == {i \in DOMAIN t : Key(t[i], group_by) = key}
           S == {i \in DOMAIN u : Key(u[i], group_by) = key}
<1>1. Joins(u, s, n, t, m)
  BY Joined, Zenon
<1>2. DOMAIN s = 1..n /\ DOMAIN t = 1..m
  BY ElementsOf
<1> HIDE DEF u, n, m
<1>3. /\ n \in Nat /\ m \in Nat /\ DOMAIN u = 1..(n + m)
      /\ \A i \in 1..n : u[i] = s[i]
      /\ \A j \in 1..m : u[n + j] = t[j]
  BY <1>1 DEF Joins
<1>4. /\ \A i \in 1..n : i \in 1..(n + m)
      /\ \A j \in 1..m : n + j \in 1..(n + m)
  BY <1>3, PlacesJoined
<1>5. I \in SUBSET DOMAIN s /\ J \in SUBSET DOMAIN t /\ S \in SUBSET DOMAIN u
  OBVIOUS
<1>6. \A i \in DOMAIN s : i \in S <=> i \in I
  BY <1>2, <1>3, <1>4
<1>7. \A j \in DOMAIN t : n + j \in S <=> j \in J
  BY <1>2, <1>3, <1>4
<1>8. OfKey(u, group_by, key) = Kept(u, S) /\ OfKey(s, group_by, key) = Kept(s, I)
      /\ OfKey(t, group_by, key) = Kept(t, J)
  BY Zenon DEF OfKey
<1> HIDE DEF I, J, S
<1>9. Selects(S, s, I, t, J)
  BY <1>5, <1>6, <1>7, Zenon DEF u, n, Selects
<1>10. IsSequence(Kept(s, I)) /\ IsSequence(Kept(t, J)) /\ Kept(s \o t, S) = Kept(s, I) \o Kept(t, J)
  BY <1>9, KeptJoined
<1> QED BY <1>8, <1>10 DEF u, Splits

\* What is kept of a sequence at no index, and at one.
LEMMA KeptNone ==
  ASSUME NEW s
  PROVE  Kept(s, {}) = <<>>
<1>1. Cardinality({}) = 0
  BY FS_EmptySet
<1> QED BY <1>1 DEF Kept

\* What is kept at one place.
LEMMA KeptOne ==
  ASSUME NEW s, NEW n \in Nat, NEW p \in 1..n
  PROVE  Kept(s, {p}) = <<s[p]>>
<1> DEFINE f == [r \in 1..1 |-> p]
<1>1. Ascends(f, 1, {p})
  BY DEF Ascends
<1>2. {p} \in SUBSET (1..n)
  OBVIOUS
<1>3. Cardinality({p}) = 1 /\ Listed({p}) = f
  BY <1>1, <1>2, ListedIs
<1>4. Kept(s, {p}) = [r \in 1..1 |-> s[p]]
  BY <1>3 DEF Kept
<1> QED BY <1>4

\* There is a row for the records of a group, when there are any, and it has what was
\* aggregated of them.
Summarises(rows, group, a) ==
  /\ group = <<>> => rows = <<>>
  /\ group # <<>> => \E row : rows = <<row>> /\ \A k \in DOMAIN a.aggregations :
       row[a.aggregations[k].output_field] = Aggregated(group, a.aggregations[k])

\* The rows of some records, for their groups.
RowsOf(y, c, f, s, a) ==
  /\ IsSequence(s) /\ IsSequence(y) /\ DOMAIN y = 1..c
  /\ IsSequence(a.aggregations) /\ Separate(a)
  /\ Heading(y, c, f, s, Len(s), a.group_by)
  /\ \A p \in 1..c : y[p] = RowAt(s, a, f[p])

\* The rows with a key summarise the records with it.
LEMMA RowsSummarise ==
  ASSUME NEW y, NEW c, NEW f, NEW s, NEW a, RowsOf(y, c, f, s, a), NEW key
  PROVE  Summarises(OfKey(y, a.group_by, key), OfKey(s, a.group_by, key), a)
<1> DEFINE n == Len(s)
           F == a.group_by
           I == {i \in DOMAIN s : Key(s[i], F) = key}
           P == {p \in DOMAIN y : Key(y[p], F) = key}
           group == Kept(s, I)
           rows == Kept(y, P)
<1>1. group = OfKey(s, F, key) /\ rows = OfKey(y, F, key)
  BY Zenon DEF OfKey
<1>2. /\ n \in Nat /\ DOMAIN s = 1..n /\ DOMAIN y = 1..c /\ c \in Nat
      /\ \A p \in 1..c : f[p] \in Heads(s, F) /\ f[p] \in 1..n /\ Key(y[p], F) = Key(s[f[p]], F)
      /\ \A i \in Heads(s, F) : \E p \in 1..c : f[p] = i
      /\ \A p, q \in 1..c : p < q => f[p] < f[q]
  BY DEF RowsOf, Heading, Ascends, Heads
<1>3. IsSequence(s) /\ IsSequence(a.aggregations) /\ Separate(a) /\ \A p \in 1..c : y[p] = RowAt(s, a, f[p])
  BY DEF RowsOf
<1> HIDE DEF n
<1>4. CASE I = {}
  <2>1. P = {}
    <3> SUFFICES ASSUME NEW p \in 1..c, Key(y[p], F) = key PROVE FALSE
      BY <1>2
    <3>1. f[p] \in I
      BY <1>2
    <3> QED BY <1>4, <3>1
  <2>2. group = <<>> /\ rows = <<>>
    BY <1>4, <2>1, KeptNone, Zenon
  <2> QED BY <1>1, <2>2 DEF Summarises
<1>5. CASE I # {}
  <2>1. PICK i \in DOMAIN s : Key(s[i], F) = key
    BY <1>5
  <2>2. PICK start \in Heads(s, F) : \A j \in Heads(s, F) : Key(s[j], F) = Key(s[i], F) <=> j = start
    BY <1>3, OneStart
  <2>3. PICK p \in 1..c : f[p] = start
    BY <1>2
  <2>4. \A q \in 1..c : Key(y[q], F) = key <=> q = p
    <3> SUFFICES ASSUME NEW q \in 1..c PROVE Key(y[q], F) = key <=> q = p
      OBVIOUS
    <3>1. Key(y[q], F) = key <=> f[q] = f[p]
      BY <1>2, <2>1, <2>2, <2>3
    <3>2. f[q] = f[p] => q = p
      <4>1. f[p] \in 1..n /\ f[q] \in 1..n /\ (p < q => f[p] < f[q]) /\ (q < p => f[q] < f[p])
        BY <1>2, Zenon
      <4>2. PICK v \in 1..n : v = f[p]
        BY <4>1
      <4>3. p \in Int /\ q \in Int
        OBVIOUS
      <4>4. f[q] = v => ~(p < q) /\ ~(q < p)
        BY <4>1, <4>2
      <4> QED BY <4>2, <4>3, <4>4
    <3> QED BY <3>1, <3>2
  <2>5. P = {p}
    BY <1>2, <2>4
  <2>6. rows = <<y[p]>>
    <3>1. Kept(y, {p}) = <<y[p]>>
      BY <1>2, KeptOne, Zenon
    <3> QED BY <2>5, <3>1
  <2>7. Group(s, F, f[p]) = group
    <3>1. Key(s[f[p]], F) = key
      BY <1>2, <2>4
    <3> QED BY <3>1 DEF Group
  <2>8. \A k \in DOMAIN a.aggregations : y[p][a.aggregations[k].output_field] = Aggregated(group, a.aggregations[k])
    <3> DEFINE row == y[p]
    <3>1. row = Row(Restrict(s[f[p]], Range(F)), group, a.aggregations)
      BY <1>3, <2>7 DEF RowAt
    <3> HIDE DEF row, group
    <3>2. IsRowOf(row, s[f[p]], group, a)
      BY <1>3, <3>1 DEF IsRowOf
    <3>3. \A k \in DOMAIN a.aggregations : row[a.aggregations[k].output_field] = Aggregated(group, a.aggregations[k])
      BY <3>2, RowOfGroup
    <3> QED BY <3>3 DEF row
  <2>9. group # <<>>
    <3>1. I \in SUBSET (1..n)
      BY <1>2
    <3> HIDE DEF I
    <3>2. Cardinality(I) \in 0..n /\ group \in [1..Cardinality(I) -> {s[j] : j \in I}]
      BY <1>2, <3>1, KeptOfSequence
    <3>3. Cardinality(I) # 0
      <4>1. IsFiniteSet(1..n)
        <5>1. 1 \in Int /\ n \in Int
          BY <1>2
        <5> QED BY <5>1, FS_Interval, Zenon
      <4>2. IsFiniteSet(I)
        BY <3>1, <4>1, FS_Subset, Zenon
      <4> QED BY <1>5, <4>2, FS_EmptySet
    <3>4. 1 \in 1..Cardinality(I)
      BY <1>2, <3>2, <3>3
    <3>5. 1 \in DOMAIN group
      BY <3>2, <3>4
    <3> HIDE DEF group
    <3> QED BY <3>5
  <2> HIDE DEF group, rows
  <2>10. \E row : rows = <<row>> /\ \A k \in DOMAIN a.aggregations :
           row[a.aggregations[k].output_field] = Aggregated(group, a.aggregations[k])
    BY <2>6, <2>8, Zenon
  <2>11. Summarises(rows, group, a)
    BY <2>9, <2>10, Zenon DEF Summarises
  <2> QED BY <1>1, <2>11
<1> QED BY <1>4, <1>5

-----------------------------------------------------------------------------
(* Aggregations of aggregations. *)

\* A sequence of numbers.
AreNumbers(s) == s \in [1..Len(s) -> Int] /\ Len(s) \in Nat

\* A set that has a least and a greatest number.
Bounded(S) ==
  /\ S \subseteq Int
  /\ Min(S) \in S /\ \A y \in S : Min(S) <= y
  /\ Max(S) \in S /\ \A y \in S : y <= Max(S)

\* A least number is the minimum.
LEMMA MinIs ==
  ASSUME NEW S, S \subseteq Int, NEW v \in S, \A y \in S : v <= y
  PROVE  Min(S) = v
<1>1. ASSUME NEW w \in S, \A y \in S : w <= y PROVE w = v
  BY <1>1
<1> QED BY <1>1, Zenon DEF Min

\* A greatest number is the maximum.
LEMMA MaxIs ==
  ASSUME NEW S, S \subseteq Int, NEW v \in S, \A y \in S : y <= v
  PROVE  Max(S) = v
<1>1. \A y \in S : v >= y
  OBVIOUS
<1>2. ASSUME NEW w \in S, \A y \in S : w >= y PROVE w = v
  BY <1>2
<1> QED BY <1>1, <1>2, Zenon DEF Max

\* The extremes of one number.
LEMMA ExtremeOfOne ==
  ASSUME NEW v \in Int
  PROVE  Min({v}) = v /\ Max({v}) = v
<1>1. {v} \subseteq Int /\ v \in {v} /\ (\A y \in {v} : v <= y) /\ (\A y \in {v} : y <= v)
  OBVIOUS
<1>2. Min({v}) = v
  BY <1>1, MinIs
<1>3. Max({v}) = v
  BY <1>1, MaxIs
<1> QED BY <1>2, <1>3

\* The least and the greatest of two sets are those of the least and the greatest of each.
Least(S) == IF S = {} THEN {} ELSE {Min(S)}

\* The greatest number of a set, if there is one.
Greatest(S) == IF S = {} THEN {} ELSE {Max(S)}

\* The extremes of two sets are those of their extremes.
LEMMA ExtremesOfParts ==
  ASSUME NEW S, NEW T, S # {} => Bounded(S), T # {} => Bounded(T), S # {} \/ T # {}
  PROVE  /\ Min(S \cup T) = Min(Least(S) \cup Least(T))
         /\ Max(S \cup T) = Max(Greatest(S) \cup Greatest(T))
<1>1. CASE S = {} /\ T # {}
  <2>1. Bounded(T) /\ S \cup T = T /\ Least(S) \cup Least(T) = {Min(T)} /\ Greatest(S) \cup Greatest(T) = {Max(T)}
    BY <1>1 DEF Least, Greatest
  <2>2. Min(T) \in Int /\ Max(T) \in Int
    BY <2>1, Zenon DEF Bounded
  <2>3. Min({Min(T)}) = Min(T) /\ Max({Max(T)}) = Max(T)
    BY <2>2, ExtremeOfOne
  <2> QED BY <2>1, <2>3
<1>2. CASE S # {} /\ T = {}
  <2>1. Bounded(S) /\ S \cup T = S /\ Least(S) \cup Least(T) = {Min(S)} /\ Greatest(S) \cup Greatest(T) = {Max(S)}
    BY <1>2 DEF Least, Greatest
  <2>2. Min(S) \in Int /\ Max(S) \in Int
    BY <2>1, Zenon DEF Bounded
  <2>3. Min({Min(S)}) = Min(S) /\ Max({Max(S)}) = Max(S)
    BY <2>2, ExtremeOfOne
  <2> QED BY <2>1, <2>3
<1>3. CASE S # {} /\ T # {}
  <2> DEFINE a == Min(S)
             b == Min(T)
             c == Max(S)
             d == Max(T)
             low == IF a <= b THEN a ELSE b
             high == IF c <= d THEN d ELSE c
  <2>1. /\ S \subseteq Int /\ a \in S /\ (\A y \in S : a <= y) /\ c \in S /\ (\A y \in S : y <= c)
        /\ T \subseteq Int /\ b \in T /\ (\A y \in T : b <= y) /\ d \in T /\ (\A y \in T : y <= d)
    BY <1>3 DEF Bounded
  <2>2. Least(S) \cup Least(T) = {a, b} /\ Greatest(S) \cup Greatest(T) = {c, d}
    BY <1>3 DEF Least, Greatest
  <2> HIDE DEF a, b, c, d
  <2>3. S \cup T \subseteq Int /\ {a, b} \subseteq Int /\ {c, d} \subseteq Int
    BY <2>1
  <2>4. /\ low \in S \cup T /\ low \in {a, b} /\ low <= a /\ low <= b
        /\ high \in S \cup T /\ high \in {c, d} /\ c <= high /\ d <= high
    BY <2>1
  <2>5. a \in Int /\ b \in Int /\ c \in Int /\ d \in Int /\ low \in Int /\ high \in Int
    BY <2>1, <2>4
  <2> HIDE DEF low, high
  <2>6. (\A y \in S \cup T : low <= y) /\ (\A y \in S \cup T : y <= high)
    BY <2>1, <2>4, <2>5
  <2>7. (\A y \in {a, b} : low <= y) /\ (\A y \in {c, d} : y <= high)
    BY <2>4
  <2>8. Min(S \cup T) = low
    BY <2>3, <2>4, <2>6, MinIs
  <2>9. Min({a, b}) = low
    BY <2>3, <2>4, <2>7, MinIs
  <2>10. Max(S \cup T) = high
    BY <2>3, <2>4, <2>6, MaxIs, Zenon
  <2>11. Max({c, d}) = high
    BY <2>3, <2>4, <2>7, MaxIs
  <2> QED BY <2>2, <2>8, <2>9, <2>10, <2>11
<1> QED BY <1>1, <1>2, <1>3

\* Records that an aggregation that can be merged is able to aggregate.
Measurable(group, g) ==
  HasNumbers(group, g.field) /\ g.operation \in {"min", "max"}

\* The number that it finds.
Amount(group, g) ==
  CASE g.operation = "min" -> Min(Range(Units(group, g.field)))
    [] g.operation = "max" -> Max(Range(Units(group, g.field)))

\* The numbers that a group is aggregated by.
LEMMA UnitsOfGroup ==
  ASSUME FloatsAreNumbers, NEW group, NEW field, HasNumbers(group, field)
  PROVE  /\ AreNumbers(Units(group, field)) /\ Len(Units(group, field)) = Len(group)
         /\ Range(Units(group, field)) # {} => Bounded(Range(Units(group, field)))
<1> DEFINE n == Len(group)
           units == Units(group, field)
<1>1. n \in Nat /\ DOMAIN group = 1..n
  BY RecordsHave DEF HasNumbers
<1>2. units \in [1..n -> Int]
  <2>1. ASSUME NEW i \in 1..n PROVE FloatOf(group[i][field]) \in Int
    <3> DEFINE record == group[i]
    <3>1. record \in Range(group)
      BY <1>1 DEF Range
    <3> HIDE DEF record
    <3>2. Numeric(record, field) /\ IsRecord(record)
      BY <3>1 DEF HasNumbers, IsRecords
    <3>3. record[field] \in Values /\ record[field].type \in {"int", "float"}
      BY <3>2 DEF Numeric, IsRecord
    <3>4. FloatOf(record[field]) \in Int
      BY <3>3, UnitsOfValue
    <3> QED BY <3>4 DEF record
  <2> QED BY <1>1, <2>1 DEF Units
<1> HIDE DEF n, units
<1>3. Len(units) = n
  BY <1>1, <1>2
<1>4. ASSUME Range(units) # {} PROVE Bounded(Range(units))
  <2>1. n # 0
    BY <1>1, <1>2, <1>4 DEF Range
  <2>2. n \in Nat \ {0}
    BY <1>1, <2>1
  <2>3. Range(units) \subseteq Int
    BY <1>2 DEF Range
  <2> DEFINE S == Range(units)
  <2>4. Min(S) \in S /\ Max(S) \in S /\ \A y \in S : Min(S) <= y /\ y <= Max(S)
    BY <1>2, <2>2, Extremes
  <2> HIDE DEF S
  <2>5. S \subseteq Int
    BY <2>3 DEF S
  <2>6. Bounded(S)
    BY <2>4, <2>5, Zenon DEF Bounded
  <2> QED BY <2>6 DEF S
<1> QED BY <1>1, <1>2, <1>3, <1>4 DEF AreNumbers, n, units

\* A sequence that has nothing is empty.
LEMMA EmptyRange ==
  ASSUME NEW s, IsSequence(s)
  PROVE  s = <<>> <=> Range(s) = {}
<1>1. CASE s = <<>>
  BY <1>1 DEF Range
<1>2. CASE Range(s) = {}
  <2>1. Len(s) \in Nat /\ DOMAIN s = 1..Len(s) /\ s \in [1..Len(s) -> {}]
    BY <1>2, ElementsOf
  <2>2. 1..Len(s) = {}
    BY <2>1
  <2>3. Len(s) = 0
    BY <2>1, <2>2
  <2> DEFINE Y == Range(s)
  <2>4. s \in Seq(Y)
    BY DEF IsSequence
  <2> HIDE DEF Y
  <2>5. s = <<>>
    BY <2>3, <2>4
  <2> QED BY <1>2, <2>5
<1> QED BY <1>1, <1>2

\* What an aggregation makes of records is a number.
LEMMA AmountOf ==
  ASSUME FloatsAreNumbers, NEW group, NEW g, Measurable(group, g), group # <<>>
  PROVE  Aggregated(group, g) = Float(Amount(group, g)) /\ Amount(group, g) \in Int
<1> DEFINE units == Units(group, g.field)
<1>1. HasNumbers(group, g.field) /\ g.operation \in {"min", "max"}
  BY DEF Measurable
<1>2. Aggregated(group, g) = Float(Amount(group, g))
  BY <1>1 DEF Aggregated, Amount
<1>3. Range(units) # {} => Bounded(Range(units))
  BY <1>1, UnitsOfGroup
<1>4. Range(group) # {}
  <2>1. IsSequence(group)
    BY <1>1, RecordsHave DEF HasNumbers
  <2> QED BY <2>1, EmptyRange
<1>5. Range(units) # {}
  <2>1. DOMAIN group # {} /\ DOMAIN units = DOMAIN group
    BY <1>4 DEF Range, Units
  <2> HIDE DEF units
  <2> QED BY <2>1, Zenon DEF Range
<1>6. Min(Range(units)) \in Int /\ Max(Range(units)) \in Int
  BY <1>3, <1>5 DEF Bounded
<1>7. Amount(group, g) = Min(Range(units)) \/ Amount(group, g) = Max(Range(units))
  BY <1>1 DEF Amount
<1> QED BY <1>2, <1>6, <1>7

\* Rows that have what an aggregation made of records.
Carries(rows, group, g) ==
  /\ group = <<>> => rows = <<>>
  /\ group # <<>> => \E row : rows = <<row>> /\ row[g.output_field] = Aggregated(group, g)

\* The numbers in such rows: one for a group, and none for no group.
LEMMA CarriedUnits ==
  ASSUME FloatsAreNumbers, NEW group, NEW g, Measurable(group, g), NEW rows, Carries(rows, group, g)
  PROVE  /\ IsSequence(rows)
         /\ group = <<>> => rows = <<>> /\ Units(rows, g.output_field) = <<>>
         /\ group # <<>> => rows # <<>> /\ Units(rows, g.output_field) = <<Amount(group, g)>>
<1>1. CASE group = <<>>
  <2>1. rows = <<>>
    BY <1>1 DEF Carries
  <2>2. Units(rows, g.output_field) = <<>>
    BY <2>1 DEF Units
  <2>3. IsSequence(rows)
    BY <2>1 DEF IsSequence, Range
  <2> QED BY <1>1, <2>1, <2>2, <2>3
<1>2. CASE group # <<>>
  <2>1. PICK row : rows = <<row>> /\ row[g.output_field] = Aggregated(group, g)
    BY <1>2 DEF Carries
  <2>2. row[g.output_field] = Float(Amount(group, g))
    BY <1>2, <2>1, AmountOf
  <2> DEFINE v == Amount(group, g)
  <2> HIDE DEF v
  <2>3. FloatOf(row[g.output_field]) = v
    BY <2>2 DEF Float, FloatOf, v
  <2>4. Units(rows, g.output_field) = <<v>>
    <3>1. DOMAIN rows = {1} /\ rows[1] = row
      BY <2>1
    <3> QED BY <2>3, <3>1 DEF Units
  <2>5. IsSequence(rows)
    <3> DEFINE Y == {row}
    <3>1. rows \in [1..1 -> Y] /\ 1 \in Nat
      BY <2>1
    <3> HIDE DEF Y
    <3> QED BY <3>1, SequenceOf, Zenon
  <2> QED BY <1>2, <2>1, <2>4, <2>5 DEF v
<1> QED BY <1>1, <1>2

\* The units of two sequences.
LEMMA UnitsJoined ==
  ASSUME NEW s, IsSequence(s), NEW t, IsSequence(t), NEW field
  PROVE  Units(s \o t, field) = Units(s, field) \o Units(t, field)
<1> DEFINE u == s \o t
           x == Units(s, field)
           y == Units(t, field)
           z == Units(u, field)
<1>1. Joins(u, s, Len(s), t, Len(t))
  BY Joined, Zenon
<1>2. /\ \A i \in DOMAIN s : i \in DOMAIN u /\ u[i] = s[i]
      /\ \A j \in DOMAIN t : Len(s) + j \in DOMAIN u /\ u[Len(s) + j] = t[j]
  <2>1. DOMAIN s = 1..Len(s) /\ DOMAIN t = 1..Len(t)
    BY ElementsOf
  <2> HIDE DEF u
  <2> QED BY <1>1, <2>1, PlacesJoined DEF Joins
<1>3. \A i \in DOMAIN s : z[i] = x[i]
  BY <1>2 DEF Units
<1>4. \A j \in DOMAIN t : z[Len(s) + j] = y[j]
  BY <1>2 DEF Units
<1>5. /\ x = [i \in DOMAIN s |-> x[i]] /\ y = [i \in DOMAIN t |-> y[i]]
      /\ z = [i \in DOMAIN (s \o t) |-> z[i]]
  BY DEF Units
<1> HIDE DEF x, y, z
<1>6. Maps(z, x, s, y, t)
  BY <1>3, <1>4, <1>5, Zenon DEF Maps
<1>7. z = x \o y
  BY <1>6, MapJoined
<1> QED BY <1>7 DEF x, y, z

\* The aggregation of rows that stands for an aggregation of records.
Merges(h, g) ==
  h.operation = g.operation /\ h.field = g.output_field

\* Records of two groups can be aggregated together.
LEMMA MeasurableJoined ==
  ASSUME NEW A, NEW B, NEW g, Measurable(A, g), Measurable(B, g)
  PROVE  Measurable(A \o B, g) /\ IsSequence(A) /\ IsSequence(B) /\ Range(A \o B) = Range(A) \cup Range(B)
<1>1. HasNumbers(A, g.field) /\ HasNumbers(B, g.field) /\ g.operation \in {"min", "max"}
  BY DEF Measurable
<1>2. IsRecords(A \o B) /\ IsSequence(A) /\ IsSequence(B)
  BY <1>1, RecordsJoined DEF HasNumbers
<1>3. Range(A \o B) = Range(A) \cup Range(B)
  BY <1>2, RangeJoined
<1>4. HasNumbers(A \o B, g.field)
  <2> DEFINE u == A \o B
  <2>1. Range(u) = Range(A) \cup Range(B) /\ IsRecords(u)
    BY <1>2, <1>3
  <2> HIDE DEF u
  <2>2. HasNumbers(u, g.field)
    BY <1>1, <2>1, Zenon DEF HasNumbers
  <2> QED BY <2>2 DEF u
<1> QED BY <1>1, <1>2, <1>3, <1>4 DEF Measurable

\* One of the operations, over numbers.
Combined(operation, numbers) ==
  CASE operation = "min" -> Min(Range(numbers))
    [] operation = "max" -> Max(Range(numbers))

\* What aggregating rows does with the numbers in them.
LEMMA CombinedRows ==
  ASSUME NEW rows, rows # <<>>, NEW h, h.operation \in {"min", "max"}
  PROVE  Aggregated(rows, h) = Float(Combined(h.operation, Units(rows, h.field)))
<1> DEFINE units == Units(rows, h.field)
<1> HIDE DEF units
<1>1. CASE h.operation = "min"
  BY <1>1 DEF Aggregated, Combined, units
<1>2. CASE h.operation = "max"
  BY <1>2 DEF Aggregated, Combined, units
<1> QED BY <1>1, <1>2

\* The units that the row of a group carries are the extremes of the group's.
StandsFor(N, A, g) ==
  /\ IsSequence(N)
  /\ g.operation = "min" => Range(N) = Least(Range(Units(A, g.field)))
  /\ g.operation = "max" => Range(N) = Greatest(Range(Units(A, g.field)))

\* The number that a row carries stands for those of its group.
LEMMA RowStands ==
  ASSUME FloatsAreNumbers, NEW A, NEW g, Measurable(A, g), NEW P, Carries(P, A, g)
  PROVE  StandsFor(Units(P, g.output_field), A, g)
<1> DEFINE N == Units(P, g.output_field)
           X == Units(A, g.field)
<1>1. CASE A = <<>>
  <2>1. N = <<>>
    BY <1>1, CarriedUnits
  <2>2. X = <<>>
    BY <1>1 DEF Units
  <2>3. IsSequence(N) /\ Range(N) = {} /\ Range(X) = {}
    <3>1. Range(<<>>) = {} /\ IsSequence(<<>>)
      BY DEF Range, IsSequence
    <3> QED BY <2>1, <2>2, <3>1
  <2> HIDE DEF N, X
  <2> QED BY <2>3, Zenon DEF StandsFor, Least, Greatest, N, X
<1>2. CASE A # <<>>
  <2> DEFINE v == Amount(A, g)
  <2>1. N = <<v>>
    BY <1>2, CarriedUnits
  <2>2. /\ g.operation = "min" => v = Min(Range(X))
        /\ g.operation = "max" => v = Max(Range(X))
    <3> HIDE DEF X
    <3> QED BY DEF Amount, X
  <2>3. Range(X) # {}
    <3>1. IsSequence(A)
      BY RecordsHave DEF Measurable, HasNumbers
    <3>2. Range(A) # {}
      BY <1>2, <3>1, EmptyRange
    <3>3. DOMAIN A # {} /\ DOMAIN X = DOMAIN A
      BY <3>2 DEF Range, Units
    <3> HIDE DEF X
    <3> QED BY <3>3 DEF Range
  <2> HIDE DEF N, X, v
  <2>4. Range(N) = {v} /\ IsSequence(N)
    <3>1. <<v>> \in [1..1 -> {v}] /\ Range(<<v>>) = {v} /\ 1 \in Nat
      BY DEF Range
    <3>2. IsSequence(<<v>>)
      BY <3>1, SequenceOf, Zenon
    <3> QED BY <2>1, <3>1, <3>2
  <2>5. Least(Range(X)) = {Min(Range(X))} /\ Greatest(Range(X)) = {Max(Range(X))}
    BY <2>3 DEF Least, Greatest
  <2> QED BY <2>2, <2>4, <2>5, Zenon DEF StandsFor, N, X
<1> QED BY <1>1, <1>2

\* Aggregating the rows of two parts gives what aggregating their records gives.
LEMMA AggregatedMerges ==
  ASSUME FloatsAreNumbers, NEW A, NEW B, NEW g, Measurable(A, g), Measurable(B, g), A # <<>> \/ B # <<>>,
         NEW P, Carries(P, A, g), NEW Q, Carries(Q, B, g), NEW h, Merges(h, g)
  PROVE  Aggregated(P \o Q, h) = Aggregated(A \o B, g)
<1> DEFINE f == g.output_field
           M == Units(P, f)
           N == Units(Q, f)
           X == Units(A, g.field)
           Y == Units(B, g.field)
           C == A \o B
           R == P \o Q
<1>1. Measurable(C, g) /\ IsSequence(A) /\ IsSequence(B) /\ Range(C) = Range(A) \cup Range(B)
  BY MeasurableJoined, Zenon
<1>2. IsSequence(P) /\ IsSequence(Q) /\ (P # <<>> \/ Q # <<>>)
  BY CarriedUnits
<1>3. Range(R) = Range(P) \cup Range(Q) /\ IsSequence(R) /\ IsSequence(C)
  <2>1. Range(R) = Range(P) \cup Range(Q)
    BY <1>2, RangeJoined
  <2>2. IsSequence(R)
    BY <1>2, Joined DEF Joins
  <2>3. IsSequence(C)
    BY <1>1, Joined DEF Joins
  <2> QED BY <2>1, <2>2, <2>3
<1>4. Units(R, f) = M \o N /\ Units(C, g.field) = X \o Y
  <2>1. Units(R, f) = M \o N
    <3> HIDE DEF f
    <3> QED BY <1>2, UnitsJoined
  <2>2. Units(C, g.field) = X \o Y
    <3> DEFINE field == g.field
    <3> HIDE DEF field
    <3>1. Units(A \o B, field) = Units(A, field) \o Units(B, field)
      BY <1>1, UnitsJoined
    <3> QED BY <3>1 DEF field
  <2> QED BY <2>1, <2>2
<1>5. StandsFor(M, A, g) /\ StandsFor(N, B, g)
  BY RowStands
<1> HIDE DEF C, R, M, N, X, Y
<1>6. R # <<>>
  BY <1>2, <1>3, EmptyRange
<1>7. C # <<>>
  BY <1>1, <1>3, EmptyRange
<1>8. h.field = f /\ h.operation = g.operation /\ g.operation \in {"min", "max"}
  BY DEF Merges, Measurable
<1>9. Aggregated(R, h) = Float(Combined(h.operation, M \o N))
  <2>1. Aggregated(R, h) = Float(Combined(h.operation, Units(R, h.field)))
    BY <1>6, <1>8, CombinedRows
  <2> QED BY <1>4, <1>8, <2>1
<1>10. Aggregated(C, g) = Float(Amount(C, g))
  BY <1>1, <1>7, AmountOf
<1>11. Range(M \o N) = Range(M) \cup Range(N)
  BY <1>5, RangeJoined DEF StandsFor
<1>12. /\ Range(X \o Y) = Range(X) \cup Range(Y)
       /\ Min(Range(X) \cup Range(Y)) = Min(Least(Range(X)) \cup Least(Range(Y)))
       /\ Max(Range(X) \cup Range(Y)) = Max(Greatest(Range(X)) \cup Greatest(Range(Y)))
  <2>1. /\ AreNumbers(X) /\ (Range(X) # {} => Bounded(Range(X))) /\ Len(X) = Len(A)
        /\ AreNumbers(Y) /\ (Range(Y) # {} => Bounded(Range(Y))) /\ Len(Y) = Len(B)
    BY UnitsOfGroup DEF X, Y, Measurable
  <2>2. IsSequence(X) /\ IsSequence(Y)
    BY <2>1, SequenceOf, Zenon DEF AreNumbers
  <2>3. Range(X \o Y) = Range(X) \cup Range(Y)
    BY <2>2, RangeJoined
  <2>4. Range(X) # {} \/ Range(Y) # {}
    <3>1. DOMAIN A # {} \/ DOMAIN B # {}
      <4>1. Range(A) # {} \/ Range(B) # {}
        BY <1>1, EmptyRange
      <4> QED BY <4>1 DEF Range
    <3>2. DOMAIN X = DOMAIN A /\ DOMAIN Y = DOMAIN B
      BY DEF X, Y, Units
    <3> QED BY <3>1, <3>2 DEF Range
  <2> DEFINE S == Range(X)
             T == Range(Y)
  <2> HIDE DEF S, T
  <2>5. /\ Min(S \cup T) = Min(Least(S) \cup Least(T))
        /\ Max(S \cup T) = Max(Greatest(S) \cup Greatest(T))
    BY <2>1, <2>4, ExtremesOfParts, Zenon DEF S, T
  <2> QED BY <2>3, <2>5 DEF S, T
<1>13. CASE g.operation = "min"
  <2>1. Combined(h.operation, M \o N) = Min(Range(M \o N))
    BY <1>8, <1>13 DEF Combined
  <2>2. Amount(C, g) = Min(Range(X \o Y))
    <3>1. Amount(C, g) = Min(Range(Units(C, g.field)))
      BY <1>13 DEF Amount
    <3> QED BY <1>4, <3>1
  <2>3. Range(M) = Least(Range(X)) /\ Range(N) = Least(Range(Y))
    BY <1>5, <1>13 DEF StandsFor, X, Y
  <2>4. Amount(C, g) = Combined(h.operation, M \o N)
    BY <1>11, <1>12, <1>13, <2>1, <2>2, <2>3, Zenon
  <2> QED BY <1>9, <1>10, <2>4 DEF C, R
<1>14. CASE g.operation = "max"
  <2>1. Combined(h.operation, M \o N) = Max(Range(M \o N))
    BY <1>8, <1>14 DEF Combined
  <2>2. Amount(C, g) = Max(Range(X \o Y))
    <3>1. Amount(C, g) = Max(Range(Units(C, g.field)))
      BY <1>14 DEF Amount
    <3> QED BY <1>4, <3>1
  <2>3. Range(M) = Greatest(Range(X)) /\ Range(N) = Greatest(Range(Y))
    BY <1>5, <1>14 DEF StandsFor, X, Y
  <2>4. Amount(C, g) = Combined(h.operation, M \o N)
    BY <1>11, <1>12, <1>14, <2>1, <2>2, <2>3, Zenon
  <2> QED BY <1>9, <1>10, <2>4 DEF C, R
<1> QED BY <1>8, <1>13, <1>14

\* A record that aggregate_records accepts.
Aggregatable(record, a) ==
  /\ Range(a.group_by) \subseteq DOMAIN record
  /\ \A field \in Range(a.group_by) : record[field].type # "array"
  /\ \A g \in Range(a.aggregations) : g.operation # "count" => Numeric(record, g.field)

\* aggregate_records fails if it does not accept one record.
LEMMA AggregatableAll ==
  ASSUME NEW records, NEW a
  PROVE  ~Unaggregatable(records, a) <=> \A record \in Range(records) : Aggregatable(record, a)
BY Zenon DEF Unaggregatable, Missing, Aggregatable

\* The aggregations of a request that can be made of parts and merged.
MergeableParts(a) ==
  /\ IsSequence(a.aggregations) /\ Separate(a) /\ a.group_by # <<>>
  /\ \A k \in DOMAIN a.aggregations : a.aggregations[k].operation \in {"min", "max"}

\* What can be merged can be made of parts.
LEMMA MergeableHasParts ==
  ASSUME NEW a, IsAggregation(a), Mergeable(a)
  PROVE  MergeableParts(a)
<1> DEFINE ags == a.aggregations
<1>1. \A k \in DOMAIN ags : ags[k].operation \in {"min", "max"} /\ ags[k].output_field \notin Range(a.group_by)
  BY DEF Mergeable
<1>2. \A k, l \in DOMAIN ags : ags[k].output_field = ags[l].output_field => k = l
  BY DEF Mergeable
<1>3. Separate(a)
  <2> DEFINE outputs == [m \in DOMAIN ags |-> ags[m].output_field]
  <2>1. DOMAIN outputs = DOMAIN ags /\ \A m \in DOMAIN ags : outputs[m] = ags[m].output_field
    OBVIOUS
  <2> HIDE DEF outputs
  <2>2. IsInjective(outputs)
    BY <1>2, <2>1 DEF IsInjective
  <2> QED BY <1>1, <2>2 DEF Separate, outputs
<1> QED BY <1>1, <1>3 DEF MergeableParts, IsAggregation, Mergeable

\* A record is among those with its key.
LEMMA OfKeySome ==
  ASSUME NEW s, IsSequence(s), NEW group_by, NEW i \in DOMAIN s
  PROVE  OfKey(s, group_by, Key(s[i], group_by)) # <<>>
<1> DEFINE n == Len(s)
           I == {j \in DOMAIN s : Key(s[j], group_by) = Key(s[i], group_by)}
           group == Kept(s, I)
<1>1. n \in Nat /\ DOMAIN s = 1..n
  BY ElementsOf
<1>2. group = OfKey(s, group_by, Key(s[i], group_by))
  BY Zenon DEF OfKey
<1> HIDE DEF n
<1>3. I \in SUBSET (1..n) /\ I # {}
  BY <1>1
<1> HIDE DEF I
<1>4. Cardinality(I) \in 0..n /\ group \in [1..Cardinality(I) -> {s[j] : j \in I}]
  BY <1>1, <1>3, KeptOfSequence
<1>5. Cardinality(I) # 0
  <2>1. IsFiniteSet(1..n)
    <3>1. 1 \in Int /\ n \in Int
      BY <1>1
    <3> QED BY <3>1, FS_Interval, Zenon
  <2>2. IsFiniteSet(I)
    BY <1>3, <2>1, FS_Subset, Zenon
  <2> QED BY <1>3, <2>2, FS_EmptySet
<1>6. 1 \in 1..Cardinality(I)
  BY <1>1, <1>4, <1>5
<1>7. 1 \in DOMAIN group
  BY <1>4, <1>6
<1> HIDE DEF group
<1>8. group # <<>>
  BY <1>7
<1> QED BY <1>2, <1>8

\* The records with a key can be aggregated when all can.
LEMMA OfKeyMeasurable ==
  ASSUME NEW s, IsRecords(s), NEW a, MergeableParts(a), \A record \in Range(s) : Aggregatable(record, a),
         NEW key, NEW k \in DOMAIN a.aggregations
  PROVE  Measurable(OfKey(s, a.group_by, key), a.aggregations[k])
<1> DEFINE n == Len(s)
           I == {j \in DOMAIN s : Key(s[j], a.group_by) = key}
           g == a.aggregations[k]
           group == Kept(s, I)
<1>1. n \in Nat /\ DOMAIN s = 1..n /\ IsSequence(s)
  BY RecordsHave
<1>2. group = OfKey(s, a.group_by, key)
  BY Zenon DEF OfKey
<1> HIDE DEF n
<1>3. I \in SUBSET (1..n)
  BY <1>1
<1> HIDE DEF I
<1>4. IsRecords(group)
  BY <1>1, <1>3, KeptRecords, Zenon
<1>5. \A record \in Range(group) : record \in Range(s)
  <2>1. Cardinality(I) \in 0..n /\ group \in [1..Cardinality(I) -> {s[j] : j \in I}]
    BY <1>1, <1>3, KeptOfSequence
  <2>2. \A record \in Range(group) : record \in {s[j] : j \in I}
    <3> HIDE DEF group
    <3> QED BY <2>1 DEF Range
  <2>3. \A record \in {s[j] : j \in I} : record \in Range(s)
    BY <1>1, <1>3 DEF Range
  <2> QED BY <2>2, <2>3
<1>6. g \in Range(a.aggregations) /\ g.operation \in {"min", "max"} /\ g.operation # "count"
  BY DEF Range, MergeableParts
<1> HIDE DEF group, g
<1>7. HasNumbers(group, g.field)
  BY <1>4, <1>5, <1>6, Zenon DEF HasNumbers, Aggregatable
<1>8. Measurable(group, g)
  BY <1>6, <1>7 DEF Measurable
<1> QED BY <1>2, <1>8 DEF g

\* Rows keep the fields that they are grouped by, and have the others that were asked for.
Keeps(y, c, f, s, a) ==
  \A p \in 1..c :
    /\ DOMAIN y[p] = Range(a.group_by) \cup {a.aggregations[k].output_field : k \in DOMAIN a.aggregations}
    /\ \A field \in Range(a.group_by) : y[p][field] = s[f[p]][field]
    /\ \A k \in DOMAIN a.aggregations :
         y[p][a.aggregations[k].output_field] = Aggregated(Group(s, a.group_by, f[p]), a.aggregations[k])

\* aggregate_records writes such rows.
LEMMA RowsAreRows ==
  ASSUME NEW s, IsSequence(s), NEW a, IsSequence(a.aggregations), Separate(a)
  PROVE  LET heads == Heads(s, a.group_by)
         IN  /\ RowsOf(GroupRows(s, a), Cardinality(heads), Listed(heads), s, a)
             /\ Keeps(GroupRows(s, a), Cardinality(heads), Listed(heads), s, a)
<1> DEFINE F == a.group_by
           heads == Heads(s, F)
           c == Cardinality(heads)
           f == Listed(heads)
           y == GroupRows(s, a)
           n == Len(s)
<1>1. n \in Nat /\ DOMAIN s = 1..n
  BY ElementsOf
<1>2. heads \in SUBSET (1..n)
  BY <1>1 DEF Heads
<1>3. y = [p \in 1..c |-> RowAt(s, a, f[p])]
  BY DEF GroupRows
<1> HIDE DEF n, heads, y
<1>4. Cardinality(heads) \in 0..n /\ Listed(heads) \in Bijection(1..Cardinality(heads), heads)
      /\ \A r, q \in 1..Cardinality(heads) : q < r => Listed(heads)[q] < Listed(heads)[r]
  BY <1>1, <1>2, ListedInOrder
<1>5. c \in Nat /\ f \in [1..c -> heads] /\ (\A x \in heads : \E r \in 1..c : f[r] = x)
      /\ \A q, r \in 1..c : q < r => f[q] < f[r]
  BY <1>1, <1>4 DEF Bijection, Injection, Surjection
<1>6. Ascends(f, c, heads)
  BY <1>5 DEF Ascends
<1> HIDE DEF c, f
<1>7. DOMAIN y = 1..c /\ (\A p \in 1..c : y[p] = RowAt(s, a, f[p])) /\ IsSequence(y)
  <2>1. DOMAIN y = 1..c /\ (\A p \in 1..c : y[p] = RowAt(s, a, f[p]))
    BY <1>3
  <2>2. y = [p \in 1..c |-> y[p]]
    BY <1>3
  <2> QED BY <1>5, <2>1, <2>2, MadeSequence
<1>8. ASSUME NEW p \in 1..c
      PROVE  /\ DOMAIN y[p] = Range(F) \cup {a.aggregations[k].output_field : k \in DOMAIN a.aggregations}
             /\ \A field \in Range(F) : y[p][field] = s[f[p]][field]
             /\ \A k \in DOMAIN a.aggregations :
                  y[p][a.aggregations[k].output_field] = Aggregated(Group(s, F, f[p]), a.aggregations[k])
  <2> DEFINE row == y[p]
             record == s[f[p]]
             group == Group(s, F, f[p])
  <2>1. row = Row(Restrict(record, Range(F)), group, a.aggregations)
    BY <1>7 DEF RowAt
  <2> HIDE DEF row, record, group
  <2>2. IsRowOf(row, record, group, a)
    BY <2>1 DEF IsRowOf
  <2>3. /\ \A field \in Range(F) : row[field] = record[field]
        /\ \A k \in DOMAIN a.aggregations : row[a.aggregations[k].output_field] = Aggregated(group, a.aggregations[k])
    BY <2>2, RowOfGroup
  <2>4. DOMAIN row = Range(F) \cup {a.aggregations[k].output_field : k \in DOMAIN a.aggregations}
    <3> DEFINE kept == Restrict(record, Range(F))
               outputs == {a.aggregations[k].output_field : k \in DOMAIN a.aggregations}
    <3>1. DOMAIN kept = Range(F)
      BY DEF Restrict
    <3> HIDE DEF kept
    <3>2. DOMAIN Row(kept, group, a.aggregations) = DOMAIN kept \cup outputs
      BY DEF Row
    <3> QED BY <2>1, <3>1, <3>2 DEF kept
  <2> QED BY <2>3, <2>4 DEF row, record, group
<1>9. Keeps(y, c, f, s, a)
  BY <1>8 DEF Keeps
<1>10. \A p \in 1..c : Key(y[p], F) = Key(s[f[p]], F)
  <2> SUFFICES ASSUME NEW p \in 1..c PROVE Key(y[p], F) = Key(s[f[p]], F)
    OBVIOUS
  <2>1. \A field \in Range(F) : y[p][field] = s[f[p]][field]
    BY <1>8
  <2>2. SameGroup(y[p], s[f[p]], F)
    BY <2>1, Zenon DEF SameGroup, Equal
  <2> QED BY <2>2, SameKey
<1>11. Heading(y, c, f, s, n, F)
  BY <1>1, <1>6, <1>10 DEF Heading, heads
<1>12. RowsOf(y, c, f, s, a)
  BY <1>7, <1>11 DEF RowsOf, n
<1> QED BY <1>9, <1>12 DEF c, f, heads, y

\* Aggregations of rows, for aggregations of records.
LEMMA RowsMerge ==
  ASSUME NEW key, NEW group, NEW rows, NEW aggregations, IsSequence(aggregations),
         \A k \in DOMAIN aggregations :
           Aggregated(group, aggregations[k]) = Aggregated(rows, Merging(aggregations)[k])
  PROVE  Row(key, group, aggregations) = Row(key, rows, Merging(aggregations))
<1> DEFINE merged == Merging(aggregations)
           of(ags, field) == {n \in DOMAIN ags : ags[n].output_field = field}
           outputs(ags) == {ags[n].output_field : n \in DOMAIN ags}
           at(ags, g, field) == IF field \in outputs(ags) THEN Aggregated(g, ags[Max(of(ags, field))]) ELSE key[field]
<1>1. DOMAIN merged = DOMAIN aggregations
      /\ \A n \in DOMAIN aggregations : merged[n].output_field = aggregations[n].output_field
  BY DEF Merging
<1>2. PICK n \in Nat : DOMAIN aggregations = 1..n
  BY ElementsOf
<1> HIDE DEF merged
<1>3. \A field : of(merged, field) = of(aggregations, field)
  BY <1>1
<1>4. outputs(merged) = outputs(aggregations)
  BY <1>1
<1>5. ASSUME NEW field PROVE at(aggregations, group, field) = at(merged, rows, field)
  <2>1. CASE field \in outputs(aggregations)
    <3> DEFINE S == of(aggregations, field)
               last == Max(S)
    <3>1. S \in SUBSET (1..n) /\ S # {}
      BY <1>2, <2>1
    <3>2. last \in DOMAIN aggregations
      <4> HIDE DEF S
      <4> QED BY <1>2, <3>1, MaxExists, Zenon
    <3>3. Max(of(merged, field)) = last
      BY <1>3, Zenon
    <3> HIDE DEF last, S
    <3>4. at(aggregations, group, field) = Aggregated(group, aggregations[last])
      BY <2>1 DEF last, S
    <3>5. at(merged, rows, field) = Aggregated(rows, merged[last])
      <4>1. at(merged, rows, field) = Aggregated(rows, merged[Max(of(merged, field))])
        BY <1>4, <2>1
      <4> QED BY <3>3, <4>1
    <3> QED BY <3>2, <3>4, <3>5 DEF merged
  <2>2. CASE field \notin outputs(aggregations)
    BY <1>4, <2>2, Zenon
  <2> QED BY <2>1, <2>2
<1>6. /\ Row(key, group, aggregations)
           = [field \in DOMAIN key \cup outputs(aggregations) |-> at(aggregations, group, field)]
      /\ Row(key, rows, merged) = [field \in DOMAIN key \cup outputs(merged) |-> at(merged, rows, field)]
  BY Zenon DEF Row
<1> HIDE DEF at, outputs
<1> QED BY <1>4, <1>5, <1>6 DEF merged

\* The requests that aggregate the parts and their rows.
Completing(b, a) == b.group_by = a.group_by /\ b.aggregations = Merging(a.aggregations)

\* The row of a group in the whole is the row of the group of rows that its parts give.
WholeAndParts(s, t, y, z, c, d, f, g, a) ==
  /\ IsRecords(s) /\ IsRecords(t) /\ MergeableParts(a)
  /\ \A record \in Range(s) : Aggregatable(record, a)
  /\ \A record \in Range(t) : Aggregatable(record, a)
  /\ RowsOf(y, c, f, s, a) /\ Keeps(y, c, f, s, a)
  /\ RowsOf(z, d, g, t, a) /\ Keeps(z, d, g, t, a)

\* What is aggregated of the rows of a key, is what is aggregated of the records with it.
LEMMA GroupsMerge ==
  ASSUME FloatsAreNumbers, NEW s, NEW t, NEW y, NEW z, NEW c, NEW d, NEW f, NEW g, NEW a,
         WholeAndParts(s, t, y, z, c, d, f, g, a), NEW key, NEW k \in DOMAIN a.aggregations,
         OfKey(s, a.group_by, key) # <<>> \/ OfKey(t, a.group_by, key) # <<>>
  PROVE  Aggregated(OfKey(s \o t, a.group_by, key), a.aggregations[k])
           = Aggregated(OfKey(y \o z, a.group_by, key), Merging(a.aggregations)[k])
<1> DEFINE F == a.group_by
           A == OfKey(s, F, key)
           B == OfKey(t, F, key)
           P == OfKey(y, F, key)
           Q == OfKey(z, F, key)
           ag == a.aggregations[k]
           h == Merging(a.aggregations)[k]
<1>1. Measurable(A, ag)
  BY OfKeyMeasurable, Zenon DEF WholeAndParts
<1>2. Measurable(B, ag)
  BY OfKeyMeasurable DEF WholeAndParts
<1>3. Summarises(P, A, a)
  BY RowsSummarise DEF WholeAndParts
<1>4. Summarises(Q, B, a)
  BY RowsSummarise DEF WholeAndParts
<1>5. Merges(h, ag)
  BY DEF Merges, Merging
<1>6. IsSequence(s) /\ IsSequence(t) /\ IsSequence(y) /\ IsSequence(z)
  BY RecordsHave DEF WholeAndParts, RowsOf
<1>7. OfKey(s \o t, F, key) = A \o B
  <2>1. Splits(s, t, F, key)
    BY <1>6, OfKeyJoined, Zenon
  <2> QED BY <2>1 DEF Splits
<1>8. OfKey(y \o z, F, key) = P \o Q
  <2>1. Splits(y, z, F, key)
    BY <1>6, OfKeyJoined, Zenon
  <2> QED BY <2>1 DEF Splits
<1>9. A # <<>> \/ B # <<>>
  OBVIOUS
<1> HIDE DEF A, B, P, Q, ag, h
<1>10. Carries(P, A, ag)
  BY <1>3, Zenon DEF Summarises, Carries, ag
<1>11. Carries(Q, B, ag)
  BY <1>4, Zenon DEF Summarises, Carries, ag
<1>12. Aggregated(P \o Q, h) = Aggregated(A \o B, ag)
  BY <1>1, <1>2, <1>5, <1>9, <1>10, <1>11, AggregatedMerges
<1> QED BY <1>7, <1>8, <1>12 DEF ag, h

\* Where e leads there are the same values in the fields of the groups.
SameFields(e, c, x, u, group_by) ==
  \A p \in 1..c : \A field \in Range(group_by) : x[p][field] = u[e[p]][field]

\* The rows of two parts lead where their groups start in the whole, with the fields of
\* the records there.
LEMMA PartsKeep ==
  ASSUME NEW s, NEW t, NEW y, NEW z, NEW c, NEW d, NEW f, NEW g, NEW a,
         WholeAndParts(s, t, y, z, c, d, f, g, a)
  PROVE  LET e == Chained(f, c, g, d, Len(s))
         IN  /\ Leads(e, c + d, y \o z, Len(s) + Len(t), s \o t, a.group_by)
             /\ SameFields(e, c + d, y \o z, s \o t, a.group_by)
<1> DEFINE n == Len(s)
           e == Chained(f, c, g, d, n)
           m == Len(t)
           x == y \o z
           u == s \o t
           F == a.group_by
<1>1. IsSequence(s) /\ IsSequence(t) /\ IsSequence(y) /\ IsSequence(z)
  BY RecordsHave DEF WholeAndParts, RowsOf
<1>2. Joins(u, s, n, t, m)
  BY <1>1, Joined, Zenon
<1>3. Len(y) = c /\ Len(z) = d /\ c \in Nat /\ d \in Nat
  <2>1. DOMAIN y = 1..c /\ DOMAIN z = 1..d /\ c \in Nat /\ d \in Nat
    BY DEF WholeAndParts, RowsOf, Heading, Ascends
  <2>2. y \in [1..c -> Range(y)] /\ z \in [1..d -> Range(z)]
    BY <1>1, <2>1, ElementsOf, Zenon
  <2> QED BY <2>1, <2>2, SequenceOf
<1>4. Joins(x, y, c, z, d)
  <2>1. Joins(x, y, Len(y), z, Len(z))
    BY <1>1, Joined, Zenon
  <2> QED BY <1>3, <2>1
<1>5. Heading(y, c, f, s, n, F) /\ Heading(z, d, g, t, m, F)
  BY DEF WholeAndParts, RowsOf
<1> HIDE DEF n, m, x, u, e
<1>6. Leads(e, c + d, x, n + m, u, F)
  BY <1>2, <1>4, <1>5, PartsLead DEF e
<1>7. Blocks(e, c, d, n, f, g)
  <2>1. n \in Nat
    BY <1>2 DEF Joins
  <2> QED BY <1>3, <2>1, ChainedBlocks DEF e
<1>8. /\ \A p \in 1..c : e[p] = f[p] /\ f[p] \in 1..n
      /\ \A p \in 1..d : e[c + p] = n + g[p] /\ g[p] \in 1..m
  BY <1>5, <1>7, Zenon DEF Blocks, Heading, Ascends, Heads
<1>9. /\ \A p \in 1..c : \A field \in Range(F) : y[p][field] = s[f[p]][field]
      /\ \A p \in 1..d : \A field \in Range(F) : z[p][field] = t[g[p]][field]
  BY DEF WholeAndParts, Keeps
<1> DEFINE AsThere(p) == \A field \in Range(F) : x[p][field] = u[e[p]][field]
<1>10. ASSUME NEW p \in 1..c PROVE AsThere(p)
  <2>1. x[p] = y[p] /\ u[f[p]] = s[f[p]]
    BY <1>2, <1>4, <1>8 DEF Joins
  <2> QED BY <1>8, <1>9, <2>1
<1>11. ASSUME NEW p \in 1..d PROVE AsThere(c + p)
  <2>1. x[c + p] = z[p] /\ u[n + g[p]] = t[g[p]]
    BY <1>2, <1>4, <1>8, Zenon DEF Joins
  <2>2. e[c + p] = n + g[p]
    BY <1>8
  <2> QED BY <1>9, <2>1, <2>2, Zenon
<1> HIDE DEF AsThere
<1>12. \A p \in 1..(c + d) : AsThere(p)
  <2>1. \A p \in 1..(c + d) : p \in 1..c \/ \E q \in 1..d : p = c + q
    BY <1>3, PlacesJoined
  <2> QED BY <1>10, <1>11, <2>1
<1>13. SameFields(e, c + d, x, u, F)
  BY <1>12 DEF SameFields, AsThere
<1> QED BY <1>6, <1>13 DEF e, n, m, x, u

\* The rows of the whole are the rows of the rows of its parts.
LEMMA RowsJoined ==
  ASSUME FloatsAreNumbers, NEW s, NEW t, NEW y, NEW z, NEW c, NEW d, NEW f, NEW g, NEW a,
         WholeAndParts(s, t, y, z, c, d, f, g, a), NEW b, Completing(b, a)
  PROVE  GroupRows(s \o t, a) = GroupRows(y \o z, b)
<1> DEFINE n == Len(s)
           m == Len(t)
           e == Chained(f, c, g, d, n)
           x == y \o z
           u == s \o t
           F == a.group_by
           H == Heads(x, F)
           U == Heads(u, F)
           h == Cardinality(H)
           L == Listed(H)
<1>1. IsSequence(s) /\ IsSequence(t) /\ IsSequence(y) /\ IsSequence(z)
  BY RecordsHave DEF WholeAndParts, RowsOf
<1>2. Joins(u, s, n, t, m)
  BY <1>1, Joined, Zenon
<1>3. Leads(e, c + d, x, n + m, u, F)
  BY PartsKeep
<1>4. SameFields(e, c + d, x, u, F)
  BY PartsKeep
<1>5. b.group_by = F /\ b.aggregations = Merging(a.aggregations)
  BY DEF Completing
<1>6. DOMAIN s = 1..n /\ DOMAIN t = 1..m
  BY <1>1, ElementsOf
<1>7. IsSequence(a.aggregations)
  BY DEF WholeAndParts, MergeableParts
<1>8. \A key : \A k \in DOMAIN a.aggregations :
        OfKey(s, F, key) # <<>> \/ OfKey(t, F, key) # <<>> =>
          Aggregated(OfKey(u, F, key), a.aggregations[k]) = Aggregated(OfKey(x, F, key), Merging(a.aggregations)[k])
  BY GroupsMerge
<1> HIDE DEF e, x, u, n, m
<1>9. /\ n \in Nat /\ m \in Nat /\ IsSequence(u) /\ DOMAIN u = 1..(n + m)
      /\ \A i \in 1..n : u[i] = s[i]
      /\ \A j \in 1..m : u[n + j] = t[j]
  BY <1>2 DEF Joins
<1>10. Cardinality(U) = h /\ Listed(U) = [r \in 1..h |-> e[L[r]]]
       /\ H \in SUBSET (1..(c + d)) /\ L \in [1..h -> H]
  <2>1. StartsBy(e, c + d, x, u, F)
    BY <1>3, <1>9, HeadsLed
  <2> QED BY <2>1 DEF StartsBy
<1>11. /\ \A p \in 1..(c + d) : e[p] \in 1..(n + m) /\ Key(x[p], F) = Key(u[e[p]], F)
  BY <1>3 DEF Leads
<1>12. ASSUME NEW p \in 1..(c + d) PROVE RowAt(u, a, e[p]) = RowAt(x, b, p)
  <2> DEFINE i == e[p]
             key == Key(u[i], F)
             whole == OfKey(u, F, key)
             rows == OfKey(x, F, key)
  <2>1. i \in 1..(n + m) /\ Key(x[p], F) = key
    BY <1>11
  <2>2. OfKey(s, F, key) # <<>> \/ OfKey(t, F, key) # <<>>
    <3>1. i \in 1..n \/ \E j \in 1..m : i = n + j
      <4> HIDE DEF i
      <4>1. n \in Nat /\ m \in Nat
        BY <1>9
      <4> QED BY <2>1, <4>1, PlacesJoined, Zenon
    <3>2. CASE i \in 1..n
      <4>1. u[i] = s[i] /\ i \in DOMAIN s
        BY <1>6, <1>9, <3>2
      <4>2. OfKey(s, F, Key(s[i], F)) # <<>>
        BY <1>1, <4>1, OfKeySome
      <4> QED BY <4>1, <4>2
    <3>3. CASE \E j \in 1..m : i = n + j
      <4>1. PICK j \in 1..m : i = n + j
        BY <3>3
      <4>2. u[i] = t[j] /\ j \in DOMAIN t
        BY <1>6, <1>9, <4>1
      <4>3. OfKey(t, F, Key(t[j], F)) # <<>>
        BY <1>1, <4>2, OfKeySome
      <4> QED BY <4>2, <4>3
    <3> QED BY <3>1, <3>2, <3>3
  <2>3. \A k \in DOMAIN a.aggregations :
          Aggregated(whole, a.aggregations[k]) = Aggregated(rows, Merging(a.aggregations)[k])
    BY <1>8, <2>2
  <2>4. Group(u, F, i) = whole /\ Group(x, F, p) = rows
    <3> HIDE DEF i
    <3>1. Group(u, F, i) = whole
      BY Zenon DEF Group, OfKey
    <3>2. Group(x, F, p) = OfKey(x, F, Key(x[p], F))
      BY Zenon DEF Group, OfKey
    <3> QED BY <2>1, <3>1, <3>2
  <2>5. Restrict(u[i], Range(F)) = Restrict(x[p], Range(F))
    BY <1>4 DEF Restrict, SameFields
  <2> HIDE DEF whole, rows, i, key
  <2>6. Row(Restrict(u[i], Range(F)), whole, a.aggregations)
          = Row(Restrict(u[i], Range(F)), rows, Merging(a.aggregations))
    BY <1>7, <2>3, RowsMerge
  <2>7. RowAt(u, a, i) = Row(Restrict(u[i], Range(F)), whole, a.aggregations)
    BY <2>4 DEF RowAt
  <2>8. RowAt(x, b, p) = Row(Restrict(x[p], Range(F)), rows, Merging(a.aggregations))
    BY <1>5, <2>4 DEF RowAt
  <2> QED BY <2>5, <2>6, <2>7, <2>8 DEF i
<1>13. GroupRows(u, a) = [r \in 1..h |-> RowAt(u, a, e[L[r]])]
  <2> HIDE DEF U, H
  <2>1. GroupRows(u, a) = [r \in 1..Cardinality(U) |-> RowAt(u, a, Listed(U)[r])]
    BY DEF GroupRows, U
  <2> HIDE DEF h, L
  <2> QED BY <1>10, <2>1
<1>14. GroupRows(x, b) = [r \in 1..h |-> RowAt(x, b, L[r])]
  <2> HIDE DEF U
  <2>1. GroupRows(x, b) = [r \in 1..Cardinality(Heads(x, b.group_by)) |-> RowAt(x, b, Listed(Heads(x, b.group_by))[r])]
    BY DEF GroupRows
  <2> QED BY <1>5, <2>1
<1>15. \A r \in 1..h : RowAt(u, a, e[L[r]]) = RowAt(x, b, L[r])
  <2> HIDE DEF h, L, H
  <2> QED BY <1>10, <1>12, Zenon
<1> HIDE DEF h, L
<1>16. GroupRows(u, a) = GroupRows(x, b)
  BY <1>13, <1>14, <1>15
<1> QED BY <1>16 DEF u, x

\* The rows of a part can be aggregated again.
LEMMA RowsAggregatable ==
  ASSUME FloatsAreNumbers, NEW s, IsRecords(s), NEW a, MergeableParts(a),
         \A record \in Range(s) : Aggregatable(record, a),
         NEW y, NEW c, NEW f, RowsOf(y, c, f, s, a), Keeps(y, c, f, s, a), NEW b, Completing(b, a)
  PROVE  \A row \in Range(y) : Aggregatable(row, b)
<1> DEFINE F == a.group_by
           ags == a.aggregations
           outputs == {ags[k].output_field : k \in DOMAIN ags}
<1>1. /\ DOMAIN y = 1..c /\ \A p \in 1..c : f[p] \in DOMAIN s
  BY DEF RowsOf, Heading, Ascends, Heads
<1>2. IsSequence(s)
  BY DEF RowsOf
<1>3. b.group_by = F /\ b.aggregations = Merging(ags)
  BY DEF Completing
<1>4. ASSUME NEW p \in 1..c PROVE Aggregatable(y[p], b)
  <2>1. /\ DOMAIN y[p] = Range(F) \cup outputs
        /\ \A field \in Range(F) : y[p][field] = s[f[p]][field]
        /\ \A k \in DOMAIN ags : y[p][ags[k].output_field] = Aggregated(Group(s, F, f[p]), ags[k])
    BY DEF Keeps
  <2>2. Aggregatable(s[f[p]], a)
    BY <1>1 DEF Range
  <2>3. \A field \in Range(F) : y[p][field].type # "array"
    BY <2>1, <2>2 DEF Aggregatable
  <2> DEFINE group == Group(s, F, f[p])
  <2>4. group = OfKey(s, F, Key(s[f[p]], F))
    BY Zenon DEF Group, OfKey
  <2>5. group # <<>>
    BY <1>1, <1>2, <2>4, OfKeySome
  <2>6. \A k \in DOMAIN ags : Measurable(group, ags[k])
    <3> SUFFICES ASSUME NEW k \in DOMAIN ags PROVE Measurable(group, ags[k])
      OBVIOUS
    <3>1. Measurable(OfKey(s, F, Key(s[f[p]], F)), ags[k])
      BY OfKeyMeasurable
    <3> QED BY <2>4, <3>1
  <2> HIDE DEF group
  <2>7. ASSUME NEW k \in DOMAIN ags PROVE Numeric(y[p], ags[k].output_field)
    <3> DEFINE g == ags[k]
    <3>1. Measurable(group, g)
      BY <2>6
    <3> HIDE DEF g
    <3>2. Aggregated(group, g) = Float(Amount(group, g))
      BY <2>5, <3>1, AmountOf
    <3>3. Aggregated(group, g).type \in {"int", "float"}
      BY <3>2 DEF Float
    <3>4. y[p][g.output_field] = Aggregated(group, g) /\ g.output_field \in DOMAIN y[p]
      BY <2>1 DEF g, group
    <3> QED BY <3>3, <3>4 DEF Numeric, g
  <2>8. ASSUME NEW g \in Range(b.aggregations) PROVE Numeric(y[p], g.field)
    <3>1. PICK k \in DOMAIN ags : g = Merging(ags)[k]
      BY <1>3 DEF Range, Merging
    <3>2. g.field = ags[k].output_field
      BY <3>1 DEF Merging
    <3>3. Numeric(y[p], ags[k].output_field)
      BY <2>7
    <3> QED BY <3>2, <3>3
  <2>9. Range(b.group_by) \subseteq DOMAIN y[p] /\ \A field \in Range(b.group_by) : y[p][field].type # "array"
    BY <1>3, <2>1, <2>3
  <2> QED BY <2>8, <2>9 DEF Aggregatable
<1> QED BY <1>1, <1>4 DEF Range

\* aggregate_records succeeds when its records are fit for it.
LEMMA AggregationSucceeds ==
  ASSUME NEW records, NEW a
  PROVE  WithAggregations(records, a).status = "success" <=> \A record \in Range(records) : Aggregatable(record, a)
<1>1. WithAggregations(records, a).status = "success" <=> ~Unaggregatable(records, a)
  BY DEF WithAggregations, Invalid, Failure, Success
<1> QED BY <1>1, AggregatableAll

\* aggregate_records accepts both if it accepts each of them.
LEMMA AggregatesFit ==
  ASSUME NEW s, IsSequence(s), NEW t, IsSequence(t), NEW a
  PROVE  WithAggregations(s \o t, a).status = "success" <=>
           WithAggregations(s, a).status = "success" /\ WithAggregations(t, a).status = "success"
<1> DEFINE u == s \o t
           Fit(records) == \A record \in Range(records) : Aggregatable(record, a)
<1>1. Range(u) = Range(s) \cup Range(t)
  BY RangeJoined
<1> HIDE DEF u
<1>2. Fit(u) <=> Fit(s) /\ Fit(t)
  BY <1>1
<1>3. WithAggregations(u, a).status = "success" <=>
           WithAggregations(s, a).status = "success" /\ WithAggregations(t, a).status = "success"
  BY <1>2, AggregationSucceeds, Zenon
<1> QED BY <1>3 DEF u

\* aggregate_records over the rows of two parts gives the rows of both.
LEMMA AggregatesJoined ==
  ASSUME FloatsAreNumbers, NEW s, IsRecords(s), NEW t, IsRecords(t), NEW a, IsAggregation(a), Mergeable(a),
         NEW b, Completing(b, a)
  PROVE  Concludes(WithAggregations(s \o t, a), WithAggregations(s, a), WithAggregations(t, a),
                   WithAggregations(WithAggregations(s, a).records \o WithAggregations(t, a).records, b))
<1> DEFINE u == s \o t
           w == WithAggregations(u, a)
           p == WithAggregations(s, a)
           q == WithAggregations(t, a)
           y == GroupRows(s, a)
           z == GroupRows(t, a)
           x == y \o z
           last == WithAggregations(p.records \o q.records, b)
           Fit(records) == \A record \in Range(records) : Aggregatable(record, a)
           c == Cardinality(Heads(s, a.group_by))
           d == Cardinality(Heads(t, a.group_by))
           f == Listed(Heads(s, a.group_by))
           g == Listed(Heads(t, a.group_by))
<1>1. IsSequence(s) /\ IsSequence(t) /\ IsSequence(a.aggregations)
  BY RecordsHave DEF IsAggregation
<1>2. w.status = "success" <=> p.status = "success" /\ q.status = "success"
  BY <1>1, AggregatesFit
<1>3. MergeableParts(a)
  BY MergeableHasParts
<1>4. a.group_by # <<>> /\ b.group_by = a.group_by /\ Separate(a)
  BY <1>3 DEF MergeableParts, Completing
<1>5. ASSUME p.status = "success", q.status = "success"
      PROVE  /\ last.status = "success"
             /\ w.records = last.records
  <2>1. Fit(s) /\ Fit(t)
    BY <1>5, AggregationSucceeds
  <2>2. RowsOf(y, c, f, s, a) /\ Keeps(y, c, f, s, a)
    BY <1>1, <1>4, RowsAreRows
  <2>3. RowsOf(z, d, g, t, a) /\ Keeps(z, d, g, t, a)
    BY <1>1, <1>4, RowsAreRows
  <2>4. WholeAndParts(s, t, y, z, c, d, f, g, a)
    BY <1>3, <2>1, <2>2, <2>3 DEF WholeAndParts
  <2>5. GroupRows(u, a) = GroupRows(x, b)
    BY <2>4, RowsJoined
  <2>6. \A row \in Range(y) : Aggregatable(row, b)
    BY <1>3, <2>1, <2>2, RowsAggregatable
  <2>7. \A row \in Range(z) : Aggregatable(row, b)
    BY <1>3, <2>1, <2>3, RowsAggregatable
  <2>8. IsSequence(y) /\ IsSequence(z)
    BY <2>2, <2>3 DEF RowsOf
  <2>9. \A row \in Range(x) : Aggregatable(row, b)
    <3>1. Range(x) = Range(y) \cup Range(z)
      BY <2>8, RangeJoined
    <3> QED BY <2>6, <2>7, <3>1
  <2>10. /\ Makes(w, ~Unaggregatable(u, a), GroupRows(u, a))
         /\ Makes(p, ~Unaggregatable(s, a), y)
         /\ Makes(q, ~Unaggregatable(t, a), z)
         /\ Makes(WithAggregations(x, b), ~Unaggregatable(x, b), GroupRows(x, b))
    BY <1>4, AggregateMakes
  <2>11. w.status = "success"
    BY <1>2, <1>5
  <2>12. ~Unaggregatable(x, b)
    BY <2>9, AggregatableAll
  <2> HIDE DEF w, p, q, y, z, u, x
  <2>13. p.records = y /\ q.records = z /\ w.records = GroupRows(u, a)
    BY <1>5, <2>10, <2>11 DEF Makes, Success
  <2>14. last = WithAggregations(x, b)
    BY <2>13 DEF x
  <2>15. WithAggregations(x, b).status = "success" /\ WithAggregations(x, b).records = GroupRows(x, b)
    BY <2>10, <2>12 DEF Makes, Success
  <2> QED BY <2>5, <2>13, <2>14, <2>15
<1> HIDE DEF w, p, q, last
<1>6. Concludes(w, p, q, last)
  BY <1>2, <1>5 DEF Concludes
<1> QED BY <1>6 DEF w, p, q, last

-----------------------------------------------------------------------------
(* What answers say of the store. *)

\* What derive_fields makes of its own results is what it makes with all the derivations.
LEMMA DerivationsConclude ==
  ASSUME FloatsAreNumbers, NEW s, IsRecords(s), NEW a, AreDerivations(a.derivations),
         NEW b, AreDerivations(b.derivations), NEW c, c.derivations = a.derivations \o b.derivations
  PROVE  Concludes(WithDerivedFields(s, c), WithDerivedFields(s, a), WithDerivedFields(s, a),
                   WithDerivedFields(WithDerivedFields(s, a).records, b))
<1> DEFINE n == Len(s)
           d == a.derivations
           e == b.derivations
           y == [i \in 1..n |-> WithDerivations(s[i], d)]
           whole == WithDerivedFields(s, c)
           first == WithDerivedFields(s, a)
           last == WithDerivedFields(first.records, b)
<1>1. /\ n \in Nat /\ DOMAIN s = 1..n /\ s \in [1..n -> Range(s)]
      /\ \A i \in 1..n : s[i] \in Range(s) /\ IsRecord(s[i])
  BY ElementsOf DEF IsRecords, IsSequence
<1>2. \A i \in 1..n :
        /\ WithDerivations(s[i], c.derivations) = WithDerivations(WithDerivations(s[i], d), e)
        /\ Underivable(s[i], c.derivations) <=>
             Underivable(s[i], d) \/ Underivable(WithDerivations(s[i], d), e)
  BY <1>1, DerivationsJoined
<1>3. /\ first.status = "success" <=> \A i \in 1..n : ~Underivable(s[i], d)
      /\ first.status = "success" => first.records = y
  <2>1. Range(s) = {s[i] : i \in 1..n}
    BY <1>1 DEF Range
  <2>2. (\E record \in Range(s) : Underivable(record, d)) <=> \E i \in 1..n : Underivable(s[i], d)
    BY <2>1
  <2> HIDE DEF n
  <2> QED BY <1>1, <2>2 DEF WithDerivedFields, Invalid, Failure, Success
<1>4. /\ whole.status = "success" <=> \A i \in 1..n : ~Underivable(s[i], c.derivations)
      /\ whole.status = "success" => whole.records = [i \in 1..n |-> WithDerivations(s[i], c.derivations)]
  <2>1. Range(s) = {s[i] : i \in 1..n}
    BY <1>1 DEF Range
  <2>2. (\E record \in Range(s) : Underivable(record, c.derivations))
        <=> \E i \in 1..n : Underivable(s[i], c.derivations)
    BY <2>1
  <2> HIDE DEF n
  <2> QED BY <1>1, <2>2 DEF WithDerivedFields, Invalid, Failure, Success
<1>5. ASSUME first.status = "success"
      PROVE  /\ last.status = "success" <=> \A i \in 1..n : ~Underivable(y[i], e)
             /\ last.status = "success" => last.records = [i \in 1..n |-> WithDerivations(y[i], e)]
  <2>1. first.records = y /\ DOMAIN y = 1..n
    BY <1>3, <1>5
  <2>2. Range(y) = {y[i] : i \in 1..n}
    BY <2>1 DEF Range
  <2> HIDE DEF n, y, first
  <2>3. (\E record \in Range(y) : Underivable(record, e)) <=> \E i \in 1..n : Underivable(y[i], e)
    BY <2>2
  <2> QED BY <2>1, <2>3 DEF WithDerivedFields, Invalid, Failure, Success
<1>6. \A i \in 1..n : y[i] = WithDerivations(s[i], d)
  OBVIOUS
<1> HIDE DEF y, whole, first, last, n, d, e
<1>7. whole.status = "success" => first.status = "success"
  BY <1>2, <1>3, <1>4
<1>8. ASSUME first.status = "success"
      PROVE  whole.status = "success" <=> last.status = "success"
  BY <1>2, <1>3, <1>4, <1>5, <1>6, <1>8
<1>9. ASSUME first.status = "success", whole.status = "success"
      PROVE  whole.records = last.records
  <2>1. [i \in 1..n |-> WithDerivations(s[i], c.derivations)] = [i \in 1..n |-> WithDerivations(y[i], e)]
    BY <1>2, <1>6
  <2> QED BY <1>4, <1>5, <1>8, <1>9, <2>1, Zenon
<1>10. Concludes(whole, first, first, last)
  BY <1>7, <1>8, <1>9, Zenon DEF Concludes
<1> QED BY <1>10 DEF whole, first, last

\* The operators that reduce the records of one artifact.
Reducing == RecordByRecord \cup {"top_k_records", "aggregate_records"}

\* What they compute of records.
Reduced(request, records) ==
  IF request.operator = "filter_records" THEN Filtered(records, request.arguments)
  ELSE IF request.operator = "select_fields" THEN Selected(records, request.arguments)
  ELSE IF request.operator = "derive_fields" THEN WithDerivedFields(records, request.arguments)
  ELSE IF request.operator = "top_k_records" THEN TopK(records, request.arguments)
  ELSE WithAggregations(records, request.arguments)

\* A success has written the result; a refusal of a result found other content under the
\* output's ID.
Settles(request, answer, result) ==
  IF answer = "success" THEN Writes(request, result)
  ELSE result.status = "success" => request.output \in DOMAIN artifacts

\* An answer to a request that reduces an artifact is about its records, if it has any.
Settled(request, answer) ==
  ArgumentsAreValid(request) /\ answer # "missing_artifact" =>
    /\ request.inputs[1] \in DOMAIN artifacts
    /\ artifacts[request.inputs[1]] # Opaque =>
         Settles(request, answer, Reduced(request, artifacts[request.inputs[1]]))

\* What was merged of two artifacts are the records of both.
Pairs(request) ==
  /\ Loadable(request) /\ request.output \in DOMAIN artifacts
  /\ \A first, second : request.inputs = <<first, second>> =>
       artifacts[request.output] = artifacts[first] \o artifacts[second]

\* The inductive invariant, next to RecordInv: what every answer, a refusal too, says of the
\* store.
Honest(request, answer) ==
  /\ request.operator \in Reducing => Settled(request, answer)
  /\ request.operator = "aggregate_artifacts" /\ answer = "success" => Pairs(request)

\* That is so for every answer.
HonestAnswers == \A n \in 1..Len(answers) : Honest(requests[n], answers[n])

\* A step that refuses.
LEMMA ExecuteSettles ==
  ASSUME NEW operator, NEW result, Execute(operator, result),
         IsSequence(Request.inputs), IsSequence(answers),
         ArgumentsAreValid(Request), Len(Request.inputs) = 1,
         answers'[Len(answers) + 1] # "missing_artifact"
  PROVE  /\ Request.inputs[1] \in DOMAIN artifacts
         /\ artifacts[Request.inputs[1]] # Opaque =>
              \/ answers'[Len(answers) + 1] = "success"
              \/ result.status = "success" => Request.output \in DOMAIN artifacts
<1> DEFINE request == Request
           statuses == [i \in DOMAIN request.inputs |-> LoadStatus(request.inputs[i])]
           loaded == FirstFailure(statuses)
           status == IF ~ArgumentsAreValid(request) THEN "validation_failed"
                     ELSE IF ~Succeeded(loaded) THEN loaded
                     ELSE result.status
           stored == Succeeded(status) /\ Storable(request.output, result.records)
           answer == IF Succeeded(status) /\ ~stored THEN "validation_failed" ELSE status
           only == LoadStatus(request.inputs[1])
<1>1. answers' = Append(answers, answer)
  BY DEF Execute
<1>2. answers'[Len(answers) + 1] = answer
  <2> DEFINE X == Range(answers) \cup {answer}
             m == Len(answers)
  <2> HIDE DEF answer
  <2>1. m \in Nat /\ answers \in Seq(X)
    <3>1. m \in Nat /\ answers \in [1..m -> Range(answers)]
      BY ElementsOf
    <3>2. answers \in [1..m -> X]
      BY <3>1
    <3> HIDE DEF X, m
    <3> QED BY <3>1, <3>2, SequenceOf
  <2>2. answer \in X
    OBVIOUS
  <2> HIDE DEF X
  <2> QED BY <1>1, <2>1, <2>2
<1>3. DOMAIN statuses = 1..1 /\ statuses[1] = only
  BY ElementsOf
<1> HIDE DEF statuses, only
<1>4. loaded = only
  <2> DEFINE failures == {i \in DOMAIN statuses : ~Succeeded(statuses[i])}
  <2>1. CASE only = "success"
    <3>1. failures = {}
      BY <1>3, <2>1 DEF Succeeded
    <3> QED BY <2>1, <3>1 DEF FirstFailure
  <2>2. CASE only # "success"
    <3>1. failures = {1, 1}
      BY <1>3, <2>2 DEF Succeeded
    <3>2. Min({1, 1}) = 1
      BY MinOfTwo
    <3> HIDE DEF failures
    <3>3. failures # {} /\ Min(failures) = 1
      BY <3>1, <3>2
    <3> QED BY <1>3, <3>3 DEF FirstFailure, failures
  <2> QED BY <2>1, <2>2
<1> HIDE DEF loaded, request
<1>5. ASSUME answer # "missing_artifact" PROVE request.inputs[1] \in DOMAIN artifacts
  <2>1. SUFFICES ASSUME request.inputs[1] \notin DOMAIN artifacts PROVE FALSE
    OBVIOUS
  <2>2. loaded = "missing_artifact" /\ ~Succeeded(loaded)
    BY <1>4, <2>1 DEF only, LoadStatus, Succeeded
  <2>3. ArgumentsAreValid(request)
    BY DEF request
  <2> QED BY <1>5, <2>2, <2>3 DEF Succeeded
<1>6. ASSUME artifacts[request.inputs[1]] # Opaque, request.inputs[1] \in DOMAIN artifacts,
             result.status = "success"
      PROVE  answer = "success" \/ request.output \in DOMAIN artifacts
  <2>1. loaded = "success" /\ Succeeded(loaded)
    BY <1>4, <1>6 DEF only, LoadStatus, Succeeded
  <2>2. ArgumentsAreValid(request)
    BY DEF request
  <2> QED BY <1>6, <2>1, <2>2 DEF Succeeded, Storable
<1> HIDE DEF answer
<1> QED BY <1>2, <1>5, <1>6 DEF request

\* Two artifacts, merged.
LEMMA FlattenTwo ==
  ASSUME NEW first, IsSequence(first), NEW second, IsSequence(second), NEW seqs,
         DOMAIN seqs = 1..2, seqs = [i \in DOMAIN seqs |-> seqs[i]], seqs[1] = first, seqs[2] = second
  PROVE  FlattenSeq(seqs) = first \o second
<1> DEFINE X == Range(first) \cup Range(second)
<1>1. first \in Seq(X) /\ second \in Seq(X)
  <2>1. ASSUME NEW s, IsSequence(s), Range(s) \subseteq X PROVE s \in Seq(X)
    <3>1. Len(s) \in Nat /\ s \in [1..Len(s) -> Range(s)]
      BY <2>1, ElementsOf
    <3>2. s \in [1..Len(s) -> X]
      BY <2>1, <3>1
    <3> HIDE DEF X
    <3> QED BY <3>1, <3>2, SequenceOf
  <2>2. Range(first) \subseteq X /\ Range(second) \subseteq X
    OBVIOUS
  <2> HIDE DEF X
  <2> QED BY <2>1, <2>2
<1> HIDE DEF X
<1>2. seqs \in [1..2 -> Seq(X)]
  <2>1. \A i \in 1..2 : i = 1 \/ i = 2
    OBVIOUS
  <2>2. \A i \in 1..2 : seqs[i] \in Seq(X)
    BY <1>1, <2>1
  <2> QED BY <2>2
<1>3. PICK flat : FlattenSteps(X, 2, seqs, flat)
  <2>1. 2 \in Nat \ {0}
    OBVIOUS
  <2> QED BY <1>2, <2>1, Flattened, Zenon
<1>4. flat[1] = first /\ flat[2] = flat[1] \o second /\ FlattenSeq(seqs) = flat[2]
  <2>1. 1 \in 1..2 /\ 2 \in 1..2
    OBVIOUS
  <2> QED BY <1>3, <2>1 DEF FlattenSteps
<1> QED BY <1>4

\* What an answer says of the store stays true of it.
LEMMA HonestStays ==
  ASSUME Grows, NEW request, IsSequence(request.inputs), NEW answer, Honest(request, answer)
  PROVE  Honest(request, answer)'
<1> DEFINE source == artifacts[request.inputs[1]]
           result == Reduced(request, source)
<1>1. ASSUME request.operator \in Reducing PROVE Settled(request, answer)'
  <2>1. SUFFICES ASSUME ArgumentsAreValid(request), answer # "missing_artifact"
                 PROVE  /\ request.inputs[1] \in DOMAIN artifacts'
                        /\ artifacts'[request.inputs[1]] # Opaque =>
                             Settles(request, answer, Reduced(request, artifacts[request.inputs[1]]))'
    BY Zenon DEF Settled, ArgumentsAreValid
  <2>2. /\ request.inputs[1] \in DOMAIN artifacts
        /\ source # Opaque => Settles(request, answer, result)
    BY <1>1, <2>1 DEF Honest, Settled
  <2>3. request.inputs[1] \in DOMAIN artifacts' /\ artifacts'[request.inputs[1]] = source
    BY <2>2 DEF Grows
  <2>4. Reduced(request, artifacts[request.inputs[1]])' = result
    BY <2>3, Zenon DEF Reduced
  <2>5. ASSUME Settles(request, answer, result)
        PROVE  IF answer = "success"
               THEN /\ request.output \in DOMAIN artifacts'
                    /\ result.status = "success" /\ artifacts'[request.output] = result.records
               ELSE result.status = "success" => request.output \in DOMAIN artifacts'
    <3> HIDE DEF result
    <3> QED BY <2>5 DEF Settles, Writes, Grows
  <2> HIDE DEF source, result
  <2>6. Settles(request, answer, result) =>
          Settles(request, answer, Reduced(request, artifacts[request.inputs[1]]))'
    BY <2>4, <2>5, Zenon DEF Settles, Writes
  <2> QED BY <2>2, <2>3, <2>6, Zenon
<1>2. ASSUME request.operator = "aggregate_artifacts", answer = "success" PROVE Pairs(request)'
  <2>1. Pairs(request)
    BY <1>2 DEF Honest
  <2>2. Loadable(request)'
    BY <2>1 DEF Pairs, Loadable, Grows, ArgumentsAreValid
  <2>3. request.output \in DOMAIN artifacts' /\ artifacts'[request.output] = artifacts[request.output]
    BY <2>1 DEF Pairs, Grows
  <2>4. ASSUME NEW first, NEW second, request.inputs = <<first, second>>
        PROVE  artifacts'[request.output] = artifacts'[first] \o artifacts'[second]
    <3>1. 1 \in DOMAIN request.inputs /\ 2 \in DOMAIN request.inputs
          /\ request.inputs[1] = first /\ request.inputs[2] = second
      BY <2>4
    <3>2. first \in DOMAIN artifacts /\ second \in DOMAIN artifacts
      BY <2>1, <3>1 DEF Pairs, Loadable
    <3>3. artifacts'[first] = artifacts[first] /\ artifacts'[second] = artifacts[second]
      BY <3>2 DEF Grows
    <3>4. artifacts[request.output] = artifacts[first] \o artifacts[second]
      BY <2>1, <2>4, Zenon DEF Pairs
    <3> QED BY <2>3, <3>3, <3>4
  <2> QED BY <2>2, <2>3, <2>4, Zenon DEF Pairs
<1> QED BY <1>1, <1>2, Zenon DEF Honest, Reducing, RecordByRecord

\* What an operator computes of what is loaded, as an answer has to say it.
Answering(operator, result) ==
  /\ operator \in Reducing => result = Reduced(Request, LoadRecords)
  /\ operator = "aggregate_artifacts" => result = Success(LoadRecords)

\* A step of the worker is honest about its request.
LEMMA StepIsHonest ==
  ASSUME RecordInv, Len(answers) < Len(requests), NEW operator, NEW result,
         Execute(operator, result), Answering(operator, result),
         NEW r, r = Request, NEW a, a = answers'[Len(answers) + 1]
  PROVE  Honest(r, a)'
<1> DEFINE request == Request
           answer == answers'[Len(answers) + 1]
           source == artifacts[request.inputs[1]]
<1>1. IsSequence(request.inputs) /\ IsSequence(answers) /\ Sequences
  BY NextRecordRequest DEF RecordInv, RecordAnswersValid
<1>2. /\ request.operator = operator /\ Grows
      /\ answer = "success" =>
           /\ Loadable(request) /\ result.status = "success"
           /\ request.output \in DOMAIN artifacts'
           /\ artifacts'[request.output] = result.records
  BY <1>1, ExecuteWrites
<1>3. Loadable(request) /\ operator # "aggregate_artifacts" => LoadRecords = source
  BY <1>1, <1>2, LoadedSequence
<1>4. ASSUME ArgumentsAreValid(request), answer # "missing_artifact", operator \in Reducing
      PROVE  /\ Len(request.inputs) = 1 /\ DOMAIN request.inputs = 1..1
             /\ request.inputs[1] \in DOMAIN artifacts
             /\ source # Opaque =>
                  /\ Loadable(request)
                  /\ answer = "success" \/ (result.status = "success" => request.output \in DOMAIN artifacts)
  <2>1. Len(request.inputs) = 1
    BY <1>2, <1>4 DEF ArgumentsAreValid, Reducing, RecordByRecord
  <2>2. DOMAIN request.inputs = 1..1
    <3> HIDE DEF request
    <3> QED BY <1>1, <2>1, ElementsOf
  <2>3. /\ request.inputs[1] \in DOMAIN artifacts
        /\ source # Opaque =>
             answer = "success" \/ (result.status = "success" => request.output \in DOMAIN artifacts)
    BY <1>1, <1>4, <2>1, ExecuteSettles
  <2>4. source # Opaque => Loadable(request)
    <3> HIDE DEF request
    <3>1. \A i \in DOMAIN request.inputs : i = 1
      BY <2>2
    <3> QED BY <1>4, <2>3, <3>1 DEF Loadable
  <2> QED BY <2>1, <2>2, <2>3, <2>4
<1> r = request /\ a = answer
  OBVIOUS
<1>5. ASSUME r.operator \in Reducing
      PROVE  Settled(r, a)'
  <2>1. SUFFICES ASSUME ArgumentsAreValid(r), a # "missing_artifact"
                 PROVE  /\ r.inputs[1] \in DOMAIN artifacts'
                        /\ artifacts'[r.inputs[1]] # Opaque =>
                             Settles(r, a, Reduced(r, artifacts[r.inputs[1]]))'
    BY Zenon DEF Settled, ArgumentsAreValid
  <2>2. operator \in Reducing /\ operator # "aggregate_artifacts"
    BY <1>2, <1>5 DEF Reducing, RecordByRecord
  <2> HIDE DEF request, answer, source
  <2>3. /\ request.inputs[1] \in DOMAIN artifacts
        /\ source # Opaque =>
             /\ Loadable(request)
             /\ answer = "success" \/ (result.status = "success" => request.output \in DOMAIN artifacts)
    BY <1>4, <1>5, <2>1, <2>2, Zenon
  <2>4. request.inputs[1] \in DOMAIN artifacts' /\ artifacts'[request.inputs[1]] = source
    BY <1>2, <2>3 DEF Grows, source
  <2>5. ASSUME source # Opaque PROVE result = Reduced(request, source)
    BY <1>3, <2>2, <2>3, <2>5, Zenon DEF Answering, request
  <2>6. Reduced(r, artifacts[r.inputs[1]])' = Reduced(request, source)
    BY <1>5, <2>4, Zenon DEF Reduced
  <2>7. ASSUME source # Opaque
        PROVE  IF a = "success"
               THEN /\ r.output \in DOMAIN artifacts'
                    /\ result.status = "success" /\ artifacts'[r.output] = result.records
               ELSE result.status = "success" => r.output \in DOMAIN artifacts'
    BY <1>2, <1>5, <2>3, <2>7 DEF Grows
  <2>8. source # Opaque => Settles(r, a, Reduced(r, artifacts[r.inputs[1]]))'
    BY <2>5, <2>6, <2>7, Zenon DEF Settles, Writes
  <2> QED BY <1>5, <2>4, <2>8, Zenon
<1>6. ASSUME r.operator = "aggregate_artifacts", a = "success"
      PROVE  Pairs(r)'
  <2>1. Loadable(r) /\ r.output \in DOMAIN artifacts' /\ artifacts'[r.output] = LoadRecords
    BY <1>2, <1>6 DEF Answering, Success
  <2>2. Loadable(r)'
    BY <1>2, <2>1 DEF Loadable, Grows, ArgumentsAreValid
  <2>3. ASSUME NEW first, NEW second, r.inputs = <<first, second>>
        PROVE  artifacts'[r.output] = artifacts'[first] \o artifacts'[second]
    <3>1. DOMAIN r.inputs = 1..2 /\ r.inputs[1] = first /\ r.inputs[2] = second
      BY <2>3
    <3>2. /\ first \in DOMAIN artifacts /\ artifacts[first] # Opaque
          /\ second \in DOMAIN artifacts /\ artifacts[second] # Opaque
      <4>1. 1 \in 1..2 /\ 2 \in 1..2
        OBVIOUS
      <4> QED BY <2>1, <3>1, <4>1 DEF Loadable
    <3>3. IsSequence(artifacts[first]) /\ IsSequence(artifacts[second])
      BY <1>1, <3>2 DEF Sequences
    <3> DEFINE seqs == [i \in DOMAIN r.inputs |-> artifacts[r.inputs[i]]]
    <3>4. LoadRecords = FlattenSeq(seqs)
      BY <1>6 DEF LoadRecords
    <3>5. /\ DOMAIN seqs = 1..2 /\ seqs = [i \in DOMAIN seqs |-> seqs[i]]
          /\ seqs[1] = artifacts[first] /\ seqs[2] = artifacts[second]
      BY <3>1
    <3> HIDE DEF seqs
    <3>6. FlattenSeq(seqs) = artifacts[first] \o artifacts[second]
      BY <3>3, <3>5, FlattenTwo, Zenon
    <3>7. artifacts'[first] = artifacts[first] /\ artifacts'[second] = artifacts[second]
      BY <1>2, <3>2 DEF Grows
    <3> QED BY <2>1, <3>4, <3>6, <3>7
  <2> QED BY <2>1, <2>2, <2>3, Zenon DEF Pairs
<1> QED BY <1>5, <1>6, Zenon DEF Honest, Reducing, RecordByRecord

\* Every answer is honest when it is given, and stays so.
LEMMA HonestNext ==
  ASSUME RecordInv, HonestAnswers, [RecordNext]_operatorVars
  PROVE  HonestAnswers'
<1>1. /\ IsSequence(answers) /\ Len(answers) \in Nat /\ Len(requests) \in Nat
      /\ \A n \in 1..Len(answers) : IsSequence(requests[n].inputs)
  <2>1. /\ IsSequence(answers) /\ Len(answers) \in Nat /\ Len(requests) \in Nat
        /\ Len(answers) <= Len(requests) /\ DOMAIN requests = 1..Len(requests)
    BY ElementsOf DEF RecordInv, RecordAnswersValid, RecordRequestsValid
  <2>2. \A n \in 1..Len(answers) : n \in DOMAIN requests
    BY <2>1
  <2>3. \A n \in DOMAIN requests : IsRecordRequest(requests[n])
    BY DEF RecordInv, RecordRequestsValid, Range
  <2> QED BY <2>1, <2>2, <2>3 DEF IsRecordRequest, IsSequence
<1>2. ASSUME Grows, requests' = requests, NEW n \in 1..Len(answers), answers'[n] = answers[n]
      PROVE  Honest(requests[n], answers[n])'
  <2>1. ASSUME NEW r, r = requests[n], NEW a, a = answers[n] PROVE Honest(r, a)'
    BY <1>1, <1>2, <2>1, HonestStays DEF HonestAnswers
  <2> QED BY <1>2, <2>1
<1>3. CASE UNCHANGED operatorVars
  <2>1. artifacts' = artifacts /\ requests' = requests /\ answers' = answers
    BY <1>3 DEF operatorVars
  <2>2. Grows
    BY <2>1 DEF Grows
  <2>3. \A n \in 1..Len(answers) : Honest(requests[n], answers[n])'
    BY <1>2, <2>1, <2>2
  <2> QED BY <2>1, <2>3, Zenon DEF HonestAnswers
<1>4. CASE RecordNext
  <2>1. Len(answers) < Len(requests)
    BY <1>4 DEF RecordNext
  <2>2. ASSUME NEW operator, NEW result, Execute(operator, result), Answering(operator, result)
        PROVE  HonestAnswers'
    <3> DEFINE next == Len(answers) + 1
    <3>1. IsSequence(Request.inputs)
      BY <2>1, NextRecordRequest
    <3>2. /\ requests' = requests /\ Grows /\ Len(answers') = next
          /\ \A n \in 1..Len(answers) : answers'[n] = answers[n]
      BY <1>1, <2>2, <3>1, ExecuteWrites
    <3>3. ASSUME NEW n \in 1..Len(answers') PROVE Honest(requests[n], answers[n])'
      <4>1. n \in 1..Len(answers) \/ n = next
        BY <1>1, <3>2
      <4>2. CASE n \in 1..Len(answers)
        BY <1>2, <3>2, <4>2
      <4>3. CASE n = next
        <5>1. ASSUME NEW r, r = Request, NEW a, a = answers'[next] PROVE Honest(r, a)'
          BY <2>1, <2>2, <5>1, StepIsHonest
        <5>2. requests'[n] = Request
          BY <3>2, <4>3 DEF Request
        <5> QED BY <4>3, <5>1, <5>2
      <4> QED BY <4>1, <4>2, <4>3
    <3> QED BY <3>3, Zenon DEF HonestAnswers
  <2> DEFINE records == LoadRecords
             a == Request.arguments
             Answers(operator, result) == Request.operator = operator => Answering(operator, result)
  <2>3. /\ Answers("filter_records", Filtered(records, a))
        /\ Answers("select_fields", Selected(records, a))
        /\ Answers("derive_fields", WithDerivedFields(records, a))
        /\ Answers("top_k_records", TopK(records, a))
        /\ Answers("aggregate_records", WithAggregations(records, a))
        /\ Answers("aggregate_artifacts", Success(records))
        /\ Answers("bm25_retrieve", Retrieved(records, a))
    BY Zenon DEF Answering, Reduced, Reducing, RecordByRecord
  <2>4. ASSUME NEW operator, NEW result, Execute(operator, result), Answers(operator, result)
        PROVE  HonestAnswers'
    BY <2>2, <2>4, Zenon DEF Execute
  <2> HIDE DEF Answers
  <2>5. CASE FilterRecords
    BY <2>3, <2>4, <2>5, Zenon DEF FilterRecords
  <2>6. CASE SelectFields
    BY <2>3, <2>4, <2>6, Zenon DEF SelectFields
  <2>7. CASE DeriveFields
    BY <2>3, <2>4, <2>7, Zenon DEF DeriveFields
  <2>8. CASE AggregateRecords
    BY <2>3, <2>4, <2>8, Zenon DEF AggregateRecords
  <2>9. CASE TopKRecords
    BY <2>3, <2>4, <2>9, Zenon DEF TopKRecords
  <2>10. CASE AggregateArtifacts
    BY <2>3, <2>4, <2>10, Zenon DEF AggregateArtifacts
  <2>11. CASE Bm25Retrieve
    BY <2>3, <2>4, <2>11, Zenon DEF Bm25Retrieve
  <2> QED BY <1>4, <2>5, <2>6, <2>7, <2>8, <2>9, <2>10, <2>11 DEF RecordNext
<1> QED BY <1>3, <1>4

\* What follows for a request that is decided: its source are records, and it succeeded if and
\* only if the operator does with them, and has written what the operator writes.
Tells(request, answer) ==
  LET source == artifacts[request.inputs[1]]
      result == Reduced(request, source)
  IN  /\ IsRecords(source)
      /\ answer = "success" <=> result.status = "success"
      /\ answer = "success" => artifacts[request.output] = result.records

\* What the invariants say of a decided request.
LEMMA DecidedTells ==
  ASSUME RecordInv, RecordsAreTyped, HonestAnswers, NEW n \in DOMAIN answers, Decided(n)
  PROVE  /\ Tells(requests[n], answers[n]) /\ requests[n].operator \in Reducing
         /\ IsRecordRequest(requests[n]) /\ ArgumentsAreValid(requests[n])
<1> DEFINE request == requests[n]
           answer == answers[n]
           source == artifacts[request.inputs[1]]
           result == Reduced(request, source)
<1>1. n \in 1..Len(answers) /\ n \in DOMAIN requests
  BY ElementsOf DEF RecordInv, RecordAnswersValid, RecordRequestsValid
<1>2. IsRecordRequest(request)
  <2>1. request \in Range(requests)
    BY <1>1 DEF Range
  <2> QED BY <2>1 DEF RecordInv, RecordRequestsValid
<1>3. request.operator \in Reducing /\ ArgumentsAreValid(request)
  BY DEF Decided, Reducing
<1>4. answer # "missing_artifact" /\ LoadStatus(request.inputs[1]) = "success"
      /\ (answer = "success" \/ request.output \notin DOMAIN artifacts)
  BY DEF Decided, Succeeded
<1>5. Settled(request, answer)
  BY <1>1, <1>3, Zenon DEF HonestAnswers, Honest
<1> HIDE DEF request, answer
<1>6. request.inputs[1] \in DOMAIN artifacts /\ source # Opaque
  BY <1>4 DEF LoadStatus
<1>7. IsRecords(source)
  BY <1>6 DEF RecordsAreTyped
<1>8. Settles(request, answer, result)
  BY <1>3, <1>4, <1>5, <1>6, Zenon DEF Settled
<1> HIDE DEF result, source
<1>9. /\ answer = "success" <=> result.status = "success"
      /\ answer = "success" => artifacts[request.output] = result.records
  BY <1>4, <1>8 DEF Settles, Writes
<1>10. Tells(request, answer)
  BY <1>7, <1>9, Zenon DEF Tells, source, result
<1> QED BY <1>2, <1>3, <1>10 DEF request, answer

\* What was merged.
LEMMA ConcatenatedIs ==
  ASSUME RecordInv, HonestAnswers, NEW first, NEW second, NEW id, Concatenated(first, second, id)
  PROVE  artifacts[id] = artifacts[first] \o artifacts[second]
<1>1. PICK n \in DOMAIN answers :
        Answered(n, "aggregate_artifacts") /\ requests[n].inputs = <<first, second>>
        /\ requests[n].output = id
  BY Zenon DEF Concatenated
<1>2. n \in 1..Len(answers)
  BY ElementsOf DEF RecordInv, RecordAnswersValid
<1>3. Pairs(requests[n])
  BY <1>1, <1>2, Zenon DEF Answered, Succeeded, HonestAnswers, Honest
<1> QED BY <1>1, <1>3, Zenon DEF Pairs

\* The arguments of the five operators.
Fitting(request) ==
  /\ request.operator = "derive_fields" => AreDerivations(request.arguments.derivations)
  /\ request.operator = "aggregate_records" => IsAggregation(request.arguments)
  /\ request.operator = "top_k_records" => request.arguments.k \in Nat \ {0}

\* The schemas and validate_derive_fields let only such arguments through.
LEMMA RequestsFit ==
  ASSUME NEW request, IsRecordRequest(request), ArgumentsAreValid(request)
  PROVE  Fitting(request)
<1> DEFINE a == request.arguments
<1>1. ASSUME request.operator = "derive_fields" PROVE AreDerivations(a.derivations)
  <2>1. /\ IsSequence(a.derivations)
        /\ \A d \in Range(a.derivations) : IsSequence(d.sources)
        /\ \A d \in Range(a.derivations) : d.operation \in {"subtract", "divide"} => Len(d.sources) = 2
    BY <1>1 DEF IsRecordRequest, ArgumentsAreValid, IsSequence
  <2>2. \A k \in DOMAIN a.derivations : a.derivations[k] \in Range(a.derivations)
    BY DEF Range
  <2> QED BY <2>1, <2>2, Zenon DEF IsDerivation, AreDerivations
<1>2. ASSUME request.operator = "aggregate_records" PROVE IsAggregation(a)
  <2>1. /\ IsSequence(a.aggregations)
        /\ \A b \in Range(a.aggregations) : b.operation \in {"count", "sum", "min", "max", "avg"}
    BY <1>2 DEF IsRecordRequest, IsSequence
  <2>2. \A k \in DOMAIN a.aggregations : a.aggregations[k] \in Range(a.aggregations)
    BY DEF Range
  <2> QED BY <2>1, <2>2, Zenon DEF IsAggregation
<1>3. request.operator = "top_k_records" => a.k \in Nat \ {0}
  BY DEF IsRecordRequest
<1> QED BY <1>1, <1>2, <1>3 DEF Fitting

\* Two parts of some records, reduced.
LEMMA PartsReduced ==
  ASSUME NEW request, request.operator \in Reducing, Fitting(request),
         NEW s, IsRecords(s), NEW t, IsRecords(t)
  PROVE  /\ Reduced(request, s \o t).status = "success" =>
              Reduced(request, s).status = "success" /\ Reduced(request, t).status = "success"
         /\ request.operator \in RecordByRecord =>
              Composes(Reduced(request, s \o t), Reduced(request, s), Reduced(request, t))
<1> DEFINE a == request.arguments
           u == s \o t
<1>1. IsSequence(s) /\ IsSequence(t)
  BY DEF IsRecords, IsSequence
<1>2. CASE request.operator = "filter_records"
  <2>1. Composes(Filtered(u, a), Filtered(s, a), Filtered(t, a))
    BY <1>1, FilteredJoined
  <2> HIDE DEF u
  <2>2. Composes(Reduced(request, u), Reduced(request, s), Reduced(request, t))
    BY <1>2, <2>1 DEF Reduced
  <2> QED BY <2>2, Zenon DEF Composes, u
<1>3. CASE request.operator = "select_fields"
  <2>1. Composes(Selected(u, a), Selected(s, a), Selected(t, a))
    BY <1>1, SelectedJoined
  <2> HIDE DEF u
  <2>2. Composes(Reduced(request, u), Reduced(request, s), Reduced(request, t))
    BY <1>3, <2>1 DEF Reduced
  <2> QED BY <2>2, Zenon DEF Composes, u
<1>4. CASE request.operator = "derive_fields"
  <2>1. Composes(WithDerivedFields(u, a), WithDerivedFields(s, a), WithDerivedFields(t, a))
    BY <1>1, DerivedJoined
  <2> HIDE DEF u
  <2>2. Composes(Reduced(request, u), Reduced(request, s), Reduced(request, t))
    BY <1>4, <2>1 DEF Reduced
  <2> QED BY <2>2, Zenon DEF Composes, u
<1>5. CASE request.operator = "top_k_records"
  <2>1. a.k \in Nat \ {0}
    BY <1>5 DEF Fitting
  <2>2. TopK(u, a).status = "success" => TopK(s, a).status = "success" /\ TopK(t, a).status = "success"
    BY <2>1, TopKJoined DEF Concludes
  <2> HIDE DEF u
  <2>3. Reduced(request, u).status = "success" =>
          Reduced(request, s).status = "success" /\ Reduced(request, t).status = "success"
    BY <1>5, <2>2 DEF Reduced
  <2> QED BY <1>5, <2>3 DEF RecordByRecord, u
<1>6. CASE request.operator = "aggregate_records"
  <2>1. WithAggregations(u, a).status = "success" =>
          WithAggregations(s, a).status = "success" /\ WithAggregations(t, a).status = "success"
    BY <1>1, AggregatesFit
  <2> HIDE DEF u
  <2>2. Reduced(request, u).status = "success" =>
          Reduced(request, s).status = "success" /\ Reduced(request, t).status = "success"
    BY <1>6, <2>1 DEF Reduced
  <2> QED BY <1>6, <2>2 DEF RecordByRecord, u
<1> QED BY <1>2, <1>3, <1>4, <1>5, <1>6 DEF Reducing, RecordByRecord

\* A request that takes the last step.
LastStep(last, request) ==
  \/ /\ request.operator = "top_k_records" /\ last.operator = "top_k_records"
     /\ last.arguments = request.arguments
  \/ /\ request.operator = "aggregate_records" /\ last.operator = "aggregate_records"
     /\ Mergeable(request.arguments) /\ Completing(last.arguments, request.arguments)

\* The last step over the reduced parts gives what the whole gives.
LEMMA LastStepConcludes ==
  ASSUME FloatsAreNumbers, NEW request, Fitting(request), NEW last, LastStep(last, request),
         NEW s, IsRecords(s), NEW t, IsRecords(t)
  PROVE  Concludes(Reduced(request, s \o t), Reduced(request, s), Reduced(request, t),
                   Reduced(last, Reduced(request, s).records \o Reduced(request, t).records))
<1> DEFINE a == request.arguments
           b == last.arguments
           u == s \o t
           w == Reduced(request, u)
           p == Reduced(request, s)
           q == Reduced(request, t)
           x == p.records \o q.records
           m == Reduced(last, x)
<1>1. CASE request.operator = "top_k_records"
  <2>1. a.k \in Nat \ {0} /\ last.operator = "top_k_records" /\ b = a
    BY <1>1 DEF Fitting, LastStep
  <2>2. Concludes(TopK(u, a), TopK(s, a), TopK(t, a), TopK(TopK(s, a).records \o TopK(t, a).records, a))
    BY <2>1, TopKJoined
  <2>3. p = TopK(s, a) /\ q = TopK(t, a)
    BY <1>1 DEF Reduced
  <2> HIDE DEF u, p, q
  <2>4. w = TopK(u, a)
    BY <1>1 DEF Reduced
  <2>5. Concludes(TopK(u, a), p, q, TopK(x, a))
    BY <2>2, <2>3
  <2> HIDE DEF x
  <2>6. m = TopK(x, a)
    BY <2>1 DEF Reduced
  <2> HIDE DEF w, m
  <2>7. Concludes(w, p, q, m)
    BY <2>4, <2>5, <2>6, Zenon
  <2> QED BY <2>7, Zenon DEF w, p, q, m, x, u
<1>2. CASE request.operator = "aggregate_records"
  <2>1. IsAggregation(a) /\ last.operator = "aggregate_records" /\ Mergeable(a) /\ Completing(b, a)
    BY <1>2 DEF Fitting, LastStep
  <2> HIDE DEF a, b
  <2>2. Concludes(WithAggregations(u, a), WithAggregations(s, a), WithAggregations(t, a),
                  WithAggregations(WithAggregations(s, a).records \o WithAggregations(t, a).records, b))
    BY <2>1, AggregatesJoined
  <2>3. p = WithAggregations(s, a) /\ q = WithAggregations(t, a)
    BY <1>2 DEF Reduced, a
  <2> HIDE DEF u, p, q
  <2>4. w = WithAggregations(u, a)
    BY <1>2 DEF Reduced, a
  <2>5. Concludes(WithAggregations(u, a), p, q, WithAggregations(x, b))
    BY <2>2, <2>3
  <2> HIDE DEF x
  <2>6. m = WithAggregations(x, b)
    BY <2>1 DEF Reduced, b
  <2> HIDE DEF w, m
  <2>7. Concludes(w, p, q, m)
    BY <2>4, <2>5, <2>6, Zenon
  <2> QED BY <2>7, Zenon DEF w, p, q, m, x, u
<1> QED BY <1>1, <1>2, Zenon DEF LastStep

\* Requests with the same operator and arguments compute the same.
LEMMA SameReduced ==
  ASSUME NEW r, NEW z, r.operator = z.operator, r.arguments = z.arguments, NEW records
  PROVE  Reduced(r, records) = Reduced(z, records)
BY DEF Reduced

\* What decided requests make of records: of the parts and of the whole.
LEMMA PartsComposed ==
  ASSUME FloatsAreNumbers, RecordInv, RecordsAreTyped, HonestAnswers
  PROVE  PartsCompose
<1> SUFFICES ASSUME NEW w \in DOMAIN answers, NEW p \in DOMAIN answers, NEW q \in DOMAIN answers,
                    Decided(w), Decided(p), Decided(q), AsksTheWhole(w, p, q)
             PROVE
        /\ Succeeded(answers[w]) => Succeeded(answers[p]) /\ Succeeded(answers[q])
        /\ Succeeded(answers[p]) /\ Succeeded(answers[q]) =>
             /\ requests[w].operator \in RecordByRecord =>
                  Succeeded(answers[w]) /\ Output(w) = Output(p) \o Output(q)
             /\ \A m \in DOMAIN answers : Decided(m) /\ Completes(m, w, p, q) =>
                  /\ Succeeded(answers[w]) <=> Succeeded(answers[m])
                  /\ Succeeded(answers[w]) => Output(w) = Output(m)
  BY DEF PartsCompose
<1> DEFINE source(n) == artifacts[requests[n].inputs[1]]
           ok(n) == Succeeded(answers[n])
           s == source(p)
           t == source(q)
           u == s \o t
           request == requests[w]
           whole == Reduced(request, u)
           first == Reduced(request, s)
           second == Reduced(request, t)
<1>1. ASSUME NEW n \in DOMAIN answers, Decided(n)
      PROVE  /\ IsRecords(source(n))
             /\ ok(n) <=> Reduced(requests[n], source(n)).status = "success"
             /\ ok(n) => Output(n) = Reduced(requests[n], source(n)).records
             /\ requests[n].operator \in Reducing /\ Fitting(requests[n])
  BY <1>1, DecidedTells, RequestsFit, Zenon DEF Tells, Succeeded, Output
<1>2. IsRecords(s) /\ IsRecords(t) /\ request.operator \in Reducing /\ Fitting(request)
  BY <1>1
<1>3. source(w) = u
  BY ConcatenatedIs, Zenon DEF AsksTheWhole
<1>4. Reduced(requests[p], s) = first /\ Reduced(requests[q], t) = second
  <2>1. /\ requests[p].operator = request.operator /\ requests[p].arguments = request.arguments
        /\ requests[q].operator = request.operator /\ requests[q].arguments = request.arguments
    BY DEF AsksTheWhole, AsksTheSame
  <2> HIDE DEF s, t
  <2> QED BY <2>1, SameReduced
<1>5. /\ ok(w) <=> whole.status = "success"
      /\ ok(w) => Output(w) = whole.records
  <2> HIDE DEF u
  <2>1. Reduced(requests[w], source(w)) = whole
    BY <1>3
  <2> HIDE DEF source, whole, ok
  <2> QED BY <1>1, <2>1
<1>6. /\ ok(p) <=> first.status = "success"
      /\ ok(p) => Output(p) = first.records
      /\ ok(q) <=> second.status = "success"
      /\ ok(q) => Output(q) = second.records
  BY <1>1, <1>4
<1>7. /\ whole.status = "success" => first.status = "success" /\ second.status = "success"
      /\ request.operator \in RecordByRecord => Composes(whole, first, second)
  BY <1>2, PartsReduced
<1>8. ASSUME NEW m \in DOMAIN answers, Decided(m), Completes(m, w, p, q), ok(p), ok(q)
      PROVE  /\ ok(w) <=> ok(m)
             /\ ok(w) => Output(w) = Output(m)
  <2> DEFINE last == requests[m]
             x == first.records \o second.records
  <2>1. source(m) = Output(p) \o Output(q)
    <3>1. Concatenated(requests[p].output, requests[q].output, requests[m].inputs[1])
      BY <1>8, Zenon DEF Completes
    <3>2. artifacts[requests[m].inputs[1]]
            = artifacts[requests[p].output] \o artifacts[requests[q].output]
      BY <3>1, ConcatenatedIs
    <3> QED BY <3>2 DEF Output
  <2>2. source(m) = x
    BY <1>6, <1>8, <2>1, Zenon
  <2>3. LastStep(last, request)
    BY <1>8, Zenon DEF Completes, AsksTheSame, LastStep, Completing
  <2>4. Concludes(whole, first, second, Reduced(last, x))
    BY <1>2, <2>3, LastStepConcludes
  <2>5. /\ ok(m) <=> Reduced(last, x).status = "success"
        /\ ok(m) => Output(m) = Reduced(last, x).records
    <3> HIDE DEF x
    <3>1. Reduced(requests[m], source(m)) = Reduced(last, x)
      BY <2>2
    <3> HIDE DEF source, last, ok
    <3>2. /\ ok(m) <=> Reduced(requests[m], source(m)).status = "success"
          /\ ok(m) => Output(m) = Reduced(requests[m], source(m)).records
      BY <1>1, <1>8, Zenon
    <3> QED BY <3>1, <3>2
  <2> HIDE DEF whole, first, second, last, x, ok
  <2> QED BY <1>5, <1>6, <1>8, <2>4, <2>5 DEF Concludes
<1>9. ASSUME ok(p), ok(q), request.operator \in RecordByRecord
      PROVE  ok(w) /\ Output(w) = Output(p) \o Output(q)
  <2> HIDE DEF whole, first, second, ok
  <2> QED BY <1>5, <1>6, <1>7, <1>9, Zenon DEF Composes
<1>10. ok(w) => ok(p) /\ ok(q)
  <2> HIDE DEF whole, first, second, ok
  <2> QED BY <1>5, <1>6, <1>7
<1> HIDE DEF source, s, t, u, whole, first, second
<1> QED BY <1>8, <1>9, <1>10

\* What derivations of derived records give.
LEMMA DerivationsComposed ==
  ASSUME FloatsAreNumbers, RecordInv, RecordsAreTyped, HonestAnswers
  PROVE  DerivationsCompose
<1> DEFINE derivations(n) == requests[n].arguments.derivations
           derives(n) == requests[n].operator = "derive_fields"
<1> SUFFICES ASSUME NEW w \in DOMAIN answers, NEW p \in DOMAIN answers, NEW q \in DOMAIN answers,
                    Decided(w), Decided(p), Decided(q), derives(w), derives(p), derives(q),
                    requests[w].inputs = requests[p].inputs,
                    derivations(w) = derivations(p) \o derivations(q)
             PROVE
        /\ Succeeded(answers[w]) => Succeeded(answers[p])
        /\ Succeeded(answers[p]) /\ requests[q].inputs[1] = requests[p].output =>
             /\ Succeeded(answers[w]) <=> Succeeded(answers[q])
             /\ Succeeded(answers[w]) => Output(w) = Output(q)
  BY ZenonT(60) DEF DerivationsCompose
<1> DEFINE source(n) == artifacts[requests[n].inputs[1]]
           of(n) == requests[n].arguments
           ok(n) == Succeeded(answers[n])
           s == source(w)
           whole == WithDerivedFields(s, of(w))
           first == WithDerivedFields(s, of(p))
           last == WithDerivedFields(first.records, of(q))
<1>1. ASSUME NEW n \in DOMAIN answers, Decided(n), derives(n)
      PROVE  /\ IsRecords(source(n))
             /\ ok(n) <=> WithDerivedFields(source(n), of(n)).status = "success"
             /\ ok(n) => Output(n) = WithDerivedFields(source(n), of(n)).records
             /\ AreDerivations(derivations(n))
  <2>1. Reduced(requests[n], source(n)) = WithDerivedFields(source(n), of(n))
    BY <1>1 DEF Reduced
  <2>2. /\ IsRecords(source(n))
        /\ ok(n) <=> Reduced(requests[n], source(n)).status = "success"
        /\ ok(n) => Output(n) = Reduced(requests[n], source(n)).records
        /\ Fitting(requests[n])
    BY <1>1, DecidedTells, RequestsFit, Zenon DEF Tells, Succeeded, Output
  <2>3. AreDerivations(derivations(n))
    BY <1>1, <2>2 DEF Fitting
  <2> QED BY <2>1, <2>2, <2>3
<1>2. Concludes(whole, first, first, last)
  BY <1>1, DerivationsConclude, Zenon
<1>3. source(p) = s
  OBVIOUS
<1>4. /\ ok(w) <=> whole.status = "success"
      /\ ok(w) => Output(w) = whole.records
      /\ ok(p) <=> first.status = "success"
      /\ ok(p) => Output(p) = first.records
  BY <1>1, <1>3
<1>5. ASSUME ok(p), requests[q].inputs[1] = requests[p].output
      PROVE  /\ ok(q) <=> last.status = "success"
             /\ ok(q) => Output(q) = last.records
  <2>1. source(q) = Output(p)
    BY <1>5 DEF Output
  <2>2. source(q) = first.records
    BY <1>4, <1>5, <2>1
  <2> HIDE DEF first
  <2>3. WithDerivedFields(source(q), of(q)) = last
    BY <2>2
  <2> HIDE DEF source, last, ok, of
  <2>4. /\ ok(q) <=> WithDerivedFields(source(q), of(q)).status = "success"
        /\ ok(q) => Output(q) = WithDerivedFields(source(q), of(q)).records
    BY <1>1, Zenon
  <2> QED BY <2>3, <2>4
<1> HIDE DEF source, of, s, whole, first, last
<1>6. ok(w) => ok(p)
  <2> HIDE DEF ok
  <2> QED BY <1>2, <1>4 DEF Concludes
<1>7. ASSUME ok(p), requests[q].inputs[1] = requests[p].output
      PROVE  (ok(w) <=> ok(q)) /\ (ok(w) => Output(w) = Output(q))
  <2> HIDE DEF ok
  <2> QED BY <1>2, <1>4, <1>5, <1>7 DEF Concludes
<1> QED BY <1>6, <1>7

\* Before the first answer.
LEMMA HonestInit == OperatorInit(RecordWorkloads) => HonestAnswers /\ RecordsAreTyped
<1> SUFFICES ASSUME NEW workload \in RecordWorkloads,
                    artifacts = workload.store, requests = workload.requests, answers = <<>>
             PROVE  HonestAnswers /\ RecordsAreTyped
  BY DEF OperatorInit
<1>1. RecordsAreTyped
  BY RecordAssumption DEF RecordsAreTyped
<1>2. Len(answers) = 0
  OBVIOUS
<1>3. HonestAnswers
  BY <1>2 DEF HonestAnswers
<1> QED BY <1>1, <1>3

\* Records that are reduced where they are and merged afterwards give what they give when
\* they are merged first, refusals included, and so do derivations asked for one after the
\* other, for all stores and all lists of requests (structured.py:209-303).
THEOREM RequestsComposed ==
  ASSUME ScoresArePositive, FloatsAreNumbers
  PROVE  RecordSpec => []RequestsCompose
<1> DEFINE Inv == RecordInv /\ RecordsAreTyped /\ HonestAnswers
<1>1. OperatorInit(RecordWorkloads) => Inv
  BY RecordInit, HonestInit
<1>2. Inv /\ [RecordNext]_operatorVars => Inv'
  <2> SUFFICES ASSUME RecordInv, RecordsAreTyped, HonestAnswers, [RecordNext]_operatorVars
               PROVE  RecordInv' /\ RecordsAreTyped' /\ HonestAnswers'
    OBVIOUS
  <2>1. RecordInv'
    BY RecordNextPreserves
  <2>2. RecordsAreTyped'
    BY RecordNextKeepsTypes
  <2>3. HonestAnswers'
    BY HonestNext
  <2> QED BY <2>1, <2>2, <2>3
<1>3. Inv => RequestsCompose
  BY PartsComposed, DerivationsComposed DEF RequestsCompose
<1> QED BY <1>1, <1>2, <1>3, PTL DEF RecordSpec
=============================================================================
