-------------------------- MODULE DeskCards_proofs --------------------------
(***************************************************************************)
(* What the two cards make of a list: what TLC checks of Senml and         *)
(* DeliveryAudit on a small desk, proved for packs of any length and for   *)
(* archives of any number of topics and rows.                              *)
(*                                                                         *)
(* First, numbers in ascending order, and lists sorted by a key: what      *)
(* Ascending, in BridgeRules, Replay and DeliveryAudit, and SortedBy, in   *)
(* DeliveryAudit, choose from does exist, for every bounded set of numbers *)
(* and every list; and it holds each member once.                          *)
(***************************************************************************)
EXTENDS DeskCards, Functions, FiniteSetTheorems, FunctionTheorems, SequenceTheorems, WellFoundedInduction, TLAPS

\* A set of natural numbers has a least one.
LEMMA LeastNat ==
    ASSUME NEW S, S \subseteq Nat, S # {}
    PROVE  \E x \in S : \A y \in S : x <= y
<1> DEFINE R == OpToRel(<, Nat)
<1>1. IsWellFoundedOn(R, Nat)
  BY NatLessThanWellFounded
<1>2. \E x \in S : \A y \in S : ~ (<<y, x>> \in R)
  <2> HIDE DEF R
  <2> QED
    BY <1>1, WFMin
<1>3. \A x, y \in Nat : y < x => <<y, x>> \in R
  BY DEF OpToRel
<1> HIDE DEF R
<1>4. PICK x \in S : \A y \in S : ~ (<<y, x>> \in R)
  BY <1>2, Zenon
<1>5. ASSUME NEW y \in S PROVE x <= y
  <2>1. x \in Nat /\ y \in Nat
    OBVIOUS
  <2>2. ~ (<<y, x>> \in R)
    BY <1>4
  <2>3. ~ (y < x)
    BY <1>3, <2>1, <2>2, Zenon
  <2> QED
    BY <2>1, <2>3
<1> QED
  BY <1>5

\* Induction, over a set of numbers.
LEMMA Climb ==
    ASSUME NEW S, S \subseteq Nat, 0 \in S, \A n \in S : n + 1 \in S
    PROVE  S = Nat
<1> SUFFICES ASSUME S # Nat
             PROVE  FALSE
  OBVIOUS
<1> DEFINE T == Nat \ S
<1>1. PICK m \in T : \A n \in T : m <= n
  <2> T \subseteq Nat /\ T # {}
    OBVIOUS
  <2> HIDE DEF T
  <2> QED
    BY LeastNat
<1>2. m # 0
  OBVIOUS
<1>3. m - 1 \in Nat /\ m - 1 \notin T
  BY <1>1, <1>2
<1>4. m - 1 \in S
  BY <1>3
<1>5. (m - 1) + 1 \in S
  BY <1>4
<1> QED
  BY <1>5, <1>1

LEMMA BoundedIsFinite ==
    ASSUME NEW n \in Nat, NEW S, S \subseteq 1 .. n
    PROVE  IsFiniteSet(S)
<1>1. IsFiniteSet(1 .. n)
  BY FS_Interval
<1>2. S \in SUBSET (1 .. n)
  OBVIOUS
<1> QED
  BY <1>1, <1>2, FS_Subset

\* What Ascending describes.
Enumerates(s, S) == s \in [1 .. Cardinality(S) -> S] /\ \A i, j \in DOMAIN s : i < j => s[i] < s[j]

\* The numbers of a bounded set can be put in order.
LEMMA CanAscend ==
    ASSUME NEW n \in Nat
    PROVE  \A S \in SUBSET (1 .. n) : \E s : Enumerates(s, S)
<1> DEFINE N == {m \in Nat : \A S \in SUBSET (1 .. m) : \E s : Enumerates(s, S)}
<1>1. 0 \in N
  <2> SUFFICES ASSUME NEW S \in SUBSET (1 .. 0)
               PROVE  \E s : Enumerates(s, S)
    OBVIOUS
  <2>1. S = {} /\ Cardinality(S) = 0
    <3>1. S = {}
      OBVIOUS
    <3> QED
      BY <3>1, FS_EmptySet
  <2>2. [i \in 1 .. 0 |-> 0] \in [1 .. Cardinality(S) -> S]
    BY <2>1
  <2>3. Enumerates([i \in 1 .. 0 |-> 0], S)
    BY <2>2 DEF Enumerates
  <2> QED
    BY <2>3
<1>2. ASSUME NEW m \in N
      PROVE  m + 1 \in N
  <2> SUFFICES ASSUME NEW S \in SUBSET (1 .. m + 1)
               PROVE  \E s : Enumerates(s, S)
    OBVIOUS
  <2>1. CASE m + 1 \notin S
    <3>1. S \in SUBSET (1 .. m)
      BY <2>1
    <3> QED
      BY <3>1
  <2>2. CASE m + 1 \in S
    <3> DEFINE R == S \ {m + 1}
               c == Cardinality(R)
    <3>1. R \in SUBSET (1 .. m)
      OBVIOUS
    <3>2. IsFiniteSet(R)
      <4>1. m \in Nat /\ R \subseteq 1 .. m
        BY <3>1
      <4> HIDE DEF R
      <4> QED
        BY <4>1, BoundedIsFinite
    <3>3. c \in Nat /\ Cardinality(S) = c + 1
      <4>1. c \in Nat
        BY <3>2, FS_CardinalityType
      <4>2. S = R \cup {m + 1} /\ m + 1 \notin R
        BY <2>2
      <4> HIDE DEF R
      <4> QED
        BY <3>2, <4>1, <4>2, FS_AddElement
    <3>4. PICK s : Enumerates(s, R)
      BY <3>1
    <3> HIDE DEF R, c
    <3>5. s \in [1 .. c -> R] /\ \A i, j \in 1 .. c : i < j => s[i] < s[j]
      BY <3>4 DEF Enumerates, c
    <3> DEFINE t == [i \in 1 .. c + 1 |-> IF i = c + 1 THEN m + 1 ELSE s[i]]
    <3>6. t \in [1 .. Cardinality(S) -> S]
      BY <2>2, <3>3, <3>5 DEF R
    <3>7. \A i \in 1 .. c : t[i] = s[i] /\ s[i] \in 1 .. m
      <4> TAKE i \in 1 .. c
      <4>1. i \in 1 .. c + 1 /\ i # c + 1
        BY <3>3
      <4>2. s[i] \in R
        BY <3>5
      <4>3. s[i] \in 1 .. m
        BY <3>1, <4>2
      <4> QED
        BY <4>1, <4>3
    <3>8. t[c + 1] = m + 1
      BY <3>3
    <3>9. ASSUME NEW i \in 1 .. c + 1, NEW j \in 1 .. c + 1, i < j
          PROVE  t[i] < t[j]
      <4>1. i \in 1 .. c
        BY <3>3, <3>9
      <4> HIDE DEF t
      <4>2. CASE j = c + 1
        BY <3>7, <3>8, <4>1, <4>2
      <4>3. CASE j # c + 1
        <5>1. j \in 1 .. c
          BY <3>3, <4>3
        <5> QED
          BY <3>5, <3>7, <3>9, <4>1, <5>1
      <4> QED
        BY <4>2, <4>3
    <3>10. Enumerates(t, S)
      BY <3>3, <3>6, <3>9 DEF Enumerates
    <3> QED
      BY <3>10
  <2> QED
    BY <2>1, <2>2
<1>3. N = Nat
  <2>1. N \subseteq Nat
    OBVIOUS
  <2> HIDE DEF N
  <2> QED
    BY <1>1, <1>2, <2>1, Climb
<1> QED
  BY <1>3

\* A set of numbers up to n has a greatest one.
LEMMA GreatestNat ==
    ASSUME NEW n \in Nat, NEW S, S \subseteq 0 .. n, S # {}
    PROVE  \E x \in S : \A y \in S : x >= y
<1> DEFINE T == {n - y : y \in S}
<1>1. T \subseteq Nat /\ T # {}
  <2>1. \A y \in S : y \in Int /\ n - y \in Nat
    OBVIOUS
  <2> QED
    BY <2>1
<1>2. \A y \in S : n - y \in T
  OBVIOUS
<1>3. \A z \in T : \E y \in S : z = n - y
  OBVIOUS
<1> HIDE DEF T
<1>4. PICK z \in T : \A w \in T : z <= w
  BY <1>1, LeastNat
<1>5. PICK x \in S : z = n - x
  BY <1>3
<1>6. \A y \in S : x >= y
  BY <1>2, <1>4, <1>5
<1> QED
  BY <1>6

-----------------------------------------------------------------------------
(* Lists that hold the members of a set once each                          *)

\* The numbers up to m, each at one member of S, and every member at a number.
Pairs(f, m, S) ==
    /\ m \in Nat /\ f \in [1 .. m -> S]
    /\ \A i, j \in 1 .. m : f[i] = f[j] => i = j
    /\ \A y \in S : \E i \in 1 .. m : f[i] = y

\* Then S has m members.
LEMMA PairsCount ==
    ASSUME NEW f, NEW m, NEW S, Pairs(f, m, S)
    PROVE  IsFiniteSet(S) /\ Cardinality(S) = m
<1>1. m \in Nat /\ f \in Bijection(1 .. m, S)
  BY DEF Pairs, Bijection, Injection, Surjection, IsInjective
<1>2. ExistsBijection(1 .. m, S)
  BY <1>1 DEF ExistsBijection
<1>3. Cardinality(S) = m
  BY <1>1, <1>2, FS_CountingElements
<1>4. IsFiniteSet(S)
  BY <1>1, <1>2, FS_NatBijection
<1> QED
  BY <1>3, <1>4

\* One that takes as many numbers as there are members takes every member.
LEMMA PairsOff ==
    ASSUME NEW m \in Nat, NEW S, IsFiniteSet(S), Cardinality(S) = m, NEW f \in [1 .. m -> S],
           \A i, j \in 1 .. m : f[i] = f[j] => i = j
    PROVE  Pairs(f, m, S)
<1>1. f \in Injection(1 .. m, S)
  BY DEF Injection, IsInjective
<1>2. Cardinality(1 .. m) = m
  <2>1. 1 \in Int /\ m \in Int /\ (1 > m => m = 0)
    OBVIOUS
  <2> QED
    BY <2>1, FS_Interval
<1>3. f \in Surjection(1 .. m, S)
  BY <1>1, <1>2, FS_Injection
<1>4. \A y \in S : \E i \in 1 .. m : f[i] = y
  BY <1>3 DEF Surjection
<1> QED
  BY <1>4 DEF Pairs

\* What a one-to-one image has as many of.
LEMMA AsMany ==
    ASSUME NEW S, NEW T, IsFiniteSet(S), NEW f \in [S -> T],
           \A x, y \in S : f[x] = f[y] => x = y, \A z \in T : \E x \in S : f[x] = z
    PROVE  IsFiniteSet(T) /\ Cardinality(T) = Cardinality(S)
<1>1. f \in Bijection(S, T)
  BY DEF Bijection, Injection, Surjection, IsInjective
<1>2. ExistsBijection(S, T)
  BY <1>1 DEF ExistsBijection
<1> QED
  BY <1>2, FS_Bijection

\* The numbers of a set in order hold each of them.
LEMMA AscendingPairs ==
    ASSUME NEW n \in Nat, NEW S, S \subseteq 1 .. n, NEW s, Enumerates(s, S)
    PROVE  Pairs(s, Cardinality(S), S)
<1> DEFINE m == Cardinality(S)
<1>1. IsFiniteSet(S)
  BY BoundedIsFinite
<1>2. m \in Nat
  BY <1>1, FS_CardinalityType
<1> HIDE DEF m
<1>3. s \in [1 .. m -> S] /\ \A i, j \in 1 .. m : i < j => s[i] < s[j]
  BY DEF Enumerates, m
<1>4. \A i, j \in 1 .. m : s[i] = s[j] => i = j
  <2> TAKE i, j \in 1 .. m
  <2>1. s[i] \in Int /\ s[j] \in Int
    <3>1. s[i] \in S /\ s[j] \in S
      BY <1>3
    <3>2. \A x \in S : x \in 1 .. n
      OBVIOUS
    <3>3. s[i] \in 1 .. n /\ s[j] \in 1 .. n
      BY <3>1, <3>2
    <3> QED
      BY <3>3
  <2>2. i < j \/ i = j \/ j < i
    BY <1>2
  <2> QED
    BY <1>3, <2>1, <2>2
<1> QED
  BY <1>1, <1>2, <1>3, <1>4, PairsOff DEF m

-----------------------------------------------------------------------------
(* Sorting by rank                                                         *)

\* Who comes no later than i, by key and then by place.
UpTo(keys, i) == {j \in DOMAIN keys : keys[j] < keys[i] \/ (keys[j] = keys[i] /\ j <= i)}

\* The places in the order of their keys.
Sorts(p, n, keys) ==
    /\ Pairs(p, n, 1 .. n)
    /\ \A a, b \in 1 .. n : a < b => keys[p[a]] <= keys[p[b]]

LEMMA CanSort ==
    ASSUME NEW n \in Nat, NEW keys \in [1 .. n -> Int]
    PROVE  \E p : /\ Sorts(p, n, keys)
                  /\ \A k \in 1 .. n : p[k] = CHOOSE i \in 1 .. n : Cardinality(UpTo(keys, i)) = k
<1> DEFINE rank == [i \in 1 .. n |-> Cardinality(UpTo(keys, i))]
<1>1. \A i \in 1 .. n : IsFiniteSet(UpTo(keys, i)) /\ UpTo(keys, i) \subseteq 1 .. n
  <2> TAKE i \in 1 .. n
  <2>1. UpTo(keys, i) \subseteq 1 .. n
    BY DEF UpTo
  <2> QED
    BY <2>1, BoundedIsFinite
<1>2. ASSUME NEW i \in 1 .. n
      PROVE  Cardinality(UpTo(keys, i)) \in 1 .. n
  <2>1. Cardinality(1 .. n) = n /\ IsFiniteSet(1 .. n)
    <3>1. 1 \in Int /\ n \in Int /\ (1 > n => n = 0)
      OBVIOUS
    <3> QED
      BY <3>1, FS_Interval
  <2>2. Cardinality(UpTo(keys, i)) \in Nat /\ Cardinality(UpTo(keys, i)) <= n
    <3>1. UpTo(keys, i) \in SUBSET (1 .. n)
      BY <1>1
    <3> QED
      BY <1>1, <2>1, <3>1, FS_CardinalityType, FS_Subset
  <2>3. i \in UpTo(keys, i)
    BY DEF UpTo
  <2>4. Cardinality(UpTo(keys, i)) # 0
    BY <1>1, <2>3, FS_EmptySet
  <2> QED
    BY <2>2, <2>4
<1>3. ASSUME NEW i \in 1 .. n, NEW j \in 1 .. n, keys[i] < keys[j] \/ (keys[i] = keys[j] /\ i < j)
      PROVE  rank[i] < rank[j]
  <2>1. keys[i] \in Int /\ keys[j] \in Int
    OBVIOUS
  <2>2. UpTo(keys, i) \subseteq UpTo(keys, j)
    <3>1. ASSUME NEW x \in UpTo(keys, i)
          PROVE  x \in UpTo(keys, j)
      <4>1. x \in 1 .. n /\ keys[x] \in Int /\ (keys[x] < keys[i] \/ (keys[x] = keys[i] /\ x <= i))
        BY <3>1 DEF UpTo
      <4>2. keys[x] < keys[j] \/ (keys[x] = keys[j] /\ x <= j)
        BY <1>3, <2>1, <4>1
      <4> QED
        BY <4>1, <4>2 DEF UpTo
    <3> QED
      BY <3>1
  <2>3. j \in UpTo(keys, j) /\ j \notin UpTo(keys, i)
    <3>1. j \in UpTo(keys, j)
      BY DEF UpTo
    <3>2. ~ (keys[j] < keys[i]) /\ ~ (keys[j] = keys[i] /\ j <= i)
      BY <1>3, <2>1
    <3> QED
      BY <3>1, <3>2 DEF UpTo
  <2>4. Cardinality(UpTo(keys, i)) <= Cardinality(UpTo(keys, j)) /\ Cardinality(UpTo(keys, i)) # Cardinality(UpTo(keys, j))
    <3>1. UpTo(keys, i) \in SUBSET UpTo(keys, j) /\ IsFiniteSet(UpTo(keys, j)) /\ UpTo(keys, i) # UpTo(keys, j)
      BY <1>1, <2>2, <2>3
    <3> QED
      BY <3>1, FS_Subset
  <2> QED
    BY <1>2, <2>4
<1>4. rank \in [1 .. n -> 1 .. n]
  BY <1>2
<1>5. \A i, j \in 1 .. n : rank[i] = rank[j] => i = j
  <2> SUFFICES ASSUME NEW i \in 1 .. n, NEW j \in 1 .. n, i # j
               PROVE  rank[i] # rank[j]
    OBVIOUS
  <2>1. \/ keys[i] < keys[j] \/ (keys[i] = keys[j] /\ i < j)
        \/ keys[j] < keys[i] \/ (keys[j] = keys[i] /\ j < i)
    OBVIOUS
  <2> HIDE DEF rank
  <2>2. rank[i] < rank[j] \/ rank[j] < rank[i]
    BY <1>3, <2>1
  <2> QED
    BY <1>4, <2>2
<1>6. \A k \in 1 .. n : \E i \in 1 .. n : rank[i] = k
  <2>1. IsFiniteSet(1 .. n) /\ Cardinality(1 .. n) = n
    <3>1. 1 \in Int /\ n \in Int /\ (1 > n => n = 0)
      OBVIOUS
    <3> QED
      BY <3>1, FS_Interval
  <2> HIDE DEF rank
  <2>2. Pairs(rank, n, 1 .. n)
    BY <1>4, <1>5, <2>1, PairsOff
  <2> QED
    BY <2>2 DEF Pairs
<1> DEFINE p == [k \in 1 .. n |-> CHOOSE i \in 1 .. n : rank[i] = k]
<1> HIDE DEF rank
<1>7. ASSUME NEW k \in 1 .. n
      PROVE  p[k] \in 1 .. n /\ rank[p[k]] = k
  BY <1>6
<1> HIDE DEF p
<1>8. Pairs(p, n, 1 .. n)
  <2>1. p \in [1 .. n -> 1 .. n]
    BY <1>7 DEF p
  <2>2. \A i, j \in 1 .. n : p[i] = p[j] => i = j
    BY <1>7
  <2>3. \A y \in 1 .. n : rank[y] \in 1 .. n /\ p[rank[y]] = y
    BY <1>4, <1>5, <1>7
  <2> QED
    BY <2>1, <2>2, <2>3 DEF Pairs
<1>9. \A a, b \in 1 .. n : a < b => keys[p[a]] <= keys[p[b]]
  <2> SUFFICES ASSUME NEW a \in 1 .. n, NEW b \in 1 .. n, a < b, ~ (keys[p[a]] <= keys[p[b]])
               PROVE  FALSE
    OBVIOUS
  <2>1. p[a] \in 1 .. n /\ p[b] \in 1 .. n /\ rank[p[a]] = a /\ rank[p[b]] = b
    BY <1>7
  <2>2. keys[p[a]] \in Int /\ keys[p[b]] \in Int
    BY <2>1
  <2>3. keys[p[b]] < keys[p[a]]
    BY <2>2
  <2>4. rank[p[b]] < rank[p[a]]
    BY <1>3, <2>1, <2>3
  <2> QED
    BY <2>1, <2>4
<1>10. \A k \in 1 .. n : p[k] = CHOOSE i \in 1 .. n : Cardinality(UpTo(keys, i)) = k
  <2> TAKE k \in 1 .. n
  <2>1. \A i \in 1 .. n : rank[i] = Cardinality(UpTo(keys, i))
    BY DEF rank
  <2>2. p[k] = CHOOSE i \in 1 .. n : rank[i] = k
    BY DEF p
  <2> QED
    BY <2>1, <2>2
<1> QED
  BY <1>8, <1>9, <1>10 DEF Sorts

-----------------------------------------------------------------------------
(* A SenML pack: each row of the table stands on the base fields in force  *)
(* at its record.                                                          *)

\* The accumulator after each record.
Fed(f, p) ==
    /\ f = [n \in 0 .. Len(p) |-> IF n = 0 THEN Sheet!Base0 ELSE Sheet!Step(f[n - 1], p[n])]

LEMMA FedExists ==
    ASSUME NEW p, p \in Seq(Sheet!Range(p))
    PROVE  \E f : Fed(f, p)
<1> DEFINE Upto(m, f) == f = [n \in 0 .. m |-> IF n = 0 THEN Sheet!Base0 ELSE Sheet!Step(f[n - 1], p[n])]
           N == {m \in Nat : \E f : Upto(m, f)}
<1>1. 0 \in N
  <2>1. Upto(0, [n \in 0 .. 0 |-> Sheet!Base0])
    OBVIOUS
  <2> QED
    BY <2>1
<1>2. ASSUME NEW m \in N
      PROVE  m + 1 \in N
  <2>1. m \in Nat
    OBVIOUS
  <2>2. PICK f : Upto(m, f)
    OBVIOUS
  <2> DEFINE g == [n \in 0 .. m + 1 |-> IF n = 0 THEN Sheet!Base0 ELSE Sheet!Step(f[n - 1], p[n])]
  <2>3. \A n \in 0 .. m : f[n] = IF n = 0 THEN Sheet!Base0 ELSE Sheet!Step(f[n - 1], p[n])
    BY <2>2
  <2>4. \A n \in 0 .. m : g[n] = f[n]
    BY <2>1, <2>3
  <2>5. \A n \in 0 .. m + 1 : n # 0 => n - 1 \in 0 .. m
    BY <2>1
  <2>6. g = [n \in 0 .. m + 1 |-> IF n = 0 THEN Sheet!Base0 ELSE Sheet!Step(g[n - 1], p[n])]
    <3>1. \A n \in 0 .. m + 1 : n # 0 => Sheet!Step(g[n - 1], p[n]) = Sheet!Step(f[n - 1], p[n])
      BY <2>4, <2>5
    <3> QED
      BY <3>1
  <2>7. Upto(m + 1, g)
    BY <2>6
  <2> HIDE DEF g, Upto
  <2> QED
    BY <2>1, <2>7
<1>3. N = Nat
  <2>1. N \subseteq Nat
    OBVIOUS
  <2> HIDE DEF N
  <2> QED
    BY <1>1, <1>2, <2>1, Climb
<1>4. Len(p) \in N
  BY <1>3
<1> QED
  BY <1>4 DEF Fed

LEMMA ParseIs ==
    ASSUME NEW p, p \in Seq(Sheet!Range(p))
    PROVE  \E f : /\ Sheet!parseSenmlPack(p) = f[Len(p)]
                  /\ f[0] = Sheet!Base0
                  /\ \A n \in 1 .. Len(p) : f[n] = Sheet!Step(f[n - 1], p[n])
<1> DEFINE f == CHOOSE f : Fed(f, p)
<1>1. Fed(f, p)
  BY FedExists
<1>2. Sheet!parseSenmlPack(p) = f[Len(p)]
  BY DEF Sheet!parseSenmlPack, Fed
<1> HIDE DEF f
<1>3. Len(p) \in Nat
  OBVIOUS
<1>4. f[0] = Sheet!Base0
  BY <1>1, <1>3 DEF Fed
<1>5. \A n \in 1 .. Len(p) : f[n] = Sheet!Step(f[n - 1], p[n])
  BY <1>1, <1>3 DEF Fed
<1> QED
  BY <1>2, <1>4, <1>5

-----------------------------------------------------------------------------
\* The last record that sets a base field.
LEMMA SetAtIs ==
    ASSUME NEW i \in Nat, NEW label
    PROVE  /\ Sheet!SetAt(0, label) = 0
           /\ Sheet!SetAt(i + 1, label) = IF Sheet!Has(senmlPack[i + 1], label) THEN i + 1 ELSE Sheet!SetAt(i, label)
           /\ Sheet!SetAt(i, label) \in 0 .. i
           /\ Sheet!SetAt(i, label) # 0 => Sheet!Has(senmlPack[Sheet!SetAt(i, label)], label)
<1> DEFINE S(k) == {0} \cup {j \in 1 .. k : Sheet!Has(senmlPack[j], label)}
<1>1. ASSUME NEW k \in Nat
      PROVE  /\ Sheet!SetAt(k, label) \in S(k) /\ \A y \in S(k) : Sheet!SetAt(k, label) >= y
             /\ Sheet!SetAt(k, label) \in 0 .. k
  <2>1. S(k) \subseteq 0 .. k /\ S(k) # {}
    OBVIOUS
  <2>2. \E x \in S(k) : \A y \in S(k) : x >= y
    <3> HIDE DEF S
    <3> QED
      BY <2>1, GreatestNat
  <2>3. Sheet!SetAt(k, label) = CHOOSE x \in S(k) : \A y \in S(k) : x >= y
    BY DEF Sheet!SetAt, Sheet!Max
  <2> HIDE DEF S
  <2> QED
    BY <2>1, <2>2, <2>3
<1>2. Sheet!SetAt(0, label) = 0
  BY <1>1
<1>3. Sheet!SetAt(i, label) \in S(i) /\ \A y \in S(i) : Sheet!SetAt(i, label) >= y
  BY <1>1
<1>4. /\ Sheet!SetAt(i + 1, label) \in S(i + 1) /\ \A y \in S(i + 1) : Sheet!SetAt(i + 1, label) >= y
      /\ Sheet!SetAt(i + 1, label) \in 0 .. i + 1
  <2>1. i + 1 \in Nat
    OBVIOUS
  <2> QED
    BY <2>1, <1>1
<1>5. /\ Sheet!SetAt(i, label) \in 0 .. i
      /\ Sheet!SetAt(i, label) # 0 => Sheet!Has(senmlPack[Sheet!SetAt(i, label)], label)
  BY <1>1
<1>6. CASE Sheet!Has(senmlPack[i + 1], label)
  <2>1. i + 1 \in S(i + 1)
    BY <1>6
  <2>2. Sheet!SetAt(i + 1, label) >= i + 1
    BY <1>4, <2>1
  <2>3. Sheet!SetAt(i + 1, label) = i + 1
    BY <1>4, <2>2
  <2> QED
    BY <1>2, <1>5, <1>6, <2>3
<1>7. CASE ~Sheet!Has(senmlPack[i + 1], label)
  <2>1. S(i + 1) = S(i)
    BY <1>7
  <2>2. Sheet!SetAt(i + 1, label) = Sheet!SetAt(i, label)
    <3>1. Sheet!SetAt(i + 1, label) \in S(i) /\ \A y \in S(i) : Sheet!SetAt(i + 1, label) >= y
      BY <1>4, <2>1
    <3>2. Sheet!SetAt(i + 1, label) >= Sheet!SetAt(i, label) /\ Sheet!SetAt(i, label) >= Sheet!SetAt(i + 1, label)
      BY <1>3, <3>1
    <3> HIDE DEF S
    <3> QED
      BY <1>4, <1>5, <3>2
  <2> QED
    BY <1>2, <1>5, <1>7, <2>2
<1> QED
  BY <1>6, <1>7

\* What is in force after a record is what it sets, or what was in force before.
LEMMA InForceIs ==
    ASSUME NEW i \in Nat, NEW label, NEW default
    PROVE  /\ Sheet!InForce(0, label, default) = default
           /\ Sheet!InForce(i + 1, label, default) = Sheet!Get(senmlPack[i + 1], label, Sheet!InForce(i, label, default))
<1>1. CASE Sheet!Has(senmlPack[i + 1], label)
  <2>1. Sheet!SetAt(i + 1, label) = i + 1 /\ Sheet!SetAt(0, label) = 0
    BY <1>1, SetAtIs
  <2>2. i + 1 # 0
    OBVIOUS
  <2> QED
    BY <1>1, <2>1, <2>2 DEF Sheet!InForce, Sheet!Get
<1>2. CASE ~Sheet!Has(senmlPack[i + 1], label)
  <2>1. Sheet!SetAt(i + 1, label) = Sheet!SetAt(i, label) /\ Sheet!SetAt(0, label) = 0
    BY <1>2, SetAtIs
  <2> QED
    BY <1>2, <2>1 DEF Sheet!InForce, Sheet!Get
<1> QED
  BY <1>1, <1>2

-----------------------------------------------------------------------------
\* What is in force after n records, as the reader keeps it.
UnitIn(n) == IF Sheet!SetAt(n, "bu") = 0 THEN Sheet!None ELSE <<Sheet!InForce(n, "bu", 0)>>
TimeIn(n) == IF Sheet!SetAt(n, "bt") = 0 THEN Now ELSE Sheet!resolveTime(Now, Sheet!InForce(n, "bt", 0))

\* A reading as its row, and the rows of a list of readings.
RowIs(x) == [x EXCEPT !.unit = IF x.kind \in {"v", "sum"} THEN @ ELSE Sheet!None]
Tabled(rs) == {RowIs(rs[k]) : k \in DOMAIN rs}
Listing(rs) == rs \in Seq({rs[k] : k \in DOMAIN rs})

Reads(n, a) ==
    /\ a = [name |-> Sheet!InForce(n, "bn", <<>>), unit |-> UnitIn(n), time |-> TimeIn(n),
            value |-> Sheet!InForce(n, "bv", 0), ver |-> a.ver, failed |-> FALSE, readings |-> a.readings,
            warnings |-> a.warnings]
    /\ Listing(a.readings)
    /\ Tabled(a.readings) = UNION {Sheet!RowsOf(i) : i \in 1 .. n}

LEMMA Joined ==
    ASSUME NEW x, NEW y, Listing(x), Listing(y)
    PROVE  Listing(x \o y) /\ Tabled(x \o y) = Tabled(x) \cup Tabled(y)
<1> DEFINE z == x \o y
           X == {x[k] : k \in DOMAIN x}
           Y == {y[k] : k \in DOMAIN y}
<1>1. x \in Seq(X) /\ y \in Seq(Y)
  BY Zenon DEF Listing
<1>2. x \in Seq(X \cup Y) /\ y \in Seq(X \cup Y)
  <2> HIDE DEF X, Y
  <2> QED
    BY <1>1
<1> HIDE DEF X, Y
<1>3. /\ Len(x) \in Nat /\ Len(y) \in Nat /\ DOMAIN x = 1 .. Len(x) /\ DOMAIN y = 1 .. Len(y)
      /\ DOMAIN z = 1 .. Len(x) + Len(y)
      /\ \A k \in DOMAIN x : z[k] = x[k]
      /\ \A k \in DOMAIN y : z[Len(x) + k] = y[k]
      /\ \A k \in DOMAIN z : k \in DOMAIN x \/ (k - Len(x) \in DOMAIN y /\ z[k] = y[k - Len(x)])
  BY <1>2
<1>4. z \in Seq(X \cup Y) /\ Len(z) = Len(x) + Len(y)
  BY <1>2
<1> HIDE DEF z
<1>5. Listing(z)
  <2> DEFINE Z == {z[k] : k \in DOMAIN z}
  <2>1. \A k \in 1 .. Len(z) : z[k] \in Z
    BY <1>3, <1>4
  <2> HIDE DEF Z
  <2>2. z \in Seq(Z)
    BY <1>4, <2>1
  <2> QED
    BY <2>2 DEF Listing, Z
<1>6. Tabled(z) = Tabled(x) \cup Tabled(y)
  <2>1. \A k \in DOMAIN x : k \in DOMAIN z
    BY <1>3
  <2>2. \A k \in DOMAIN y : Len(x) + k \in DOMAIN z
    BY <1>3
  <2>3. \A k \in DOMAIN x : RowIs(x[k]) \in Tabled(z)
    BY <1>3, <2>1, Zenon DEF Tabled
  <2>4. \A k \in DOMAIN y : RowIs(y[k]) \in Tabled(z)
    BY <1>3, <2>2, Zenon DEF Tabled
  <2>5. \A k \in DOMAIN z : RowIs(z[k]) \in Tabled(x) \/ RowIs(z[k]) \in Tabled(y)
    BY <1>3, Zenon DEF Tabled
  <2> QED
    BY <2>3, <2>4, <2>5, Zenon DEF Tabled
<1> QED
  BY <1>5, <1>6 DEF z

\* A reading that is made of the base fields in force has the row it must have.
LEMMA ReadingIs ==
    ASSUME Sheet!IsPack(senmlPack), NEW i \in DOMAIN senmlPack, NEW a, NEW how, NEW value,
           a.name = Sheet!InForce(i, "bn", <<>>), a.unit = UnitIn(i), a.time = TimeIn(i),
           Threshold \in Nat \ {0}, Now \in Int
    PROVE  RowIs(Sheet!Reading(a, senmlPack[i], how, value)) = Sheet!Resolved(i, how, value)
<1> DEFINE rec == senmlPack[i]
           t == Sheet!Get(rec, "t", 0)
           bt == Sheet!InForce(i, "bt", 0)
<1>1. i \in Nat /\ DOMAIN senmlPack = 1 .. Len(senmlPack) /\ Len(senmlPack) \in Nat
  BY DEF Sheet!IsPack
<1>2. t \in Int
  BY DEF Sheet!IsPack, Sheet!Get, Sheet!Has, Sheet!TypeOf
<1>3. bt \in Int /\ (Sheet!SetAt(i, "bt") = 0 => bt = 0)
  <2>1. CASE Sheet!SetAt(i, "bt") = 0
    BY <2>1 DEF Sheet!InForce
  <2>2. CASE Sheet!SetAt(i, "bt") # 0
    <3>1. Sheet!SetAt(i, "bt") \in 0 .. i /\ Sheet!Has(senmlPack[Sheet!SetAt(i, "bt")], "bt")
      BY <1>1, <2>2, SetAtIs
    <3>2. Sheet!SetAt(i, "bt") \in DOMAIN senmlPack
      BY <1>1, <2>2, <3>1
    <3>3. senmlPack[Sheet!SetAt(i, "bt")]["bt"].of \in Int
      BY <3>1, <3>2 DEF Sheet!IsPack, Sheet!Has, Sheet!TypeOf
    <3> QED
      BY <2>2, <3>3 DEF Sheet!InForce
  <2> QED
    BY <2>1, <2>2
<1>4. Sheet!resolveTime(a.time, t) = Sheet!TimeOf(i)
  <2>1. Sheet!TimeOf(i) = IF Sheet!IsAbsolute(t) THEN t ELSE IF Sheet!IsAbsolute(bt) THEN bt + t ELSE Now + bt + t
    BY DEF Sheet!TimeOf
  <2>2. a.time = IF Sheet!SetAt(i, "bt") = 0 THEN Now ELSE IF Sheet!IsAbsolute(bt) THEN bt ELSE Now + bt
    BY DEF TimeIn, Sheet!resolveTime
  <2>3. Sheet!SetAt(i, "bt") = 0 => ~Sheet!IsAbsolute(bt) /\ bt = 0
    BY <1>3 DEF Sheet!IsAbsolute
  <2> HIDE DEF t, bt
  <2>4. a.time \in Int /\ a.time = IF Sheet!IsAbsolute(bt) THEN bt ELSE Now + bt
    BY <1>3, <2>2, <2>3
  <2>5. Sheet!resolveTime(a.time, t) = IF Sheet!IsAbsolute(t) THEN t ELSE a.time + t
    BY DEF Sheet!resolveTime
  <2> QED
    BY <1>2, <1>3, <2>1, <2>4, <2>5
<1> DEFINE x == Sheet!Reading(a, rec, how, value)
<1>5. x = [name |-> Sheet!InForce(i, "bn", <<>>) \o Sheet!Get(rec, "n", <<>>),
           unit |-> IF Sheet!Has(rec, "u") THEN <<rec["u"].of>> ELSE UnitIn(i),
           kind |-> how, value |-> value, time |-> Sheet!TimeOf(i)]
  BY <1>4 DEF Sheet!Reading
<1>6. RowIs(x) = [name |-> Sheet!InForce(i, "bn", <<>>) \o Sheet!Get(rec, "n", <<>>),
                  unit |-> IF how \in {"v", "sum"} THEN IF Sheet!Has(rec, "u") THEN <<rec["u"].of>> ELSE UnitIn(i)
                           ELSE Sheet!None,
                  kind |-> how, value |-> value, time |-> Sheet!TimeOf(i)]
  <2> DEFINE nm == Sheet!InForce(i, "bn", <<>>) \o Sheet!Get(rec, "n", <<>>)
             un == IF Sheet!Has(rec, "u") THEN <<rec["u"].of>> ELSE UnitIn(i)
             tm == Sheet!TimeOf(i)
  <2>1. x = [name |-> nm, unit |-> un, kind |-> how, value |-> value, time |-> tm]
    BY <1>5
  <2> HIDE DEF x, nm, un, tm
  <2>2. RowIs(x) = [x EXCEPT !.unit = IF how \in {"v", "sum"} THEN un ELSE Sheet!None]
    BY <2>1 DEF RowIs
  <2>3. RowIs(x) = [name |-> nm, unit |-> IF how \in {"v", "sum"} THEN un ELSE Sheet!None,
                    kind |-> how, value |-> value, time |-> tm]
    BY <2>1, <2>2
  <2> QED
    BY <2>3 DEF nm, un, tm
<1> QED
  BY <1>6 DEF Sheet!Resolved, UnitIn

\* The readings of one record are its rows.
LEMMA ReadingsAre ==
    ASSUME Sheet!IsPack(senmlPack), NEW i \in DOMAIN senmlPack, NEW a,
           a.name = Sheet!InForce(i, "bn", <<>>), a.unit = UnitIn(i), a.time = TimeIn(i),
           a.value = Sheet!InForce(i, "bv", 0), Threshold \in Nat \ {0}, Now \in Int
    PROVE  LET rs == Sheet!ReadingsOf(a, senmlPack[i]) IN Listing(rs) /\ Tabled(rs) = Sheet!RowsOf(i)
<1> DEFINE rec == senmlPack[i]
           Val(label) == IF label = "v" THEN a.value + rec["v"].of ELSE rec[label].of
           One(label, how) ==
               IF Sheet!Has(rec, label) THEN <<Sheet!Reading(a, rec, how, Val(label))>> ELSE <<>>
           Want(label, how) ==
               IF Sheet!Has(rec, label) THEN {Sheet!Resolved(i, how, Val(label))} ELSE {}
<1>1. Sheet!ReadingsOf(a, rec)
        = One("s", "sum") \o One("v", "v") \o One("vs", "vs") \o One("vb", "vb") \o One("vd", "vd")
  BY DEF Sheet!ReadingsOf
<1>2. ASSUME NEW label, NEW how
      PROVE  Listing(One(label, how)) /\ Tabled(One(label, how)) = Want(label, how)
  <2>1. CASE ~Sheet!Has(rec, label)
    BY <2>1 DEF Listing, Tabled
  <2>2. CASE Sheet!Has(rec, label)
    <3> DEFINE x == Sheet!Reading(a, rec, how, Val(label))
    <3>1. RowIs(x) = Sheet!Resolved(i, how, Val(label))
      BY ReadingIs
    <3>2. One(label, how) = <<x>> /\ Want(label, how) = {Sheet!Resolved(i, how, Val(label))}
      BY <2>2
    <3> HIDE DEF x, One, Want
    <3>3. DOMAIN <<x>> = {1} /\ <<x>>[1] = x
      OBVIOUS
    <3>4. Listing(<<x>>)
      BY <3>3 DEF Listing
    <3>5. Tabled(<<x>>) = {RowIs(x)}
      BY <3>3 DEF Tabled
    <3> QED
      BY <3>1, <3>2, <3>4, <3>5
  <2> QED
    BY <2>1, <2>2
<1>3. Sheet!RowsOf(i) = Want("s", "sum") \cup Want("v", "v") \cup Want("vs", "vs") \cup Want("vb", "vb") \cup Want("vd", "vd")
  <2> DEFINE Given == {l \in Sheet!Primaries : Sheet!Has(rec, l)}
             Totals == {l \in {"s"} : Sheet!Has(rec, l)}
  <2>1. Sheet!RowsOf(i) = {Sheet!Resolved(i, l, Val(l)) : l \in Given} \cup {Sheet!Resolved(i, "sum", Val(l)) : l \in Totals}
    <3>1. \A l : (IF l = "v" THEN Sheet!InForce(i, "bv", 0) + rec["v"].of ELSE rec[l].of) = Val(l)
      OBVIOUS
    <3>2. \A l \in Totals : Val(l) = rec["s"].of
      OBVIOUS
    <3>3. Sheet!RowsOf(i) = {Sheet!Resolved(i, l, IF l = "v" THEN Sheet!InForce(i, "bv", 0) + rec["v"].of ELSE rec[l].of) : l \in Given}
                            \cup {Sheet!Resolved(i, "sum", rec["s"].of) : l \in Totals}
      BY DEF Sheet!RowsOf
    <3> HIDE DEF Val, Given, Totals
    <3> QED
      BY <3>1, <3>2, <3>3
  <2> HIDE DEF Val
  <2>2. Given = (IF Sheet!Has(rec, "v") THEN {"v"} ELSE {}) \cup (IF Sheet!Has(rec, "vs") THEN {"vs"} ELSE {})
                \cup (IF Sheet!Has(rec, "vb") THEN {"vb"} ELSE {}) \cup (IF Sheet!Has(rec, "vd") THEN {"vd"} ELSE {})
    BY DEF Sheet!Primaries
  <2>3. Totals = IF Sheet!Has(rec, "s") THEN {"s"} ELSE {}
    OBVIOUS
  <2> HIDE DEF Given, Totals
  <2> QED
    BY <2>1, <2>2, <2>3
<1> HIDE DEF One, Want
<1>4. LET rs == One("s", "sum") \o One("v", "v") IN Listing(rs) /\ Tabled(rs) = Want("s", "sum") \cup Want("v", "v")
  BY <1>2, Joined
<1>5. LET rs == One("s", "sum") \o One("v", "v") \o One("vs", "vs")
      IN  Listing(rs) /\ Tabled(rs) = Want("s", "sum") \cup Want("v", "v") \cup Want("vs", "vs")
  BY <1>2, <1>4, Joined
<1>6. LET rs == One("s", "sum") \o One("v", "v") \o One("vs", "vs") \o One("vb", "vb")
      IN  Listing(rs) /\ Tabled(rs) = Want("s", "sum") \cup Want("v", "v") \cup Want("vs", "vs") \cup Want("vb", "vb")
  BY <1>2, <1>5, Joined
<1>7. LET rs == Sheet!ReadingsOf(a, rec)
      IN  Listing(rs) /\ Tabled(rs) = Want("s", "sum") \cup Want("v", "v") \cup Want("vs", "vs") \cup Want("vb", "vb") \cup Want("vd", "vd")
  BY <1>1, <1>2, <1>6, Joined
<1> QED
  BY <1>3, <1>7

\* A record that is not refused is read under what is in force at it.
LEMMA StepReads ==
    ASSUME Sheet!IsPack(senmlPack), NEW n \in Nat, n + 1 \in DOMAIN senmlPack, NEW a, Reads(n, a),
           ~Sheet!Refused(a, senmlPack[n + 1]), Threshold \in Nat \ {0}, Now \in Int
    PROVE  Reads(n + 1, Sheet!Step(a, senmlPack[n + 1]))
<1> DEFINE rec == senmlPack[n + 1]
           now == Sheet!SetBase(a, rec)
           rs == Sheet!ReadingsOf(now, rec)
           b == Sheet!Step(a, rec)
<1> DEFINE nm == Sheet!InForce(n, "bn", <<>>)
           un == UnitIn(n)
           tm == TimeIn(n)
           vl == Sheet!InForce(n, "bv", 0)
           vr == a.ver
           rd == a.readings
           wn == a.warnings
<1>1. a = [name |-> nm, unit |-> un, time |-> tm, value |-> vl, ver |-> vr, failed |-> FALSE, readings |-> rd,
           warnings |-> wn]
  BY Zenon DEF Reads
<1> DEFINE nm1 == Sheet!InForce(n + 1, "bn", <<>>)
           un1 == UnitIn(n + 1)
           tm1 == TimeIn(n + 1)
           vl1 == Sheet!InForce(n + 1, "bv", 0)
           vr1 == IF Sheet!Has(rec, "bver") THEN <<rec["bver"].of>> ELSE vr
           wn1 == wn + Sheet!WarningsOf(rec)
<1>2. now = [name |-> nm1, unit |-> un1, time |-> tm1, value |-> vl1, ver |-> vr1, failed |-> FALSE, readings |-> rd,
             warnings |-> wn]
  <2>1. nm1 = Sheet!Get(rec, "bn", nm) /\ vl1 = Sheet!Get(rec, "bv", vl)
    BY InForceIs
  <2>2. n + 1 # 0
    OBVIOUS
  <2>3. un1 = IF Sheet!Has(rec, "bu") THEN <<rec["bu"].of>> ELSE un
    BY <2>2, SetAtIs DEF UnitIn, Sheet!InForce
  <2>4. tm1 = IF Sheet!Has(rec, "bt") THEN Sheet!resolveTime(Now, rec["bt"].of) ELSE tm
    BY <2>2, SetAtIs DEF TimeIn, Sheet!InForce
  <2> HIDE DEF nm, un, tm, vl, vr, rd, wn, nm1, un1, tm1, vl1, rec, now
  <2>5. a.name = nm /\ a.unit = un /\ a.time = tm /\ a.value = vl /\ a.ver = vr
    BY <1>1
  <2>6. now = [a EXCEPT !.ver = vr1, !.name = nm1, !.unit = un1, !.value = vl1, !.time = tm1]
    BY <2>1, <2>3, <2>4, <2>5, Zenon DEF Sheet!SetBase, now
  <2> HIDE DEF vr1
  <2> QED
    BY <1>1, <2>6
<1>3. Listing(rs) /\ Tabled(rs) = Sheet!RowsOf(n + 1)
  <2> HIDE DEF nm1, un1, tm1, vl1, now, vr1, rd, wn
  <2>1. now.name = nm1 /\ now.unit = un1 /\ now.time = tm1 /\ now.value = vl1
    BY <1>2
  <2>2. /\ now.name = Sheet!InForce(n + 1, "bn", <<>>) /\ now.unit = UnitIn(n + 1) /\ now.time = TimeIn(n + 1)
        /\ now.value = Sheet!InForce(n + 1, "bv", 0)
    BY <2>1 DEF nm1, un1, tm1, vl1
  <2> QED
    BY <2>2, ReadingsAre
<1> HIDE DEF rs, now
<1>4. b = [now EXCEPT !.readings = @ \o rs, !.warnings = @ + Sheet!WarningsOf(rec)]
  <2>1. a.failed = FALSE
    <3> HIDE DEF nm, un, tm, vl, vr, rd, wn
    <3> QED
      BY <1>1
  <2> QED
    BY <2>1 DEF Sheet!Step, now, rs
<1> HIDE DEF b
<1>5. b = [name |-> nm1, unit |-> un1, time |-> tm1, value |-> vl1, ver |-> vr1, failed |-> FALSE,
           readings |-> rd \o rs, warnings |-> wn1]
  <2> DEFINE extra == Sheet!WarningsOf(rec)
  <2> HIDE DEF nm1, un1, tm1, vl1, vr1, rd, wn, extra
  <2>1. b = [now EXCEPT !.readings = @ \o rs, !.warnings = @ + extra]
    BY <1>4, Zenon DEF extra
  <2>2. now.readings = rd /\ now.warnings = wn
    BY <1>2
  <2>3. wn1 = wn + extra
    BY DEF extra
  <2> HIDE DEF wn1
  <2>4. b = [now EXCEPT !.readings = rd \o rs, !.warnings = wn1]
    BY <2>1, <2>2, <2>3
  <2> QED
    BY <1>2, <2>4
<1>6. Listing(b.readings) /\ Tabled(b.readings) = Tabled(a.readings) \cup Tabled(rs)
  <2>1. Listing(a.readings)
    BY Zenon DEF Reads
  <2>2. b.readings = rd \o rs
    <3> HIDE DEF nm1, un1, tm1, vl1, vr1, rd, wn1
    <3> QED
      BY <1>5
  <2> QED
    BY <1>3, <2>1, <2>2, Joined
<1>7. Tabled(b.readings) = UNION {Sheet!RowsOf(i) : i \in 1 .. n + 1}
  <2>1. 1 .. n + 1 = (1 .. n) \cup {n + 1}
    OBVIOUS
  <2>2. Tabled(a.readings) = UNION {Sheet!RowsOf(i) : i \in 1 .. n}
    BY Zenon DEF Reads
  <2>3. UNION {Sheet!RowsOf(i) : i \in (1 .. n) \cup {n + 1}} = (UNION {Sheet!RowsOf(i) : i \in 1 .. n}) \cup Sheet!RowsOf(n + 1)
    OBVIOUS
  <2> QED
    BY <1>3, <1>6, <2>1, <2>2, <2>3
<1>8. b = [name |-> nm1, unit |-> un1, time |-> tm1, value |-> vl1, ver |-> b.ver, failed |-> FALSE,
           readings |-> b.readings, warnings |-> b.warnings]
  <2> HIDE DEF nm1, un1, tm1, vl1, vr1, rd, wn1
  <2> QED
    BY <1>5
<1> QED
  BY <1>6, <1>7, <1>8, Zenon DEF Reads, b

\* A pack that is not refused is read whole.
LEMMA PackReads ==
    ASSUME Sheet!IsPack(senmlPack), Threshold \in Nat \ {0}, Now \in Int,
           ~Sheet!parseSenmlPack(senmlPack).failed
    PROVE  LET rs == Sheet!parseSenmlPack(senmlPack).readings
           IN  Listing(rs) /\ Tabled(rs) = UNION {Sheet!RowsOf(i) : i \in DOMAIN senmlPack}
<1> DEFINE L == Len(senmlPack)
<1>1. senmlPack \in Seq(Sheet!Range(senmlPack)) /\ L \in Nat /\ DOMAIN senmlPack = 1 .. L
  <2>1. senmlPack \in Seq(Sheet!Range(senmlPack))
    BY Zenon DEF Sheet!IsPack
  <2> QED
    BY <2>1
<1>2. PICK f : /\ Sheet!parseSenmlPack(senmlPack) = f[L] /\ f[0] = Sheet!Base0
               /\ \A n \in 1 .. L : f[n] = Sheet!Step(f[n - 1], senmlPack[n])
  BY <1>1, ParseIs
<1> DEFINE Fails(a) == "failed" \in DOMAIN a /\ a.failed = TRUE
           N == {n \in Nat : n <= L => Fails(f[n]) \/ Reads(n, f[n])}
<1>3. 0 \in N
  <2>1. /\ Sheet!InForce(0, "bn", <<>>) = <<>> /\ Sheet!InForce(0, "bv", 0) = 0
        /\ Sheet!SetAt(0, "bu") = 0 /\ Sheet!SetAt(0, "bt") = 0
    <3>1. 0 \in Nat
      OBVIOUS
    <3> QED
      BY <3>1, InForceIs, SetAtIs
  <2>2. UnitIn(0) = Sheet!None /\ TimeIn(0) = Now
    BY <2>1 DEF UnitIn, TimeIn
  <2>3. UNION {Sheet!RowsOf(i) : i \in 1 .. 0} = {} /\ Listing(<<>>) /\ Tabled(<<>>) = {}
    BY DEF Listing, Tabled
  <2>4. Reads(0, Sheet!Base0)
    BY <2>1, <2>2, <2>3 DEF Reads, Sheet!Base0
  <2> QED
    BY <1>2, <2>4
<1>4. ASSUME NEW n \in N
      PROVE  n + 1 \in N
  <2>1. n \in Nat /\ n + 1 \in Nat /\ (n <= L => Fails(f[n]) \/ Reads(n, f[n]))
    OBVIOUS
  <2> SUFFICES ASSUME n + 1 <= L
               PROVE  Fails(f[n + 1]) \/ Reads(n + 1, f[n + 1])
    BY <2>1
  <2>2. n + 1 \in 1 .. L /\ (n + 1) - 1 = n /\ n <= L
    BY <1>1, <2>1
  <2>3. f[n + 1] = Sheet!Step(f[n], senmlPack[n + 1])
    BY <1>2, <2>2
  <2>4. CASE Reads(n, f[n]) /\ ~Sheet!Refused(f[n], senmlPack[n + 1])
    BY <1>1, <2>1, <2>2, <2>3, <2>4, StepReads
  <2>5. CASE "failed" \in DOMAIN f[n] /\ (f[n].failed = TRUE \/ Sheet!Refused(f[n], senmlPack[n + 1]))
    <3>1. f[n + 1] = [f[n] EXCEPT !.failed = TRUE]
      BY <2>3, <2>5 DEF Sheet!Step
    <3> QED
      BY <2>5, <3>1
  <2>6. Reads(n, f[n]) => "failed" \in DOMAIN f[n]
    BY DEF Reads
  <2> QED
    BY <2>1, <2>2, <2>4, <2>5, <2>6
<1>5. N = Nat
  <2>1. N \subseteq Nat
    OBVIOUS
  <2> HIDE DEF N
  <2> QED
    BY <1>3, <1>4, <2>1, Climb
<1>6. L \in N
  BY <1>1, <1>5
<1>7. Reads(L, f[L])
  BY <1>1, <1>2, <1>6
<1> QED
  BY <1>1, <1>2, <1>7 DEF Reads

-----------------------------------------------------------------------------
\* What is shown of a pack is what was read of it.
SheetInv ==
    /\ Sheet!IsPack(senmlPack)
    /\ senmlShown # Sheet!None =>
          LET r == Sheet!parseSenmlPack(senmlPack)
          IN  /\ senmlShown[1].table <=> ~r.failed
              /\ ~r.failed => senmlShown[1].rows = Sheet!senmlToTable(r)

LEMMA SheetTold == SheetInv => Sheet!ValuesResolved
<1> SUFFICES ASSUME SheetInv, senmlShown # Sheet!None, senmlShown[1].table
             PROVE  Sheet!Range(senmlShown[1].rows) = UNION {Sheet!RowsOf(i) : i \in DOMAIN senmlPack}
  BY DEF Sheet!ValuesResolved
<1> DEFINE r == Sheet!parseSenmlPack(senmlPack)
           rs == r.readings
<1>1. /\ Sheet!IsPack(senmlPack) /\ ~r.failed
      /\ senmlShown[1].rows = Sheet!senmlToTable(r)
  BY Zenon DEF SheetInv
<1>2. Listing(rs) /\ Tabled(rs) = UNION {Sheet!RowsOf(i) : i \in DOMAIN senmlPack}
  BY <1>1, PackReads, CardsAssumption
<1> HIDE DEF r
<1>3. Sheet!senmlToTable(r) = [i \in DOMAIN rs |-> RowIs(rs[i])]
  BY DEF Sheet!senmlToTable, RowIs
<1>4. Sheet!Range([i \in DOMAIN rs |-> RowIs(rs[i])]) = Tabled(rs)
  <2> HIDE DEF rs
  <2> QED
    BY DEF Sheet!Range, Tabled
<1> QED
  BY <1>1, <1>2, <1>3, <1>4

LEMMA SheetStep == SheetInv /\ [Sheet!Next]_(Sheet!vars) => SheetInv'
<1> SUFFICES ASSUME SheetInv, [Sheet!Next]_(Sheet!vars)
             PROVE  SheetInv'
  OBVIOUS
<1>1. CASE UNCHANGED Sheet!vars
  <2>1. senmlPack' = senmlPack /\ senmlShown' = senmlShown
    BY <1>1 DEF Sheet!vars
  <2> QED
    BY <2>1 DEF SheetInv
<1>2. CASE Sheet!Show
  <2> DEFINE r == Sheet!parseSenmlPack(senmlPack)
             rows1 == IF r.failed THEN <<>> ELSE Sheet!senmlToTable(r)
             t == ~r.failed
  <2>1. senmlPack' = senmlPack
    BY <1>2 DEF Sheet!Show
  <2>2. senmlShown' = <<[table |-> t, rows |-> rows1, warnings |-> r.warnings, auto |-> Sheet!looksLikeSenml(senmlPack)]>>
    BY <1>2, Zenon DEF Sheet!Show
  <2>3. senmlShown'[1].table = t /\ senmlShown'[1].rows = rows1
    <3> HIDE DEF t, rows1, r
    <3> QED
      BY <2>2
  <2> HIDE DEF r
  <2>4. ~r.failed => rows1 = Sheet!senmlToTable(r)
    OBVIOUS
  <2>5. Sheet!parseSenmlPack(senmlPack') = r
    BY <2>1 DEF r
  <2> HIDE DEF rows1
  <2> QED
    BY <2>1, <2>3, <2>4, <2>5 DEF SheetInv, r
<1> QED
  BY <1>1, <1>2 DEF Sheet!Next

\* Of these parts alone: see TableResolvesEveryValue in Desk_proofs.
LEMMA TableResolvesEveryValueInCards == CardsSpec => []ValuesResolved
<1> DEFINE Holds == part = "senml" => SheetInv
<1>1. CardsInit => Holds
  BY CardsAssumption DEF CardsInit, Sheet!Init, SheetInv
<1>2. Holds /\ [CardsStep]_<<part, clicks, cardVars>> => Holds'
  BY SheetStep DEF CardsStep, CardsNext, CardsParts, cardVars, senml, Sheet!vars
<1>3. Holds => ValuesResolved
  BY SheetTold DEF ValuesResolved
<1> QED
  BY <1>1, <1>2, <1>3, PTL DEF CardsSpec

-----------------------------------------------------------------------------
\* A function on the numbers up to m is a list of that length.
LEMMA ListIs ==
    ASSUME NEW m \in Nat, NEW s, s = [i \in 1 .. m |-> s[i]]
    PROVE  Len(s) = m /\ DOMAIN s = 1 .. m
<1> DEFINE R == {s[i] : i \in 1 .. m}
<1>1. s \in [1 .. m -> R]
  OBVIOUS
<1> HIDE DEF R
<1>2. s \in Seq(R) /\ Len(s) = m
  BY <1>1
<1> QED
  BY <1>1, <1>2

LEMMA CardCounts == \A S : Card!Cardinality(S) = Cardinality(S)
BY DEF Card!Cardinality, Cardinality

-----------------------------------------------------------------------------
(* The delivery audit: it accuses nobody.  A card is made of choices and   *)
(* sorts of the rows shown; so its list and the order of arrival hold the  *)
(* same readable rows once each, by time.                                  *)

\* The members of a list at the places of a set, in their order.
Choice(f, m, S, s, list) ==
    /\ Pairs(f, m, S) /\ \A i, j \in 1 .. m : i < j => f[i] < f[j]
    /\ s = [k \in 1 .. m |-> list[f[k]]]

LEMMA AtIs ==
    ASSUME NEW n \in Nat, NEW list, NEW S, S \subseteq 1 .. n
    PROVE  \E f : Choice(f, Cardinality(S), S, Card!At(list, S), list)
<1> DEFINE f == Card!Ascending(S)
<1>1. PICK s : Enumerates(s, S)
  BY CanAscend
<1>2. \E q \in [1 .. Card!Cardinality(S) -> S] : \A i, j \in DOMAIN q : i < j => q[i] < q[j]
  BY <1>1, CardCounts DEF Enumerates
<1>3. f \in [1 .. Card!Cardinality(S) -> S] /\ \A i, j \in DOMAIN f : i < j => f[i] < f[j]
  BY <1>2 DEF Card!Ascending
<1> HIDE DEF f
<1>4. Enumerates(f, S)
  BY <1>3, CardCounts DEF Enumerates
<1>5. Pairs(f, Cardinality(S), S)
  BY <1>4, AscendingPairs
<1>6. DOMAIN f = 1 .. Cardinality(S) /\ \A i, j \in 1 .. Cardinality(S) : i < j => f[i] < f[j]
  BY <1>3, CardCounts
<1>7. Card!At(list, S) = [k \in 1 .. Cardinality(S) |-> list[f[k]]]
  BY <1>6 DEF Card!At, f
<1> QED
  BY <1>5, <1>6, <1>7 DEF Choice

\* A list by its keys.
Sorted(p, n, s, list, keys) == Sorts(p, n, keys) /\ s = [k \in 1 .. n |-> list[p[k]]]

LEMMA SortedIs ==
    ASSUME NEW n \in Nat, NEW list, DOMAIN list = 1 .. n, NEW keys \in [1 .. n -> Int]
    PROVE  \E p : Sorted(p, n, Card!SortedBy(list, keys), list, keys)
<1>1. PICK p : Sorts(p, n, keys) /\ \A k \in 1 .. n : p[k] = CHOOSE i \in 1 .. n : Cardinality(UpTo(keys, i)) = k
  BY CanSort
<1>2. \A i : Card!Place(keys, i) = Cardinality(UpTo(keys, i))
  BY CardCounts DEF Card!Place, UpTo
<1>3. \A k \in 1 .. n : (CHOOSE i \in DOMAIN list : Card!Place(keys, i) = k) = p[k]
  BY <1>1, <1>2
<1>4. Card!SortedBy(list, keys) = [k \in 1 .. n |-> list[p[k]]]
  <2>1. Card!SortedBy(list, keys) = [k \in DOMAIN list |-> list[CHOOSE i \in DOMAIN list : Card!Place(keys, i) = k]]
    BY Zenon DEF Card!SortedBy
  <2>2. DOMAIN list = 1 .. n
    OBVIOUS
  <2>3. \A k \in DOMAIN list : list[CHOOSE i \in DOMAIN list : Card!Place(keys, i) = k] = list[p[k]]
    BY <1>3, <2>2
  <2> QED
    BY <2>1, <2>2, <2>3, Zenon
<1> QED
  BY <1>1, <1>4 DEF Sorted

-----------------------------------------------------------------------------
(* What the audit stands on *)

\* A stored copy is of what was published.
IsCopy(r) ==
    /\ r.topic \in Card!Topic /\ r.ts \in Nat /\ r.sentAt \in Int
    /\ r.seq \in DOMAIN auditSent[r.topic]

AuditInv ==
    /\ auditClock \in Nat
    /\ auditSent \in [Card!Topic -> Seq(Int)]
    /\ auditStored \in Seq({auditStored[i] : i \in DOMAIN auditStored})
    /\ \A i \in DOMAIN auditStored : IsCopy(auditStored[i]) /\ auditStored[i].ts <= auditClock
    /\ \A i, j \in DOMAIN auditStored : i < j => auditStored[i].ts <= auditStored[j].ts
    /\ auditRows \in Seq({auditRows[i] : i \in DOMAIN auditRows})
    /\ \A i \in DOMAIN auditRows : IsCopy(auditRows[i])
    /\ \A i, j \in DOMAIN auditRows : i < j => auditRows[j].ts <= auditRows[i].ts

\* The rows of a topic, and those that can be read.
Its(t) == {i \in DOMAIN auditRows : auditRows[i].topic = t}
Legible(t) == {i \in DOMAIN auditRows : auditRows[i].topic = t /\ Card!Usable(auditRows[i])}

\* A list of the rows of a set, by time.
Timeline(s, m, W) ==
    /\ m \in Nat /\ DOMAIN s = 1 .. m /\ s = [k \in 1 .. m |-> s[k]]
    /\ \E f : Pairs(f, m, W) /\ \A k \in 1 .. m : s[k] = auditRows[f[k]]
    /\ \A a, b \in 1 .. m : a < b => s[a].ts <= s[b].ts

LEMMA RowsAre ==
    ASSUME AuditInv
    PROVE  Len(auditRows) \in Nat /\ DOMAIN auditRows = 1 .. Len(auditRows)
<1>1. auditRows \in Seq({auditRows[i] : i \in DOMAIN auditRows})
  BY Zenon DEF AuditInv
<1> DEFINE S == {auditRows[i] : i \in DOMAIN auditRows}
<1> HIDE DEF S
<1>2. auditRows \in Seq(S)
  BY <1>1 DEF S
<1> QED
  BY <1>2

\* The readable rows of a topic, sorted, are its timeline.
LEMMA SamplesAre ==
    ASSUME AuditInv, NEW t
    PROVE  /\ Timeline(Card!Samples(Card!OfTopic(auditRows, t)), Cardinality(Legible(t)), Legible(t))
           /\ LET list == Card!OfTopic(auditRows, t)
              IN  /\ Card!Cardinality({i \in DOMAIN list : ~Card!Usable(list[i])}) + Cardinality(Legible(t)) = Cardinality(Its(t))
                  /\ Cardinality(Its(t)) \in Nat /\ DOMAIN list = 1 .. Cardinality(Its(t))
<1> DEFINE N == Len(auditRows)
           list == Card!OfTopic(auditRows, t)
           m == Cardinality(Its(t))
           A == {i \in 1 .. m : Card!Usable(list[i])}
           B == {i \in 1 .. m : ~Card!Usable(list[i])}
           us == Card!Read(list)
           u == Cardinality(A)
           keys == [i \in DOMAIN us |-> us[i].ts]
<1>1. N \in Nat /\ DOMAIN auditRows = 1 .. N
  BY RowsAre
<1>2. PICK f : Choice(f, m, Its(t), list, auditRows)
  <2>1. Its(t) \subseteq 1 .. N
    BY <1>1 DEF Its
  <2>2. list = Card!At(auditRows, Its(t))
    BY DEF Card!OfTopic, Its
  <2> QED
    BY <1>1, <2>1, <2>2, AtIs
<1>3. m \in Nat /\ Pairs(f, m, Its(t)) /\ list = [k \in 1 .. m |-> auditRows[f[k]]] /\ DOMAIN list = 1 .. m /\ Len(list) = m
  <2>1. m \in Nat /\ Pairs(f, m, Its(t)) /\ list = [k \in 1 .. m |-> auditRows[f[k]]]
    BY <1>2 DEF Choice, Pairs
  <2> HIDE DEF m, list
  <2> QED
    BY <2>1, ListIs
<1> HIDE DEF list, m
<1>4. PICK g : Choice(g, u, A, us, list)
  <2>1. us = Card!At(list, A)
    BY <1>3 DEF Card!Read
  <2> QED
    BY <1>3, <2>1, AtIs
<1>5. u \in Nat /\ Pairs(g, u, A) /\ us = [k \in 1 .. u |-> list[g[k]]] /\ DOMAIN us = 1 .. u
  <2>1. u \in Nat /\ Pairs(g, u, A) /\ us = [k \in 1 .. u |-> list[g[k]]]
    BY <1>4 DEF Choice, Pairs
  <2> HIDE DEF u, us
  <2> QED
    BY <2>1
<1>6. \A k \in 1 .. m : f[k] \in Its(t) /\ list[k] = auditRows[f[k]]
  BY <1>3 DEF Pairs
<1>7. \A k \in 1 .. u : g[k] \in A /\ g[k] \in 1 .. m /\ us[k] = list[g[k]]
  <2> HIDE DEF u, us
  <2>1. \A k \in 1 .. u : g[k] \in A
    BY <1>5 DEF Pairs
  <2> QED
    BY <1>5, <2>1
<1> HIDE DEF A, us, u, N
<1>8. \A k \in 1 .. m : list[k].ts \in Nat
  <2> TAKE k \in 1 .. m
  <2>1. f[k] \in DOMAIN auditRows /\ list[k] = auditRows[f[k]]
    BY <1>6 DEF Its
  <2> QED
    BY <2>1 DEF AuditInv, IsCopy
<1>9. keys \in [1 .. u -> Int]
  <2>1. \A k \in 1 .. u : us[k].ts \in Int
    BY <1>7, <1>8
  <2> QED
    BY <1>5, <2>1
<1>10. PICK p : Sorted(p, u, Card!Samples(list), us, keys)
  <2>1. Card!Samples(list) = Card!SortedBy(us, keys)
    BY DEF Card!Samples, us
  <2> HIDE DEF keys
  <2> QED
    BY <1>5, <1>9, <2>1, SortedIs
<1> DEFINE s == Card!Samples(list)
<1>11. Pairs(p, u, 1 .. u) /\ s = [k \in 1 .. u |-> us[p[k]]] /\ \A a, b \in 1 .. u : a < b => keys[p[a]] <= keys[p[b]]
  BY <1>10 DEF Sorted, Sorts
<1> HIDE DEF s
<1>12. \A k \in 1 .. u : p[k] \in 1 .. u /\ s[k] = us[p[k]] /\ keys[p[k]] = s[k].ts
  <2>1. \A k \in 1 .. u : p[k] \in 1 .. u
    BY <1>11 DEF Pairs
  <2> QED
    BY <1>5, <1>11, <2>1
<1> HIDE DEF keys
<1> DEFINE h == [k \in 1 .. u |-> f[g[p[k]]]]
<1>13. Pairs(h, u, Legible(t))
  <2>1. h \in [1 .. u -> Legible(t)]
    <3> SUFFICES ASSUME NEW k \in 1 .. u
                 PROVE  f[g[p[k]]] \in Legible(t)
      OBVIOUS
    <3>1. g[p[k]] \in 1 .. m /\ Card!Usable(list[g[p[k]]])
      BY <1>7, <1>12 DEF A
    <3> QED
      BY <1>6, <3>1 DEF Legible, Its
  <2>2. ASSUME NEW a \in 1 .. u, NEW b \in 1 .. u, h[a] = h[b]
        PROVE  a = b
    <3>1. p[a] \in 1 .. u /\ p[b] \in 1 .. u /\ g[p[a]] \in 1 .. m /\ g[p[b]] \in 1 .. m
      BY <1>7, <1>12
    <3>2. g[p[a]] = g[p[b]]
      BY <1>3, <2>2, <3>1 DEF Pairs
    <3>3. p[a] = p[b]
      BY <1>5, <3>1, <3>2 DEF Pairs
    <3> QED
      BY <1>11, <3>3 DEF Pairs
  <2>3. ASSUME NEW y \in Legible(t)
        PROVE  \E k \in 1 .. u : h[k] = y
    <3>1. y \in Its(t) /\ Card!Usable(auditRows[y])
      BY DEF Legible, Its
    <3>2. PICK i \in 1 .. m : f[i] = y
      BY <1>3, <3>1 DEF Pairs
    <3>3. i \in A
      BY <1>6, <3>1, <3>2 DEF A
    <3>4. PICK j \in 1 .. u : g[j] = i
      BY <1>5, <3>3 DEF Pairs
    <3>5. PICK k \in 1 .. u : p[k] = j
      BY <1>11 DEF Pairs
    <3> QED
      BY <3>2, <3>4, <3>5
  <2> HIDE DEF h
  <2> QED
    BY <1>5, <2>1, <2>2, <2>3 DEF Pairs
<1>14. u = Cardinality(Legible(t))
  BY <1>13, PairsCount
<1>15. Timeline(s, u, Legible(t))
  <2>1. \A k \in 1 .. u : s[k] = auditRows[h[k]]
    BY <1>6, <1>7, <1>12
  <2>2. \A a, b \in 1 .. u : a < b => s[a].ts <= s[b].ts
    BY <1>11, <1>12
  <2>3. DOMAIN s = 1 .. u /\ s = [k \in 1 .. u |-> s[k]]
    BY <1>11
  <2> HIDE DEF h
  <2> QED
    BY <1>5, <1>13, <2>1, <2>2, <2>3 DEF Timeline
<1>16. Cardinality(B) + u = m
  <2>1. IsFiniteSet(A) /\ IsFiniteSet(B)
    BY <1>3, BoundedIsFinite DEF A
  <2>2. A \cup B = 1 .. m /\ A \cap B = {}
    BY DEF A
  <2>3. Cardinality(1 .. m) = m
    <3>1. 1 \in Int /\ m \in Int /\ (1 > m => m = 0)
      BY <1>3
    <3> QED
      BY <3>1, FS_Interval
  <2>4. Cardinality(A \cup B) = Cardinality(A) + Cardinality(B) - Cardinality(A \cap B)
    BY <2>1, FS_Union
  <2>5. Cardinality({}) = 0
    BY FS_EmptySet
  <2>6. Cardinality(A) \in Nat /\ Cardinality(B) \in Nat
    BY <2>1, FS_CardinalityType
  <2>7. m = Cardinality(A) + Cardinality(B) - 0
    BY <2>2, <2>3, <2>4, <2>5
  <2> HIDE DEF B
  <2>8. Cardinality(B) + Cardinality(A) = m
    BY <1>3, <2>6, <2>7
  <2> QED
    BY <2>8 DEF u
<1>17. Card!Cardinality({i \in DOMAIN list : ~Card!Usable(list[i])}) = Cardinality(B)
  BY <1>3, CardCounts
<1> QED
  BY <1>3, <1>14, <1>15, <1>16, <1>17 DEF s, list, m

\* So are they in the order they came.
LEMMA CameIs ==
    ASSUME AuditInv, NEW t
    PROVE  Timeline(Card!Came(t), Cardinality(Legible(t)), Legible(t))
<1> DEFINE N == Len(auditRows)
           back == Card!Reverse(auditRows)
           W == {i \in 1 .. N : back[i].topic = t /\ Card!Usable(back[i])}
           c == Cardinality(W)
           s == Card!Came(t)
<1>1. N \in Nat /\ DOMAIN auditRows = 1 .. N
  BY RowsAre
<1>2. DOMAIN back = 1 .. N /\ \A i \in 1 .. N : back[i] = auditRows[(N - i) + 1] /\ (N - i) + 1 \in 1 .. N
  BY <1>1 DEF Card!Reverse
<1>3. PICK f : Choice(f, c, W, s, back)
  <2>1. s = Card!At(back, W)
    BY <1>2 DEF Card!Came
  <2>2. W \subseteq 1 .. N
    OBVIOUS
  <2> HIDE DEF W, s, back
  <2> QED
    BY <1>1, <2>1, <2>2, AtIs
<1> HIDE DEF W, s, back
<1>4. /\ c \in Nat /\ Pairs(f, c, W) /\ s = [k \in 1 .. c |-> back[f[k]]]
      /\ \A i, j \in 1 .. c : i < j => f[i] < f[j]
  BY <1>3 DEF Choice, Pairs
<1>5. \A k \in 1 .. c : f[k] \in W /\ f[k] \in 1 .. N
  <2>1. \A k \in 1 .. c : f[k] \in W
    BY <1>4 DEF Pairs
  <2> QED
    BY <2>1 DEF W
<1> HIDE DEF c
<1> DEFINE h == [k \in 1 .. c |-> (N - f[k]) + 1]
<1>6. \A k \in 1 .. c : h[k] \in 1 .. N /\ s[k] = auditRows[h[k]]
  BY <1>2, <1>4, <1>5
<1>7. Pairs(h, c, Legible(t))
  <2>1. \A k \in 1 .. c : h[k] \in Legible(t)
    <3> TAKE k \in 1 .. c
    <3>1. back[f[k]] = auditRows[h[k]] /\ back[f[k]].topic = t /\ Card!Usable(back[f[k]])
      BY <1>2, <1>5 DEF W
    <3> QED
      BY <1>1, <1>6, <3>1 DEF Legible
  <2>2. ASSUME NEW a \in 1 .. c, NEW b \in 1 .. c, h[a] = h[b]
        PROVE  a = b
    <3>1. f[a] = f[b]
      BY <1>1, <1>5, <2>2
    <3> QED
      BY <1>4, <3>1 DEF Pairs
  <2>3. ASSUME NEW y \in Legible(t)
        PROVE  \E k \in 1 .. c : h[k] = y
    <3>1. y \in 1 .. N /\ auditRows[y].topic = t /\ Card!Usable(auditRows[y])
      BY <1>1 DEF Legible
    <3>2. (N - y) + 1 \in 1 .. N /\ (N - ((N - y) + 1)) + 1 = y
      BY <1>1, <3>1
    <3>3. (N - y) + 1 \in W
      BY <1>2, <3>1, <3>2 DEF W
    <3>4. PICK k \in 1 .. c : f[k] = (N - y) + 1
      BY <1>4, <3>3 DEF Pairs
    <3> QED
      BY <3>2, <3>4
  <2>4. h \in [1 .. c -> Legible(t)]
    BY <2>1
  <2> HIDE DEF h
  <2> QED
    BY <1>4, <2>2, <2>3, <2>4 DEF Pairs
<1>8. c = Cardinality(Legible(t))
  BY <1>7, PairsCount
<1>9. \A a, b \in 1 .. c : a < b => s[a].ts <= s[b].ts
  <2> TAKE a, b \in 1 .. c
  <2> SUFFICES ASSUME a < b PROVE s[a].ts <= s[b].ts
    OBVIOUS
  <2>1. h[b] < h[a] /\ h[a] \in 1 .. N /\ h[b] \in 1 .. N
    <3>1. f[a] < f[b] /\ f[a] \in 1 .. N /\ f[b] \in 1 .. N
      BY <1>4, <1>5
    <3> QED
      BY <1>1, <1>6, <3>1
  <2>2. auditRows[h[a]].ts <= auditRows[h[b]].ts
    <3>1. \A i, j \in DOMAIN auditRows : i < j => auditRows[j].ts <= auditRows[i].ts
      BY Zenon DEF AuditInv
    <3> HIDE DEF h
    <3> QED
      BY <1>1, <2>1, <3>1
  <2> QED
    BY <1>6, <2>2
<1>10. Timeline(s, c, Legible(t))
  <2>1. DOMAIN s = 1 .. c /\ s = [k \in 1 .. c |-> s[k]]
    BY <1>4
  <2> HIDE DEF h
  <2> QED
    BY <1>4, <1>6, <1>7, <1>9, <2>1 DEF Timeline
<1> QED
  BY <1>8, <1>10 DEF s

\* The numbers on a timeline.
Numbers(W) == {auditRows[i].seq : i \in W}

LEMMA NumbersAre ==
    ASSUME NEW s, NEW m, NEW W, Timeline(s, m, W)
    PROVE  {s[k].seq : k \in DOMAIN s} = Numbers(W)
<1>1. PICK f : Pairs(f, m, W) /\ \A k \in 1 .. m : s[k] = auditRows[f[k]]
  BY DEF Timeline
<1>2. DOMAIN s = 1 .. m
  BY DEF Timeline
<1>3. \A k \in 1 .. m : f[k] \in W
  BY <1>1 DEF Pairs
<1>4. \A y \in W : \E k \in 1 .. m : f[k] = y
  BY <1>1 DEF Pairs
<1>5. \A k \in 1 .. m : s[k].seq \in Numbers(W)
  BY <1>1, <1>3 DEF Numbers
<1>6. \A y \in W : auditRows[y].seq \in {s[k].seq : k \in DOMAIN s}
  BY <1>1, <1>2, <1>4
<1> QED
  BY <1>2, <1>5, <1>6 DEF Numbers

\* The rows of one instant apart, those that were overtaken.
Overtaken(W) == {i \in W : \E j \in W : auditRows[j].ts < auditRows[i].ts /\ auditRows[j].seq > auditRows[i].seq}

LEMMA OvertakenAre ==
    ASSUME NEW s, NEW m, NEW W, Timeline(s, m, W), \A i \in W : auditRows[i].ts \in Int,
           \A i, j \in W : auditRows[i].ts = auditRows[j].ts => i = j
    PROVE  Cardinality({k \in DOMAIN s : \E l \in 1 .. k - 1 : s[l].seq > s[k].seq}) = Cardinality(Overtaken(W))
<1> DEFINE X == {k \in 1 .. m : \E l \in 1 .. k - 1 : s[l].seq > s[k].seq}
<1>1. PICK f : Pairs(f, m, W) /\ \A k \in 1 .. m : s[k] = auditRows[f[k]]
  BY DEF Timeline
<1>2. DOMAIN s = 1 .. m /\ m \in Nat
  BY DEF Timeline
<1>3. \A k \in 1 .. m : f[k] \in W
  BY <1>1 DEF Pairs
<1>4. \A y \in W : \E k \in 1 .. m : f[k] = y
  BY <1>1 DEF Pairs
<1>5. \A a, b \in 1 .. m : a < b => s[a].ts <= s[b].ts
  BY DEF Timeline
<1>6. \A a, b \in 1 .. m : a < b <=> s[a].ts < s[b].ts
  <2> TAKE a, b \in 1 .. m
  <2>1. s[a].ts \in Int /\ s[b].ts \in Int
    BY <1>1, <1>3
  <2>2. s[a].ts = s[b].ts => a = b
    <3>1. s[a].ts = s[b].ts => f[a] = f[b]
      BY <1>1, <1>3
    <3> QED
      BY <1>1, <3>1 DEF Pairs
  <2>3. a < b \/ a = b \/ b < a
    BY <1>2
  <2> QED
    BY <1>5, <2>1, <2>2, <2>3
<1> DEFINE h == [k \in X |-> f[k]]
<1>7. h \in [X -> Overtaken(W)]
  <2> SUFFICES ASSUME NEW k \in X
               PROVE  f[k] \in Overtaken(W)
    OBVIOUS
  <2>1. PICK l \in 1 .. k - 1 : s[l].seq > s[k].seq
    OBVIOUS
  <2>2. k \in 1 .. m /\ l \in 1 .. m /\ l < k
    BY <1>2
  <2>3. s[l].ts < s[k].ts
    BY <1>6, <2>2
  <2>4. f[k] \in W /\ f[l] \in W /\ s[k] = auditRows[f[k]] /\ s[l] = auditRows[f[l]]
    BY <1>1, <1>3, <2>2
  <2> QED
    BY <2>1, <2>3, <2>4 DEF Overtaken
<1>8. \A x, y \in X : h[x] = h[y] => x = y
  BY <1>1 DEF Pairs
<1>9. ASSUME NEW z \in Overtaken(W)
      PROVE  \E x \in X : h[x] = z
  <2>1. z \in W /\ \E j \in W : auditRows[j].ts < auditRows[z].ts /\ auditRows[j].seq > auditRows[z].seq
    BY DEF Overtaken
  <2>2. PICK j \in W : auditRows[j].ts < auditRows[z].ts /\ auditRows[j].seq > auditRows[z].seq
    BY <2>1
  <2>3. PICK k \in 1 .. m : f[k] = z
    BY <1>4, <2>1
  <2>4. PICK l \in 1 .. m : f[l] = j
    BY <1>4
  <2>5. s[l].ts < s[k].ts /\ s[l].seq > s[k].seq
    BY <1>1, <2>2, <2>3, <2>4
  <2>6. l < k
    BY <1>6, <2>5
  <2>7. l \in 1 .. k - 1
    BY <1>2, <2>6
  <2>8. k \in X
    BY <2>5, <2>7
  <2> QED
    BY <2>3, <2>8
<1>10. IsFiniteSet(X)
  <2>1. X \subseteq 1 .. m
    OBVIOUS
  <2> HIDE DEF X
  <2> QED
    BY <1>2, <2>1, BoundedIsFinite
<1> HIDE DEF X, h
<1>11. Cardinality(Overtaken(W)) = Cardinality(X)
  BY <1>7, <1>8, <1>9, <1>10, AsMany
<1>12. {k \in DOMAIN s : \E l \in 1 .. k - 1 : s[l].seq > s[k].seq} = X
  BY <1>2 DEF X
<1> QED
  BY <1>11, <1>12

\* The rows that say when they were sent.
DatedIn(W) == {i \in W : Card!Dated(auditRows[i])}

LEMMA DatedAre ==
    ASSUME NEW s, NEW m, NEW W, Timeline(s, m, W)
    PROVE  Cardinality({k \in DOMAIN s : Card!Dated(s[k])}) = Cardinality(DatedIn(W))
<1> DEFINE X == {k \in 1 .. m : Card!Dated(s[k])}
<1>1. PICK f : Pairs(f, m, W) /\ \A k \in 1 .. m : s[k] = auditRows[f[k]]
  BY DEF Timeline
<1>2. DOMAIN s = 1 .. m /\ m \in Nat
  BY DEF Timeline
<1> DEFINE h == [k \in X |-> f[k]]
<1>3. h \in [X -> DatedIn(W)]
  BY <1>1 DEF Pairs, DatedIn
<1>4. \A x, y \in X : h[x] = h[y] => x = y
  BY <1>1 DEF Pairs
<1>5. \A z \in DatedIn(W) : \E x \in X : h[x] = z
  BY <1>1 DEF Pairs, DatedIn
<1>6. IsFiniteSet(X)
  <2>1. X \subseteq 1 .. m
    OBVIOUS
  <2> HIDE DEF X
  <2> QED
    BY <1>2, <2>1, BoundedIsFinite
<1>7. {k \in DOMAIN s : Card!Dated(s[k])} = X
  BY <1>2
<1> HIDE DEF X, h
<1> QED
  BY <1>3, <1>4, <1>5, <1>6, <1>7, AsMany

LEMMA Extremes ==
    ASSUME NEW n \in Nat, NEW S, S \subseteq 0 .. n, S # {}
    PROVE  /\ Card!Min(S) \in S /\ \A y \in S : Card!Min(S) <= y
           /\ Card!Max(S) \in S /\ \A y \in S : Card!Max(S) >= y
<1>1. S \subseteq Nat
  OBVIOUS
<1>2. \E x \in S : \A y \in S : x <= y
  BY <1>1, LeastNat
<1>3. \E x \in S : \A y \in S : x >= y
  BY GreatestNat
<1>4. Card!Min(S) = CHOOSE x \in S : \A y \in S : x <= y
  BY DEF Card!Min
<1>5. Card!Max(S) = CHOOSE x \in S : \A y \in S : x >= y
  BY DEF Card!Max
<1> QED
  BY <1>2, <1>3, <1>4, <1>5

\* What a stretch of numbers holds and what it misses make its length.
LEMMA Gaps ==
    ASSUME NEW n \in Nat, NEW H, H \subseteq 1 .. n, H # {}, NEW G, G = Card!Min(H) .. Card!Max(H) \ H
    PROVE  G \subseteq 1 .. n /\ Cardinality(H) + Cardinality(G) = Card!Max(H) - Card!Min(H) + 1
<1> DEFINE a == Card!Min(H)
           b == Card!Max(H)
<1>1. a \in H /\ b \in H /\ \A y \in H : a <= y /\ b >= y
  <2>1. H \subseteq 0 .. n
    OBVIOUS
  <2> QED
    BY <2>1, Extremes
<1> HIDE DEF a, b
<1>2. a \in 1 .. n /\ b \in 1 .. n /\ a <= b /\ H \subseteq a .. b
  BY <1>1
<1>3. G = a .. b \ H
  BY DEF a, b
<1>4. G \subseteq 1 .. n
  BY <1>2, <1>3
<1>5. IsFiniteSet(H) /\ IsFiniteSet(G) /\ Cardinality(H) \in Nat /\ Cardinality(G) \in Nat
  BY <1>4, BoundedIsFinite, FS_CardinalityType
<1>6. H \cup G = a .. b /\ H \cap G = {}
  BY <1>2, <1>3
<1>7. Cardinality(a .. b) = b - a + 1
  <2>1. a \in Int /\ b \in Int /\ ~ (a > b)
    BY <1>2
  <2> QED
    BY <2>1, FS_Interval
<1>8. Cardinality(H \cup G) = Cardinality(H) + Cardinality(G) - Cardinality(H \cap G)
  BY <1>5, FS_Union
<1>9. Cardinality({}) = 0
  BY FS_EmptySet
<1>10. b - a + 1 = Cardinality(H) + Cardinality(G) - 0
  BY <1>6, <1>7, <1>8, <1>9
<1>11. Cardinality(H) + Cardinality(G) = b - a + 1
  BY <1>5, <1>10
<1> QED
  BY <1>4, <1>11 DEF a, b

\* What is listed of a set is of it.
LEMMA ListedIs ==
    ASSUME NEW n \in Nat, NEW G, G \subseteq 1 .. n, NEW c \in Nat
    PROVE  LET s == SubSeq(Card!Ascending(G), 1, Card!Min({c, Card!Cardinality(G)}))
           IN  \A i \in DOMAIN s : s[i] \in G
<1> DEFINE f == Card!Ascending(G)
           g == Cardinality(G)
           l == Card!Min({c, Card!Cardinality(G)})
           s == SubSeq(f, 1, l)
<1>1. IsFiniteSet(G) /\ g \in Nat
  BY BoundedIsFinite, FS_CardinalityType
<1>2. PICK q : Enumerates(q, G)
  BY CanAscend
<1>3. \E h \in [1 .. Card!Cardinality(G) -> G] : \A i, j \in DOMAIN h : i < j => h[i] < h[j]
  BY <1>2, CardCounts DEF Enumerates
<1>4. f \in [1 .. g -> G]
  BY <1>3, CardCounts DEF Card!Ascending
<1>5. l = Card!Min({c, g})
  BY CardCounts
<1> HIDE DEF f, g, l
<1>6. l \in Nat /\ l <= g
  <2> DEFINE M == {c, g}
             top == c + g
  <2>1. M \subseteq 0 .. top /\ M # {} /\ top \in Nat /\ g \in M /\ M \subseteq Nat
    BY <1>1
  <2>2. l = Card!Min(M)
    BY <1>5
  <2> HIDE DEF M, top
  <2>3. l \in M /\ l <= g
    BY <2>1, <2>2, Extremes
  <2> QED
    BY <2>1, <2>3
<1>7. f \in Seq(G) /\ Len(f) = g
  BY <1>1, <1>4
<1>8. s = [i \in 1 .. l |-> f[i]]
  <2>1. s = [i \in 1 .. (1 + l - 1) |-> f[i + 1 - 1]]
    BY <1>6, <1>7
  <2>2. 1 + l - 1 = l
    BY <1>6
  <2>3. \A i \in 1 .. l : i + 1 - 1 = i
    BY <1>6
  <2> QED
    BY <2>1, <2>2, <2>3
<1>9. \A i \in DOMAIN s : s[i] \in G
  <2> SUFFICES ASSUME NEW i \in 1 .. l PROVE f[i] \in G
    BY <1>8
  <2>1. i \in 1 .. g
    BY <1>1, <1>6
  <2> QED
    BY <1>4, <2>1
<1> QED
  BY <1>9 DEF s, f, l

\* The places of a number on a list; and what tells how often each is held.
PlacesOf(s, n) == {k \in DOMAIN s : s[k].seq = n}
Repeats(D, s, H) ==
    /\ \A d \in D : d.seq \in H /\ d.count = Cardinality(PlacesOf(s, d.seq)) /\ d.count > 1
    /\ \A n \in H : Cardinality(PlacesOf(s, n)) > 1 => \E d \in D : d.seq = n

\* There are as many first copies as numbers.
LEMMA OnceEach ==
    ASSUME NEW H, IsFiniteSet(H)
    PROVE  Cardinality({<<n, 1>> : n \in H}) = Cardinality(H)
<1> DEFINE F == {<<n, 1>> : n \in H}
           r == [n \in H |-> <<n, 1>>]
<1>1. r \in [H -> F]
  OBVIOUS
<1>2. \A x, y \in H : r[x] = r[y] => x = y
  OBVIOUS
<1>3. \A z \in F : \E x \in H : r[x] = z
  OBVIOUS
<1> HIDE DEF r, F
<1>4. Cardinality(F) = Cardinality(H)
  BY <1>1, <1>2, <1>3, AsMany
<1> QED
  BY <1>4 DEF F

\* Each number once, and the copies after the first, are the list.
LEMMA ExtraIs ==
    ASSUME NEW m \in Nat, NEW s, DOMAIN s = 1 .. m, NEW H, IsFiniteSet(H), H = {s[k].seq : k \in DOMAIN s},
           NEW D, Repeats(D, s, H)
    PROVE  Cardinality(H) + Cardinality(Card!Extra(D)) = m
<1> DEFINE c(n) == Cardinality(PlacesOf(s, n))
           Q == UNION {{n} \X (1 .. c(n)) : n \in H}
           order == [n \in H |-> CHOOSE e : Enumerates(e, PlacesOf(s, n))]
<1>1. ASSUME NEW n \in H
      PROVE  /\ Pairs(order[n], c(n), PlacesOf(s, n)) /\ c(n) \in Nat /\ c(n) # 0
  <2>1. PlacesOf(s, n) \subseteq 1 .. m
    BY DEF PlacesOf
  <2>2. \E e : Enumerates(e, PlacesOf(s, n))
    BY <2>1, CanAscend
  <2>3. Enumerates(order[n], PlacesOf(s, n))
    BY <2>2
  <2>4. Pairs(order[n], c(n), PlacesOf(s, n))
    <3> HIDE DEF order
    <3> QED
      BY <2>1, <2>3, AscendingPairs
  <2>5. c(n) \in Nat
    BY <2>4 DEF Pairs
  <2>6. PlacesOf(s, n) # {}
    BY DEF PlacesOf
  <2>7. IsFiniteSet(PlacesOf(s, n))
    BY <2>1, BoundedIsFinite
  <2>8. c(n) # 0
    BY <2>6, <2>7, FS_EmptySet
  <2> QED
    BY <2>4, <2>5, <2>8
<1> HIDE DEF order, c
<1>2. \A q : q \in Q <=> \E n \in H : \E i \in 1 .. c(n) : q = <<n, i>>
  OBVIOUS
<1>3. \A n \in H : \A i \in 1 .. c(n) : order[n][i] \in 1 .. m /\ s[order[n][i]].seq = n
  <2> TAKE n \in H
  <2> TAKE i \in 1 .. c(n)
  <2>1. order[n][i] \in PlacesOf(s, n)
    BY <1>1 DEF Pairs
  <2> QED
    BY <2>1 DEF PlacesOf
<1> HIDE DEF Q
<1> DEFINE h == [q \in Q |-> order[q[1]][q[2]]]
<1>4. h \in [Q -> 1 .. m]
  BY <1>2, <1>3
<1>5. ASSUME NEW x \in Q, NEW y \in Q, h[x] = h[y]
      PROVE  x = y
  <2>1. PICK n \in H : \E i \in 1 .. c(n) : x = <<n, i>>
    BY <1>2
  <2>2. PICK o \in H : \E j \in 1 .. c(o) : y = <<o, j>>
    BY <1>2
  <2>6. PICK i \in 1 .. c(n) : x = <<n, i>>
    BY <2>1
  <2>7. PICK j \in 1 .. c(o) : y = <<o, j>>
    BY <2>2
  <2>3. order[n][i] = order[o][j]
    BY <1>5, <2>6, <2>7
  <2>4. n = o
    BY <1>3, <2>3
  <2>5. i = j
    BY <1>1, <2>3, <2>4 DEF Pairs
  <2> QED
    BY <2>6, <2>7, <2>4, <2>5
<1>6. ASSUME NEW k \in 1 .. m
      PROVE  \E x \in Q : h[x] = k
  <2>1. s[k].seq \in H /\ k \in PlacesOf(s, s[k].seq)
    BY DEF PlacesOf
  <2>2. PICK i \in 1 .. c(s[k].seq) : order[s[k].seq][i] = k
    BY <1>1, <2>1 DEF Pairs
  <2>3. <<s[k].seq, i>> \in Q
    BY <1>2, <2>1
  <2> QED
    BY <2>2, <2>3
<1> HIDE DEF h
<1>7. IsFiniteSet(Q) /\ Cardinality(Q) = m
  <2>1. h \in Bijection(Q, 1 .. m)
    BY <1>4, <1>5, <1>6 DEF Bijection, Injection, Surjection, IsInjective
  <2>2. ExistsBijection(Q, 1 .. m)
    BY <2>1 DEF ExistsBijection
  <2>3. ExistsBijection(1 .. m, Q)
    BY <2>2, Fun_ExistsBijSymmetric
  <2> QED
    BY <2>3, FS_CountingElements, FS_NatBijection
<1> DEFINE F == {q \in Q : q[2] = 1}
           E == {q \in Q : q[2] # 1}
<1>8. Card!Extra(D) = E
  <2>1. ASSUME NEW q \in Card!Extra(D)
        PROVE  q \in E
    <3>1. PICK d \in D : q \in {d.seq} \X (2 .. d.count)
      BY DEF Card!Extra
    <3>2. d.seq \in H /\ d.count = c(d.seq)
      BY Zenon DEF Repeats, c
    <3>3. c(d.seq) \in Nat
      BY <1>1, <3>2
    <3>4. PICK i \in 2 .. c(d.seq) : q = <<d.seq, i>>
      BY <3>1, <3>2
    <3>5. i \in 1 .. c(d.seq) /\ i # 1
      BY <3>3, <3>4
    <3> QED
      BY <1>2, <3>2, <3>4, <3>5
  <2>2. ASSUME NEW q \in E
        PROVE  q \in Card!Extra(D)
    <3>1. PICK n \in H : \E i \in 1 .. c(n) : q = <<n, i>> /\ i # 1
      BY <1>2
    <3>6. PICK i \in 1 .. c(n) : q = <<n, i>> /\ i # 1
      BY <3>1
    <3>2. c(n) \in Nat /\ c(n) > 1 /\ i \in 2 .. c(n)
      <4>1. c(n) \in Nat
        BY <1>1
      <4> QED
        BY <3>6, <4>1
    <3>3. PICK d \in D : d.seq = n
      <4>1. \A o \in H : c(o) > 1 => \E d \in D : d.seq = o
        BY Zenon DEF Repeats, c
      <4> QED
        BY <3>2, <4>1
    <3>4. d.count = c(n)
      BY <3>3 DEF Repeats, c
    <3>5. q \in {d.seq} \X (2 .. d.count)
      BY <3>6, <3>2, <3>3, <3>4
    <3> QED
      BY <3>5 DEF Card!Extra
  <2> QED
    BY <2>1, <2>2
<1>9. Cardinality(F) = Cardinality(H)
  <2>1. ASSUME NEW z \in F
        PROVE  z \in {<<n, 1>> : n \in H}
    <3>1. z \in Q /\ z[2] = 1
      OBVIOUS
    <3>2. PICK n \in H : \E i \in 1 .. c(n) : z = <<n, i>>
      BY <1>2, <3>1
    <3>3. z = <<n, 1>>
      BY <3>1, <3>2
    <3> QED
      BY <3>3
  <2>2. ASSUME NEW n \in H
        PROVE  <<n, 1>> \in F
    <3>1. 1 \in 1 .. c(n)
      BY <1>1
    <3> QED
      BY <1>2, <3>1
  <2>3. F = {<<n, 1>> : n \in H}
    BY <2>1, <2>2
  <2> HIDE DEF F
  <2> QED
    BY <2>3, OnceEach
<1>10. F \cup E = Q /\ F \cap E = {} /\ F \in SUBSET Q /\ E \in SUBSET Q
  OBVIOUS
<1> HIDE DEF E, F
<1>11. IsFiniteSet(F) /\ IsFiniteSet(E) /\ Cardinality(F) \in Nat /\ Cardinality(E) \in Nat
  BY <1>7, <1>10, FS_Subset, FS_CardinalityType
<1>12. Cardinality(F \cup E) = Cardinality(F) + Cardinality(E) - Cardinality(F \cap E)
  BY <1>11, FS_Union
<1>13. Cardinality({}) = 0
  BY FS_EmptySet
<1>14. m = Cardinality(F) + Cardinality(E) - 0
  BY <1>7, <1>10, <1>12, <1>13
<1>15. m = Cardinality(F) + Cardinality(E)
  BY <1>11, <1>14
<1> QED
  BY <1>8, <1>9, <1>15

\* Every time there is is measured or a disagreement.
LEMMA LatencyIs ==
    ASSUME NEW n \in Nat, NEW s, DOMAIN s = 1 .. n, \A k \in 1 .. n : s[k].ts \in Int /\ s[k].sentAt \in Int,
           NEW timed, timed
    PROVE  Card!Latency(s, timed).samples + Card!Latency(s, timed).clockSkew
              = Cardinality({k \in 1 .. n : Card!Dated(s[k])})
<1> DEFINE M == {k \in DOMAIN s : Card!Dated(s[k])}
           m == Cardinality(M)
           dated == Card!At(s, M)
           took == [i \in DOMAIN dated |-> dated[i].ts - dated[i].sentAt]
           skewed == {i \in DOMAIN took : took[i] < 0}
           rest == DOMAIN took \ skewed
           measured == Card!At(took, rest)
           sorted == Card!SortedBy(measured, measured)
           c == Cardinality(rest)
<1>a. PICK e : Choice(e, m, M, dated, s)
  <2>1. M \subseteq 1 .. n
    OBVIOUS
  <2> HIDE DEF M
  <2> QED
    BY <2>1, AtIs
<1>2. Card!Latency(s, timed).samples = Len(sorted) /\ Card!Latency(s, timed).clockSkew = Card!Cardinality(skewed)
  BY DEF Card!Latency
<1>b. m \in Nat
  BY <1>a DEF Choice, Pairs
<1>c. DOMAIN dated = 1 .. m /\ \A k \in 1 .. m : dated[k].ts \in Int /\ dated[k].sentAt \in Int
  <2>1. \A k \in 1 .. m : e[k] \in 1 .. n
    <3> HIDE DEF m
    <3> QED
      BY <1>a DEF Choice, Pairs
  <2>2. dated = [k \in 1 .. m |-> s[e[k]]]
    BY <1>a, Zenon DEF Choice
  <2> HIDE DEF m, dated
  <2> QED
    BY <2>1, <2>2
<1>d. m = Cardinality({k \in 1 .. n : Card!Dated(s[k])})
  OBVIOUS
<1> HIDE DEF M, m, dated
<1>1. took \in [1 .. m -> Int] /\ skewed \subseteq 1 .. m /\ rest \subseteq 1 .. m
  BY <1>c
<1>3. skewed \cup rest = 1 .. m /\ skewed \cap rest = {}
  BY <1>c
<1> HIDE DEF took, skewed
<1>4. IsFiniteSet(skewed) /\ IsFiniteSet(rest) /\ Cardinality(skewed) \in Nat /\ c \in Nat
  <2>1. IsFiniteSet(skewed)
    BY <1>1, <1>b, BoundedIsFinite
  <2> HIDE DEF rest
  <2>2. IsFiniteSet(rest)
    BY <1>1, <1>b, BoundedIsFinite
  <2> QED
    BY <2>1, <2>2, FS_CardinalityType
<1> HIDE DEF rest
<1>5. PICK f : Choice(f, c, rest, measured, took)
  BY <1>1, <1>b, AtIs
<1> HIDE DEF measured
<1>6. Pairs(f, c, rest) /\ measured = [k \in 1 .. c |-> took[f[k]]]
  BY <1>5 DEF Choice
<1>7. measured \in [1 .. c -> Int]
  <2>1. \A k \in 1 .. c : f[k] \in rest
    BY <1>6 DEF Pairs
  <2>2. \A k \in 1 .. c : took[f[k]] \in Int
    BY <1>1, <2>1
  <2> QED
    BY <1>6, <2>2
<1>8. PICK p : Sorted(p, c, sorted, measured, measured)
  <2>1. DOMAIN measured = 1 .. c
    BY <1>7
  <2> HIDE DEF c
  <2> QED
    BY <1>4, <1>7, <2>1, SortedIs
<1>9. sorted = [k \in 1 .. c |-> measured[p[k]]]
  BY <1>8 DEF Sorted
<1>10. Len(sorted) = c
  <2>1. sorted = [k \in 1 .. c |-> sorted[k]]
    BY <1>9
  <2> HIDE DEF sorted, c
  <2> QED
    BY <1>4, <2>1, ListIs
<1>11. Cardinality(skewed \cup rest) = Cardinality(skewed) + c - Cardinality(skewed \cap rest)
  BY <1>4, FS_Union
<1>12. Cardinality({}) = 0
  BY FS_EmptySet
<1>13. Cardinality(1 .. m) = m
  <2>1. 1 \in Int /\ m \in Int /\ (1 > m => m = 0)
    BY <1>b
  <2> QED
    BY <2>1, FS_Interval
<1> HIDE DEF c, sorted
<1>14. m = Cardinality(skewed) + c - 0
  BY <1>3, <1>11, <1>12, <1>13
<1>15. c + Cardinality(skewed) = m
  BY <1>4, <1>14
<1> QED
  BY <1>2, <1>10, <1>15, <1>d, CardCounts DEF sorted

\* The fields of a card.
Fields(a, t, list, timed) ==
    LET s == Card!Samples(list)
        uniq == {s[i].seq : i \in DOMAIN s}
        gone == IF uniq = {} THEN {} ELSE Card!Min(uniq) .. Card!Max(uniq) \ uniq
    IN  /\ a.topic = t /\ a.usable = Len(s)
        /\ a.unusable = Card!Cardinality({i \in DOMAIN list : ~Card!Usable(list[i])})
        /\ a.missing = SubSeq(Card!Ascending(gone), 1, Card!Min({ListCap, Card!Cardinality(gone)}))
        /\ a.missingCount = Card!Cardinality(gone)
        /\ a.expected = IF uniq = {} THEN Card!None ELSE <<Card!Max(uniq) - Card!Min(uniq) + 1>>
        /\ a.outOfOrder = Card!OutOfOrder(s)
        /\ a.latency = Card!Latency(s, timed)

LEMMA FieldsAre ==
    ASSUME NEW t, NEW list, NEW timed
    PROVE  Fields(Card!auditOne(t, list, timed), t, list, timed)
BY Zenon DEF Fields, Card!auditOne

LEMMA RepeatsAre ==
    ASSUME NEW t, NEW list, NEW timed
    PROVE  LET s == Card!Samples(list)
           IN  Repeats(Card!auditOne(t, list, timed).duplicates, s, {s[i].seq : i \in DOMAIN s})
<1> DEFINE s == Card!Samples(list)
           uniq == {s[i].seq : i \in DOMAIN s}
           times(n) == {s[i].ts : i \in PlacesOf(s, n)}
           entry(n) == [seq |-> n, count |-> Card!Cardinality(PlacesOf(s, n)), firstTs |-> Card!Min(times(n)), lastTs |-> Card!Max(times(n))]
           D == {entry(n) : n \in {k \in uniq : Card!Cardinality(PlacesOf(s, k)) > 1}}
<1>1. Card!auditOne(t, list, timed).duplicates = D
  BY Zenon DEF Card!auditOne, PlacesOf
<1>2. \A n : entry(n).seq = n /\ entry(n).count = Card!Cardinality(PlacesOf(s, n))
  OBVIOUS
<1> HIDE DEF entry, s, uniq
<1>3. ASSUME NEW d \in D
      PROVE  d.seq \in uniq /\ d.count = Cardinality(PlacesOf(s, d.seq)) /\ d.count > 1
  <2>1. PICK n \in uniq : d = entry(n) /\ Card!Cardinality(PlacesOf(s, n)) > 1
    OBVIOUS
  <2> QED
    BY <1>2, <2>1, CardCounts
<1>4. ASSUME NEW n \in uniq, Cardinality(PlacesOf(s, n)) > 1
      PROVE  \E d \in D : d.seq = n
  <2>1. entry(n) \in D
    BY <1>4, CardCounts
  <2> QED
    BY <1>2, <2>1
<1> HIDE DEF D
<1>5. Repeats(D, s, uniq)
  BY <1>3, <1>4 DEF Repeats
<1> QED
  BY <1>1, <1>5 DEF s, uniq

\* The numbers of the readable rows of a topic are of what its publisher sent.
LEMMA NumbersSent ==
    ASSUME AuditInv, NEW t \in Card!Topic
    PROVE  /\ Len(auditSent[t]) \in Nat /\ DOMAIN auditSent[t] = 1 .. Len(auditSent[t])
           /\ Numbers(Legible(t)) \subseteq DOMAIN auditSent[t]
<1>1. auditSent \in [Card!Topic -> Seq(Int)]
  BY Zenon DEF AuditInv
<1>2. auditSent[t] \in Seq(Int)
  BY <1>1
<1>3. \A i \in DOMAIN auditRows : IsCopy(auditRows[i])
  BY Zenon DEF AuditInv
<1>4. \A i \in Legible(t) : auditRows[i].seq \in DOMAIN auditSent[t]
  BY <1>3 DEF Legible, IsCopy
<1> QED
  BY <1>2, <1>4 DEF Numbers

LEMMA OneTells ==
    ASSUME AuditInv, ListCap \in Nat, NEW t \in Card!Topic, NEW a,
           a = Card!auditOne(t, Card!OfTopic(auditRows, t), auditRun[1].timed), a.usable > 0
    PROVE  Card!Tells(a, Card!Came(a.topic))
<1> DEFINE list == Card!OfTopic(auditRows, t)
           s == Card!Samples(list)
           came == Card!Came(t)
           W == Legible(t)
           m == Cardinality(W)
           H == Numbers(W)
           N == Len(auditSent[t])
           gone == Card!Min(H) .. Card!Max(H) \ H
<1>1. Timeline(s, m, W) /\ Card!Cardinality({i \in DOMAIN list : ~Card!Usable(list[i])}) + m = Cardinality(Its(t))
  BY SamplesAre
<1>2. Timeline(came, m, W)
  BY CameIs
<1>3. m \in Nat /\ DOMAIN s = 1 .. m /\ s = [k \in 1 .. m |-> s[k]] /\ DOMAIN came = 1 .. m
  BY <1>1, <1>2 DEF Timeline
<1>4. {s[i].seq : i \in DOMAIN s} = H /\ {came[i].seq : i \in DOMAIN came} = H
  BY <1>1, <1>2, NumbersAre
<1>5. N \in Nat /\ DOMAIN auditSent[t] = 1 .. N /\ H \subseteq 1 .. N
  BY NumbersSent
<1>6. Fields(a, t, list, auditRun[1].timed)
  BY FieldsAre
<1>7. a.topic = t /\ a.usable = Len(s) /\ a.unusable = Card!Cardinality({i \in DOMAIN list : ~Card!Usable(list[i])})
  BY <1>6, Zenon DEF Fields
<1>8. Len(s) = m
  <2> HIDE DEF s, m
  <2> QED
    BY <1>3, ListIs
<1>9. H # {}
  <2>1. 1 \in DOMAIN s
    BY <1>3, <1>7, <1>8
  <2> HIDE DEF s, H
  <2> QED
    BY <1>4, <2>1
<1>10. /\ a.missing = SubSeq(Card!Ascending(gone), 1, Card!Min({ListCap, Card!Cardinality(gone)}))
       /\ a.missingCount = Card!Cardinality(gone) /\ a.expected = <<Card!Max(H) - Card!Min(H) + 1>>
       /\ a.outOfOrder = Card!OutOfOrder(s) /\ a.latency = Card!Latency(s, auditRun[1].timed)
  <2> HIDE DEF s, H
  <2> QED
    BY <1>4, <1>6, <1>9, Zenon DEF Fields, s
<1>11. Repeats(a.duplicates, s, H)
  <2>1. Repeats(a.duplicates, s, {s[i].seq : i \in DOMAIN s})
    BY RepeatsAre
  <2> QED
    BY <1>4, <2>1, Zenon
<1>12. \A i \in W : auditRows[i].ts \in Nat /\ auditRows[i].sentAt \in Int
  <2>1. \A i \in DOMAIN auditRows : IsCopy(auditRows[i])
    BY Zenon DEF AuditInv
  <2> QED
    BY <2>1 DEF IsCopy, Legible
<1>13. \A k \in 1 .. m : s[k].ts \in Int /\ s[k].sentAt \in Int
  <2>1. PICK f : Pairs(f, m, W) /\ \A k \in 1 .. m : s[k] = auditRows[f[k]]
    BY <1>1 DEF Timeline
  <2>2. \A k \in 1 .. m : f[k] \in W
    BY <2>1 DEF Pairs
  <2> QED
    BY <1>12, <2>1, <2>2
<1> HIDE DEF s, came, W, m, H, N
<1>14. gone \subseteq 1 .. N /\ Cardinality(H) + Cardinality(gone) = Card!Max(H) - Card!Min(H) + 1
  BY <1>5, <1>9, Gaps
<1>15. \A i \in DOMAIN a.missing : a.missing[i] \in gone
  <2> HIDE DEF gone
  <2> QED
    BY <1>5, <1>10, <1>14, ListedIs
<1>16. \A i \in DOMAIN a.missing : a.missing[i] \in DOMAIN auditSent[t] /\ a.missing[i] \notin H
  BY <1>5, <1>14, <1>15
<1> HIDE DEF gone
<1>17. Cardinality(H) + a.missingCount = a.expected[1]
  BY <1>10, <1>14, CardCounts
<1>18. a.usable = Cardinality(H) + Cardinality(Card!Extra(a.duplicates))
  <2>1. IsFiniteSet(H)
    BY <1>5, BoundedIsFinite
  <2>2. Cardinality(H) + Cardinality(Card!Extra(a.duplicates)) = m
    BY <1>3, <1>4, <1>11, <2>1, ExtraIs
  <2> QED
    BY <1>7, <1>8, <2>2
<1>19. a.usable + a.unusable = Cardinality(Its(t))
  <2> DEFINE B == {i \in DOMAIN list : ~Card!Usable(list[i])}
  <2>1. IsFiniteSet(B)
    <3>1. Cardinality(Its(t)) \in Nat /\ DOMAIN list = 1 .. Cardinality(Its(t))
      BY SamplesAre
    <3>2. B \subseteq 1 .. Cardinality(Its(t))
      BY <3>1
    <3> HIDE DEF B
    <3> QED
      BY <3>1, <3>2, BoundedIsFinite
  <2>2. Cardinality(B) \in Nat
    BY <2>1, FS_CardinalityType
  <2>3. a.unusable = Cardinality(B) /\ Cardinality(B) + m = Cardinality(Its(t))
    BY <1>1, <1>7, CardCounts
  <2> HIDE DEF B
  <2> QED
    BY <1>3, <1>7, <1>8, <2>2, <2>3
<1>20. ASSUME auditRun[1].timed
       PROVE  a.latency.samples + a.latency.clockSkew = Cardinality({i \in DOMAIN came : Card!Dated(came[i])})
  <2>1. Card!Latency(s, auditRun[1].timed).samples + Card!Latency(s, auditRun[1].timed).clockSkew
          = Cardinality({k \in 1 .. m : Card!Dated(s[k])})
    BY <1>3, <1>13, <1>20, LatencyIs
  <2>2. Cardinality({k \in DOMAIN s : Card!Dated(s[k])}) = Cardinality(DatedIn(W))
    BY <1>1, DatedAre
  <2>3. Cardinality({k \in DOMAIN came : Card!Dated(came[k])}) = Cardinality(DatedIn(W))
    BY <1>2, DatedAre
  <2> QED
    BY <1>3, <1>10, <2>1, <2>2, <2>3
<1>21. ASSUME Card!Apart(came)
       PROVE  a.outOfOrder = Card!Late(came)
  <2>1. \A i, j \in W : auditRows[i].ts = auditRows[j].ts => i = j
    <3>1. PICK f : Pairs(f, m, W) /\ \A k \in 1 .. m : came[k] = auditRows[f[k]]
      BY <1>2 DEF Timeline
    <3>2. \A k, l \in 1 .. m : came[k].ts = came[l].ts => k = l
      BY <1>3, <1>21 DEF Card!Apart
    <3>3. \A y \in W : \E k \in 1 .. m : f[k] = y
      BY <3>1 DEF Pairs
    <3> TAKE i, j \in W
    <3>4. PICK k \in 1 .. m : f[k] = i
      BY <3>3
    <3>5. PICK l \in 1 .. m : f[l] = j
      BY <3>3
    <3> QED
      BY <3>1, <3>2, <3>4, <3>5
  <2>2. \A i \in W : auditRows[i].ts \in Int
    BY <1>12
  <2>3. Card!OutOfOrder(s) = Cardinality(Overtaken(W))
    BY <1>1, <2>1, <2>2, OvertakenAre, CardCounts DEF Card!OutOfOrder
  <2>4. Card!Late(came) = Cardinality(Overtaken(W))
    BY <1>2, <2>1, <2>2, OvertakenAre, CardCounts DEF Card!Late
  <2> QED
    BY <1>10, <2>3, <2>4
<1> DEFINE come == Card!Came(a.topic)
           had == {come[i].seq : i \in DOMAIN come}
<1>22. come = came
  BY <1>7 DEF came
<1> HIDE DEF come
<1>23. had = H
  BY <1>4, <1>22
<1> HIDE DEF had
<1>24. \A i \in DOMAIN a.missing : a.missing[i] \in DOMAIN auditSent[a.topic] /\ a.missing[i] \notin had
  BY <1>7, <1>16, <1>23
<1>25. Card!Cardinality(had) + a.missingCount = a.expected[1]
  BY <1>17, <1>23, CardCounts
<1>26. a.usable = Card!Cardinality(had) + Card!Cardinality(Card!Extra(a.duplicates))
  BY <1>18, <1>23, CardCounts
<1>27. a.usable + a.unusable = Card!Cardinality({i \in DOMAIN auditRows : auditRows[i].topic = a.topic})
  BY <1>7, <1>19, CardCounts DEF Its
<1>28. Card!Apart(come) => a.outOfOrder = Card!Late(come)
  BY <1>21, <1>22
<1>29. auditRun[1].timed =>
          a.latency.samples + a.latency.clockSkew = Card!Cardinality({i \in DOMAIN come : Card!Dated(come[i])})
  BY <1>20, <1>22, CardCounts
<1> QED
  BY <1>24, <1>25, <1>26, <1>27, <1>28, <1>29, Zenon DEF Card!Tells, had, come

-----------------------------------------------------------------------------
(* The cards                                                               *)

\* Each is of a topic that has a number.
LEMMA CardsAre ==
    ASSUME AuditInv, Topics \in Nat, NEW k \in DOMAIN Card!auditable
    PROVE  LET a == Card!auditable[k]
           IN  a.usable > 0 /\ \E t \in Card!Topic : a = Card!auditOne(t, Card!OfTopic(auditRows, t), auditRun[1].timed)
<1> DEFINE timed == auditRun[1].timed
           all == Card!audits
           some == {j \in DOMAIN all : all[j].usable > 0}
           topics == {auditRows[i].topic : i \in DOMAIN auditRows}
           order == Card!Ascending(topics)
           c == Cardinality(topics)
           list == [j \in DOMAIN order |-> Card!auditOne(order[j], Card!OfTopic(auditRows, order[j]), timed)]
           keys == [j \in DOMAIN list |-> -list[j].usable]
<1>1. Card!auditable = Card!At(all, some)
  BY DEF Card!auditable, Card!Speaking
<1>2. topics \subseteq 1 .. Topics /\ Card!Topic = 1 .. Topics
  <2>1. \A i \in DOMAIN auditRows : IsCopy(auditRows[i])
    BY Zenon DEF AuditInv
  <2> QED
    BY <2>1 DEF IsCopy, Card!Topic
<1>3. order \in [1 .. c -> topics] /\ c \in Nat
  <2> HIDE DEF topics
  <2>1. \E e : Enumerates(e, topics)
    BY <1>2, CanAscend
  <2>2. \E e \in [1 .. Card!Cardinality(topics) -> topics] : \A i, j \in DOMAIN e : i < j => e[i] < e[j]
    BY <2>1, CardCounts DEF Enumerates
  <2>3. order \in [1 .. Card!Cardinality(topics) -> topics]
    BY <2>2 DEF Card!Ascending
  <2>4. c \in Nat
    BY <1>2, BoundedIsFinite, FS_CardinalityType
  <2> QED
    BY <2>3, <2>4, CardCounts
<1> HIDE DEF order, c, topics
<1>4. DOMAIN order = 1 .. c /\ \A j \in 1 .. c : order[j] \in Card!Topic
  BY <1>2, <1>3
<1>5. DOMAIN list = 1 .. c
  BY <1>4
<1>6. \A j \in 1 .. c : list[j] = Card!auditOne(order[j], Card!OfTopic(auditRows, order[j]), timed)
  BY <1>4
<1> HIDE DEF list
<1>7. \A j \in 1 .. c : list[j].usable \in Int
  <2> TAKE j \in 1 .. c
  <2> DEFINE its == Card!OfTopic(auditRows, order[j])
             s == Card!Samples(its)
             m == Cardinality(Legible(order[j]))
  <2>1. Timeline(s, m, Legible(order[j]))
    BY SamplesAre
  <2>2. m \in Nat /\ s = [i \in 1 .. m |-> s[i]]
    BY <2>1 DEF Timeline
  <2>3. list[j].usable = Len(s)
    <3>1. Fields(list[j], order[j], its, timed)
      BY <1>6, FieldsAre
    <3> QED
      BY <3>1, Zenon DEF Fields
  <2> HIDE DEF s, m
  <2> QED
    BY <2>2, <2>3, ListIs
<1>8. keys \in [1 .. c -> Int]
  BY <1>5, <1>7
<1>9. all = <<>> \/ all = Card!SortedBy(list, keys)
  <2>1. CASE auditRun = Card!None
    BY <2>1 DEF Card!audits
  <2>2. CASE auditRun # Card!None
    <3>1. all = Card!auditDelivery(auditRows, timed)
      BY <2>2 DEF Card!audits
    <3>2. Card!auditDelivery(auditRows, timed) = Card!SortedBy(list, keys)
      BY Zenon DEF Card!auditDelivery, list, order, topics
    <3> QED
      BY <3>1, <3>2
  <2> QED
    BY <2>1, <2>2
<1> HIDE DEF all, keys, timed
<1>10. \E n \in Nat : DOMAIN all = 1 .. n
       /\ \A j \in DOMAIN all : \E t \in Card!Topic : all[j] = Card!auditOne(t, Card!OfTopic(auditRows, t), timed)
  <2>1. CASE all = <<>>
    <3>1. DOMAIN all = 1 .. 0
      BY <2>1
    <3> QED
      BY <3>1
  <2>2. CASE all = Card!SortedBy(list, keys)
    <3>1. PICK p : Sorted(p, c, all, list, keys)
      BY <1>3, <1>5, <1>8, <2>2, SortedIs
    <3>2. Pairs(p, c, 1 .. c) /\ all = [j \in 1 .. c |-> list[p[j]]]
      BY <3>1 DEF Sorted, Sorts
    <3>3. \A j \in 1 .. c : p[j] \in 1 .. c
      BY <3>2 DEF Pairs
    <3>4. DOMAIN all = 1 .. c /\ \A j \in 1 .. c : all[j] = list[p[j]]
      BY <3>2
    <3>5. \A j \in 1 .. c : \E t \in Card!Topic : all[j] = Card!auditOne(t, Card!OfTopic(auditRows, t), timed)
      BY <1>4, <1>6, <3>3, <3>4
    <3> QED
      BY <1>3, <3>4, <3>5
  <2> QED
    BY <1>9, <2>1, <2>2
<1>11. PICK n \in Nat : DOMAIN all = 1 .. n
       /\ \A j \in DOMAIN all : \E t \in Card!Topic : all[j] = Card!auditOne(t, Card!OfTopic(auditRows, t), timed)
  BY <1>10
<1>12. some \subseteq 1 .. n /\ \A j \in some : j \in DOMAIN all /\ all[j].usable > 0
  BY <1>11
<1> DEFINE cards == Card!auditable
           w == Cardinality(some)
<1>13. cards = Card!At(all, some)
  BY <1>1
<1> HIDE DEF some, cards
<1>14. PICK f : Choice(f, w, some, cards, all)
  BY <1>12, <1>13, AtIs
<1>15. Pairs(f, w, some) /\ cards = [j \in 1 .. w |-> all[f[j]]]
  BY <1>14 DEF Choice
<1> HIDE DEF w
<1>16. DOMAIN cards = 1 .. w /\ \A j \in 1 .. w : f[j] \in some /\ cards[j] = all[f[j]]
  BY <1>15 DEF Pairs
<1>17. k \in 1 .. w
  BY <1>16 DEF cards
<1>18. cards[k].usable > 0 /\ \E t \in Card!Topic : cards[k] = Card!auditOne(t, Card!OfTopic(auditRows, t), timed)
  BY <1>11, <1>12, <1>16, <1>17
<1> QED
  BY <1>18 DEF cards, timed

LEMMA AuditTold ==
    ASSUME AuditInv, Topics \in Nat, ListCap \in Nat
    PROVE  Card!AuditTells
<1>1. ASSUME NEW k \in DOMAIN Card!auditable
      PROVE  Card!Tells(Card!auditable[k], Card!Came(Card!auditable[k].topic))
  <2> DEFINE a == Card!auditable[k]
  <2>1. a.usable > 0
    BY CardsAre
  <2>2. PICK t \in Card!Topic : a = Card!auditOne(t, Card!OfTopic(auditRows, t), auditRun[1].timed)
    BY CardsAre
  <2> HIDE DEF a
  <2>3. Card!Tells(a, Card!Came(a.topic))
    BY <2>1, <2>2, OneTells
  <2> QED
    BY <2>3 DEF a
<1> QED
  BY <1>1, Zenon DEF Card!AuditTells

AuditKnown == Topics \in Nat /\ ShownLimits \subseteq Nat /\ Ahead \in Int /\ ListCap \in Nat

LEMMA AuditInit == Card!Init => AuditInv
<1> SUFFICES ASSUME Card!Init PROVE AuditInv
  OBVIOUS
<1>1. /\ auditClock = 1 /\ auditSent = [t \in Card!Topic |-> <<>>]
      /\ auditStored = <<>> /\ auditRows = <<>>
  BY DEF Card!Init
<1>2. DOMAIN auditStored = {} /\ DOMAIN auditRows = {}
  BY <1>1
<1>3. auditStored \in Seq({auditStored[i] : i \in DOMAIN auditStored}) /\ auditRows \in Seq({auditRows[i] : i \in DOMAIN auditRows})
  <2>1. \A S : <<>> \in Seq(S)
    OBVIOUS
  <2> QED
    BY <1>1, <2>1
<1>4. auditSent \in [Card!Topic -> Seq(Int)] /\ auditClock \in Nat
  BY <1>1
<1> QED
  BY <1>2, <1>3, <1>4 DEF AuditInv

\* A list that a step makes of copies.
LEMMA CopiesKept ==
    ASSUME AuditInv, NEW t \in Card!Topic, auditSent' = [auditSent EXCEPT ![t] = Append(@, auditClock + Ahead)],
           Ahead \in Int, NEW r, IsCopy(r)
    PROVE  IsCopy(r)'
<1>1. auditSent \in [Card!Topic -> Seq(Int)] /\ auditClock \in Nat
  BY Zenon DEF AuditInv
<1>2. auditSent[r.topic] \in Seq(Int) /\ r.topic \in Card!Topic
  BY <1>1 DEF IsCopy
<1>3. auditSent'[r.topic] = auditSent[r.topic] \/ auditSent'[r.topic] = Append(auditSent[r.topic], auditClock + Ahead)
  BY <1>1, <1>2
<1>4. DOMAIN auditSent[r.topic] \subseteq DOMAIN auditSent'[r.topic]
  BY <1>1, <1>2, <1>3
<1> QED
  BY <1>4 DEF IsCopy, Card!Topic

LEMMA AuditStep ==
    ASSUME AuditInv, AuditKnown, Card!Next
    PROVE  AuditInv'
<1>0. /\ auditClock \in Nat /\ auditSent \in [Card!Topic -> Seq(Int)]
      /\ \A i \in DOMAIN auditStored : IsCopy(auditStored[i]) /\ auditStored[i].ts <= auditClock
      /\ \A i, j \in DOMAIN auditStored : i < j => auditStored[i].ts <= auditStored[j].ts
      /\ \A i \in DOMAIN auditRows : IsCopy(auditRows[i])
      /\ \A i, j \in DOMAIN auditRows : i < j => auditRows[j].ts <= auditRows[i].ts
  BY Zenon DEF AuditInv
<1> DEFINE M == Len(auditStored)
<1>S. auditStored \in Seq({auditStored[i] : i \in DOMAIN auditStored}) /\ auditRows \in Seq({auditRows[i] : i \in DOMAIN auditRows})
  BY Zenon DEF AuditInv
<1>M. M \in Nat /\ DOMAIN auditStored = 1 .. M
  <2> DEFINE S == {auditStored[i] : i \in DOMAIN auditStored}
  <2> HIDE DEF S
  <2>1. auditStored \in Seq(S)
    BY <1>S DEF S
  <2> QED
    BY <2>1
<1>1. ASSUME NEW t \in Card!Topic, Card!Publish(t)
      PROVE  AuditInv'
  <2>1. /\ auditSent' = [auditSent EXCEPT ![t] = Append(@, auditClock + Ahead)]
        /\ auditClock' = auditClock /\ auditStored' = auditStored /\ auditRows' = auditRows
    BY <1>1 DEF Card!Publish
  <2>2. auditSent' \in [Card!Topic -> Seq(Int)]
    <3>1. auditClock + Ahead \in Int /\ auditSent[t] \in Seq(Int)
      BY <1>0 DEF AuditKnown
    <3>2. Append(auditSent[t], auditClock + Ahead) \in Seq(Int)
      BY <3>1
    <3> QED
      BY <1>0, <2>1, <3>2
  <2>3. \A i \in DOMAIN auditStored : IsCopy(auditStored[i])'
    BY <1>0, <2>1, CopiesKept DEF AuditKnown
  <2>4. \A i \in DOMAIN auditRows : IsCopy(auditRows[i])'
    BY <1>0, <2>1, CopiesKept DEF AuditKnown
  <2> QED
    BY <1>0, <1>S, <2>1, <2>2, <2>3, <2>4 DEF AuditInv, Card!Topic, IsCopy
<1>2. ASSUME NEW t \in Card!Topic, NEW n \in DOMAIN auditSent[t], NEW f \in Forms, Card!Arrive(t, n, f)
      PROVE  AuditInv'
  <2> DEFINE r == [topic |-> t, ts |-> auditClock, seq |-> n, sentAt |-> auditSent[t][n], form |-> f]
  <2>1. /\ auditStored' = Append(auditStored, r)
        /\ auditClock' = auditClock /\ auditSent' = auditSent /\ auditRows' = auditRows
    BY <1>2 DEF Card!Arrive
  <2>2. IsCopy(r) /\ r.ts = auditClock
    <3>1. auditSent[t] \in Seq(Int)
      BY <1>0
    <3>2. auditSent[t][n] \in Int
      BY <3>1
    <3> QED
      BY <1>0, <3>2 DEF IsCopy
  <2> HIDE DEF r
  <2>3. /\ DOMAIN auditStored' = 1 .. M + 1 /\ auditStored'[M + 1] = r
        /\ \A i \in 1 .. M : auditStored'[i] = auditStored[i]
        /\ auditStored' \in Seq({auditStored'[i] : i \in DOMAIN auditStored'})
    <3> DEFINE S == {auditStored[i] : i \in DOMAIN auditStored}
               T == S \cup {r}
               U == {auditStored'[i] : i \in DOMAIN auditStored'}
    <3>1. auditStored \in Seq(S)
      BY <1>S
    <3> HIDE DEF S
    <3>2. auditStored \in Seq(T)
      BY <3>1
    <3>3. r \in T
      OBVIOUS
    <3> HIDE DEF T
    <3>4. /\ DOMAIN auditStored' = 1 .. M + 1 /\ auditStored'[M + 1] = r
          /\ \A i \in 1 .. M : auditStored'[i] = auditStored[i]
      BY <2>1, <3>2, <3>3
    <3>5. auditStored' \in Seq(T)
      BY <2>1, <3>2, <3>3
    <3>6. \A i \in 1 .. M + 1 : auditStored'[i] \in U
      BY <3>4
    <3> HIDE DEF U
    <3>7. auditStored' = [i \in 1 .. M + 1 |-> auditStored'[i]]
      BY <3>4, <3>5
    <3>8. auditStored' \in [1 .. M + 1 -> U]
      BY <3>6, <3>7
    <3>9. auditStored' \in Seq(U)
      BY <1>M, <3>8
    <3> QED
      BY <3>4, <3>9 DEF U
  <2>4. \A i \in 1 .. M + 1 : IsCopy(auditStored[i])' /\ auditStored'[i].ts <= auditClock'
    <3> TAKE i \in 1 .. M + 1
    <3>1. CASE i \in 1 .. M
      BY <1>0, <1>M, <2>1, <2>3, <3>1 DEF IsCopy, Card!Topic
    <3>2. CASE i = M + 1
      BY <1>0, <2>1, <2>2, <2>3, <3>2 DEF IsCopy, Card!Topic
    <3> QED
      BY <1>M, <3>1, <3>2
  <2>5. \A i, j \in 1 .. M + 1 : i < j => auditStored'[i].ts <= auditStored'[j].ts
    <3> TAKE i, j \in 1 .. M + 1
    <3> SUFFICES ASSUME i < j PROVE auditStored'[i].ts <= auditStored'[j].ts
      OBVIOUS
    <3>1. i \in 1 .. M
      BY <1>M
    <3>2. CASE j \in 1 .. M
      BY <1>0, <1>M, <2>3, <3>1, <3>2
    <3>3. CASE j = M + 1
      <4>1. auditStored'[i].ts <= auditClock
        BY <1>0, <1>M, <2>3, <3>1
      <4>2. auditStored'[j].ts = auditClock
        BY <2>2, <2>3, <3>3
      <4> QED
        BY <4>1, <4>2
    <3> QED
      BY <1>M, <3>2, <3>3
  <2>6. \A i \in DOMAIN auditRows : IsCopy(auditRows[i])'
    BY <1>0, <2>1 DEF IsCopy, Card!Topic
  <2> QED
    BY <1>0, <1>S, <2>1, <2>3, <2>4, <2>5, <2>6 DEF AuditInv, Card!Topic, IsCopy
<1>3. ASSUME NEW limit \in ShownLimits, Card!query_history(limit)
      PROVE  AuditInv'
  <2> DEFINE back == Card!Reverse(auditStored)
             l == Card!Min({limit, Len(auditStored)})
  <2>1. /\ auditRows' = SubSeq(back, 1, l)
        /\ auditClock' = auditClock /\ auditSent' = auditSent /\ auditStored' = auditStored
    BY <1>3 DEF Card!query_history
  <2>2. l \in 0 .. M
    <3> DEFINE X == {limit, M}
               top == limit + M
    <3>1. limit \in Nat
      BY DEF AuditKnown
    <3>2. X \subseteq 0 .. top /\ X # {} /\ top \in Nat /\ X \subseteq Nat /\ M \in X
      BY <1>M, <3>1
    <3>3. l = Card!Min(X)
      OBVIOUS
    <3> HIDE DEF X, top, l
    <3>4. l \in X /\ l <= M
      BY <3>2, <3>3, Extremes
    <3> QED
      BY <1>M, <3>2, <3>4
  <2>3. back = [i \in 1 .. M |-> auditStored[(M - i) + 1]]
    BY DEF Card!Reverse
  <2> DEFINE S == {auditStored[i] : i \in DOMAIN auditStored}
  <2>4. back \in Seq(S) /\ Len(back) = M
    <3>1. \A i \in 1 .. M : (M - i) + 1 \in DOMAIN auditStored /\ auditStored[(M - i) + 1] \in S
      BY <1>M
    <3> HIDE DEF S, back
    <3>2. back \in [1 .. M -> S]
      BY <2>3, <3>1
    <3> HIDE DEF M
    <3> QED
      BY <1>M, <3>2
  <2> HIDE DEF S, back, l
  <2>5. auditRows' = [i \in 1 .. l |-> back[i]]
    <3>1. auditRows' = [i \in 1 .. (1 + l - 1) |-> back[i + 1 - 1]]
      BY <2>1, <2>2, <2>4
    <3>2. 1 + l - 1 = l
      BY <2>2
    <3>3. \A i \in 1 .. l : i + 1 - 1 = i
      BY <2>2
    <3> QED
      BY <3>1, <3>2, <3>3
  <2>6. \A i \in 1 .. l : (M - i) + 1 \in 1 .. M /\ auditRows'[i] = auditStored[(M - i) + 1]
    <3> TAKE i \in 1 .. l
    <3>1. i \in 1 .. M
      BY <1>M, <2>2
    <3>2. (M - i) + 1 \in 1 .. M
      BY <1>M, <3>1
    <3> QED
      BY <2>3, <2>5, <3>1, <3>2
  <2>7. DOMAIN auditRows' = 1 .. l
    BY <2>5
  <2>8. auditRows' \in Seq({auditRows'[i] : i \in DOMAIN auditRows'})
    <3> DEFINE U == {auditRows'[i] : i \in DOMAIN auditRows'}
    <3>1. \A i \in 1 .. l : back[i] \in U
      BY <2>5
    <3> HIDE DEF U
    <3>2. auditRows' \in [1 .. l -> U]
      BY <2>5, <3>1
    <3>3. auditRows' \in Seq(U)
      BY <2>2, <3>2
    <3> QED
      BY <3>3 DEF U
  <2>9. \A i \in 1 .. l : IsCopy(auditRows[i])'
    BY <1>0, <1>M, <2>1, <2>6 DEF IsCopy, Card!Topic
  <2>10. \A i, j \in 1 .. l : i < j => auditRows'[j].ts <= auditRows'[i].ts
    <3> TAKE i, j \in 1 .. l
    <3> SUFFICES ASSUME i < j PROVE auditRows'[j].ts <= auditRows'[i].ts
      OBVIOUS
    <3> DEFINE x == (M - j) + 1
               y == (M - i) + 1
    <3>1. x < y
      BY <1>M, <2>2
    <3>2. x \in 1 .. M /\ y \in 1 .. M /\ auditRows'[j] = auditStored[x] /\ auditRows'[i] = auditStored[y]
      BY <2>6
    <3> HIDE DEF x, y
    <3> QED
      BY <1>0, <1>M, <3>1, <3>2
  <2>11. \A i \in DOMAIN auditStored : IsCopy(auditStored[i])'
    BY <1>0, <2>1 DEF IsCopy, Card!Topic
  <2> QED
    BY <1>0, <1>S, <2>1, <2>7, <2>8, <2>9, <2>10, <2>11 DEF AuditInv, Card!Topic, IsCopy
<1>4. ASSUME NEW timed \in BOOLEAN, Card!start(timed)
      PROVE  AuditInv'
  <2>1. auditClock' = auditClock /\ auditSent' = auditSent /\ auditStored' = auditStored /\ auditRows' = auditRows
    BY <1>4 DEF Card!start
  <2> QED
    BY <2>1 DEF AuditInv, Card!Topic, IsCopy
<1>5. ASSUME Card!Tick
      PROVE  AuditInv'
  <2>1. auditClock' = auditClock + 1 /\ auditSent' = auditSent /\ auditStored' = auditStored /\ auditRows' = auditRows
    BY <1>5 DEF Card!Tick
  <2>2. auditClock' \in Nat
    BY <1>0, <2>1
  <2>3. \A i \in DOMAIN auditStored : auditStored[i].ts <= auditClock'
    <3> TAKE i \in DOMAIN auditStored
    <3>1. auditStored[i].ts \in Nat /\ auditStored[i].ts <= auditClock
      BY <1>0 DEF IsCopy
    <3> QED
      BY <1>0, <2>1, <3>1
  <2>4. \A i \in DOMAIN auditStored : IsCopy(auditStored[i])'
    BY <1>0, <2>1 DEF IsCopy, Card!Topic
  <2>5. \A i \in DOMAIN auditRows : IsCopy(auditRows[i])'
    BY <1>0, <2>1 DEF IsCopy, Card!Topic
  <2> QED
    BY <1>0, <1>S, <2>1, <2>2, <2>3, <2>4, <2>5 DEF AuditInv, Card!Topic, IsCopy
<1> QED
  BY <1>1, <1>2, <1>3, <1>4, <1>5 DEF Card!Next

LEMMA AuditSame ==
    ASSUME AuditInv, UNCHANGED audit
    PROVE  AuditInv'
<1>1. auditClock' = auditClock /\ auditSent' = auditSent /\ auditStored' = auditStored /\ auditRows' = auditRows
  BY DEF audit
<1> QED
  BY <1>1 DEF AuditInv, Card!Topic, IsCopy

\* Of these parts alone: see AuditAccusesNobody in Desk_proofs.
LEMMA AuditAccusesNobodyInCards == CardsSpec => []AuditTells
<1> DEFINE Kept == part = "audit" => AuditInv
<1>1. CardsInit => Kept
  BY AuditInit DEF CardsInit
<1>2. Kept /\ [CardsStep]_<<part, clicks, cardVars>> => Kept'
  <2> SUFFICES ASSUME Kept, [CardsStep]_<<part, clicks, cardVars>>, part' = "audit"
               PROVE  AuditInv'
    OBVIOUS
  <2>1. AuditInv /\ (Card!Next \/ UNCHANGED audit)
    BY DEF CardsStep, CardsNext, CardsParts, cardVars
  <2>2. AuditKnown
    BY CardsAssumption DEF AuditKnown
  <2> QED
    BY <2>1, <2>2, AuditStep, AuditSame
<1>3. Kept => AuditTells
  BY AuditTold, CardsAssumption DEF AuditTells
<1> QED
  BY <1>1, <1>2, <1>3, PTL DEF CardsSpec
=============================================================================
