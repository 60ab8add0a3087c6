--------------------------- MODULE Values_proofs ----------------------------
(***************************************************************************)
(* Lemmas about the values that the protocols compute with.                *)
(*                                                                         *)
(* XOR distances, for any number of bits: comparing two of them by their   *)
(* highest different bit (Closer) compares the numbers they stand for, so  *)
(* that the peers of any target are strictly ordered; and a distance that  *)
(* is not zero has a bucket.  Byte strings and socket addresses, for any   *)
(* width of a byte and of an IP: an address is read as it was written.     *)
(*                                                                         *)
(* Inductions take the least counterexample.                               *)
(***************************************************************************)
EXTENDS XorDistance, AddrCodec, FiniteSetTheorems, SequenceTheorems,
        WellFoundedInduction, TLAPS

LEMMA LeastNatural ==
  ASSUME NEW T \in SUBSET Nat, T # {}
  PROVE  \E x \in T : \A y \in T : x <= y
<1>1. PICK x \in T : \A y \in T : ~ (<< y, x >> \in OpToRel(<, Nat))
  BY WFMin, NatLessThanWellFounded
<1>2. \A y \in T : ~ (y < x)
  BY <1>1 DEF OpToRel
<1> QED
  BY <1>2

\* A set that holds 0 and, with every number below n, its successor, holds
\* every number up to n.
LEMMA Induction ==
  ASSUME NEW n \in Nat, NEW T, 0 \in T,
         \A i \in 0 .. (n - 1) : i \in T => i + 1 \in T
  PROVE  0 .. n \subseteq T
<1> DEFINE Bad == {i \in 0 .. n : i \notin T}
<1> SUFFICES ASSUME Bad # {} PROVE FALSE
  OBVIOUS
<1>1. PICK x \in Bad : \A y \in Bad : x <= y
  <2>1. Bad \in SUBSET Nat
    OBVIOUS
  <2> HIDE DEF Bad
  <2> QED
    BY <2>1, LeastNatural
<1>2. x # 0 /\ x \in 0 .. n /\ x \notin T
  BY <1>1
<1>3. x - 1 \in 0 .. (n - 1) /\ x - 1 \notin Bad
  BY <1>1, <1>2
<1>4. x - 1 \in T
  BY <1>3
<1> QED
  BY <1>2, <1>3, <1>4

Computes(f, N, D, base, step) ==
  /\ f \in [0 .. N -> D] /\ f[0] = base
  /\ \A n \in 1 .. N : f[n] = step[<< n, f[n - 1] >>]

\* What is defined step by step from a first value is defined.
LEMMA Recursion ==
  ASSUME NEW N \in Nat, NEW D, NEW base \in D,
         NEW step \in [(1 .. N) \X D -> D]
  PROVE  \E f : Computes(f, N, D, base, step)
<1> DEFINE Upto(f, w) == Computes(f, w, D, base, step)
<1> DEFINE T == {w \in 0 .. N : \E f : Upto(f, w)}
<1>1. 0 \in T
  <2>1. Upto([n \in 0 .. 0 |-> base], 0)
    BY DEF Computes
  <2> QED
    BY <2>1
<1>2. ASSUME NEW w \in 0 .. (N - 1), w \in T PROVE w + 1 \in T
  <2>1. PICK f : Upto(f, w)
    BY <1>2
  <2> DEFINE g == [n \in 0 .. (w + 1) |->
                     IF n = w + 1 THEN step[<< n, f[w] >>] ELSE f[n]]
  <2>2. w + 1 \in 1 .. N /\ f[w] \in D
    BY <2>1 DEF Computes
  <2>3. g \in [0 .. (w + 1) -> D]
    BY <2>1, <2>2 DEF Computes
  <2>4. g[0] = base
    BY <2>1 DEF Computes
  <2>5. ASSUME NEW n \in 1 .. (w + 1)
        PROVE  g[n] = step[<< n, g[n - 1] >>]
    <3>1. CASE n = w + 1
      <4>1. n - 1 \in 0 .. (w + 1) /\ n - 1 # w + 1 /\ n - 1 = w
        BY <3>1
      <4>2. g[n - 1] = f[w]
        BY <4>1
      <4> QED
        BY <3>1, <4>2
    <3>2. CASE n # w + 1
      <4>1. n \in 1 .. w /\ n - 1 \in 0 .. w /\ n - 1 # w + 1
        BY <3>2
      <4>2. g[n - 1] = f[n - 1] /\ g[n] = f[n]
        BY <3>2, <4>1
      <4> QED
        BY <2>1, <4>1, <4>2 DEF Computes
    <3> QED
      BY <3>1, <3>2
  <2>6. Upto(g, w + 1)
    <3> HIDE DEF g
    <3> QED
      BY <2>3, <2>4, <2>5 DEF Computes
  <2> HIDE DEF g
  <2> QED
    BY <2>2, <2>6
<1>3. 0 .. N \subseteq T
  <2> HIDE DEF T
  <2> QED
    BY <1>1, <1>2, Induction
<1>4. PICK f : Upto(f, N)
  BY <1>3
<1> QED
  BY <1>4

\* The highest of some positions.
LEMMA MaxPosition ==
  ASSUME NEW d \in NodeIds, d # {}
  PROVE  Max(d) \in d /\ \A i \in d : i <= Max(d)
<1> DEFINE T == {NODE_ID_BITS - i : i \in d}
<1>1. T \in SUBSET Nat /\ T # {}
  <2>1. \A i \in d : NODE_ID_BITS - i \in Nat
    BY BitsAssumption DEF NodeIds, Positions
  <2> QED
    BY <2>1
<1>2. PICK x \in T : \A y \in T : x <= y
  <2> HIDE DEF T
  <2> QED
    BY <1>1, LeastNatural
<1>3. PICK m \in d : x = NODE_ID_BITS - m
  BY <1>2
<1>4. \A i \in d : m >= i
  <2> TAKE i \in d
  <2>1. NODE_ID_BITS - i \in T
    OBVIOUS
  <2>2. NODE_ID_BITS - m <= NODE_ID_BITS - i
    BY <1>2, <1>3, <2>1
  <2>3. i \in Int /\ m \in Int /\ NODE_ID_BITS \in Int
    BY BitsAssumption DEF NodeIds, Positions
  <2> QED
    BY <2>2, <2>3
<1>5. \E y \in d : \A i \in d : y >= i
  BY <1>4
<1>6. Max(d) \in d /\ \A i \in d : Max(d) >= i
  BY <1>5 DEF Max
<1>7. d \subseteq Nat
  BY DEF NodeIds, Positions
<1> QED
  BY <1>6, <1>7

-----------------------------------------------------------------------------
(* The number of a distance                                                *)

\* f computes the number of d from its n highest bits, for n up to the width.
IsValue(f, d, width) ==
  f = [n \in 0 .. width |->
         IF n = 0 THEN 0
         ELSE 2 * f[n - 1] + (IF NODE_ID_BITS - n \in d THEN 1 ELSE 0)]

LEMMA ValueExists ==
  ASSUME NEW d
  PROVE  \E f : IsValue(f, d, NODE_ID_BITS)
<1> DEFINE T == {width \in Nat : \E f : IsValue(f, d, width)}
<1>1. 0 \in T
  <2>1. IsValue([n \in 0 .. 0 |-> 0], d, 0)
    BY DEF IsValue
  <2> QED
    BY <2>1
<1>2. ASSUME NEW w \in Nat, w \in T PROVE w + 1 \in T
  <2>1. PICK f : IsValue(f, d, w)
    BY <1>2
  <2> DEFINE g == [n \in 0 .. (w + 1) |->
                     IF n = w + 1
                     THEN 2 * f[w] + (IF NODE_ID_BITS - n \in d THEN 1 ELSE 0)
                     ELSE f[n]]
  <2>2. \A n \in 0 .. w : g[n] = f[n]
    OBVIOUS
  <2>3. \A n \in 0 .. w :
          f[n] = IF n = 0 THEN 0
                 ELSE 2 * f[n - 1] + (IF NODE_ID_BITS - n \in d THEN 1 ELSE 0)
    BY <2>1 DEF IsValue
  <2>4. \A n \in 0 .. (w + 1) :
          g[n] = IF n = 0 THEN 0
                 ELSE 2 * g[n - 1] + (IF NODE_ID_BITS - n \in d THEN 1 ELSE 0)
    <3> TAKE n \in 0 .. (w + 1)
    <3>1. CASE n = w + 1
      <4>1. g[n - 1] = f[w] /\ n # 0
        BY <3>1
      <4>2. g[n] = 2 * f[w] + (IF NODE_ID_BITS - n \in d THEN 1 ELSE 0)
        BY <3>1
      <4> QED
        BY <4>1, <4>2
    <3>2. CASE n # w + 1
      <4>1. n \in 0 .. w /\ (n # 0 => n - 1 \in 0 .. w)
        BY <3>2
      <4> HIDE DEF g
      <4> QED
        BY <4>1, <2>2, <2>3
    <3> QED
      BY <3>1, <3>2
  <2>5. IsValue(g, d, w + 1)
    <3>1. g = [n \in 0 .. (w + 1) |-> g[n]]
      OBVIOUS
    <3> HIDE DEF g
    <3> QED
      BY <2>4, <3>1 DEF IsValue
  <2> QED
    BY <2>5
<1>3. 0 .. NODE_ID_BITS \subseteq T
  <2> HIDE DEF T
  <2> QED
    BY <1>1, <1>2, Induction, BitsAssumption
<1> QED
  BY <1>3, BitsAssumption

\* Numeric is computed by such a function, whose values are numbers.
LEMMA NumericValue ==
  ASSUME NEW d
  PROVE  \E f \in [0 .. NODE_ID_BITS -> Nat] :
           IsValue(f, d, NODE_ID_BITS) /\ Numeric(d) = f[NODE_ID_BITS]
<1> DEFINE f == CHOOSE g : IsValue(g, d, NODE_ID_BITS)
<1>1. IsValue(f, d, NODE_ID_BITS)
  BY ValueExists
<1>2. Numeric(d) = f[NODE_ID_BITS]
  BY DEF Numeric, IsValue
<1> HIDE DEF f
<1> DEFINE T == {n \in Nat : n <= NODE_ID_BITS => f[n] \in Nat}
<1>3. \A n \in 0 .. NODE_ID_BITS :
        f[n] = IF n = 0 THEN 0
               ELSE 2 * f[n - 1] + (IF NODE_ID_BITS - n \in d THEN 1 ELSE 0)
  BY <1>1 DEF IsValue
<1>4. 0 \in T
  BY <1>3, BitsAssumption
<1>5. ASSUME NEW n \in 0 .. (NODE_ID_BITS - 1), n \in T PROVE n + 1 \in T
  <2>1. f[n] \in Nat
    BY <1>5, BitsAssumption
  <2>2. f[n + 1] = 2 * f[n] + (IF NODE_ID_BITS - (n + 1) \in d THEN 1 ELSE 0)
    <3>1. n + 1 \in 0 .. NODE_ID_BITS /\ n + 1 # 0 /\ (n + 1) - 1 = n
      BY BitsAssumption
    <3> QED
      BY <1>3, <3>1
  <2> QED
    BY <2>1, <2>2
<1>6. 0 .. NODE_ID_BITS \subseteq T
  <2> HIDE DEF T
  <2> QED
    BY <1>4, <1>5, Induction, BitsAssumption
<1>7. f \in [0 .. NODE_ID_BITS -> Nat]
  BY <1>1, <1>6 DEF IsValue
<1> QED
  BY <1>1, <1>2, <1>7

-----------------------------------------------------------------------------
(* The order of distances                                                  *)

LEMMA DistanceType ==
  ASSUME NEW a \in NodeIds, NEW b \in NodeIds
  PROVE  distance(a, b) \in NodeIds
BY DEF distance, NodeIds

\* Peers with the same distance to a target are the same peer.
LEMMA DistanceInjective ==
  ASSUME NEW a \in NodeIds, NEW b \in NodeIds, NEW t \in NodeIds,
         distance(a, t) = distance(b, t)
  PROVE  a = b
<1> SUFFICES ASSUME NEW x PROVE x \in a <=> x \in b
  BY DEF NodeIds
<1>1. x \in distance(a, t) <=> x \in distance(b, t)
  OBVIOUS
<1> QED
  BY <1>1 DEF distance

LEMMA CloserTotal ==
  ASSUME NEW a \in NodeIds, NEW b \in NodeIds, a # b
  PROVE  Closer(a, b) \/ Closer(b, a)
<1>1. distance(a, b) = distance(b, a) /\ distance(a, b) # {}
  BY DEF distance
<1>2. Max(distance(a, b)) \in distance(a, b)
  BY <1>1, DistanceType, MaxPosition
<1> QED
  BY <1>1, <1>2 DEF Closer, distance

\* The highest different bit decides which number is the smaller.
LEMMA CloserIsLess ==
  ASSUME NEW a \in NodeIds, NEW b \in NodeIds, Closer(a, b)
  PROVE  Numeric(a) < Numeric(b)
<1>1. PICK f \in [0 .. NODE_ID_BITS -> Nat] :
        IsValue(f, a, NODE_ID_BITS) /\ Numeric(a) = f[NODE_ID_BITS]
  BY NumericValue
<1>2. PICK g \in [0 .. NODE_ID_BITS -> Nat] :
        IsValue(g, b, NODE_ID_BITS) /\ Numeric(b) = g[NODE_ID_BITS]
  BY NumericValue
<1> DEFINE m == Max(distance(a, b))
<1>3. distance(a, b) # {}
  BY DEF Closer, distance
<1>4. m \in distance(a, b) /\ \A i \in distance(a, b) : i <= m
  BY <1>3, DistanceType, MaxPosition
<1>5. m \in b /\ m \notin a /\ m \in 0 .. (NODE_ID_BITS - 1)
  BY <1>4 DEF Closer, distance, NodeIds, Positions
<1>6. \A i \in Positions : i > m => (i \in a <=> i \in b)
  <2> SUFFICES ASSUME NEW i \in Positions, i > m, ~ (i \in a <=> i \in b)
               PROVE  FALSE
    OBVIOUS
  <2>1. i \in distance(a, b)
    BY DEF distance
  <2> QED
    BY <1>4, <1>5, <2>1 DEF Positions
<1> HIDE DEF m
<1>7. NODE_ID_BITS \in Nat \ {0}
  BY BitsAssumption
<1>8. ASSUME NEW n \in 0 .. (NODE_ID_BITS - 1)
      PROVE  /\ f[n] \in Nat /\ g[n] \in Nat
             /\ f[n + 1] = 2 * f[n] + (IF NODE_ID_BITS - (n + 1) \in a
                                      THEN 1 ELSE 0)
             /\ g[n + 1] = 2 * g[n] + (IF NODE_ID_BITS - (n + 1) \in b
                                      THEN 1 ELSE 0)
  <2>1. n \in 0 .. NODE_ID_BITS /\ n + 1 \in 0 .. NODE_ID_BITS
        /\ n + 1 # 0 /\ (n + 1) - 1 = n
    BY <1>7
  <2>2. f[n + 1] = 2 * f[(n + 1) - 1] + (IF NODE_ID_BITS - (n + 1) \in a
                                         THEN 1 ELSE 0)
    BY <1>1, <2>1 DEF IsValue
  <2>3. g[n + 1] = 2 * g[(n + 1) - 1] + (IF NODE_ID_BITS - (n + 1) \in b
                                         THEN 1 ELSE 0)
    BY <1>2, <2>1 DEF IsValue
  <2> QED
    BY <2>1, <2>2, <2>3
<1> DEFINE high == NODE_ID_BITS - 1 - m
<1>9. high \in Nat /\ high <= NODE_ID_BITS - 1
  BY <1>5, <1>7
\* The bits above m are the same ...
<1>10. f[high] = g[high]
  <2> DEFINE T == {n \in Nat : f[n] = g[n]}
  <2>1. 0 \in T
    BY <1>1, <1>2, <1>7 DEF IsValue
  <2>2. ASSUME NEW n \in 0 .. (high - 1), n \in T PROVE n + 1 \in T
    <3>1. n \in 0 .. (NODE_ID_BITS - 1) /\ n \in Nat
      BY <1>5, <1>7, <1>9
    <3>2. NODE_ID_BITS - (n + 1) \in Positions /\ NODE_ID_BITS - (n + 1) > m
      BY <1>5, <1>7, <1>9 DEF Positions
    <3>3. f[n + 1] = g[n + 1]
      BY <1>6, <1>8, <2>2, <3>1, <3>2
    <3> QED
      BY <3>1, <3>3
  <2>3. 0 .. high \subseteq T
    <3> HIDE DEF T, high
    <3> QED
      BY <1>9, <2>1, <2>2, Induction
  <2> QED
    BY <1>9, <2>3
\* ... b is ahead with m, and stays ahead below it.
<1>11. f[high + 1] + 1 <= g[high + 1]
  <2>1. NODE_ID_BITS - (high + 1) = m
    BY <1>5, <1>7
  <2>2. high \in 0 .. (NODE_ID_BITS - 1)
    BY <1>9
  <2> HIDE DEF high
  <2>3. f[high + 1] = 2 * f[high] /\ g[high + 1] = 2 * g[high] + 1
        /\ f[high] \in Nat /\ g[high] \in Nat
    BY <1>5, <1>8, <2>1, <2>2
  <2> QED
    BY <1>10, <2>3
<1>12. f[NODE_ID_BITS] + 1 <= g[NODE_ID_BITS]
  <2> DEFINE T == {j \in Nat : f[high + 1 + j] + 1 <= g[high + 1 + j]}
  <2>1. 0 \in T
    <3>1. high + 1 + 0 = high + 1
      BY <1>9
    <3> HIDE DEF high
    <3> QED
      BY <1>11, <3>1
  <2>2. ASSUME NEW j \in 0 .. (m - 1), j \in T PROVE j + 1 \in T
    <3> DEFINE n == high + 1 + j
    <3>1. n \in 0 .. (NODE_ID_BITS - 1) /\ high + 1 + (j + 1) = n + 1
      BY <1>5, <1>7
    <3>2. f[n] + 1 <= g[n]
      BY <2>2
    <3> HIDE DEF n
    <3>3. f[n + 1] + 1 <= g[n + 1]
      <4>1. f[n + 1] <= 2 * f[n] + 1 /\ g[n + 1] >= 2 * g[n]
            /\ f[n + 1] \in Int /\ g[n + 1] \in Int
            /\ f[n] \in Nat /\ g[n] \in Nat
        BY <1>8, <3>1
      <4> QED
        BY <3>2, <4>1
    <3>4. j + 1 \in Nat
      OBVIOUS
    <3> HIDE DEF high
    <3> QED
      BY <3>1, <3>3, <3>4
  <2>3. 0 .. m \subseteq T
    <3> HIDE DEF T
    <3> QED
      BY <1>5, <2>1, <2>2, Induction
  <2>4. m \in T
    BY <1>5, <2>3
  <2>5. high + 1 + m = NODE_ID_BITS
    BY <1>5, <1>7
  <2> HIDE DEF high
  <2> QED
    BY <2>4, <2>5
<1> QED
  <2>1. f[NODE_ID_BITS] \in Nat /\ g[NODE_ID_BITS] \in Nat
    BY <1>7
  <2> QED
    BY <1>1, <1>2, <1>12, <2>1

LEMMA NumericType ==
  ASSUME NEW d
  PROVE  Numeric(d) \in Nat
BY NumericValue, BitsAssumption

\* Ord of distances is the order of the numbers.
LEMMA CloserIffLess ==
  ASSUME NEW a \in NodeIds, NEW b \in NodeIds
  PROVE  Closer(a, b) <=> Numeric(a) < Numeric(b)
<1>1. Numeric(a) \in Nat /\ Numeric(b) \in Nat
  BY NumericType
<1>2. Numeric(a) < Numeric(b) => a # b
  BY <1>1
<1>3. Closer(b, a) => Numeric(b) < Numeric(a)
  BY CloserIsLess
<1> QED
  BY <1>1, <1>2, <1>3, CloserIsLess, CloserTotal

\* Distinct peers are at distinct distances, as numbers, from any target.
LEMMA NumericInjective ==
  ASSUME NEW a \in NodeIds, NEW b \in NodeIds, NEW t \in NodeIds,
         Numeric(distance(a, t)) = Numeric(distance(b, t))
  PROVE  a = b
<1> SUFFICES ASSUME a # b PROVE FALSE
  OBVIOUS
<1>1. distance(a, t) \in NodeIds /\ distance(b, t) \in NodeIds
      /\ distance(a, t) # distance(b, t)
  BY DistanceType, DistanceInjective
<1>2. \/ Numeric(distance(a, t)) < Numeric(distance(b, t))
      \/ Numeric(distance(b, t)) < Numeric(distance(a, t))
  BY <1>1, CloserTotal, CloserIsLess
<1> QED
  BY <1>2, NumericType

-----------------------------------------------------------------------------
(* The first n of a finite set                                             *)

Below(S, key, i) == {j \in S : key[j] < key[i]}

FirstOf(n, S, key) == {i \in S : Cardinality(Below(S, key, i)) < n}

\* The elements of a finite set with fewer than n smaller ones are n, if
\* there are as many, and smaller than all others.
LEMMA FirstN ==
  ASSUME NEW S, IsFiniteSet(S), NEW key \in [S -> Nat],
         \A i, j \in S : key[i] = key[j] => i = j, NEW n \in Nat
  PROVE  /\ Cardinality(FirstOf(n, S, key)) =
              IF n <= Cardinality(S) THEN n ELSE Cardinality(S)
         /\ \A i \in FirstOf(n, S, key), j \in S \ FirstOf(n, S, key) :
              key[i] < key[j]
<1> DEFINE size == Cardinality(S)
           rank == [i \in S |-> Cardinality(Below(S, key, i))]
           slots == 0 .. (size - 1)
<1>1. size \in Nat /\ IsFiniteSet(slots) /\ Cardinality(slots) = size
  <2>1. size \in Nat
    BY FS_CardinalityType
  <2> HIDE DEF size
  <2>2. 0 \in Int /\ size - 1 \in Int
    BY <2>1
  <2>3. /\ IsFiniteSet(slots)
        /\ Cardinality(slots) = IF 0 > size - 1 THEN 0 ELSE size - 1 - 0 + 1
    BY <2>2, FS_Interval
  <2> QED
    BY <2>1, <2>3
<1>2. ASSUME NEW i \in S
      PROVE  IsFiniteSet(Below(S, key, i)) /\ rank[i] \in slots
  <2>1. IsFiniteSet(S \ {i}) /\ Cardinality(S \ {i}) = size - 1
    BY FS_RemoveElement
  <2>2. Below(S, key, i) \in SUBSET (S \ {i})
    BY DEF Below
  <2>3. /\ IsFiniteSet(Below(S, key, i))
        /\ Cardinality(Below(S, key, i)) <= size - 1
    BY <2>1, <2>2, FS_Subset
  <2>4. Cardinality(Below(S, key, i)) \in Nat
    BY <2>3, FS_CardinalityType
  <2> QED
    BY <1>1, <2>3, <2>4
<1>3. ASSUME NEW i \in S, NEW j \in S, key[i] < key[j]
      PROVE  rank[i] < rank[j]
  <2>1. /\ IsFiniteSet(Below(S, key, i) \cup {i})
        /\ Cardinality(Below(S, key, i) \cup {i}) = rank[i] + 1
    <3>1. i \notin Below(S, key, i)
      BY DEF Below
    <3>2. IsFiniteSet(Below(S, key, i))
      BY <1>2
    <3> QED
      BY <3>1, <3>2, FS_AddElement
  <2>2. Below(S, key, i) \cup {i} \in SUBSET Below(S, key, j)
    BY <1>3 DEF Below
  <2>3. rank[i] + 1 <= rank[j]
    BY <1>2, <2>1, <2>2, FS_Subset
  <2>4. rank[i] \in Int /\ rank[j] \in Int
    BY <1>1, <1>2
  <2> QED
    BY <2>3, <2>4
<1>4. rank \in [S -> slots]
  <2> HIDE DEF slots
  <2> QED
    BY <1>2
<1>5. \A i, j \in S : rank[i] = rank[j] => i = j
  <2> SUFFICES ASSUME NEW i \in S, NEW j \in S, rank[i] = rank[j], i # j
               PROVE  FALSE
    OBVIOUS
  <2>1. key[i] < key[j] \/ key[j] < key[i]
    OBVIOUS
  <2>2. rank[i] < rank[j] \/ rank[j] < rank[i]
    <3> HIDE DEF rank
    <3> QED
      BY <1>3, <2>1
  <2>3. rank[i] \in Int
    BY <1>1, <1>2
  <2> HIDE DEF rank
  <2> QED
    BY <2>2, <2>3
<1> HIDE DEF rank, slots, size
<1>6. rank \in Surjection(S, slots)
  <2>1. rank \in Injection(S, slots)
    BY <1>4, <1>5 DEF Injection, IsInjective
  <2> QED
    BY <1>1, <2>1, FS_Injection DEF size
<1>7. FirstOf(n, S, key) = {i \in S : rank[i] < n}
  BY DEF FirstOf, rank
<1> DEFINE N == {i \in S : rank[i] < n}
<1>8. Cardinality(N) = IF n <= size THEN n ELSE size
  <2>1. CASE n > size
    <3>1. N = S
      <4>1. \A i \in S : rank[i] < n
        BY <1>1, <1>4, <2>1 DEF slots
      <4> QED
        BY <4>1
    <3> QED
      BY <1>1, <2>1, <3>1 DEF size
  <2>2. CASE n <= size
    <3> DEFINE f == [i \in N |-> rank[i]]
               R == 0 .. (n - 1)
    <3>1. R \subseteq slots
      BY <1>1, <2>2 DEF slots
    <3>2. f \in [N -> R]
      BY <1>1, <1>4 DEF slots
    <3>3. \A r \in R : \E i \in N : f[i] = r
      <4> TAKE r \in R
      <4>1. PICK i \in S : rank[i] = r
        BY <1>6, <3>1 DEF Surjection
      <4>2. i \in N
        BY <4>1
      <4> QED
        BY <4>1, <4>2
    <3>4. f \in Bijection(N, R)
      <4>1. \A i, j \in N : f[i] = f[j] => i = j
        BY <1>5
      <4> HIDE DEF f, R, N
      <4> QED
        BY <3>2, <3>3, <4>1 DEF Bijection, Injection, IsInjective, Surjection
    <3>5. IsFiniteSet(N)
      BY FS_Subset
    <3>6. Cardinality(R) = Cardinality(N)
      <4> HIDE DEF f, R, N
      <4> QED
        BY <3>4, <3>5, FS_Bijection DEF ExistsBijection
    <3>7. Cardinality(R) = n
      BY FS_Interval
    <3> QED
      BY <2>2, <3>6, <3>7
  <2> QED
    BY <1>1, <2>1, <2>2
<1>9. ASSUME NEW i \in N, NEW j \in S \ N PROVE key[i] < key[j]
  <2>1. rank[i] < rank[j] /\ i # j /\ rank[i] \in Int /\ rank[j] \in Int
    BY <1>1, <1>4 DEF slots
  <2>2. ~ (key[j] < key[i])
    BY <1>3, <2>1
  <2>3. key[i] # key[j]
    BY <2>1
  <2>4. key[i] \in Nat /\ key[j] \in Nat
    OBVIOUS
  <2> QED
    BY <2>2, <2>3, <2>4
<1> QED
  BY <1>7, <1>8, <1>9 DEF size

-----------------------------------------------------------------------------
(* Byte strings                                                            *)

LEMMA FunctionIsSeq ==
  ASSUME NEW S, NEW n \in Nat, NEW f \in [1 .. n -> S]
  PROVE  f \in Seq(S) /\ Len(f) = n
<1>1. f \in Seq(S)
  BY SeqDef
<1>2. Len(f) \in Nat /\ DOMAIN f = 1 .. Len(f) /\ DOMAIN f = 1 .. n
  BY <1>1
<1>3. Len(f) = n
  BY <1>2
<1> QED
  BY <1>1, <1>3

\* The rest of a byte string, and its beginning.
LEMMA FromFacts ==
  ASSUME NEW S, NEW s \in Seq(S), NEW n \in 0 .. Len(s)
  PROVE  /\ From(s, n) \in Seq(S) /\ Len(From(s, n)) = Len(s) - n
         /\ \A i \in 1 .. (Len(s) - n) : From(s, n)[i] = s[n + i]
<1>1. Len(s) \in Nat /\ n \in Nat /\ n <= Len(s)
  OBVIOUS
<1>2. \A i \in (n + 1) .. Len(s) : s[i] \in S
  BY <1>1
<1>3. /\ SubSeq(s, n + 1, Len(s)) \in Seq(S)
      /\ Len(SubSeq(s, n + 1, Len(s))) =
           IF n + 1 <= Len(s) THEN Len(s) - (n + 1) + 1 ELSE 0
      /\ \A i \in 1 .. (Len(s) - (n + 1) + 1) :
           SubSeq(s, n + 1, Len(s))[i] = s[(n + 1) + i - 1]
  <2>1. n + 1 \in Int /\ Len(s) \in Int
    BY <1>1
  <2> QED
    BY <1>2, <2>1, SubSeqProperties
<1>4. Len(From(s, n)) = Len(s) - n
  BY <1>1, <1>3 DEF From
<1>5. ASSUME NEW i \in 1 .. (Len(s) - n) PROVE From(s, n)[i] = s[n + i]
  <2>1. i \in 1 .. (Len(s) - (n + 1) + 1) /\ (n + 1) + i - 1 = n + i
    BY <1>1
  <2> QED
    BY <1>3, <2>1 DEF From
<1> QED
  BY <1>3, <1>4, <1>5 DEF From

LEMMA FirstFacts ==
  ASSUME NEW S, NEW s \in Seq(S), NEW n \in 0 .. Len(s)
  PROVE  /\ First(s, n) \in Seq(S) /\ Len(First(s, n)) = n
         /\ \A i \in 1 .. n : First(s, n)[i] = s[i]
<1>1. Len(s) \in Nat /\ n \in Nat /\ n <= Len(s)
  OBVIOUS
<1>2. \A i \in 1 .. n : s[i] \in S
  BY <1>1
<1>3. /\ SubSeq(s, 1, n) \in Seq(S)
      /\ Len(SubSeq(s, 1, n)) = IF 1 <= n THEN n - 1 + 1 ELSE 0
      /\ \A i \in 1 .. (n - 1 + 1) : SubSeq(s, 1, n)[i] = s[1 + i - 1]
  <2>1. 1 \in Int /\ n \in Int
    BY <1>1
  <2> QED
    BY <1>2, <2>1, SubSeqProperties
<1>4. ASSUME NEW i \in 1 .. n PROVE First(s, n)[i] = s[i]
  <2>1. i \in 1 .. (n - 1 + 1) /\ 1 + i - 1 = i
    BY <1>1
  <2> QED
    BY <1>3, <2>1 DEF First
<1>5. Len(First(s, n)) = n
  BY <1>1, <1>3 DEF First
<1> QED
  BY <1>3, <1>4, <1>5 DEF First

\* What buf holds from off on is s, as far as buf goes.
HasAt(buf, off, s) ==
  \A i \in 1 .. Len(s) : off + i <= Len(buf) => buf[off + i] = s[i]

LEMMA HasAtConcat ==
  ASSUME NEW S, NEW buf \in Seq(S), NEW off \in Nat,
         NEW s \in Seq(S), NEW t \in Seq(S), HasAt(buf, off, s \o t)
  PROVE  HasAt(buf, off, s) /\ HasAt(buf, off + Len(s), t)
<1>1. /\ Len(s \o t) = Len(s) + Len(t) /\ Len(s) \in Nat /\ Len(t) \in Nat
      /\ \A i \in 1 .. (Len(s) + Len(t)) :
           (s \o t)[i] = IF i <= Len(s) THEN s[i] ELSE t[i - Len(s)]
  BY ConcatProperties
<1>2. Len(buf) \in Nat
  OBVIOUS
<1>3. ASSUME NEW i \in 1 .. Len(s), off + i <= Len(buf)
      PROVE  buf[off + i] = s[i]
  <2>1. i \in 1 .. (Len(s) + Len(t)) /\ i <= Len(s)
    BY <1>1
  <2>2. (s \o t)[i] = s[i]
    BY <1>1, <2>1
  <2> QED
    BY <1>1, <1>3, <2>1, <2>2 DEF HasAt
<1>4. ASSUME NEW i \in 1 .. Len(t), (off + Len(s)) + i <= Len(buf)
      PROVE  buf[(off + Len(s)) + i] = t[i]
  <2> DEFINE j == Len(s) + i
  <2>1. /\ j \in 1 .. (Len(s) + Len(t)) /\ ~ (j <= Len(s)) /\ j - Len(s) = i
        /\ off + j = (off + Len(s)) + i
    BY <1>1
  <2> HIDE DEF j
  <2>2. (s \o t)[j] = t[i]
    BY <1>1, <2>1
  <2>3. buf[off + j] = (s \o t)[j]
    BY <1>1, <1>4, <2>1 DEF HasAt
  <2> QED
    BY <2>1, <2>2, <2>3
<1> QED
  BY <1>3, <1>4 DEF HasAt

\* The rest of buf from m on has what buf has m further on.
LEMMA HasAtFrom ==
  ASSUME NEW S, NEW buf \in Seq(S), NEW m \in 0 .. Len(buf), NEW off \in Nat,
         NEW s \in Seq(S), HasAt(buf, m + off, s)
  PROVE  HasAt(From(buf, m), off, s)
<1>1. /\ Len(From(buf, m)) = Len(buf) - m
      /\ \A i \in 1 .. (Len(buf) - m) : From(buf, m)[i] = buf[m + i]
      /\ Len(buf) \in Nat /\ m \in Nat /\ Len(s) \in Nat
  <2>1. /\ Len(From(buf, m)) = Len(buf) - m
        /\ \A i \in 1 .. (Len(buf) - m) : From(buf, m)[i] = buf[m + i]
    BY FromFacts
  <2>2. Len(buf) \in Nat /\ m \in Nat /\ Len(s) \in Nat
    OBVIOUS
  <2> QED
    BY <2>1, <2>2
<1> SUFFICES ASSUME NEW i \in 1 .. Len(s), off + i <= Len(From(buf, m))
             PROVE  From(buf, m)[off + i] = s[i]
  BY DEF HasAt
<1>2. /\ off + i \in 1 .. (Len(buf) - m) /\ m + (off + i) = (m + off) + i
      /\ (m + off) + i <= Len(buf)
  BY <1>1
<1>3. From(buf, m)[off + i] = buf[m + (off + i)]
  BY <1>1, <1>2
<1>4. buf[(m + off) + i] = s[i]
  BY <1>2 DEF HasAt
<1> QED
  BY <1>2, <1>3, <1>4

\* The beginning of buf, if it is long enough.
LEMMA HasAtFirst ==
  ASSUME NEW S, NEW buf \in Seq(S), NEW s \in Seq(S), HasAt(buf, 0, s),
         Len(s) <= Len(buf)
  PROVE  First(buf, Len(s)) = s
<1>1. Len(s) \in 0 .. Len(buf) /\ Len(s) \in Nat /\ Len(buf) \in Nat
  OBVIOUS
<1>2. /\ First(buf, Len(s)) \in Seq(S) /\ Len(First(buf, Len(s))) = Len(s)
      /\ \A i \in 1 .. Len(s) : First(buf, Len(s))[i] = buf[i]
  BY <1>1, FirstFacts
<1>3. ASSUME NEW i \in 1 .. Len(s) PROVE First(buf, Len(s))[i] = s[i]
  <2>1. 0 + i <= Len(buf) /\ 0 + i = i
    BY <1>1
  <2> QED
    BY <1>2, <2>1 DEF HasAt
<1> QED
  BY <1>2, <1>3, SeqEqual

-----------------------------------------------------------------------------
(* Ports                                                                   *)

LEMMA PortBytes ==
  ASSUME NEW n \in Nat
  PROVE  /\ to_be_bytes(n, 2) \in [1 .. 2 -> Nat]
         /\ to_be_bytes(n, 2)[1] = (n \div Base) % Base
         /\ to_be_bytes(n, 2)[2] = n % Base
<1> DEFINE Def(f) == f = [i \in 0 .. 2 |-> IF i = 0 THEN n
                                           ELSE f[i - 1] \div Base]
           rest == CHOOSE f : Def(f)
           g == [i \in 0 .. 2 |->
                   IF i = 0 THEN n
                   ELSE IF i = 1 THEN n \div Base
                   ELSE (n \div Base) \div Base]
<1>1. Def(g)
  <2>1. g[0] = n /\ g[1] = n \div Base /\ g[2] = (n \div Base) \div Base
    OBVIOUS
  <2>2. \A i \in 0 .. 2 : g[i] = IF i = 0 THEN n ELSE g[i - 1] \div Base
    <3> TAKE i \in 0 .. 2
    <3>1. i = 0 \/ i = 1 \/ i = 2
      OBVIOUS
    <3> HIDE DEF g
    <3> QED
      BY <2>1, <3>1
  <2>3. g = [i \in 0 .. 2 |-> g[i]]
    OBVIOUS
  <2> HIDE DEF g
  <2> QED
    BY <2>2, <2>3
<1>2. Def(rest)
  <2> HIDE DEF g, Def
  <2> QED
    BY <1>1
<1>3. to_le_bytes(n, 2) = [i \in 1 .. 2 |-> rest[i - 1] % Base]
  BY DEF to_le_bytes
<1> HIDE DEF rest
<1>4. rest[0] = n /\ rest[1] = rest[0] \div Base
  <2>1. 0 \in 0 .. 2 /\ 1 \in 0 .. 2 /\ 1 # 0 /\ 1 - 1 = 0
    OBVIOUS
  <2> QED
    BY <1>2, <2>1
<1>5. /\ to_le_bytes(n, 2)[1] = n % Base
      /\ to_le_bytes(n, 2)[2] = (n \div Base) % Base
  <2>1. 1 \in 1 .. 2 /\ 2 \in 1 .. 2 /\ 1 - 1 = 0 /\ 2 - 1 = 1
    OBVIOUS
  <2> QED
    BY <1>3, <1>4, <2>1
<1>6. /\ to_be_bytes(n, 2) = [i \in 1 .. 2 |-> to_le_bytes(n, 2)[2 + 1 - i]]
  BY DEF to_be_bytes
<1>7. n % Base \in Nat /\ (n \div Base) % Base \in Nat
  BY BaseAssumption
<1>8. /\ to_be_bytes(n, 2)[1] = (n \div Base) % Base
      /\ to_be_bytes(n, 2)[2] = n % Base
  <2>1. 1 \in 1 .. 2 /\ 2 \in 1 .. 2 /\ 2 + 1 - 1 = 2 /\ 2 + 1 - 2 = 1
    OBVIOUS
  <2> QED
    BY <1>5, <1>6, <2>1
<1>9. to_be_bytes(n, 2) \in [1 .. 2 -> Nat]
  <2>1. \A i \in 1 .. 2 : i = 1 \/ i = 2
    OBVIOUS
  <2>2. to_be_bytes(n, 2) = [i \in 1 .. 2 |-> to_be_bytes(n, 2)[i]]
    BY <1>6
  <2> QED
    BY <1>7, <1>8, <2>1, <2>2
<1> QED
  BY <1>8, <1>9

LEMMA PortValue ==
  ASSUME NEW s \in [1 .. 2 -> Nat]
  PROVE  from_be_bytes(s) = s[1] * Base + s[2]
<1> DEFINE Def(f) == f = [i \in 0 .. 2 |-> IF i = 0 THEN 0
                                           ELSE f[i - 1] * Base + s[i]]
           value == CHOOSE f : Def(f)
           g == [i \in 0 .. 2 |-> IF i = 0 THEN 0
                                  ELSE IF i = 1 THEN 0 * Base + s[1]
                                  ELSE (0 * Base + s[1]) * Base + s[2]]
<1>1. Def(g)
  <2>1. /\ g[0] = 0 /\ g[1] = 0 * Base + s[1]
        /\ g[2] = (0 * Base + s[1]) * Base + s[2]
    OBVIOUS
  <2>2. \A i \in 0 .. 2 : g[i] = IF i = 0 THEN 0 ELSE g[i - 1] * Base + s[i]
    <3> TAKE i \in 0 .. 2
    <3>1. i = 0 \/ i = 1 \/ i = 2
      OBVIOUS
    <3> HIDE DEF g
    <3> QED
      BY <2>1, <3>1
  <2>3. g = [i \in 0 .. 2 |-> g[i]]
    OBVIOUS
  <2> HIDE DEF g
  <2> QED
    BY <2>2, <2>3
<1>2. Def(value)
  <2> HIDE DEF g, Def
  <2> QED
    BY <1>1
<1>3. Len(s) = 2
  BY FunctionIsSeq
<1>4. from_be_bytes(s) = value[2]
  BY <1>3 DEF from_be_bytes
<1> HIDE DEF value
<1>5. /\ value[0] = 0 /\ value[1] = value[0] * Base + s[1]
      /\ value[2] = value[1] * Base + s[2]
  <2>1. /\ 0 \in 0 .. 2 /\ 1 \in 0 .. 2 /\ 2 \in 0 .. 2 /\ 1 # 0 /\ 2 # 0
        /\ 1 - 1 = 0 /\ 2 - 1 = 1
    OBVIOUS
  <2> QED
    BY <1>2, <2>1
<1>6. value[1] = s[1]
  BY <1>5, BaseAssumption
<1> QED
  BY <1>4, <1>5, <1>6

\* A port is read as it was written.
LEMMA PortRoundTrip ==
  ASSUME NEW n \in 0 .. (Base * Base - 1)
  PROVE  from_be_bytes(to_be_bytes(n, 2)) = n
<1>1. Base \in Nat /\ Base > 1 /\ n \in Nat /\ n < Base * Base
  BY BaseAssumption
<1> DEFINE q == n \div Base
           r == n % Base
<1>2. q \in Nat /\ r \in Nat /\ n = q * Base + r /\ r < Base
  BY <1>1
<1>3. q < Base
  <2> HIDE DEF q, r
  <2> SUFFICES ASSUME q >= Base PROVE FALSE
    BY <1>1, <1>2
  <2>1. q * Base >= Base * Base
    BY <1>1, <1>2
  <2> QED
    BY <1>1, <1>2, <2>1
<1>4. q % Base = q
  <2> HIDE DEF q, r
  <2> QED
    BY <1>1, <1>2, <1>3
<1>5. from_be_bytes(to_be_bytes(n, 2)) = (q % Base) * Base + r
  BY <1>1, PortBytes, PortValue
<1> HIDE DEF q, r
<1> QED
  BY <1>2, <1>4, <1>5

-----------------------------------------------------------------------------
(* Addresses                                                               *)

WidthOf(addr) == IF addr.kind = ADDR_KIND_V4 THEN V4_LEN ELSE V6_LEN

LEMMA AddrFacts ==
  ASSUME NEW addr, IsAddr(addr)
  PROVE  /\ addr = UdpAddr(addr.kind, addr.ip, addr.port, addr.scope)
         /\ addr.kind \in {ADDR_KIND_V4, ADDR_KIND_V6}
         /\ addr.ip \in Seq(Nat) /\ Len(addr.ip) = WidthOf(addr)
         /\ addr.port \in 0 .. (Base * Base - 1)
         /\ WidthOf(addr) \in Nat
         /\ Unscoped(addr) = UdpAddr(addr.kind, addr.ip, addr.port, 0)
<1>1. V4_LEN \in Nat /\ V6_LEN \in Nat /\ ADDR_KIND_V4 # ADDR_KIND_V6
  BY WidthsAssumption DEF ADDR_KIND_V4, ADDR_KIND_V6
<1>2. Byte \subseteq Nat
  BY BaseAssumption DEF Byte
<1>3. \/ addr.kind = ADDR_KIND_V4 /\ addr.ip \in [1 .. V4_LEN -> Nat]
      \/ addr.kind = ADDR_KIND_V6 /\ addr.ip \in [1 .. V6_LEN -> Nat]
  BY <1>2 DEF IsAddr
<1>4. addr.ip \in Seq(Nat) /\ Len(addr.ip) = WidthOf(addr)
  BY <1>1, <1>3, FunctionIsSeq DEF WidthOf
<1>5. Unscoped(addr) = UdpAddr(addr.kind, addr.ip, addr.port, 0)
  BY DEF IsAddr, UdpAddr, Unscoped
<1> QED
  BY <1>1, <1>3, <1>4, <1>5 DEF IsAddr, WidthOf

LEMMA UnscopedIsAddr ==
  ASSUME NEW addr, IsAddr(addr)
  PROVE  /\ IsAddr(Unscoped(addr))
         /\ encode_addr(Unscoped(addr)) = encode_addr(addr)
         /\ WidthOf(Unscoped(addr)) = WidthOf(addr)
         /\ Unscoped(addr).kind = addr.kind
<1>1. Unscoped(addr) = UdpAddr(addr.kind, addr.ip, addr.port, 0)
  BY AddrFacts
<1> DEFINE u == Unscoped(addr)
<1>2. u.kind = addr.kind /\ u.ip = addr.ip /\ u.port = addr.port /\ u.scope = 0
  BY <1>1 DEF UdpAddr
<1> HIDE DEF u
<1>3. IsAddr(u)
  BY <1>1, <1>2 DEF IsAddr, u
<1> QED
  BY <1>2, <1>3 DEF u, encode_addr, WidthOf

LEMMA AddrBytes ==
  ASSUME NEW addr, IsAddr(addr)
  PROVE  /\ encode_addr(addr) \in Seq(Nat)
         /\ Len(encode_addr(addr)) = 1 + WidthOf(addr) + PORT_LEN
<1>1. /\ addr.kind \in Nat /\ addr.ip \in Seq(Nat)
      /\ Len(addr.ip) = WidthOf(addr) /\ addr.port \in Nat
      /\ WidthOf(addr) \in Nat
  BY AddrFacts, BaseAssumption DEF ADDR_KIND_V4, ADDR_KIND_V6
<1>2. /\ to_be_bytes(addr.port, PORT_LEN) \in Seq(Nat)
      /\ Len(to_be_bytes(addr.port, PORT_LEN)) = 2
  BY <1>1, PortBytes, FunctionIsSeq DEF PORT_LEN
<1>3. << addr.kind >> \in Seq(Nat) /\ Len(<< addr.kind >>) = 1
  BY <1>1
<1>4. /\ << addr.kind >> \o addr.ip \in Seq(Nat)
      /\ Len(<< addr.kind >> \o addr.ip) = 1 + WidthOf(addr)
  BY <1>1, <1>3, ConcatProperties
<1> DEFINE head == << addr.kind >> \o addr.ip
           port == to_be_bytes(addr.port, PORT_LEN)
<1>5. encode_addr(addr) = head \o port
  BY DEF encode_addr
<1>6. head \in Seq(Nat) /\ Len(head) = 1 + WidthOf(addr)
      /\ port \in Seq(Nat) /\ Len(port) = 2
  BY <1>2, <1>4
<1> HIDE DEF head, port
<1>7. head \o port \in Seq(Nat) /\ Len(head \o port) = Len(head) + Len(port)
  BY <1>6, ConcatProperties
<1> QED
  BY <1>1, <1>5, <1>6, <1>7 DEF PORT_LEN

LEMMA TailIsFrom ==
  ASSUME NEW S, NEW s \in Seq(S), s # << >>
  PROVE  /\ Tail(s) = From(s, 1) /\ Head(s) = s[1] /\ Len(s) \in Nat \ {0}
         /\ Tail(s) \in Seq(S) /\ Len(Tail(s)) = Len(s) - 1
<1>1. /\ Tail(s) \in Seq(S) /\ Len(Tail(s)) = Len(s) - 1 /\ Head(s) = s[1]
      /\ \A i \in 1 .. Len(Tail(s)) : Tail(s)[i] = s[i + 1]
  BY HeadTailProperties
<1>2. Len(s) \in Nat \ {0} /\ 1 \in 0 .. Len(s)
  BY EmptySeq
<1>3. /\ From(s, 1) \in Seq(S) /\ Len(From(s, 1)) = Len(s) - 1
      /\ \A i \in 1 .. (Len(s) - 1) : From(s, 1)[i] = s[1 + i]
  BY <1>2, FromFacts
<1>4. \A i \in 1 .. Len(Tail(s)) : Tail(s)[i] = From(s, 1)[i]
  <2> TAKE i \in 1 .. Len(Tail(s))
  <2>1. i + 1 = 1 + i /\ i \in 1 .. (Len(s) - 1)
    BY <1>1, <1>2
  <2> QED
    BY <1>1, <1>3, <2>1
<1>5. Tail(s) = From(s, 1)
  BY <1>1, <1>3, <1>4, SeqEqual
<1> QED
  BY <1>1, <1>2, <1>5

\* An address is read as it was written, but for its scope; one that was cut
\* short is refused.
LEMMA DecodeAddr ==
  ASSUME NEW addr, IsAddr(addr), NEW buf \in Seq(Nat),
         HasAt(buf, 0, encode_addr(addr))
  PROVE  decode_addr(buf) =
           IF Len(encode_addr(addr)) <= Len(buf)
           THEN Ok(Unscoped(addr), Len(encode_addr(addr))) ELSE Err
<1> DEFINE w == WidthOf(addr)
           port == to_be_bytes(addr.port, PORT_LEN)
<1>1. /\ addr.kind \in {ADDR_KIND_V4, ADDR_KIND_V6} /\ addr.kind \in Nat
      /\ addr.ip \in Seq(Nat) /\ Len(addr.ip) = w /\ w \in Nat
      /\ Unscoped(addr) = UdpAddr(addr.kind, addr.ip, addr.port, 0)
  BY AddrFacts DEF ADDR_KIND_V4, ADDR_KIND_V6
<1>2. /\ port \in Seq(Nat) /\ Len(port) = 2 /\ from_be_bytes(port) = addr.port
      /\ addr.port \in Nat
  <2>1. addr.port \in 0 .. (Base * Base - 1) /\ addr.port \in Nat
    BY AddrFacts, BaseAssumption
  <2>2. port \in Seq(Nat) /\ Len(port) = 2
    BY <2>1, PortBytes, FunctionIsSeq DEF PORT_LEN
  <2> QED
    BY <2>1, <2>2, PortRoundTrip DEF PORT_LEN
<1>3. Len(encode_addr(addr)) = 1 + w + 2
  BY AddrBytes DEF PORT_LEN
<1>4. CASE buf = << >>
  <2>1. Len(buf) = 0
    BY <1>4
  <2> HIDE DEF w
  <2>2. ~ (Len(encode_addr(addr)) <= Len(buf))
    BY <1>1, <1>3, <2>1
  <2> QED
    BY <1>4, <2>2 DEF decode_addr
<1>5. CASE buf # << >>
  <2> DEFINE body == Tail(buf)
  <2>1. /\ body = From(buf, 1) /\ Head(buf) = buf[1] /\ Len(buf) \in Nat \ {0}
        /\ body \in Seq(Nat) /\ Len(body) = Len(buf) - 1 /\ 1 \in 0 .. Len(buf)
    BY <1>5, TailIsFrom
  <2>2. << addr.kind >> \in Seq(Nat) /\ Len(<< addr.kind >>) = 1
        /\ << addr.kind >>[1] = addr.kind
    BY <1>1
  <2>3. /\ HasAt(buf, 0, << addr.kind >>) /\ HasAt(buf, 1, addr.ip)
        /\ HasAt(buf, 1 + w, port)
    <3> DEFINE head == << addr.kind >> \o addr.ip
    <3>1. head \in Seq(Nat) /\ Len(head) = 1 + w
      BY <1>1, <2>2, ConcatProperties
    <3>2. encode_addr(addr) = head \o port
      BY DEF encode_addr
    <3> HIDE DEF w, port
    <3>3. HasAt(buf, 0, << addr.kind >>) /\ HasAt(buf, 0 + 1, addr.ip)
      <4>1. HasAt(buf, 0, head)
        <5> HIDE DEF head
        <5> QED
          BY <1>2, <3>1, <3>2, HasAtConcat
      <4>2. 0 \in Nat
        OBVIOUS
      <4> QED
        BY <1>1, <2>2, <4>1, <4>2, HasAtConcat
    <3>4. HasAt(buf, 0 + Len(head), port)
      <4> HIDE DEF head
      <4> QED
        BY <1>2, <3>1, <3>2, HasAtConcat
    <3>5. 0 + Len(head) = 1 + w
      BY <1>1, <3>1
    <3> QED
      BY <3>3, <3>4, <3>5
  <2>4. Head(buf) = addr.kind
    <3>1. 1 \in 1 .. Len(<< addr.kind >>) /\ 0 + 1 <= Len(buf)
      BY <2>1, <2>2
    <3> QED
      BY <2>1, <2>2, <2>3, <3>1 DEF HasAt
  <2>5. HasAt(body, 0, addr.ip) /\ HasAt(body, w, port)
    <3> HIDE DEF w, port, body
    <3>1. HasAt(buf, 1 + 0, addr.ip)
      BY <2>3
    <3> QED
      BY <1>1, <1>2, <2>1, <2>3, <3>1, HasAtFrom
  <2>6. decode_addr(buf) = decode_body(addr.kind, w, body)
    BY <1>1, <1>5, <2>4 DEF decode_addr, WidthOf, ADDR_KIND_V4, ADDR_KIND_V6
  <2> HIDE DEF body, w, port
  <2>7. CASE Len(body) < w + 2
    <3>1. ~ (Len(encode_addr(addr)) <= Len(buf))
      BY <1>1, <1>3, <2>1, <2>7
    <3> QED
      BY <2>6, <2>7, <3>1 DEF decode_body, PORT_LEN
  <2>8. CASE ~ (Len(body) < w + 2)
    <3>1. /\ Len(encode_addr(addr)) <= Len(buf)
          /\ w \in 0 .. Len(body) /\ w <= Len(body) /\ 2 <= Len(body) - w
      BY <1>1, <1>3, <2>1, <2>8
    <3>2. First(body, w) = addr.ip
      BY <1>1, <2>1, <2>5, <3>1, HasAtFirst
    <3>3. From(body, w) \in Seq(Nat) /\ Len(From(body, w)) = Len(body) - w
      BY <2>1, <3>1, FromFacts
    <3>4. HasAt(From(body, w), 0, port)
      <4>1. HasAt(body, w + 0, port)
        BY <1>1, <2>5
      <4> QED
        BY <1>2, <2>1, <3>1, <4>1, HasAtFrom
    <3>5. First(From(body, w), PORT_LEN) = port
      BY <1>2, <3>1, <3>3, <3>4, HasAtFirst DEF PORT_LEN
    <3>6. decode_body(addr.kind, w, body) = Ok(Unscoped(addr), 1 + w + PORT_LEN)
      BY <1>1, <1>2, <2>8, <3>2, <3>5 DEF decode_body, PORT_LEN
    <3> QED
      BY <1>3, <2>6, <3>1, <3>6 DEF PORT_LEN
  <2> QED
    BY <2>7, <2>8
<1> QED
  BY <1>4, <1>5

\* A port is written as it was read.
LEMMA PortWritten ==
  ASSUME NEW s \in [1 .. 2 -> Byte]
  PROVE  /\ from_be_bytes(s) \in 0 .. (Base * Base - 1)
         /\ to_be_bytes(from_be_bytes(s), 2) = s
<1> DEFINE n == from_be_bytes(s)
           b == to_be_bytes(n, 2)
<1>1. Base \in Nat /\ Base > 1
  BY BaseAssumption
<1>2. s[1] \in 0 .. (Base - 1) /\ s[2] \in 0 .. (Base - 1) /\ s \in [1 .. 2 -> Nat]
  BY <1>1 DEF Byte
<1>3. n = s[1] * Base + s[2]
  BY <1>2, PortValue
<1> HIDE DEF n
<1>4. n \in Nat /\ n < Base * Base
  <2>1. s[1] * Base \in Nat
    BY <1>1, <1>2
  <2>2. s[1] * Base <= (Base - 1) * Base
    BY <1>1, <1>2
  <2>3. (Base - 1) * Base = Base * Base - Base /\ Base * Base \in Nat
    BY <1>1
  <2> QED
    BY <1>1, <1>2, <1>3, <2>1, <2>2, <2>3
<1>5. n \div Base = s[1] /\ n % Base = s[2]
  <2> DEFINE q == n \div Base
             r == n % Base
  <2>1. q \in Nat /\ r \in 0 .. (Base - 1) /\ n = q * Base + r
    BY <1>1, <1>4
  <2> HIDE DEF q, r
  <2>2. q * Base + r = s[1] * Base + s[2]
    BY <1>3, <2>1
  <2>3. q = s[1]
    <3>1. ASSUME q < s[1] PROVE FALSE
      <4>1. (q + 1) * Base <= s[1] * Base
        BY <1>1, <1>2, <2>1, <3>1
      <4>2. (q + 1) * Base = q * Base + Base /\ q * Base \in Nat
            /\ s[1] * Base \in Nat
        BY <1>1, <1>2, <2>1
      <4> QED
        BY <1>1, <1>2, <2>1, <2>2, <4>1, <4>2
    <3>2. ASSUME s[1] < q PROVE FALSE
      <4>1. (s[1] + 1) * Base <= q * Base
        BY <1>1, <1>2, <2>1, <3>2
      <4>2. (s[1] + 1) * Base = s[1] * Base + Base /\ q * Base \in Nat
            /\ s[1] * Base \in Nat
        BY <1>1, <1>2, <2>1
      <4> QED
        BY <1>1, <1>2, <2>1, <2>2, <4>1, <4>2
    <3> QED
      BY <1>2, <2>1, <3>1, <3>2
  <2>4. q * Base \in Nat
    BY <1>1, <2>1
  <2>5. r = s[2]
    BY <1>2, <2>1, <2>2, <2>3, <2>4
  <2> QED
    BY <2>3, <2>5 DEF q, r
<1>6. s[1] % Base = s[1]
  BY <1>1, <1>2
<1>7. b \in [1 .. 2 -> Nat] /\ b[1] = s[1] /\ b[2] = s[2]
  BY <1>4, <1>5, <1>6, PortBytes
<1> HIDE DEF b
<1>8. \A i \in 1 .. 2 : b[i] = s[i]
  <2>1. \A i \in 1 .. 2 : i = 1 \/ i = 2
    OBVIOUS
  <2> QED
    BY <1>7, <2>1
<1>9. b = s
  BY <1>2, <1>7, <1>8
<1> QED
  BY <1>1, <1>4, <1>9 DEF n, b

\* A byte string, its beginning and its rest.
LEMMA FirstThenFrom ==
  ASSUME NEW S, NEW s \in Seq(S), NEW n \in 0 .. Len(s)
  PROVE  First(s, n) \o From(s, n) = s
<1> DEFINE f == First(s, n)
           r == From(s, n)
<1>1. /\ f \in Seq(S) /\ Len(f) = n /\ \A i \in 1 .. n : f[i] = s[i]
  BY FirstFacts
<1>2. /\ r \in Seq(S) /\ Len(r) = Len(s) - n
      /\ \A i \in 1 .. (Len(s) - n) : r[i] = s[n + i]
  BY FromFacts
<1>3. Len(s) \in Nat /\ n \in Nat /\ n <= Len(s)
  OBVIOUS
<1> HIDE DEF f, r
<1>4. /\ f \o r \in Seq(S) /\ Len(f \o r) = Len(f) + Len(r)
      /\ \A i \in 1 .. (Len(f) + Len(r)) :
           (f \o r)[i] = IF i <= Len(f) THEN f[i] ELSE r[i - Len(f)]
  BY <1>1, <1>2, ConcatProperties
<1>5. Len(f \o r) = Len(s)
  BY <1>1, <1>2, <1>3, <1>4
<1>6. ASSUME NEW i \in 1 .. Len(s) PROVE (f \o r)[i] = s[i]
  <2>1. i \in 1 .. (Len(f) + Len(r))
    BY <1>1, <1>2, <1>3
  <2>2. CASE i <= n
    <3>1. i \in 1 .. n
      BY <1>3, <2>2
    <3>2. (f \o r)[i] = f[i]
      BY <1>1, <1>4, <2>1, <2>2
    <3> QED
      BY <1>1, <3>1, <3>2
  <2>3. CASE ~ (i <= n)
    <3>1. i - n \in 1 .. (Len(s) - n) /\ n + (i - n) = i
      BY <1>3, <2>3
    <3>2. (f \o r)[i] = r[i - n]
      BY <1>1, <1>4, <2>1, <2>3
    <3> QED
      BY <1>2, <3>1, <3>2
  <2> QED
    BY <2>2, <2>3
<1>7. f \o r = s
  BY <1>4, <1>5, <1>6, SeqEqual
<1> QED
  BY <1>7 DEF f, r

LEMMA ConcatParts ==
  ASSUME NEW S, NEW s \in Seq(S), NEW t \in Seq(S)
  PROVE  /\ HasAt(s \o t, 0, s) /\ From(s \o t, Len(s)) = t
         /\ s \o t \in Seq(S) /\ Len(s \o t) = Len(s) + Len(t)
<1> DEFINE c == s \o t
<1>1. /\ c \in Seq(S) /\ Len(c) = Len(s) + Len(t)
      /\ \A i \in 1 .. (Len(s) + Len(t)) :
           c[i] = IF i <= Len(s) THEN s[i] ELSE t[i - Len(s)]
  BY ConcatProperties
<1>2. Len(s) \in Nat /\ Len(t) \in Nat
  OBVIOUS
<1> HIDE DEF c
<1>3. HasAt(c, 0, s)
  <2> SUFFICES ASSUME NEW i \in 1 .. Len(s), 0 + i <= Len(c)
               PROVE  c[0 + i] = s[i]
    BY DEF HasAt
  <2>1. i \in 1 .. (Len(s) + Len(t)) /\ i <= Len(s) /\ 0 + i = i
    BY <1>2
  <2> QED
    BY <1>1, <2>1
<1>4. From(c, Len(s)) = t
  <2>1. Len(s) \in 0 .. Len(c) /\ Len(c) - Len(s) = Len(t)
    BY <1>1, <1>2
  <2>2. /\ From(c, Len(s)) \in Seq(S) /\ Len(From(c, Len(s))) = Len(t)
        /\ \A i \in 1 .. Len(t) : From(c, Len(s))[i] = c[Len(s) + i]
    BY <1>1, <2>1, FromFacts
  <2>3. ASSUME NEW i \in 1 .. Len(t) PROVE From(c, Len(s))[i] = t[i]
    <3> DEFINE j == Len(s) + i
    <3>1. /\ j \in 1 .. (Len(s) + Len(t)) /\ ~ (j <= Len(s))
          /\ j - Len(s) = i
      BY <1>2
    <3> HIDE DEF j
    <3>2. c[j] = t[i]
      BY <1>1, <3>1
    <3> QED
      BY <2>2, <3>2 DEF j
  <2> QED
    BY <2>2, <2>3, SeqEqual
<1> QED
  BY <1>1, <1>3, <1>4 DEF c

\* What is read as an address is what would be written for it.
LEMMA AddrWritten ==
  ASSUME NEW buf \in Seq(Byte), decode_addr(buf).ok
  PROVE  LET d == decode_addr(buf)
         IN /\ IsAddr(d.value) /\ d.consumed \in 0 .. Len(buf)
            /\ encode_addr(d.value) = First(buf, d.consumed)
<1>1. buf # << >>
  BY DEF decode_addr, Err
<1> DEFINE body == Tail(buf)
           kind == Head(buf)
<1>2. /\ body = From(buf, 1) /\ kind = buf[1] /\ Len(buf) \in Nat \ {0}
      /\ body \in Seq(Byte) /\ Len(body) = Len(buf) - 1
  BY <1>1, TailIsFrom
<1> HIDE DEF body
<1>3. PICK w \in Nat :
        /\ \/ kind = ADDR_KIND_V4 /\ w = V4_LEN
           \/ kind = ADDR_KIND_V6 /\ w = V6_LEN
        /\ decode_addr(buf) = decode_body(kind, w, body)
  <2>1. CASE kind = ADDR_KIND_V4
    BY <1>1, <2>1, WidthsAssumption DEF decode_addr, body
  <2>2. CASE kind = ADDR_KIND_V6
    <3>1. ADDR_KIND_V6 # ADDR_KIND_V4
      BY DEF ADDR_KIND_V4, ADDR_KIND_V6
    <3> QED
      BY <1>1, <2>2, <3>1, WidthsAssumption DEF decode_addr, body
  <2>3. CASE kind # ADDR_KIND_V4 /\ kind # ADDR_KIND_V6
    BY <1>1, <2>3 DEF decode_addr, Err
  <2> QED
    BY <2>1, <2>2, <2>3
<1> DEFINE ip == First(body, w)
           rest == From(body, w)
           port == First(rest, 2)
           addr == UdpAddr(kind, ip, from_be_bytes(port), 0)
<1>4. /\ ~ (Len(body) < w + 2)
      /\ decode_addr(buf) = Ok(addr, 1 + w + 2)
  <2>1. ~ (Len(body) < w + 2)
    BY <1>3 DEF decode_body, Err, PORT_LEN
  <2> QED
    BY <1>3, <2>1 DEF decode_body, PORT_LEN
<1>5. w \in 0 .. Len(body) /\ w + 2 <= Len(body) /\ Len(body) \in Nat
  BY <1>2, <1>4
<1>6. ip \in Seq(Byte) /\ Len(ip) = w /\ \A i \in 1 .. w : ip[i] = body[i]
  BY <1>2, <1>5, FirstFacts
<1>7. /\ rest \in Seq(Byte) /\ Len(rest) = Len(body) - w
      /\ \A i \in 1 .. (Len(body) - w) : rest[i] = body[w + i]
  <2>1. body \in Seq(Byte) /\ w \in 0 .. Len(body)
    BY <1>2, <1>5
  <2> QED
    BY <2>1, FromFacts
<1> HIDE DEF ip, rest
<1>8. /\ port \in Seq(Byte) /\ Len(port) = 2
      /\ \A i \in 1 .. 2 : port[i] = rest[i]
  <2>1. 2 \in 0 .. Len(rest)
    BY <1>5, <1>7
  <2> QED
    BY <1>7, <2>1, FirstFacts
<1> HIDE DEF port
<1>9. ip \in [1 .. w -> Byte] /\ port \in [1 .. 2 -> Byte]
  <2>1. ip \in Seq(Byte) /\ port \in Seq(Byte)
    BY <1>6, <1>8
  <2>2. ip \in [1 .. Len(ip) -> Byte] /\ port \in [1 .. Len(port) -> Byte]
    BY <2>1, LenProperties
  <2>3. Len(ip) = w /\ Len(port) = 2
    BY <1>6, <1>8
  <2> QED
    BY <2>2, <2>3, Zenon
<1>10. /\ from_be_bytes(port) \in 0 .. (Base * Base - 1)
       /\ to_be_bytes(from_be_bytes(port), PORT_LEN) = port
  BY <1>9, PortWritten DEF PORT_LEN
<1>11. /\ addr.kind = kind /\ addr.ip = ip /\ addr.port = from_be_bytes(port)
       /\ addr.scope = 0
  BY DEF UdpAddr
<1>12. IsAddr(addr)
  BY <1>3, <1>9, <1>10, <1>11 DEF IsAddr
<1>13. encode_addr(addr) = (<< kind >> \o ip) \o port
  BY <1>10, <1>11 DEF encode_addr
<1> HIDE DEF addr
<1>14. << kind >> \in Seq(Byte) /\ Len(<< kind >>) = 1 /\ << kind >>[1] = kind
  BY <1>2
<1> HIDE DEF kind
<1> DEFINE h == << kind >> \o ip
           whole == h \o port
<1>15. /\ h \in Seq(Byte) /\ Len(h) = 1 + w
       /\ \A i \in 1 .. (1 + w) : h[i] = IF i <= 1 THEN << kind >>[i] ELSE ip[i - 1]
  BY <1>6, <1>14, ConcatProperties
<1> HIDE DEF h
<1>16. /\ whole \in Seq(Byte) /\ Len(whole) = (1 + w) + 2
       /\ \A i \in 1 .. ((1 + w) + 2) :
            whole[i] = IF i <= 1 + w THEN h[i] ELSE port[i - (1 + w)]
  <2>1. h \in Seq(Byte) /\ port \in Seq(Byte)
    BY <1>8, <1>15
  <2>2. /\ whole \in Seq(Byte) /\ Len(whole) = Len(h) + Len(port)
        /\ \A i \in 1 .. (Len(h) + Len(port)) :
             whole[i] = IF i <= Len(h) THEN h[i] ELSE port[i - Len(h)]
    BY <2>1, ConcatProperties
  <2>3. Len(h) = 1 + w /\ Len(port) = 2
    BY <1>8, <1>15
  <2> QED
    BY <2>2, <2>3, Zenon
<1> HIDE DEF whole
<1> DEFINE n == 1 + w + 2
           start == First(buf, n)
<1>17. n \in 0 .. Len(buf) /\ n = (1 + w) + 2
  BY <1>2, <1>5
<1>18. start \in Seq(Byte) /\ Len(start) = n /\ \A i \in 1 .. n : start[i] = buf[i]
  BY <1>17, FirstFacts
<1> HIDE DEF start
<1>19. ASSUME NEW i \in 1 .. Len(body) PROVE body[i] = buf[1 + i]
  <2>1. 1 \in 0 .. Len(buf) /\ Len(body) = Len(buf) - 1
    BY <1>2
  <2>2. \A m \in 1 .. (Len(buf) - 1) : From(buf, 1)[m] = buf[1 + m]
    BY <2>1, FromFacts
  <2> QED
    BY <1>2, <2>1, <2>2
<1>20. ASSUME NEW i \in 1 .. n PROVE whole[i] = start[i]
  <2>1. i \in 1 .. ((1 + w) + 2) /\ start[i] = buf[i] /\ i \in Nat
    BY <1>17, <1>18
  <2>2. CASE i = 1
    <3>1. i \in 1 .. (1 + w) /\ i <= 1 + w /\ i <= 1
      BY <2>2
    <3>2. whole[i] = h[i] /\ h[i] = << kind >>[i]
      BY <1>15, <1>16, <2>1, <3>1
    <3> QED
      BY <1>2, <1>14, <2>1, <2>2, <3>2
  <2>3. CASE i # 1 /\ i <= 1 + w
    <3>1. /\ i \in 1 .. (1 + w) /\ ~ (i <= 1) /\ i - 1 \in 1 .. w
          /\ i - 1 \in 1 .. Len(body) /\ 1 + (i - 1) = i
      BY <1>5, <2>1, <2>3
    <3>2. whole[i] = h[i] /\ h[i] = ip[i - 1]
      BY <1>15, <1>16, <2>1, <2>3, <3>1
    <3>3. ip[i - 1] = body[i - 1] /\ body[i - 1] = buf[1 + (i - 1)]
      BY <1>6, <1>19, <3>1
    <3> QED
      BY <2>1, <3>1, <3>2, <3>3
  <2>4. CASE ~ (i <= 1 + w)
    <3> DEFINE j == i - (1 + w)
    <3>1. /\ j \in 1 .. 2 /\ j \in 1 .. (Len(body) - w) /\ w + j \in 1 .. Len(body)
          /\ 1 + (w + j) = i
      BY <1>5, <2>1, <2>4
    <3> HIDE DEF j
    <3>2. whole[i] = port[j]
      BY <1>16, <2>1, <2>4 DEF j
    <3>3. port[j] = rest[j] /\ rest[j] = body[w + j]
      BY <1>7, <1>8, <3>1
    <3>4. body[w + j] = buf[1 + (w + j)]
      BY <1>19, <3>1
    <3> QED
      BY <2>1, <3>1, <3>2, <3>3, <3>4
  <2> QED
    BY <2>2, <2>3, <2>4
<1>21. whole = start
  BY <1>16, <1>17, <1>18, <1>20, SeqEqual
<1>22. decode_addr(buf).value = addr /\ decode_addr(buf).consumed = n
  BY <1>4 DEF Ok
<1> QED
  BY <1>12, <1>13, <1>17, <1>21, <1>22 DEF h, whole, start

-----------------------------------------------------------------------------
(* Integers of any width                                                   *)

LEMMA LimitPowers ==
  ASSUME NEW w \in Nat
  PROVE  \E p \in [0 .. w -> Nat] :
           /\ p[0] = 1 /\ \A i \in 1 .. w : p[i] = p[i - 1] * Base
           /\ Limit(w) = p[w]
<1> DEFINE Def(f) == f = [i \in 0 .. w |-> IF i = 0 THEN 1
                                           ELSE f[i - 1] * Base]
           power == CHOOSE f : Def(f)
           step == [x \in (1 .. w) \X Nat |-> x[2] * Base]
<1>1. Base \in Nat
  BY BaseAssumption
<1>2. step \in [(1 .. w) \X Nat -> Nat]
  BY <1>1
<1>3. PICK f : Computes(f, w, Nat, 1, step)
  <2> HIDE DEF step
  <2> QED
    BY <1>2, Recursion
<1>4. /\ f \in [0 .. w -> Nat] /\ f[0] = 1
      /\ \A i \in 1 .. w : f[i] = f[i - 1] * Base
  <2>1. /\ f \in [0 .. w -> Nat] /\ f[0] = 1
        /\ \A i \in 1 .. w : f[i] = step[<< i, f[i - 1] >>]
    BY <1>3 DEF Computes
  <2>2. ASSUME NEW i \in 1 .. w PROVE f[i] = f[i - 1] * Base
    <3>1. i - 1 \in 0 .. w
      OBVIOUS
    <3>2. f[i - 1] \in Nat
      BY <2>1, <3>1
    <3> QED
      BY <2>1, <3>2
  <2> QED
    BY <2>1, <2>2
<1>5. Def(f)
  <2>1. \A i \in 0 .. w : f[i] = IF i = 0 THEN 1 ELSE f[i - 1] * Base
    BY <1>4
  <2> QED
    BY <1>4, <2>1
<1>6. Def(power)
  <2> HIDE DEF Def
  <2> QED
    BY <1>5
<1>7. Limit(w) = power[w]
  BY DEF Limit
<1> HIDE DEF power
<1>8. \A i \in 0 .. w : power[i] = IF i = 0 THEN 1 ELSE power[i - 1] * Base
  BY <1>6
<1>9. power = [i \in 0 .. w |-> power[i]]
  BY <1>6
<1>10. \A i \in 0 .. w : power[i] \in Nat
  <2> DEFINE T == {i \in 0 .. w : power[i] \in Nat}
  <2>1. 0 \in T
    BY <1>8
  <2>2. ASSUME NEW i \in 0 .. (w - 1), i \in T PROVE i + 1 \in T
    <3>1. i + 1 \in 0 .. w /\ i + 1 # 0 /\ (i + 1) - 1 = i
      OBVIOUS
    <3>2. power[i + 1] = power[i] * Base
      BY <1>8, <3>1
    <3> QED
      BY <1>1, <2>2, <3>1, <3>2
  <2>3. 0 .. w \subseteq T
    <3> HIDE DEF T
    <3> QED
      BY <2>1, <2>2, Induction
  <2> QED
    BY <2>3
<1>11. \A i \in 1 .. w : power[i] = power[i - 1] * Base
  BY <1>8
<1>12. power \in [0 .. w -> Nat]
  BY <1>9, <1>10
<1> QED
  BY <1>7, <1>8, <1>11, <1>12

LEMMA LimitType ==
  ASSUME NEW w \in Nat
  PROVE  Limit(w) \in Nat
<1>1. PICK p \in [0 .. w -> Nat] : Limit(w) = p[w]
  BY LimitPowers
<1>2. w \in 0 .. w
  OBVIOUS
<1> QED
  BY <1>1, <1>2

\* What to_le_bytes divides, step by step.
LEMMA LeDigits ==
  ASSUME NEW n \in Nat, NEW w \in Nat
  PROVE  \E rest \in [0 .. w -> Nat] :
           /\ rest[0] = n
           /\ \A i \in 1 .. w : rest[i] = rest[i - 1] \div Base
           /\ to_le_bytes(n, w) = [i \in 1 .. w |-> rest[i - 1] % Base]
<1> DEFINE Def(f) == f = [i \in 0 .. w |-> IF i = 0 THEN n
                                           ELSE f[i - 1] \div Base]
           rest == CHOOSE f : Def(f)
           step == [x \in (1 .. w) \X Nat |-> x[2] \div Base]
<1>1. Base \in Nat /\ Base > 0
  BY BaseAssumption
<1>2. step \in [(1 .. w) \X Nat -> Nat]
  BY <1>1
<1>3. PICK f : Computes(f, w, Nat, n, step)
  <2> HIDE DEF step
  <2> QED
    BY <1>2, Recursion
<1>4. /\ f \in [0 .. w -> Nat] /\ f[0] = n
      /\ \A i \in 1 .. w : f[i] = f[i - 1] \div Base
  <2>1. /\ f \in [0 .. w -> Nat] /\ f[0] = n
        /\ \A i \in 1 .. w : f[i] = step[<< i, f[i - 1] >>]
    BY <1>3 DEF Computes
  <2>2. ASSUME NEW i \in 1 .. w PROVE f[i] = f[i - 1] \div Base
    <3>1. i - 1 \in 0 .. w
      OBVIOUS
    <3>2. f[i - 1] \in Nat
      BY <2>1, <3>1
    <3> QED
      BY <2>1, <3>2
  <2> QED
    BY <2>1, <2>2
<1>5. Def(f)
  <2>1. \A i \in 0 .. w : f[i] = IF i = 0 THEN n ELSE f[i - 1] \div Base
    BY <1>4
  <2> QED
    BY <1>4, <2>1
<1>6. Def(rest)
  <2> HIDE DEF Def
  <2> QED
    BY <1>5
<1>7. to_le_bytes(n, w) = [i \in 1 .. w |-> rest[i - 1] % Base]
  BY DEF to_le_bytes
<1> HIDE DEF rest
<1>8. \A i \in 0 .. w : rest[i] = IF i = 0 THEN n ELSE rest[i - 1] \div Base
  BY <1>6
<1>9. rest = [i \in 0 .. w |-> rest[i]]
  BY <1>6
<1>10. \A i \in 0 .. w : rest[i] \in Nat
  <2> DEFINE T == {i \in 0 .. w : rest[i] \in Nat}
  <2>1. 0 \in T
    BY <1>8
  <2>2. ASSUME NEW i \in 0 .. (w - 1), i \in T PROVE i + 1 \in T
    <3>1. i + 1 \in 0 .. w /\ i + 1 # 0 /\ (i + 1) - 1 = i
      OBVIOUS
    <3>2. rest[i + 1] = rest[i] \div Base
      BY <1>8, <3>1
    <3>3. rest[i] \in Nat
      BY <2>2
    <3> QED
      BY <1>1, <3>1, <3>2, <3>3
  <2>3. 0 .. w \subseteq T
    <3> HIDE DEF T
    <3> QED
      BY <2>1, <2>2, Induction
  <2> QED
    BY <2>3
<1>11. \A i \in 1 .. w : rest[i] = rest[i - 1] \div Base
  BY <1>8
<1>12. rest \in [0 .. w -> Nat]
  BY <1>9, <1>10
<1>13. rest[0] = n
  BY <1>8
<1> QED
  BY <1>7, <1>11, <1>12, <1>13

\* What from_be_bytes sums up, step by step.
LEMMA BeValue ==
  ASSUME NEW s \in Seq(Nat)
  PROVE  \E value \in [0 .. Len(s) -> Nat] :
           /\ value[0] = 0
           /\ \A i \in 1 .. Len(s) : value[i] = value[i - 1] * Base + s[i]
           /\ from_be_bytes(s) = value[Len(s)]
<1> DEFINE w == Len(s)
           Def(f) == f = [i \in 0 .. Len(s) |->
                            IF i = 0 THEN 0 ELSE f[i - 1] * Base + s[i]]
           value == CHOOSE f : Def(f)
           step == [x \in (1 .. w) \X Nat |-> x[2] * Base + s[x[1]]]
<1>1. Base \in Nat /\ w \in Nat /\ \A i \in 1 .. w : s[i] \in Nat
  BY BaseAssumption
<1>2. step \in [(1 .. w) \X Nat -> Nat]
  BY <1>1
<1>3. PICK f : Computes(f, w, Nat, 0, step)
  <2> HIDE DEF step, w
  <2> QED
    BY <1>1, <1>2, Recursion
<1>4. /\ f \in [0 .. w -> Nat] /\ f[0] = 0
      /\ \A i \in 1 .. w : f[i] = f[i - 1] * Base + s[i]
  <2>1. /\ f \in [0 .. w -> Nat] /\ f[0] = 0
        /\ \A i \in 1 .. w : f[i] = step[<< i, f[i - 1] >>]
    BY <1>3 DEF Computes
  <2>2. ASSUME NEW i \in 1 .. w PROVE f[i] = f[i - 1] * Base + s[i]
    <3>1. i - 1 \in 0 .. w
      BY <1>1
    <3>2. f[i - 1] \in Nat
      BY <2>1, <3>1
    <3> QED
      BY <2>1, <3>2
  <2> QED
    BY <2>1, <2>2
<1>5. Def(f)
  <2>1. \A i \in 0 .. w : f[i] = IF i = 0 THEN 0 ELSE f[i - 1] * Base + s[i]
    BY <1>1, <1>4
  <2> QED
    BY <1>4, <2>1
<1>6. Def(value)
  <2> HIDE DEF Def
  <2> QED
    BY <1>5
<1>7. from_be_bytes(s) = value[w]
  BY DEF from_be_bytes
<1> HIDE DEF value
<1>8. \A i \in 0 .. w :
        value[i] = IF i = 0 THEN 0 ELSE value[i - 1] * Base + s[i]
  BY <1>6
<1>9. value = [i \in 0 .. w |-> value[i]]
  BY <1>6
<1> HIDE DEF w
<1>10. \A i \in 0 .. w : value[i] \in Nat
  <2> DEFINE T == {i \in 0 .. w : value[i] \in Nat}
  <2>1. 0 \in T
    BY <1>1, <1>8
  <2>2. ASSUME NEW i \in 0 .. (w - 1), i \in T PROVE i + 1 \in T
    <3>1. i + 1 \in 0 .. w /\ i + 1 # 0 /\ (i + 1) - 1 = i /\ i + 1 \in 1 .. w
      BY <1>1
    <3>2. value[i + 1] = value[i] * Base + s[i + 1]
      BY <1>8, <3>1
    <3>3. value[i] \in Nat /\ s[i + 1] \in Nat
      BY <1>1, <2>2, <3>1
    <3>4. value[i] * Base + s[i + 1] \in Nat
      <4>1. \A x, y, z \in Nat : x * y + z \in Nat
        OBVIOUS
      <4>2. Base \in Nat
        BY <1>1
      <4> QED
        BY <3>3, <4>1, <4>2
    <3> QED
      BY <3>1, <3>2, <3>4
  <2>3. 0 .. w \subseteq T
    <3> HIDE DEF T
    <3> QED
      BY <1>1, <2>1, <2>2, Induction
  <2> QED
    BY <2>3
<1>11. \A i \in 1 .. w : value[i] = value[i - 1] * Base + s[i]
  BY <1>1, <1>8
<1>12. value \in [0 .. w -> Nat]
  BY <1>9, <1>10
<1>13. value[0] = 0
  BY <1>1, <1>8
<1> QED
  BY <1>7, <1>11, <1>12, <1>13 DEF w

\* Dividing below a multiple of Base, and putting together again.
LEMMA DivBase ==
  ASSUME NEW n \in Nat
  PROVE  /\ n \div Base \in Nat /\ n % Base \in Byte
         /\ n = (n \div Base) * Base + (n % Base)
         /\ \A m \in Nat : n < m * Base => n \div Base < m
<1>1. Base \in Nat /\ Base > 0
  BY BaseAssumption
<1> DEFINE q == n \div Base
           r == n % Base
<1>2. q \in Nat /\ r \in 0 .. (Base - 1) /\ n = q * Base + r
  BY <1>1
<1>3. ASSUME NEW m \in Nat, n < m * Base PROVE q < m
  <2> HIDE DEF q, r
  <2> SUFFICES ASSUME m <= q PROVE FALSE
    BY <1>2
  <2>1. m * Base <= q * Base
    BY <1>1, <1>2
  <2>2. m * Base \in Nat /\ q * Base \in Nat
    BY <1>1, <1>2
  <2> QED
    BY <1>2, <1>3, <2>1, <2>2
<1>4. r \in Byte
  BY <1>2 DEF Byte
<1> HIDE DEF q, r
<1>5. /\ q \in Nat /\ r \in Byte /\ n = q * Base + r
      /\ \A m \in Nat : n < m * Base => q < m
  BY <1>2, <1>3, <1>4
<1> QED
  BY <1>5 DEF q, r

\* ... and the other way round.
LEMMA BaseDiv ==
  ASSUME NEW q \in Nat, NEW r \in Byte
  PROVE  /\ q * Base + r \in Nat
         /\ (q * Base + r) \div Base = q /\ (q * Base + r) % Base = r
         /\ \A m \in Nat : q < m => q * Base + r < m * Base
<1>1. Base \in Nat /\ Base > 0 /\ r \in 0 .. (Base - 1)
  BY BaseAssumption DEF Byte
<1> DEFINE n == q * Base + r
<1>2. q * Base \in Nat /\ n \in Nat
  BY <1>1
<1>3. ASSUME NEW m \in Nat, NEW x \in Nat, x < m PROVE x * Base + Base <= m * Base
  <2>1. (x + 1) * Base <= m * Base
    BY <1>1, <1>3
  <2>2. (x + 1) * Base = x * Base + Base
    BY <1>1
  <2> QED
    BY <2>1, <2>2
<1>4. ASSUME NEW m \in Nat, q < m PROVE n < m * Base
  <2>1. q * Base + Base <= m * Base /\ m * Base \in Nat
    BY <1>1, <1>3, <1>4
  <2> QED
    BY <1>1, <1>2, <2>1
<1> DEFINE q2 == n \div Base
           r2 == n % Base
<1>5. q2 \in Nat /\ r2 \in 0 .. (Base - 1) /\ n = q2 * Base + r2
  <2> HIDE DEF n
  <2>1. q2 \in Nat /\ r2 \in Byte /\ n = q2 * Base + r2
    BY <1>2, DivBase
  <2> QED
    BY <2>1 DEF Byte
<1>6. q2 * Base \in Nat
  BY <1>1, <1>5
<1> HIDE DEF q2, r2
<1>7. q2 = q
  <2>1. ASSUME q2 < q PROVE FALSE
    <3>1. q2 * Base + Base <= q * Base
      BY <1>3, <1>5, <2>1
    <3> QED
      BY <1>1, <1>2, <1>5, <1>6, <3>1
  <2>2. ASSUME q < q2 PROVE FALSE
    <3>1. q * Base + Base <= q2 * Base
      BY <1>3, <1>5, <2>2
    <3> QED
      BY <1>1, <1>2, <1>5, <1>6, <3>1
  <2> QED
    BY <1>5, <2>1, <2>2
<1>8. r2 = r
  BY <1>1, <1>2, <1>5, <1>6, <1>7
<1> QED
  BY <1>2, <1>4, <1>7, <1>8 DEF q2, r2

\* The bytes of an integer are as many as its width says.
LEMMA IntegerBytes ==
  ASSUME NEW n \in Nat, NEW w \in Nat
  PROVE  /\ to_le_bytes(n, w) \in [1 .. w -> Byte]
         /\ to_be_bytes(n, w) \in [1 .. w -> Byte]
         /\ \A i \in 1 .. w :
              to_be_bytes(n, w)[i] = to_le_bytes(n, w)[w + 1 - i]
<1>1. PICK rest \in [0 .. w -> Nat] :
        to_le_bytes(n, w) = [i \in 1 .. w |-> rest[i - 1] % Base]
  BY LeDigits
<1>2. ASSUME NEW i \in 1 .. w PROVE rest[i - 1] % Base \in Byte
  <2>1. rest[i - 1] \in Nat
    OBVIOUS
  <2> QED
    BY <2>1, DivBase
<1>3. to_le_bytes(n, w) \in [1 .. w -> Byte]
  BY <1>1, <1>2
<1>4. to_be_bytes(n, w) = [i \in 1 .. w |-> to_le_bytes(n, w)[w + 1 - i]]
  BY DEF to_be_bytes
<1>5. ASSUME NEW i \in 1 .. w PROVE to_le_bytes(n, w)[w + 1 - i] \in Byte
  <2>1. w + 1 - i \in 1 .. w
    OBVIOUS
  <2> QED
    BY <1>3, <2>1
<1> QED
  BY <1>3, <1>4, <1>5

\* An integer that fits its width is read as it was written ...
LEMMA BeRoundTrip ==
  ASSUME NEW w \in Nat, NEW n \in 0 .. (Limit(w) - 1)
  PROVE  from_be_bytes(to_be_bytes(n, w)) = n
<1>1. PICK p \in [0 .. w -> Nat] :
        /\ p[0] = 1 /\ \A i \in 1 .. w : p[i] = p[i - 1] * Base
        /\ Limit(w) = p[w]
  BY LimitPowers
<1>2. p[w] \in Nat /\ n \in Nat /\ n < p[w]
  <2>1. p[w] \in Nat
    OBVIOUS
  <2> QED
    BY <1>1, <2>1
<1>3. PICK rest \in [0 .. w -> Nat] :
        /\ rest[0] = n /\ \A i \in 1 .. w : rest[i] = rest[i - 1] \div Base
        /\ to_le_bytes(n, w) = [i \in 1 .. w |-> rest[i - 1] % Base]
  BY <1>2, LeDigits
<1> DEFINE s == to_be_bytes(n, w)
<1>4. /\ s \in [1 .. w -> Byte]
      /\ \A i \in 1 .. w : s[i] = to_le_bytes(n, w)[w + 1 - i]
  BY <1>2, IntegerBytes
<1> HIDE DEF s
<1>5. s \in Seq(Nat) /\ Len(s) = w
  <2>1. s \in [1 .. w -> Nat]
    BY <1>4, BaseAssumption DEF Byte
  <2> QED
    BY <2>1, FunctionIsSeq
<1>6. PICK value \in [0 .. w -> Nat] :
        /\ value[0] = 0
        /\ \A i \in 1 .. w : value[i] = value[i - 1] * Base + s[i]
        /\ from_be_bytes(s) = value[w]
  BY <1>5, BeValue
<1>7. rest[w] = 0
  <2> DEFINE T == {i \in 0 .. w : rest[i] < p[w - i]}
  <2>1. 0 \in T
    <3>1. w - 0 = w
      OBVIOUS
    <3> QED
      BY <1>2, <1>3, <3>1
  <2>2. ASSUME NEW i \in 0 .. (w - 1), i \in T PROVE i + 1 \in T
    <3>1. /\ i + 1 \in 1 .. w /\ (i + 1) - 1 = i /\ i \in 0 .. w
          /\ w - i \in 1 .. w /\ (w - i) - 1 = w - (i + 1)
          /\ w - (i + 1) \in 0 .. w /\ i + 1 \in 0 .. w
      OBVIOUS
    <3>2. /\ rest[i + 1] = rest[i] \div Base
          /\ p[w - i] = p[w - (i + 1)] * Base
      BY <1>1, <1>3, <3>1
    <3>3. rest[i] \in Nat /\ p[w - (i + 1)] \in Nat /\ rest[i] < p[w - i]
      BY <2>2, <3>1
    <3>4. rest[i] \div Base < p[w - (i + 1)]
      BY <3>2, <3>3, DivBase
    <3> QED
      BY <3>1, <3>2, <3>4
  <2>3. 0 .. w \subseteq T
    <3> HIDE DEF T
    <3> QED
      BY <2>1, <2>2, Induction
  <2>4. rest[w] < p[w - w] /\ w - w = 0 /\ rest[w] \in Nat
    BY <2>3
  <2> QED
    BY <1>1, <2>4
<1>8. value[w] = rest[0]
  <2> DEFINE T == {i \in 0 .. w : value[i] = rest[w - i]}
  <2>1. 0 \in T
    <3>1. w - 0 = w
      OBVIOUS
    <3> QED
      BY <1>6, <1>7, <3>1
  <2>2. ASSUME NEW i \in 0 .. (w - 1), i \in T PROVE i + 1 \in T
    <3>1. /\ i + 1 \in 1 .. w /\ (i + 1) - 1 = i /\ i \in 0 .. w
          /\ w - i \in 1 .. w /\ w + 1 - (i + 1) = w - i
          /\ (w - i) - 1 = w - (i + 1) /\ i + 1 \in 0 .. w
          /\ w - (i + 1) \in 0 .. w
      OBVIOUS
    <3>2. value[i + 1] = value[i] * Base + s[i + 1]
      BY <1>6, <3>1
    <3>3. s[i + 1] = rest[w - (i + 1)] % Base
      BY <1>3, <1>4, <3>1
    <3>4. value[i] = rest[w - (i + 1)] \div Base
      BY <1>3, <2>2, <3>1
    <3>5. rest[w - (i + 1)] \in Nat
      BY <3>1
    <3> DEFINE x == rest[w - (i + 1)]
    <3>6. value[i + 1] = x
      <4> HIDE DEF x
      <4>1. x = (x \div Base) * Base + (x % Base)
        BY <3>5, DivBase DEF x
      <4>2. value[i + 1] = (x \div Base) * Base + (x % Base)
        BY <3>2, <3>3, <3>4 DEF x
      <4> QED
        BY <4>1, <4>2
    <3> QED
      BY <3>1, <3>6
  <2>3. 0 .. w \subseteq T
    <3> HIDE DEF T
    <3> QED
      BY <2>1, <2>2, Induction
  <2>4. value[w] = rest[w - w] /\ w - w = 0
    BY <2>3
  <2> QED
    BY <2>4
<1> QED
  BY <1>3, <1>6, <1>8 DEF s

\* ... and written as it was read.
LEMMA BeWritten ==
  ASSUME NEW w \in Nat, NEW s \in [1 .. w -> Byte]
  PROVE  /\ from_be_bytes(s) \in 0 .. (Limit(w) - 1)
         /\ to_be_bytes(from_be_bytes(s), w) = s
<1>1. PICK p \in [0 .. w -> Nat] :
        /\ p[0] = 1 /\ \A i \in 1 .. w : p[i] = p[i - 1] * Base
        /\ Limit(w) = p[w]
  BY LimitPowers
<1>2. s \in Seq(Nat) /\ Len(s) = w
  <2>1. s \in [1 .. w -> Nat]
    BY BaseAssumption DEF Byte
  <2> QED
    BY <2>1, FunctionIsSeq
<1>3. PICK value \in [0 .. w -> Nat] :
        /\ value[0] = 0
        /\ \A i \in 1 .. w : value[i] = value[i - 1] * Base + s[i]
        /\ from_be_bytes(s) = value[w]
  BY <1>2, BeValue
<1> DEFINE n == from_be_bytes(s)
<1>4. n \in Nat /\ n = value[w]
  <2>1. value[w] \in Nat
    OBVIOUS
  <2> QED
    BY <1>3, <2>1
<1> HIDE DEF n
<1>5. n < p[w]
  <2> DEFINE T == {i \in 0 .. w : value[i] < p[i]}
  <2>1. 0 \in T
    BY <1>1, <1>3
  <2>2. ASSUME NEW i \in 0 .. (w - 1), i \in T PROVE i + 1 \in T
    <3>1. i + 1 \in 1 .. w /\ (i + 1) - 1 = i /\ i + 1 \in 0 .. w /\ i \in 0 .. w
      OBVIOUS
    <3>2. value[i + 1] = value[i] * Base + s[i + 1] /\ p[i + 1] = p[i] * Base
      BY <1>1, <1>3, <3>1
    <3>3. value[i] \in Nat /\ s[i + 1] \in Byte /\ p[i] \in Nat /\ value[i] < p[i]
      BY <2>2, <3>1
    <3>4. value[i] * Base + s[i + 1] < p[i] * Base
      BY <3>3, BaseDiv
    <3> QED
      BY <3>1, <3>2, <3>4
  <2>3. 0 .. w \subseteq T
    <3> HIDE DEF T
    <3> QED
      BY <2>1, <2>2, Induction
  <2> QED
    BY <1>4, <2>3
<1>6. PICK rest \in [0 .. w -> Nat] :
        /\ rest[0] = n /\ \A i \in 1 .. w : rest[i] = rest[i - 1] \div Base
        /\ to_le_bytes(n, w) = [i \in 1 .. w |-> rest[i - 1] % Base]
  BY <1>4, LeDigits
<1>7. \A i \in 0 .. w : rest[i] = value[w - i]
  <2> DEFINE T == {i \in 0 .. w : rest[i] = value[w - i]}
  <2>1. 0 \in T
    <3>1. w - 0 = w
      OBVIOUS
    <3> QED
      BY <1>4, <1>6, <3>1
  <2>2. ASSUME NEW i \in 0 .. (w - 1), i \in T PROVE i + 1 \in T
    <3>1. /\ i + 1 \in 1 .. w /\ (i + 1) - 1 = i /\ i \in 0 .. w
          /\ w - i \in 1 .. w /\ (w - i) - 1 = w - (i + 1)
          /\ i + 1 \in 0 .. w /\ w - (i + 1) \in 0 .. w
      OBVIOUS
    <3>2. /\ rest[i + 1] = rest[i] \div Base
          /\ value[w - i] = value[w - (i + 1)] * Base + s[w - i]
      BY <1>3, <1>6, <3>1
    <3>3. rest[i] = value[w - i]
      BY <2>2
    <3>4. value[w - (i + 1)] \in Nat /\ s[w - i] \in Byte
      BY <3>1
    <3>5. rest[i + 1] = value[w - (i + 1)]
      BY <3>2, <3>3, <3>4, BaseDiv
    <3> QED
      BY <3>1, <3>5
  <2>3. 0 .. w \subseteq T
    <3> HIDE DEF T
    <3> QED
      BY <2>1, <2>2, Induction
  <2> QED
    BY <2>3
<1> DEFINE b == to_be_bytes(n, w)
<1>8. /\ b \in [1 .. w -> Byte]
      /\ \A i \in 1 .. w : b[i] = to_le_bytes(n, w)[w + 1 - i]
  BY <1>4, IntegerBytes
<1> HIDE DEF b
<1>9. ASSUME NEW i \in 1 .. w PROVE b[i] = s[i]
  <2>1. /\ w + 1 - i \in 1 .. w /\ (w + 1 - i) - 1 = w - i /\ w - i \in 0 .. w
        /\ w - (w - i) = i /\ i - 1 \in 0 .. w
    OBVIOUS
  <2>2. b[i] = rest[w - i] % Base
    BY <1>6, <1>8, <2>1
  <2>3. rest[w - i] = value[i - 1] * Base + s[i]
    BY <1>3, <1>7, <2>1
  <2>4. value[i - 1] \in Nat /\ s[i] \in Byte
    BY <2>1
  <2>5. (value[i - 1] * Base + s[i]) % Base = s[i]
    BY <2>4, BaseDiv
  <2> QED
    BY <2>2, <2>3, <2>5
<1>10. b = s
  BY <1>8, <1>9
<1>11. n \in 0 .. (Limit(w) - 1)
  <2>1. p[w] \in Nat
    OBVIOUS
  <2> QED
    BY <1>1, <1>4, <1>5, <2>1
<1> QED
  BY <1>10, <1>11 DEF n, b

\* The same with the least significant byte first.
LEMMA LeReversed ==
  ASSUME NEW w \in Nat, NEW s \in [1 .. w -> Byte]
  PROVE  LET r == [i \in 1 .. w |-> s[w + 1 - i]]
         IN /\ r \in [1 .. w -> Byte] /\ from_le_bytes(s) = from_be_bytes(r)
            /\ \A i \in 1 .. w : r[w + 1 - i] = s[i]
<1> DEFINE r == [i \in 1 .. w |-> s[w + 1 - i]]
<1>1. Len(s) = w /\ DOMAIN s = 1 .. w
  BY FunctionIsSeq
<1>2. from_le_bytes(s) = from_be_bytes(r)
  BY <1>1 DEF from_le_bytes
<1>3. \A i \in 1 .. w : w + 1 - i \in 1 .. w /\ w + 1 - (w + 1 - i) = i
  OBVIOUS
<1>4. r \in [1 .. w -> Byte] /\ \A i \in 1 .. w : r[w + 1 - i] = s[i]
  BY <1>3
<1> QED
  BY <1>2, <1>4

LEMMA LeRoundTrip ==
  ASSUME NEW w \in Nat, NEW n \in 0 .. (Limit(w) - 1)
  PROVE  from_le_bytes(to_le_bytes(n, w)) = n
<1>1. n \in Nat
  <2>1. Limit(w) \in Nat
    BY LimitType
  <2> QED
    BY <2>1
<1> DEFINE s == to_le_bytes(n, w)
           b == to_be_bytes(n, w)
           r == [i \in 1 .. w |-> s[w + 1 - i]]
<1>2. /\ s \in [1 .. w -> Byte] /\ b \in [1 .. w -> Byte]
      /\ \A i \in 1 .. w : b[i] = s[w + 1 - i]
  BY <1>1, IntegerBytes
<1>3. from_be_bytes(b) = n
  BY BeRoundTrip
<1> HIDE DEF s, b
<1>4. from_le_bytes(s) = from_be_bytes(r)
  BY <1>2, LeReversed
<1>5. r = b
  BY <1>2
<1> QED
  BY <1>3, <1>4, <1>5 DEF s

LEMMA LeWritten ==
  ASSUME NEW w \in Nat, NEW s \in [1 .. w -> Byte]
  PROVE  /\ from_le_bytes(s) \in 0 .. (Limit(w) - 1)
         /\ to_le_bytes(from_le_bytes(s), w) = s
<1> DEFINE r == [i \in 1 .. w |-> s[w + 1 - i]]
           n == from_le_bytes(s)
           l == to_le_bytes(n, w)
           b == to_be_bytes(n, w)
<1>1. /\ r \in [1 .. w -> Byte] /\ n = from_be_bytes(r)
      /\ \A i \in 1 .. w : r[w + 1 - i] = s[i]
  BY LeReversed
<1> HIDE DEF r, n
<1>2. n \in 0 .. (Limit(w) - 1) /\ b = r
  BY <1>1, BeWritten
<1>3. n \in Nat
  <2>1. Limit(w) \in Nat
    BY LimitType
  <2> QED
    BY <1>2, <2>1
<1>4. /\ l \in [1 .. w -> Byte]
      /\ \A i \in 1 .. w : b[i] = l[w + 1 - i]
  BY <1>3, IntegerBytes
<1> HIDE DEF l, b
<1>5. ASSUME NEW i \in 1 .. w PROVE l[i] = s[i]
  <2>1. w + 1 - i \in 1 .. w /\ w + 1 - (w + 1 - i) = i
    OBVIOUS
  <2>2. b[w + 1 - i] = l[i]
    BY <1>4, <2>1
  <2> QED
    BY <1>1, <1>2, <2>2
<1>6. l = s
  BY <1>4, <1>5
<1> QED
  BY <1>2, <1>6 DEF n, l

=============================================================================
