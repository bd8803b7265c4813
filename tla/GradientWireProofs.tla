------------------------- MODULE GradientWireProofs -------------------------
(***************************************************************************)
(* Proofs about GradientWire, for every length of the gradients, every      *)
(* ratio, all values and all messages.                                      *)
(***************************************************************************)
EXTENDS GradientWire, FiniteSetTheorems, SequenceTheorems, TLAPS

Vector == [Index -> Int]

-----------------------------------------------------------------------------
(* Facts about numbers and finite sets *)

(* A function on a finite set that is not empty takes a greatest value: a   *)
(* point with fewest points above it has none.                              *)
LEMMA GreatestExists ==
    ASSUME NEW D, IsFiniteSet(D), D # {}, NEW f \in [D -> Int]
    PROVE  \E x \in D : \A y \in D : f[x] >= f[y]
  <1> DEFINE Above(x) == {y \in D : f[y] > f[x]}
             T == {Above(x) : x \in D}
  <1>1. FiniteSubsetsOf(D) = SUBSET D
    BY FS_FiniteSubsetsOfFinite
  <1>2. T \subseteq FiniteSubsetsOf(D) /\ T # {}
    <2>1. \A x \in D : Above(x) \in SUBSET D
      OBVIOUS
    <2> HIDE DEF Above
    <2>2. T \subseteq SUBSET D
      BY <2>1
    <2>3. T # {}
      OBVIOUS
    <2>4. QED
      BY <2>2, <2>3, <1>1
  <1>3. \E m \in T : \A n \in T : <<n, m>> \notin StrictSubsetOrdering(D)
    BY <1>2, FS_StrictSubsetOrderingWellFounded, WFMin
  <1>4. PICK x \in D : \A y \in D : <<Above(y), Above(x)>> \notin StrictSubsetOrdering(D)
    BY <1>3
  <1>5. ASSUME NEW y \in D, f[y] > f[x] PROVE FALSE
    <2>1. Above(y) \subseteq Above(x) /\ y \in Above(x) /\ y \notin Above(y)
      BY <1>5
    <2>2. Above(y) # Above(x) /\ Above(x) \subseteq D
      BY <2>1
    <2> HIDE DEF Above
    <2>3. QED
      BY <2>1, <2>2, <1>4 DEF StrictSubsetOrdering
  <1>6. QED
    BY <1>5

(* And a least one. *)
LEMMA LeastExists ==
    ASSUME NEW D, IsFiniteSet(D), D # {}, NEW f \in [D -> Int]
    PROVE  \E x \in D : \A y \in D : f[x] <= f[y]
  <1> DEFINE h == [x \in D |-> -f[x]]
  <1>1. h \in [D -> Int]
    OBVIOUS
  <1>2. PICK x \in D : \A y \in D : h[x] >= h[y]
    <2> HIDE DEF h
    <2>1. QED
      BY <1>1, GreatestExists
  <1>3. \A y \in D : f[x] <= f[y]
    <2> SUFFICES ASSUME NEW y \in D PROVE f[x] <= f[y]
      OBVIOUS
    <2>1. -f[x] >= -f[y]
      BY <1>2
    <2>2. f[x] \in Int /\ f[y] \in Int
      OBVIOUS
    <2>3. QED
      BY <2>1, <2>2
  <1>4. QED
    BY <1>3

(* Division by a positive number. *)
LEMMA DivMod ==
    ASSUME NEW n \in Nat, NEW d \in Nat \ {0}
    PROVE  /\ n \div d \in Nat /\ n % d \in 0..d - 1
           /\ n = d * (n \div d) + (n % d)
  OBVIOUS

(* max(1, size * ratio) indices, and no more than there are. *)
LEMMA KType == K \in Nat \ {0} /\ K <= Size
  <1>1. Size \in Nat \ {0} /\ Ratio \in Nat \ {0}
    BY WireAssumption
  <1>2. /\ Size \div Ratio \in Nat /\ Size % Ratio \in 0..Ratio - 1
        /\ Size = Ratio * (Size \div Ratio) + (Size % Ratio)
    BY <1>1, DivMod
  <1> DEFINE q == Size \div Ratio
             r == Size % Ratio
  <1>3. q \in Nat /\ r \in Nat /\ Size = Ratio * q + r
    BY <1>1, <1>2
  <1> HIDE DEF q, r
  <1>4. Ratio * q >= q
    BY <1>1, <1>3
  <1>5. Ratio * q \in Nat
    BY <1>1, <1>3
  <1>6. q <= Size
    BY <1>1, <1>3, <1>4, <1>5
  <1>7. QED
    BY <1>1, <1>3, <1>6 DEF K, q

LEMMA MagnitudeType ==
    ASSUME NEW x \in Int
    PROVE  Magnitude(x) \in Nat /\ (Magnitude(x) = 0 <=> x = 0)
  BY DEF Magnitude

LEMMA MagnitudeSum ==
    ASSUME NEW x \in Int, NEW y \in Int
    PROVE  Magnitude(x + y) <= Magnitude(x) + Magnitude(y)
  BY DEF Magnitude

LEMMA IndexFinite ==
    IsFiniteSet(Index) /\ Cardinality(Index) = Size /\ Index # {}
  <1>1. Size \in Nat \ {0} /\ 1 \in Int /\ Size \in Int
    BY WireAssumption
  <1>2. IsFiniteSet(1..Size) /\ Cardinality(1..Size) = IF 1 > Size THEN 0 ELSE Size - 1 + 1
    BY <1>1, FS_Interval
  <1>3. 1 \in 1..Size
    BY <1>1
  <1>4. QED
    BY <1>1, <1>2, <1>3 DEF Index

-----------------------------------------------------------------------------
(* No component is starved *)

(* Components of r whose magnitude is above t *)
Over(r, t) == {i \in Index : Magnitude(r[i]) > t}

(* With gradients up to V, sending the K largest leaves ever fewer          *)
(* components above 0, V, 2V and so on: at each level K fewer.              *)
Layered(r, V) ==
    \A j \in Nat : Over(r, j * V) # {} => Cardinality(Over(r, j * V)) + (j + 1) * K <= Size

(* The largest magnitude of a computed component *)
Bound(V) == V \in Nat /\ \A v \in Values : Magnitude(v) <= V

Residuals == residual \in Vector /\ \A V \in Nat : Bound(V) => Layered(residual, V)

LEMMA OverFinite ==
    ASSUME NEW r, NEW t
    PROVE  /\ Over(r, t) \subseteq Index /\ IsFiniteSet(Over(r, t))
           /\ Cardinality(Over(r, t)) \in Nat
           /\ Over(r, t) # {} => Cardinality(Over(r, t)) >= 1
  <1>1. Over(r, t) \subseteq Index
    BY DEF Over
  <1>2. IsFiniteSet(Over(r, t))
    BY <1>1, IndexFinite, FS_Subset
  <1>3. Cardinality(Over(r, t)) \in Nat
    BY <1>2, FS_CardinalityType
  <1>4. Cardinality(Over(r, t)) = 0 <=> Over(r, t) = {}
    BY <1>2, FS_EmptySet
  <1>5. QED
    BY <1>1, <1>2, <1>3, <1>4

LEMMA RemainderIs ==
    ASSUME NEW g \in Vector, NEW S \in SUBSET Index
    PROVE  /\ Remainder(g, S) \in Vector /\ Sparse(g, S) \in Vector
           /\ \A i \in Index : Remainder(g, S)[i] = IF i \in S THEN 0 ELSE g[i]
  BY DEF Vector, Remainder, Minus, Sparse

(* One call of compress with error feedback *)
LEMMA TopKLayers ==
    ASSUME NEW r \in Vector, NEW c \in [Index -> Values], NEW V \in Nat, Bound(V),
           Layered(r, V), NEW S \in TopK(Plus(c, r))
    PROVE  Layered(Remainder(Plus(c, r), S), V)
  <1> DEFINE g == Plus(c, r)
             rest == Remainder(g, S)
  <1>1. g \in Vector /\ \A i \in Index : g[i] = c[i] + r[i] /\ c[i] \in Int /\ r[i] \in Int
    <2>1. \A i \in Index : c[i] \in Int /\ r[i] \in Int
      BY WireAssumption DEF Vector
    <2>2. QED
      BY <2>1 DEF Vector, Plus
  <1>2. /\ S \in SUBSET Index /\ Cardinality(S) = K /\ IsFiniteSet(S)
        /\ \A i \in S, j \in Index \ S : Magnitude(g[i]) >= Magnitude(g[j])
    <2>1. S \in SUBSET Index /\ Cardinality(S) = K
          /\ \A i \in S, j \in Index \ S : Magnitude(g[i]) >= Magnitude(g[j])
      BY DEF TopK
    <2>2. QED
      BY <2>1, IndexFinite, FS_Subset
  <1>3. \A i \in Index : rest[i] = IF i \in S THEN 0 ELSE g[i]
    BY <1>1, <1>2, RemainderIs
  <1>4. K \in Nat \ {0}
    BY KType
  <1> HIDE DEF g, rest
  <1> SUFFICES ASSUME NEW j \in Nat, Over(rest, j * V) # {}
               PROVE  Cardinality(Over(rest, j * V)) + (j + 1) * K <= Size
    BY DEF Layered, g, rest
  <1> DEFINE t == j * V
             A == Over(rest, t)
             B == Over(g, t)
  <1>5. t \in Nat
    OBVIOUS
  <1>t. t = j * V
    OBVIOUS
  <1> HIDE DEF t
  <1>6. \A i \in Index : Magnitude(g[i]) \in Nat /\ Magnitude(r[i]) \in Nat
    BY <1>1, MagnitudeType
  <1>7. A \cap S = {}
    <2> SUFFICES ASSUME NEW i \in Index, i \in S, Magnitude(rest[i]) > t PROVE FALSE
      BY DEF Over
    <2>1. rest[i] = 0
      BY <1>3
    <2>2. Magnitude(rest[i]) = 0
      BY <2>1, MagnitudeType
    <2>3. QED
      BY <2>2, <1>5
  <1>8. A \cup S \subseteq B
    <2>1. ASSUME NEW i \in A PROVE i \in Index /\ i \notin S /\ Magnitude(g[i]) > t
      <3>1. i \in Index /\ Magnitude(rest[i]) > t
        BY <2>1 DEF Over
      <3>2. i \notin S
        BY <1>7
      <3>3. QED
        BY <3>1, <3>2, <1>3
    <2>2. PICK a : a \in A
      BY <1>t DEF A
    <2>3. ASSUME NEW s \in S PROVE s \in Index /\ Magnitude(g[s]) > t
      <3>1. a \in Index \ S /\ Magnitude(g[a]) > t /\ s \in Index
        BY <2>1, <2>2, <1>2
      <3>2. Magnitude(g[s]) >= Magnitude(g[a])
        BY <3>1, <1>2
      <3>3. QED
        BY <3>1, <3>2, <1>5, <1>6
    <2> HIDE DEF A
    <2>4. QED
      BY <2>1, <2>3 DEF Over
  <1>9. /\ Cardinality(A) + K = Cardinality(A \cup S) /\ Cardinality(A) \in Nat
        /\ Cardinality(A \cup S) <= Cardinality(B) /\ Cardinality(B) \in Nat
    <2>1. IsFiniteSet(A) /\ IsFiniteSet(B) /\ Cardinality(A) \in Nat /\ Cardinality(B) \in Nat
      BY OverFinite
    <2> HIDE DEF A, B
    <2>2. Cardinality(A \cup S) = Cardinality(A) + Cardinality(S) - Cardinality(A \cap S)
      BY <2>1, <1>2, FS_Union
    <2>3. Cardinality(A \cap S) = 0
      BY <1>7, FS_EmptySet
    <2>4. Cardinality(A \cup S) <= Cardinality(B)
      BY <2>1, <1>8, FS_Subset
    <2>5. QED
      BY <2>1, <2>2, <2>3, <2>4, <1>2, <1>4
  <1>10. B # {}
    <2>1. A # {}
      BY <1>t
    <2> HIDE DEF A, B
    <2>2. QED
      BY <2>1, <1>8
  <1>11. CASE j = 0
    <2>1. Cardinality(B) <= Size
      <3>1. B \subseteq Index
        BY OverFinite
      <3> HIDE DEF B
      <3>2. QED
        BY <3>1, IndexFinite, FS_Subset
    <2>2. (j + 1) * K = K
      BY <1>11, <1>4
    <2> HIDE DEF A, B
    <2>3. Cardinality(A) + K <= Size
      BY <2>1, <1>9, <1>4, WireAssumption
    <2>4. QED
      BY <2>2, <2>3, <1>t DEF A
  <1>12. CASE j # 0
    <2> DEFINE i == j - 1
               C == Over(r, i * V)
    <2>1. i \in Nat /\ j = i + 1
      BY <1>12
    <2>2. t = i * V + V /\ i * V \in Nat
      BY <2>1, <1>t
    <2>3. B \subseteq C
      <3> SUFFICES ASSUME NEW k \in Index, Magnitude(g[k]) > t PROVE Magnitude(r[k]) > i * V
        BY DEF Over
      <3>1. Magnitude(g[k]) <= Magnitude(c[k]) + Magnitude(r[k])
        BY <1>1, MagnitudeSum
      <3>2. Magnitude(c[k]) <= V /\ Magnitude(c[k]) \in Nat
        <4>1. c[k] \in Values /\ c[k] \in Int
          BY <1>1
        <4>2. QED
          BY <4>1, MagnitudeType DEF Bound
      <3> DEFINE w == i * V
      <3>3. w \in Nat /\ t = w + V
        BY <2>2
      <3> HIDE DEF w
      <3>4. Magnitude(r[k]) > w
        BY <3>1, <3>2, <3>3, <1>6
      <3>5. QED
        BY <3>4 DEF w
    <2>4. C # {}
      <3> HIDE DEF B, C
      <3>1. QED
        BY <2>3, <1>10
    <2>5. Cardinality(C) + (i + 1) * K <= Size
      BY <2>1, <2>4 DEF Layered
    <2>6. IsFiniteSet(C) /\ Cardinality(C) \in Nat
      BY OverFinite
    <2> HIDE DEF A, B, C
    <2>7. Cardinality(B) <= Cardinality(C)
      BY <2>3, <2>6, FS_Subset
    <2> DEFINE m == j * K
    <2>8. m \in Nat /\ (i + 1) * K = m /\ (j + 1) * K = m + K
      BY <2>1, <1>4
    <2> HIDE DEF m
    <2>9. Cardinality(A) + (m + K) <= Size
      BY <2>5, <2>6, <2>7, <2>8, <1>4, <1>9, WireAssumption
    <2>10. QED
      BY <2>8, <2>9, <1>t DEF A
  <1>13. QED
    BY <1>11, <1>12

(* A residual whose layers shrink by K is bounded: the layer above          *)
(* (Size - 1) \div K times the largest value is empty.                      *)
LEMMA LayersBound ==
    ASSUME NEW r \in Vector, \A V \in Nat : Bound(V) => Layered(r, V)
    PROVE  \A i \in Index : \E v \in Values :
               Magnitude(r[i]) <= ((Size - 1) \div K) * Magnitude(v)
  <1> DEFINE m == [v \in Values |-> Magnitude(v)]
             j == (Size - 1) \div K
  <1>1. m \in [Values -> Int] /\ \A v \in Values : m[v] = Magnitude(v) /\ m[v] \in Nat
    <2>1. \A v \in Values : Magnitude(v) \in Nat
      BY MagnitudeType, WireAssumption
    <2>2. QED
      BY <2>1
  <1> HIDE DEF m
  <1>2. PICK v \in Values : \A w \in Values : m[v] >= m[w]
    BY <1>1, WireAssumption, GreatestExists
  <1> DEFINE V == Magnitude(v)
  <1>3. V \in Nat /\ Bound(V)
    <2>1. V \in Nat /\ \A w \in Values : Magnitude(w) <= V
      BY <1>1, <1>2
    <2>2. QED
      BY <2>1 DEF Bound
  <1> HIDE DEF V
  <1>4. K \in Nat \ {0} /\ Size \in Nat \ {0}
    BY KType, WireAssumption
  <1>5. j \in Nat /\ (j + 1) * K >= Size
    <2>1. Size - 1 \in Nat
      BY <1>4
    <2>2. /\ j \in Nat /\ (Size - 1) % K \in 0..K - 1
          /\ Size - 1 = K * j + ((Size - 1) % K)
      BY <2>1, <1>4, DivMod
    <2> DEFINE x == (Size - 1) % K
    <2>3. j \in Nat /\ x \in Nat /\ x <= K - 1 /\ Size - 1 = K * j + x
      BY <2>2, <1>4
    <2> HIDE DEF j, x
    <2>4. K * j \in Nat /\ (j + 1) * K = K * j + K
      BY <2>3, <1>4
    <2>5. QED
      BY <2>3, <2>4, <1>4
  <1> HIDE DEF j
  <1>6. Over(r, j * V) = {}
    <2> SUFFICES ASSUME Over(r, j * V) # {} PROVE FALSE
      OBVIOUS
    <2>1. Cardinality(Over(r, j * V)) + (j + 1) * K <= Size
      BY <1>3, <1>5 DEF Layered
    <2>2. Cardinality(Over(r, j * V)) \in Nat /\ Cardinality(Over(r, j * V)) >= 1
      BY OverFinite
    <2> DEFINE n == Cardinality(Over(r, j * V))
               p == (j + 1) * K
    <2>3. p \in Nat
      BY <1>4, <1>5
    <2> HIDE DEF n, p
    <2>4. n \in Nat /\ n >= 1 /\ n + p <= Size /\ p >= Size
      BY <2>1, <2>2, <1>5 DEF n, p
    <2>5. QED
      BY <2>3, <2>4, <1>4
  <1>7. ASSUME NEW i \in Index PROVE Magnitude(r[i]) <= j * V
    <2>1. Magnitude(r[i]) \in Nat
      BY MagnitudeType DEF Vector
    <2>2. j * V \in Nat
      BY <1>3, <1>5
    <2>3. ~ (Magnitude(r[i]) > j * V)
      BY <1>6 DEF Over
    <2>4. QED
      BY <2>1, <2>2, <2>3
  <1>8. QED
    BY <1>7 DEF j, V

-----------------------------------------------------------------------------
(* Quantization *)

(* np.round is off by at most a half. *)
LEMMA RoundedIs ==
    ASSUME NEW n \in Nat, NEW d \in Nat \ {0}
    PROVE  /\ Rounded(n, d) \in Nat
           /\ 2 * (Rounded(n, d) * d - n) <= d
           /\ 2 * (n - Rounded(n, d) * d) <= d
           /\ \A m \in Nat : n <= m * d => Rounded(n, d) <= m
  <1> DEFINE q == n \div d
             r == n % d
             p == d * q
  <1>1. q \in Nat /\ r \in 0..d - 1 /\ n = d * q + r
    BY DivMod
  <1>2. Rounded(n, d) = IF 2 * r > d \/ (2 * r = d /\ q % 2 = 1) THEN q + 1 ELSE q
    BY DEF Rounded
  <1> HIDE DEF q, r
  <1>3. p \in Nat /\ n = p + r /\ q * d = p /\ (q + 1) * d = p + d
    BY <1>1
  <1>4. r \in Nat /\ r < d
    BY <1>1
  <1>5. ASSUME NEW m \in Nat, n <= m * d PROVE q <= m /\ (q = m => r = 0)
    <2>1. CASE q >= m
      <3>1. (q - m) * d >= 0 /\ (q - m) * d = p - m * d /\ m * d \in Nat
        BY <2>1, <1>1, <1>3
      <3> DEFINE e == (q - m) * d
                 md == m * d
      <3>2. e \in Nat /\ e = p - md /\ md \in Nat /\ n <= md
        BY <3>1, <1>5, <1>1, <2>1
      <3> HIDE DEF e, md
      <3>3. e = 0 /\ r = 0
        BY <3>2, <1>3, <1>4
      <3>4. q - m = 0
        <4>1. q - m \in Nat
          BY <2>1, <1>1
        <4>2. (q - m) * d = 0
          BY <3>3 DEF e
        <4>3. QED
          BY <4>1, <4>2
      <3>5. QED
        BY <3>3, <3>4, <1>1
    <2>2. CASE q < m
      BY <2>2, <1>1
    <2>3. QED
      BY <2>1, <2>2, <1>1
  <1>6. CASE 2 * r > d \/ (2 * r = d /\ q % 2 = 1)
    <2>1. Rounded(n, d) = q + 1 /\ 2 * r >= d /\ r # 0
      BY <1>6, <1>2, <1>4
    <2>2. 2 * (p + d - n) <= d /\ 2 * (n - (p + d)) <= d
      BY <2>1, <1>3, <1>4
    <2>3. \A m \in Nat : n <= m * d => q + 1 <= m
      BY <2>1, <1>1, <1>5
    <2>4. QED
      BY <2>1, <2>2, <2>3, <1>1, <1>3
  <1>7. CASE ~ (2 * r > d \/ (2 * r = d /\ q % 2 = 1))
    <2>1. Rounded(n, d) = q /\ 2 * r <= d
      BY <1>7, <1>2, <1>4
    <2>2. 2 * (p - n) <= d /\ 2 * (n - p) <= d
      BY <2>1, <1>3, <1>4
    <2>3. QED
      BY <2>1, <2>2, <1>1, <1>3, <1>5
  <1>8. QED
    BY <1>6, <1>7

(* The number of intervals of a width fits a byte. *)
LEMMA LevelsFit ==
    ASSUME NEW b \in 1..8
    PROVE  2^b - 1 \in 1..255
  <1>1. b \in {1, 2, 3, 4, 5, 6, 7, 8}
    OBVIOUS
  <1>2. CASE b = 1
    BY <1>2
  <1>3. CASE b = 2
    BY <1>3
  <1>4. CASE b = 3
    BY <1>4
  <1>5. CASE b = 4
    BY <1>5
  <1>6. CASE b = 5
    BY <1>6
  <1>7. CASE b = 6
    BY <1>7
  <1>8. CASE b = 7
    BY <1>8
  <1>9. CASE b = 8
    BY <1>9
  <1>10. QED
    BY <1>1, <1>2, <1>3, <1>4, <1>5, <1>6, <1>7, <1>8, <1>9

(* min() and max() of a gradient *)
LEMMA Extremes ==
    ASSUME NEW g \in Vector
    PROVE  /\ Lowest(g) \in Int /\ Highest(g) \in Int
           /\ \A i \in Index : Lowest(g) <= g[i] /\ g[i] <= Highest(g)
  <1>1. g \in [Index -> Int]
    BY DEF Vector
  <1>2. \E x \in {g[i] : i \in Index} : \A i \in Index : x <= g[i]
    BY <1>1, IndexFinite, LeastExists
  <1>3. \E x \in {g[i] : i \in Index} : \A i \in Index : x >= g[i]
    BY <1>1, IndexFinite, GreatestExists
  <1>4. Lowest(g) \in {g[i] : i \in Index} /\ \A i \in Index : Lowest(g) <= g[i]
    BY <1>2 DEF Lowest
  <1>5. Highest(g) \in {g[i] : i \in Index} /\ \A i \in Index : Highest(g) >= g[i]
    BY <1>3 DEF Highest
  <1>6. QED
    BY <1>1, <1>4, <1>5

(* One component through compress and decompress *)
LEMMA CodeIs ==
    ASSUME NEW low \in Int, NEW high \in Int, NEW x \in Int, low <= x, x <= high,
           NEW b \in 1..8
    PROVE  2 * Magnitude((Code(x, low, high, b) * (high - low) + low * (2^b - 1))
                         - x * (2^b - 1)) <= high - low
  <1> DEFINE L == 2^b - 1
             h == high - low
             n == (x - low) * L
             c == Code(x, low, high, b)
  <1>1. L \in 1..255 /\ h \in Nat
    <2>1. L \in 1..255
      BY LevelsFit
    <2> HIDE DEF L
    <2>2. h \in Nat
      OBVIOUS
    <2>3. QED
      BY <2>1, <2>2
  <1>d. c = IF high > low THEN Rounded(n, h) % 256 ELSE 0
    BY DEF Code
  <1> HIDE DEF L, c
  <1>2. low * L \in Int /\ x * L \in Int /\ n = x * L - low * L
    BY <1>1
  <1>3. CASE high > low
    <2>1. h \in Nat \ {0} /\ x - low \in Nat /\ x - low <= h
      BY <1>3
    <2>2. n \in Nat /\ n <= L * h
      <3>1. (h - (x - low)) * L >= 0 /\ (h - (x - low)) * L = L * h - n /\ L * h \in Int
        BY <2>1, <1>1
      <3>2. n \in Nat
        BY <2>1, <1>1
      <3> DEFINE y == L * h
                 z == (h - (x - low)) * L
      <3>3. z >= 0 /\ z = y - n /\ y \in Int
        BY <3>1
      <3> HIDE DEF y, z, n
      <3>4. n <= y
        BY <3>2, <3>3
      <3>5. QED
        BY <3>2, <3>4 DEF y
    <2> DEFINE k == Rounded(n, h)
    <2> HIDE DEF n, h
    <2>3. k \in Nat /\ 2 * (k * h - n) <= h /\ 2 * (n - k * h) <= h /\ k <= L
      BY <2>1, <2>2, <1>1, RoundedIs
    <2>4. c = k
      <3>1. c = k % 256
        BY <1>3, <1>d
      <3> HIDE DEF k
      <3>2. k % 256 = k
        BY <2>3, <1>1
      <3>3. QED
        BY <3>1, <3>2
    <2> HIDE DEF k
    <2>5. k * h \in Int
      BY <2>1, <2>3
    <2>6. (c * h + low * L) - x * L = k * h - n
      BY <2>4, <2>5, <1>2
    <2>7. 2 * Magnitude(k * h - n) <= h
      BY <2>1, <2>2, <2>3, <2>5 DEF Magnitude
    <2>8. QED
      BY <2>6, <2>7 DEF h, c, L
  <1>4. CASE high = low
    <2>1. c = 0 /\ x = low /\ h = 0
      BY <1>4, <1>d
    <2>2. (c * h + low * L) - x * L = 0
      BY <2>1, <1>2
    <2>3. QED
      BY <2>1, <2>2 DEF Magnitude, c, L
  <1>5. QED
    BY <1>3, <1>4

-----------------------------------------------------------------------------
(* Message format: what stands where in the bytes of a message *)

Byte == Int \X Nat \X Nat

(* The bytes x are in d, after offset o. *)
At(d, o, x) == o \in Nat /\ o + Len(x) <= Len(d) /\ \A i \in 1..Len(x) : d[o + i] = x[i]

LEMMA JoinedAt ==
    ASSUME NEW x \in Seq(Byte), NEW y \in Seq(Byte), NEW d, Len(d) \in Nat, NEW o \in Nat,
           At(d, o, x \o y)
    PROVE  At(d, o, x) /\ At(d, o + Len(x), y)
  <1>1. /\ Len(x \o y) = Len(x) + Len(y) /\ Len(x) \in Nat /\ Len(y) \in Nat
        /\ \A i \in 1..Len(x) : (x \o y)[i] = x[i]
        /\ \A i \in 1..Len(y) : (x \o y)[Len(x) + i] = y[i]
    OBVIOUS
  <1>2. o + (Len(x) + Len(y)) <= Len(d) /\ \A i \in 1..Len(x) + Len(y) : d[o + i] = (x \o y)[i]
    BY <1>1 DEF At
  <1>3. At(d, o, x)
    <2>1. ASSUME NEW i \in 1..Len(x) PROVE d[o + i] = x[i]
      <3>1. i \in 1..Len(x) + Len(y)
        BY <1>1
      <3>2. QED
        BY <3>1, <1>1, <1>2
    <2>2. o + Len(x) <= Len(d)
      BY <1>1, <1>2
    <2>3. QED
      BY <2>1, <2>2 DEF At
  <1>4. ASSUME NEW i \in 1..Len(y) PROVE d[o + Len(x) + i] = y[i]
    <2>1. Len(x) + i \in 1..Len(x) + Len(y) /\ o + Len(x) + i = o + (Len(x) + i)
      BY <1>1
    <2>2. QED
      BY <2>1, <1>1, <1>2
  <1>5. At(d, o + Len(x), y)
    BY <1>1, <1>2, <1>4 DEF At
  <1>6. QED
    BY <1>3, <1>5

LEMMA FieldIs ==
    ASSUME NEW w \in Nat, NEW v \in Int
    PROVE  /\ Field(w, v) \in Seq(Byte) /\ Len(Field(w, v)) = w
           /\ \A b \in 1..w : Field(w, v)[b] = <<v, b, w>>
  <1>1. \A b \in 1..w : <<v, b, w>> \in Byte
    BY DEF Byte
  <1>2. Field(w, v) \in [1..w -> Byte]
    BY <1>1 DEF Field
  <1>3. QED
    BY <1>2 DEF Field

LEMMA FieldBytes ==
    ASSUME NEW w \in Nat, NEW v \in Int
    PROVE  Field(w, v) \in Seq(Byte) /\ Len(Field(w, v)) = w
  BY FieldIs, ZenonT(60)

LEMMA ReadField ==
    ASSUME NEW d, Len(d) \in Nat, NEW o, NEW w \in Nat \ {0}, NEW v \in Int, At(d, o, Field(w, v))
    PROVE  Read(d, o, w) = v
  <1>1. o \in Nat /\ o + w <= Len(d) /\ \A b \in 1..w : d[o + b] = <<v, b, w>>
    BY FieldIs DEF At
  <1>2. d[o + 1] = <<v, 1, w>>
    BY <1>1
  <1>3. d[o + 1][1] = v
    BY <1>2
  <1>4. ~ (o < 0 \/ o + w > Len(d) \/ w < 1)
    BY <1>1
  <1>5. QED
    BY <1>1, <1>3, <1>4, SMTT(30) DEF Read

(* The bytes of an array's elements, for the widths of the format *)
LEMMA ElementBytes ==
    ASSUME NEW w \in {1, 4, 8}, NEW n \in Nat \ {0}, NEW b \in 1..w
    PROVE  /\ (w * (n - 1) + b - 1) \div w = n - 1
           /\ (w * (n - 1) + b - 1) % w = b - 1
  <1>1. CASE w = 1
    BY <1>1
  <1>2. CASE w = 4
    BY <1>2
  <1>3. CASE w = 8
    BY <1>3
  <1>4. QED
    BY <1>1, <1>2, <1>3

LEMMA ArrayIs ==
    ASSUME NEW w \in {1, 4, 8}, NEW a \in Seq(Int)
    PROVE  /\ ArrayBytes(w, a) \in Seq(Byte) /\ Len(ArrayBytes(w, a)) = w * Len(a)
           /\ w * Len(a) \in Nat /\ (w * Len(a)) \div w = Len(a)
           /\ \A n \in 1..Len(a), b \in 1..w :
                 ArrayBytes(w, a)[w * (n - 1) + b] = <<a[n], b, w>>
  <1> DEFINE l == Len(a)
  <1>1. l \in Nat /\ \A n \in 1..l : a[n] \in Int
    OBVIOUS
  <1> HIDE DEF l
  <1>2. w * l \in Nat /\ (w * l) \div w = l
    <2>1. CASE w = 1
      BY <2>1, <1>1
    <2>2. CASE w = 4
      BY <2>2, <1>1
    <2>3. CASE w = 8
      BY <2>3, <1>1
    <2>4. QED
      BY <2>1, <2>2, <2>3
  <1>3. ASSUME NEW k \in 1..w * l
        PROVE  ((k - 1) \div w) + 1 \in 1..l /\ ((k - 1) % w) + 1 \in Nat
    <2>1. CASE w = 1
      BY <2>1, <1>1
    <2>2. CASE w = 4
      BY <2>2, <1>1
    <2>3. CASE w = 8
      BY <2>3, <1>1
    <2>4. QED
      BY <2>1, <2>2, <2>3
  <1>4. ArrayBytes(w, a) = [k \in 1..w * l |-> <<a[((k - 1) \div w) + 1], ((k - 1) % w) + 1, w>>]
    BY DEF ArrayBytes, l
  <1>5. ArrayBytes(w, a) \in [1..w * l -> Byte]
    <2>1. ASSUME NEW k \in 1..w * l
          PROVE  <<a[((k - 1) \div w) + 1], ((k - 1) % w) + 1, w>> \in Byte
      BY <1>1, <1>3 DEF Byte
    <2>2. QED
      BY <2>1, <1>4
  <1>6. ArrayBytes(w, a) \in Seq(Byte) /\ Len(ArrayBytes(w, a)) = w * l
    <2> DEFINE f == ArrayBytes(w, a)
               n == w * l
    <2>1. f \in [1..n -> Byte] /\ n \in Nat
      BY <1>2, <1>5
    <2> HIDE DEF f, n
    <2>2. f \in Seq(Byte) /\ Len(f) = n
      BY <2>1
    <2>3. QED
      BY <2>2 DEF f, n
  <1>7. ASSUME NEW n \in 1..l, NEW b \in 1..w
        PROVE  ArrayBytes(w, a)[w * (n - 1) + b] = <<a[n], b, w>>
    <2>1. w * (n - 1) + b \in 1..w * l
      <3>1. CASE w = 1
        BY <3>1, <1>1
      <3>2. CASE w = 4
        BY <3>2, <1>1
      <3>3. CASE w = 8
        BY <3>3, <1>1
      <3>4. QED
        BY <3>1, <3>2, <3>3
    <2>2. n \in Nat \ {0}
      BY <1>1
    <2>3. (w * (n - 1) + b - 1) \div w = n - 1 /\ (w * (n - 1) + b - 1) % w = b - 1
      BY <2>2, ElementBytes
    <2> DEFINE k == w * (n - 1) + b
    <2>4. k \in 1..w * l /\ (k - 1) \div w = n - 1 /\ (k - 1) % w = b - 1
      BY <2>1, <2>3
    <2> HIDE DEF k
    <2>5. ArrayBytes(w, a)[k] = <<a[((k - 1) \div w) + 1], ((k - 1) % w) + 1, w>>
      BY <2>4, <1>4
    <2>6. n - 1 + 1 = n /\ b - 1 + 1 = b
      BY <2>2
    <2>7. ArrayBytes(w, a)[k] = <<a[n], b, w>>
      BY <2>4, <2>5, <2>6
    <2>8. QED
      BY <2>7 DEF k
  <1>8. QED
    BY <1>2, <1>6, <1>7 DEF l

LEMMA ReadElements ==
    ASSUME NEW d, Len(d) \in Nat, NEW o, NEW w \in {1, 4, 8}, NEW a \in Seq(Int),
           At(d, o, ArrayBytes(w, a))
    PROVE  ReadArray(d, o, w, w * Len(a)) = a
  <1> DEFINE l == Len(a)
  <1>1. l \in Nat /\ a \in [1..l -> Int] /\ a = [n \in 1..l |-> a[n]]
    OBVIOUS
  <1>2. /\ Len(ArrayBytes(w, a)) = w * l /\ w * l \in Nat /\ (w * l) \div w = l
        /\ \A n \in 1..l, b \in 1..w : ArrayBytes(w, a)[w * (n - 1) + b] = <<a[n], b, w>>
    BY ArrayIs
  <1>3. o \in Nat /\ o + w * l <= Len(d) /\ \A i \in 1..w * l : d[o + i] = ArrayBytes(w, a)[i]
    BY <1>2 DEF At
  <1> HIDE DEF l
  <1>4. ASSUME NEW n \in 1..l PROVE Read(d, o + w * (n - 1), w) = a[n]
    <2> DEFINE p == w * (n - 1)
    <2>1. p \in Nat /\ p + w <= w * l /\ w \in Nat \ {0} /\ n \in Nat
      <3>1. CASE w = 1
        BY <3>1, <1>1
      <3>2. CASE w = 4
        BY <3>2, <1>1
      <3>3. CASE w = 8
        BY <3>3, <1>1
      <3>4. QED
        BY <3>1, <3>2, <3>3
    <2>2. \A b \in 1..w : ArrayBytes(w, a)[p + b] = <<a[n], b, w>>
      BY <1>2
    <2> HIDE DEF p
    <2> DEFINE wl == w * l
    <2>3. wl \in Nat /\ p + w <= wl /\ o + wl <= Len(d)
          /\ \A i \in 1..wl : d[o + i] = ArrayBytes(w, a)[i]
      BY <2>1, <1>2, <1>3
    <2> HIDE DEF wl
    <2>4. ASSUME NEW b \in 1..w PROVE d[o + p + b] = <<a[n], b, w>>
      <3>1. p + b \in 1..wl /\ o + p + b = o + (p + b)
        BY <2>1, <2>3, <1>3
      <3>2. QED
        BY <3>1, <2>2, <2>3
    <2>5. a[n] \in Int
      BY <1>1
    <2>6. At(d, o + p, Field(w, a[n]))
      <3>1. Len(Field(w, a[n])) = w /\ \A b \in 1..w : Field(w, a[n])[b] = <<a[n], b, w>>
        BY <2>1, <2>5, FieldIs
      <3>2. o + p \in Nat /\ o + p + w <= Len(d)
        BY <2>1, <2>3, <1>3
      <3>3. QED
        BY <3>1, <3>2, <2>4 DEF At
    <2>7. Read(d, o + p, w) = a[n]
      BY <2>1, <2>5, <2>6, ReadField
    <2>8. QED
      BY <2>7 DEF p
  <1>5. ReadArray(d, o, w, w * l) = [n \in 1..l |-> Read(d, o + w * (n - 1), w)]
    BY <1>2 DEF ReadArray
  <1>6. QED
    BY <1>1, <1>4, <1>5 DEF l

-----------------------------------------------------------------------------
(* The parts of a message that are not always there *)
TargetPart(m) ==
    IF m.target = None THEN <<>> ELSE NameBytes(m.target)

IndexPart(m) ==
    IF m.indices = None THEN <<>> ELSE LengthOf(8, m.indices) \o ArrayBytes(8, m.indices)

GradPart(m) ==
    IF m.grad = None THEN <<>> ELSE
        Field(8, m.version) \o Field(8, m.step) \o LengthOf(4, m.grad) \o ArrayBytes(4, m.grad)
        \o IndexPart(m)

DataPart(m) ==
    IF m.payload = None THEN Field(4, 0)
    ELSE Field(4, Len(m.payload)) \o ArrayBytes(1, m.payload)

LEMMA MessageFields ==
    ASSUME NEW m \in Message
    PROVE  /\ m.type \in Nat /\ m.sender \in Nat /\ m.sequence \in Nat
           /\ m.version \in Nat /\ m.step \in Nat /\ m.incarnation \in Nat
           /\ NameLength[m.sender] \in Nat \ {0}
           /\ m.target # None => m.target \in Nat /\ NameLength[m.target] \in Nat \ {0}
           /\ m.grad # None => m.grad \in Seq(Int)
           /\ m.indices # None => m.indices \in Seq(Int)
           /\ m.payload # None => m.payload \in Seq(Int)
  <1>1. m.payload # None => m.payload \in Seq(Nat)
    BY DEF Message
  <1>2. m.payload # None => m.payload \in Seq(Int)
    <2>1. ASSUME NEW s \in Seq(Nat) PROVE s \in Seq(Int)
      OBVIOUS
    <2>2. QED
      BY <2>1, <1>1
  <1>3. /\ m.sender \in Nat /\ NameLength[m.sender] \in Nat \ {0}
        /\ m.target # None => m.target \in Nat /\ NameLength[m.target] \in Nat \ {0}
    BY NameAssumption DEF Message
  <1>4. QED
    BY <1>2, <1>3 DEF Message

LEMMA LengthOfIs ==
    ASSUME NEW w \in {1, 4, 8}, NEW a \in Seq(Int)
    PROVE  /\ LengthOf(w, a) = Field(8, w * Len(a)) /\ w * Len(a) \in Int
           /\ LengthOf(w, a) \in Seq(Byte) /\ Len(LengthOf(w, a)) = 8
  <1>1. w * Len(a) \in Int /\ 8 \in Nat
    BY ArrayIs
  <1>2. QED
    BY <1>1, FieldIs DEF LengthOf

LEMMA JoinIs ==
    ASSUME NEW x \in Seq(Byte), NEW y \in Seq(Byte)
    PROVE  x \o y \in Seq(Byte) /\ Len(x \o y) = Len(x) + Len(y)
  OBVIOUS

LEMMA NameIs ==
    ASSUME NEW n \in Nat, NameLength[n] \in Nat \ {0}
    PROVE  LET k == NameLength[n]
           IN  /\ NameBytes(n) = Field(2, k) \o Field(k, n)
               /\ Field(2, k) \in Seq(Byte) /\ Len(Field(2, k)) = 2
               /\ Field(k, n) \in Seq(Byte) /\ Len(Field(k, n)) = k
               /\ NameBytes(n) \in Seq(Byte) /\ Len(NameBytes(n)) = 2 + k
  <1> DEFINE k == NameLength[n]
             x == Field(2, k)
             y == Field(k, n)
  <1>1. k \in Nat /\ k \in Int /\ 2 \in Nat /\ n \in Int
    OBVIOUS
  <1> HIDE DEF k
  <1>2. x \in Seq(Byte) /\ Len(x) = 2
    BY <1>1, FieldBytes
  <1>3. y \in Seq(Byte) /\ Len(y) = k
    BY <1>1, FieldBytes
  <1>4. NameBytes(n) = x \o y
    BY DEF NameBytes, k
  <1> HIDE DEF x, y
  <1>5. x \o y \in Seq(Byte) /\ Len(x \o y) = Len(x) + Len(y)
    BY <1>2, <1>3, JoinIs
  <1>6. QED
    BY <1>2, <1>3, <1>4, <1>5 DEF k, x, y

LEMMA PartsAreBytes ==
    ASSUME NEW m \in Message
    PROVE  /\ TargetPart(m) \in Seq(Byte) /\ IndexPart(m) \in Seq(Byte)
           /\ GradPart(m) \in Seq(Byte) /\ DataPart(m) \in Seq(Byte)
  <1> USE MessageFields
  <1>1. <<>> \in Seq(Byte)
    BY EmptySeq
  <1>2. TargetPart(m) \in Seq(Byte)
    <2>1. CASE m.target # None
      <3>1. NameBytes(m.target) \in Seq(Byte)
        BY <2>1, NameIs
      <3>2. QED
        BY <3>1, <2>1 DEF TargetPart
    <2>2. QED
      BY <2>1, <1>1 DEF TargetPart
  <1>3. IndexPart(m) \in Seq(Byte)
    <2>1. CASE m.indices # None
      <3>1. LengthOf(8, m.indices) \in Seq(Byte) /\ ArrayBytes(8, m.indices) \in Seq(Byte)
        BY <2>1, LengthOfIs, ArrayIs
      <3>2. QED
        BY <3>1, <2>1, JoinIs DEF IndexPart
    <2>2. QED
      BY <2>1, <1>1 DEF IndexPart
  <1>4. GradPart(m) \in Seq(Byte)
    <2>1. CASE m.grad # None
      <3>0. m.version \in Int /\ m.step \in Int
        OBVIOUS
      <3>1. Field(8, m.version) \in Seq(Byte) /\ Field(8, m.step) \in Seq(Byte)
        BY <3>0, FieldIs
      <3>2. LengthOf(4, m.grad) \in Seq(Byte) /\ ArrayBytes(4, m.grad) \in Seq(Byte)
        BY <2>1, LengthOfIs, ArrayIs
      <3>3. Field(8, m.version) \o Field(8, m.step) \in Seq(Byte)
        BY <3>1, JoinIs
      <3>4. Field(8, m.version) \o Field(8, m.step) \o LengthOf(4, m.grad) \in Seq(Byte)
        BY <3>2, <3>3, JoinIs
      <3>5. Field(8, m.version) \o Field(8, m.step) \o LengthOf(4, m.grad)
            \o ArrayBytes(4, m.grad) \in Seq(Byte)
        BY <3>2, <3>4, JoinIs
      <3>6. QED
        BY <3>5, <2>1, <1>3, JoinIs DEF GradPart
    <2>2. QED
      BY <2>1, <1>1 DEF GradPart
  <1>5. DataPart(m) \in Seq(Byte)
    <2>1. CASE m.payload # None
      <3>1. Len(m.payload) \in Int
        BY <2>1
      <3>2. Field(4, Len(m.payload)) \in Seq(Byte) /\ ArrayBytes(1, m.payload) \in Seq(Byte)
        BY <3>1, <2>1, FieldIs, ArrayIs
      <3>3. QED
        BY <3>2, <2>1, JoinIs DEF DataPart
    <2>2. CASE m.payload = None
      BY <2>2, FieldIs DEF DataPart
    <2>3. QED
      BY <2>1, <2>2
  <1>6. QED
    BY <1>2, <1>3, <1>4, <1>5

(* Where pack() puts the parts *)
LEMMA PackedLayout ==
    ASSUME NEW m \in Message
    PROVE  LET d == Packed(m)
               t == Len(TargetPart(m))
               q == Len(GradPart(m))
               k == NameLength[m.sender]
           IN  /\ Len(d) \in Nat /\ t \in Nat /\ q \in Nat
               /\ At(d, 0, Field(1, m.type)) /\ At(d, 1, Field(2, k))
               /\ At(d, 3, Field(k, m.sender)) /\ At(d, 3 + k, Field(8, m.sequence))
               /\ At(d, 19 + k, Field(1, Flags(m)))
               /\ At(d, 20 + k, TargetPart(m)) /\ At(d, 20 + k + t, GradPart(m))
               /\ At(d, 20 + k + t + q, Field(4, m.incarnation))
               /\ At(d, 24 + k + t + q, DataPart(m))
               /\ Len(d) = 24 + k + t + q + Len(DataPart(m)) /\ Len(DataPart(m)) \in Nat
  <1> DEFINE d == Packed(m)
             t == Len(TargetPart(m))
             q == Len(GradPart(m))
             k == NameLength[m.sender]
             f1 == Field(1, m.type)
             f2 == Field(2, k)
             f3 == Field(k, m.sender)
             f4 == Field(8, m.sequence)
             f5 == Field(8, 0)
             f6 == Field(1, Flags(m))
             f9 == Field(4, m.incarnation)
             p2 == f1 \o f2
             n == f2 \o f3
             p3 == p2 \o f3
             p4 == p3 \o f4
             p5 == p4 \o f5
             p6 == p5 \o f6
             p7 == p6 \o TargetPart(m)
             p8 == p7 \o GradPart(m)
             p9 == p8 \o f9
  <1>1. d = p9 \o DataPart(m)
    <2>1. NameBytes(m.sender) = n
      BY DEF NameBytes
    <2>2. k \in Nat /\ 1 \in Nat /\ m.sender \in Nat /\ m.type \in Int
      BY MessageFields
    <2>3. f1 \in Seq(Byte) /\ f2 \in Seq(Byte) /\ f3 \in Seq(Byte)
      <3> HIDE DEF k
      <3>1. k \in Int /\ m.sender \in Int /\ 2 \in Nat
        BY <2>2
      <3>2. QED
        BY <2>2, <3>1, FieldBytes, Zenon
    <2> HIDE DEF f1, f2, f3
    <2>4. f1 \o n = p3
      BY <2>3
    <2> HIDE DEF n, p3
    <2>5. d = f1 \o n \o f4 \o f5 \o f6 \o TargetPart(m) \o GradPart(m) \o f9 \o DataPart(m)
      BY <2>1 DEF Packed, TargetPart, IndexPart, GradPart, DataPart, f1
    <2>6. QED
      BY <2>4, <2>5
  <1>2. Flags(m) \in Int
    BY DEF Flags
  <1>3. /\ f1 \in Seq(Byte) /\ Len(f1) = 1 /\ f2 \in Seq(Byte) /\ Len(f2) = 2
        /\ f3 \in Seq(Byte) /\ Len(f3) = k /\ f4 \in Seq(Byte) /\ Len(f4) = 8
        /\ f5 \in Seq(Byte) /\ Len(f5) = 8 /\ f6 \in Seq(Byte) /\ Len(f6) = 1
        /\ f9 \in Seq(Byte) /\ Len(f9) = 4
    <2>1. /\ m.type \in Int /\ m.sender \in Int /\ m.sequence \in Int /\ m.incarnation \in Int
          /\ k \in Nat /\ k \in Int /\ 1 \in Nat /\ 2 \in Nat /\ 4 \in Nat /\ 8 \in Nat
      BY MessageFields
    <2> HIDE DEF k
    <2>2. f1 \in Seq(Byte) /\ Len(f1) = 1
      BY <2>1, <1>2, FieldBytes
    <2>3. f2 \in Seq(Byte) /\ Len(f2) = 2
      BY <2>1, FieldBytes
    <2>4. f3 \in Seq(Byte) /\ Len(f3) = k
      BY <2>1, <1>2, FieldBytes
    <2>5. f4 \in Seq(Byte) /\ Len(f4) = 8
      BY <2>1, <1>2, FieldBytes
    <2>6. f5 \in Seq(Byte) /\ Len(f5) = 8
      <3>1. \A v \in Int : Field(8, v) \in Seq(Byte) /\ Len(Field(8, v)) = 8
        BY FieldBytes
      <3>2. QED
        BY <3>1
    <2>7. f6 \in Seq(Byte) /\ Len(f6) = 1
      BY <2>1, <1>2, FieldBytes
    <2>8. f9 \in Seq(Byte) /\ Len(f9) = 4
      BY <2>1, <1>2, FieldBytes
    <2> HIDE DEF f1, f2, f3, f4, f5, f6, f9
    <2>9. QED
      BY <2>2, <2>3, <2>4, <2>5, <2>6, <2>7, <2>8
  <1>4. /\ TargetPart(m) \in Seq(Byte) /\ GradPart(m) \in Seq(Byte) /\ DataPart(m) \in Seq(Byte)
        /\ t \in Nat /\ q \in Nat /\ Len(DataPart(m)) \in Nat /\ k \in Nat
    BY PartsAreBytes, MessageFields
  <1> HIDE DEF d, t, q, k, n, f1, f2, f3, f4, f5, f6, f9
  <1>5. p2 \in Seq(Byte) /\ Len(p2) = 3
    <2>1. p2 \in Seq(Byte) /\ Len(p2) = Len(f1) + Len(f2)
      BY <1>3, JoinIs
    <2> HIDE DEF p2
    <2>2. QED
      BY <2>1, <1>3
  <1> HIDE DEF p2
  <1>6. p3 \in Seq(Byte) /\ Len(p3) = 3 + k
    <2>1. p3 \in Seq(Byte) /\ Len(p3) = Len(p2) + Len(f3)
      BY <1>3, <1>5, JoinIs
    <2> HIDE DEF p3
    <2>2. QED
      BY <2>1, <1>3, <1>4, <1>5
  <1> HIDE DEF p3
  <1>7. p4 \in Seq(Byte) /\ Len(p4) = 11 + k
    <2>1. p4 \in Seq(Byte) /\ Len(p4) = Len(p3) + Len(f4)
      BY <1>3, <1>6, JoinIs
    <2> HIDE DEF p4
    <2>2. QED
      BY <2>1, <1>3, <1>4, <1>6
  <1> HIDE DEF p4
  <1>8. p5 \in Seq(Byte) /\ Len(p5) = 19 + k
    <2>1. p5 \in Seq(Byte) /\ Len(p5) = Len(p4) + Len(f5)
      BY <1>3, <1>7, JoinIs
    <2> HIDE DEF p5
    <2>2. QED
      BY <2>1, <1>3, <1>4, <1>7
  <1> HIDE DEF p5
  <1>9. p6 \in Seq(Byte) /\ Len(p6) = 20 + k
    <2>1. p6 \in Seq(Byte) /\ Len(p6) = Len(p5) + Len(f6)
      BY <1>3, <1>8, JoinIs
    <2> HIDE DEF p6
    <2>2. QED
      BY <2>1, <1>3, <1>4, <1>8
  <1> HIDE DEF p6
  <1>10. p7 \in Seq(Byte) /\ Len(p7) = 20 + k + t
    <2>1. p7 \in Seq(Byte) /\ Len(p7) = Len(p6) + Len(TargetPart(m))
      BY <1>4, <1>9, JoinIs
    <2> HIDE DEF p7
    <2>2. QED
      BY <2>1, <1>4, <1>9 DEF t
  <1> HIDE DEF p7
  <1>11. p8 \in Seq(Byte) /\ Len(p8) = 20 + k + t + q
    <2>1. p8 \in Seq(Byte) /\ Len(p8) = Len(p7) + Len(GradPart(m))
      BY <1>4, <1>10, JoinIs
    <2> HIDE DEF p8
    <2>2. QED
      BY <2>1, <1>4, <1>10 DEF q
  <1> HIDE DEF p8
  <1>12. p9 \in Seq(Byte) /\ Len(p9) = 24 + k + t + q
    <2>1. p9 \in Seq(Byte) /\ Len(p9) = Len(p8) + Len(f9)
      BY <1>3, <1>4, <1>11, JoinIs
    <2> HIDE DEF p9
    <2>2. QED
      BY <2>1, <1>3, <1>4, <1>11
  <1> HIDE DEF p9
  <1>13. d \in Seq(Byte) /\ Len(d) \in Nat /\ Len(d) = 24 + k + t + q + Len(DataPart(m))
    <2>1. d \in Seq(Byte) /\ Len(d) = Len(p9) + Len(DataPart(m))
      BY <1>1, <1>4, <1>12, JoinIs
    <2>2. QED
      BY <2>1, <1>4, <1>12
  <1>14. At(d, 0, d)
    BY <1>13 DEF At
  <1>15. At(d, 0, p9) /\ At(d, 24 + k + t + q, DataPart(m))
    <2>1. At(d, 0, p9) /\ At(d, 0 + Len(p9), DataPart(m))
      BY <1>1, <1>4, <1>12, <1>13, <1>14, JoinedAt
    <2>2. 0 + Len(p9) = 24 + k + t + q
      BY <1>4, <1>12
    <2>3. QED
      BY <2>1, <2>2
  <1>16. At(d, 0, p8) /\ At(d, 20 + k + t + q, f9)
    <2>1. At(d, 0, p8) /\ At(d, 0 + Len(p8), f9)
      BY <1>3, <1>11, <1>13, <1>15, JoinedAt DEF p9
    <2>2. 0 + Len(p8) = 20 + k + t + q
      BY <1>4, <1>11
    <2>3. QED
      BY <2>1, <2>2
  <1>17. At(d, 0, p7) /\ At(d, 20 + k + t, GradPart(m))
    <2>1. At(d, 0, p7) /\ At(d, 0 + Len(p7), GradPart(m))
      BY <1>4, <1>10, <1>13, <1>16, JoinedAt DEF p8
    <2>2. 0 + Len(p7) = 20 + k + t
      BY <1>4, <1>10
    <2>3. QED
      BY <2>1, <2>2
  <1>18. At(d, 0, p6) /\ At(d, 0 + Len(p6), TargetPart(m))
    BY <1>4, <1>9, <1>13, <1>17, JoinedAt DEF p7
  <1>19. At(d, 0, p5) /\ At(d, 0 + Len(p5), f6)
    BY <1>3, <1>8, <1>13, <1>18, JoinedAt DEF p6
  <1>20. At(d, 0, p4)
    BY <1>3, <1>7, <1>13, <1>19, JoinedAt DEF p5
  <1>21. At(d, 0, p3) /\ At(d, 0 + Len(p3), f4)
    BY <1>3, <1>6, <1>13, <1>20, JoinedAt DEF p4
  <1>22. At(d, 0, p2) /\ At(d, 0 + Len(p2), f3)
    BY <1>3, <1>5, <1>13, <1>21, JoinedAt DEF p3
  <1>23. At(d, 0, f1) /\ At(d, 0 + Len(f1), f2)
    BY <1>3, <1>13, <1>22, JoinedAt DEF p2
  <1>24. 0 + Len(p6) = 20 + k /\ 0 + Len(p5) = 19 + k /\ 0 + Len(p3) = 3 + k /\ 0 + Len(p2) = 3
         /\ 0 + Len(f1) = 1
    BY <1>3, <1>4, <1>5, <1>6, <1>8, <1>9
  <1>25. At(d, 20 + k, TargetPart(m)) /\ At(d, 19 + k, f6) /\ At(d, 3 + k, f4) /\ At(d, 3, f3) /\ At(d, 1, f2)
    BY <1>18, <1>19, <1>21, <1>22, <1>23, <1>24
  <1>26. QED
    BY <1>4, <1>13, <1>15, <1>16, <1>17, <1>23, <1>25 DEF d, t, q, k, f1, f2, f3, f4, f6, f9

-----------------------------------------------------------------------------
(* What unpack() reads back *)

LEMMA FlagsTell ==
    ASSUME NEW m \in Message
    PROVE  /\ Flags(m) \in Int
           /\ Flags(m) % 2 = 1 <=> m.target # None
           /\ (Flags(m) \div 2) % 2 = 1 <=> m.grad # None
           /\ m.grad # None => ((Flags(m) \div 4) % 2 = 1 <=> m.indices # None)
  <1>1. CASE m.target = None
    <2>1. CASE m.grad = None
      BY <1>1, <2>1 DEF Flags
    <2>2. CASE m.grad # None /\ m.indices = None
      BY <1>1, <2>2 DEF Flags
    <2>3. CASE m.grad # None /\ m.indices # None
      BY <1>1, <2>3 DEF Flags
    <2>4. QED
      BY <2>1, <2>2, <2>3
  <1>2. CASE m.target # None
    <2>1. CASE m.grad = None
      BY <1>2, <2>1 DEF Flags
    <2>2. CASE m.grad # None /\ m.indices = None
      BY <1>2, <2>2 DEF Flags
    <2>3. CASE m.grad # None /\ m.indices # None
      BY <1>2, <2>3 DEF Flags
    <2>4. QED
      BY <2>1, <2>2, <2>3
  <1>3. QED
    BY <1>1, <1>2

LEMMA TargetRead ==
    ASSUME NEW m \in Message, NEW d, Len(d) \in Nat, NEW o \in Nat, At(d, o, TargetPart(m))
    PROVE  IF m.target = None THEN Len(TargetPart(m)) = 0
           ELSE LET k == NameLength[m.target] IN
                /\ k \in Nat /\ Len(TargetPart(m)) = 2 + k /\ Read(d, o, 2) = k
                /\ Read(d, o + 2, k) = m.target
  <1>1. CASE m.target # None
    <2> DEFINE k == NameLength[m.target]
               x == Field(2, k)
               y == Field(k, m.target)
    <2>1. /\ m.target \in Nat /\ m.target \in Int /\ k \in Nat \ {0} /\ k \in Int
          /\ 2 \in Nat \ {0} /\ o + 2 \in Nat
      BY <1>1, MessageFields
    <2>2. x \in Seq(Byte) /\ Len(x) = 2 /\ y \in Seq(Byte) /\ Len(y) = k
      BY <2>1, NameIs
    <2>3. TargetPart(m) = x \o y /\ Len(TargetPart(m)) = 2 + k
      BY <1>1, <2>1, NameIs DEF TargetPart
    <2> HIDE DEF x, y
    <2>4. At(d, o, x) /\ At(d, o + 2, y)
      BY <2>2, <2>3, JoinedAt, ZenonT(60)
    <2> HIDE DEF k
    <2>5. Read(d, o, 2) = k
      BY <2>1, <2>4, ReadField, Zenon DEF x
    <2>6. Read(d, o + 2, k) = m.target
      BY <2>1, <2>4, ReadField, Zenon DEF y
    <2>7. QED
      BY <1>1, <2>1, <2>3, <2>5, <2>6 DEF k
  <1>2. CASE m.target = None
    BY <1>2 DEF TargetPart
  <1>3. QED
    BY <1>1, <1>2

LEMMA IndexRead ==
    ASSUME NEW m \in Message, NEW d, Len(d) \in Nat, NEW o \in Nat, At(d, o, IndexPart(m))
    PROVE  IF m.indices = None THEN Len(IndexPart(m)) = 0
           ELSE /\ Read(d, o, 8) \in Nat /\ Len(IndexPart(m)) = 8 + Read(d, o, 8)
                /\ ReadArray(d, o + 8, 8, Read(d, o, 8)) = m.indices
  <1>1. CASE m.indices # None
    <2> DEFINE x == LengthOf(8, m.indices)
               y == ArrayBytes(8, m.indices)
               n == 8 * Len(m.indices)
    <2>1. m.indices \in Seq(Int) /\ 8 \in Nat \ {0}
      BY <1>1, MessageFields
    <2>2. x \in Seq(Byte) /\ Len(x) = 8 /\ x = Field(8, n)
      BY <2>1, LengthOfIs
    <2>3. y \in Seq(Byte) /\ Len(y) = n /\ n \in Nat
      BY <2>1, ArrayIs
    <2>4. IndexPart(m) = x \o y
      BY <1>1 DEF IndexPart
    <2> HIDE DEF x, y, n
    <2>5. Len(x \o y) = Len(x) + Len(y)
      BY <2>2, <2>3, JoinIs
    <2>6. At(d, o, x) /\ At(d, o + 8, y)
      <3>1. At(d, o, x \o y)
        BY <2>4
      <3>2. At(d, o, x) /\ At(d, o + Len(x), y)
        BY <3>1, <2>2, <2>3, JoinedAt
      <3>3. QED
        BY <3>2, <2>2
    <2>7. Read(d, o, 8) = n
      BY <2>1, <2>2, <2>3, <2>6, ReadField
    <2>8. ReadArray(d, o + 8, 8, n) = m.indices
      BY <2>1, <2>6, ReadElements DEF y, n
    <2>9. Len(IndexPart(m)) = 8 + n
      BY <2>2, <2>3, <2>4, <2>5
    <2>10. QED
      BY <2>3, <2>7, <2>8, <2>9, <1>1
  <1>2. CASE m.indices = None
    BY <1>2 DEF IndexPart
  <1>3. QED
    BY <1>1, <1>2

LEMMA GradRead ==
    ASSUME NEW m \in Message, NEW d, Len(d) \in Nat, NEW o \in Nat, At(d, o, GradPart(m))
    PROVE  IF m.grad = None THEN Len(GradPart(m)) = 0
           ELSE /\ Read(d, o, 8) = m.version /\ Read(d, o + 8, 8) = m.step
                /\ Read(d, o + 16, 8) \in Nat
                /\ ReadArray(d, o + 24, 4, Read(d, o + 16, 8)) = m.grad
                /\ At(d, o + 24 + Read(d, o + 16, 8), IndexPart(m))
                /\ Len(IndexPart(m)) \in Nat
                /\ Len(GradPart(m)) = 24 + Read(d, o + 16, 8) + Len(IndexPart(m))
  <1>1. CASE m.grad # None
    <2> DEFINE a == Field(8, m.version)
               b == Field(8, m.step)
               x == LengthOf(4, m.grad)
               y == ArrayBytes(4, m.grad)
               z == IndexPart(m)
               n == 4 * Len(m.grad)
               p2 == a \o b
               p3 == p2 \o x
               p4 == p3 \o y
    <2>1. /\ m.grad \in Seq(Int) /\ 8 \in Nat \ {0} /\ m.version \in Int /\ m.step \in Int
      BY <1>1, MessageFields
    <2>2. a \in Seq(Byte) /\ Len(a) = 8 /\ b \in Seq(Byte) /\ Len(b) = 8
      BY <2>1, FieldIs
    <2>3. x \in Seq(Byte) /\ Len(x) = 8 /\ x = Field(8, n)
      BY <2>1, LengthOfIs
    <2>4. y \in Seq(Byte) /\ Len(y) = n /\ n \in Nat
      BY <2>1, ArrayIs
    <2>5. z \in Seq(Byte) /\ Len(z) \in Nat
      BY PartsAreBytes
    <2>6. GradPart(m) = p4 \o z
      BY <1>1 DEF GradPart
    <2> HIDE DEF a, b, x, y, z, n
    <2>7. p2 \in Seq(Byte) /\ Len(p2) = 16
      <3>1. p2 \in Seq(Byte) /\ Len(p2) = Len(a) + Len(b)
        BY <2>2, JoinIs
      <3> HIDE DEF p2
      <3>2. QED
        BY <3>1, <2>2
    <2> HIDE DEF p2
    <2>8. p3 \in Seq(Byte) /\ Len(p3) = 24
      <3>1. p3 \in Seq(Byte) /\ Len(p3) = Len(p2) + Len(x)
        BY <2>3, <2>7, JoinIs
      <3> HIDE DEF p3
      <3>2. QED
        BY <3>1, <2>3, <2>7
    <2> HIDE DEF p3
    <2>9. p4 \in Seq(Byte) /\ Len(p4) = 24 + n
      <3>1. p4 \in Seq(Byte) /\ Len(p4) = Len(p3) + Len(y)
        BY <2>4, <2>8, JoinIs
      <3> HIDE DEF p4
      <3>2. QED
        BY <3>1, <2>4, <2>8
    <2> HIDE DEF p4
    <2>10. Len(GradPart(m)) = 24 + n + Len(z)
      <3>1. Len(GradPart(m)) = Len(p4) + Len(z)
        BY <2>5, <2>6, <2>9, JoinIs
      <3>2. QED
        BY <3>1, <2>9
    <2>11. At(d, o, p4) /\ At(d, o + 24 + n, z)
      <3>1. At(d, o, p4) /\ At(d, o + Len(p4), z)
        BY <2>5, <2>6, <2>9, JoinedAt, SMTT(30)
      <3>2. o + Len(p4) = o + 24 + n
        BY <2>4, <2>9
      <3>3. QED
        BY <3>1, <3>2
    <2>12. At(d, o, p3) /\ At(d, o + 24, y)
      BY <2>4, <2>8, <2>11, JoinedAt DEF p4
    <2>13. At(d, o, p2) /\ At(d, o + 16, x)
      BY <2>3, <2>7, <2>12, JoinedAt DEF p3
    <2>14. At(d, o, a) /\ At(d, o + 8, b)
      BY <2>2, <2>13, JoinedAt DEF p2
    <2>15. Read(d, o, 8) = m.version /\ Read(d, o + 8, 8) = m.step
      BY <2>1, <2>14, ReadField DEF a, b
    <2>16. Read(d, o + 16, 8) = n
      BY <2>1, <2>3, <2>4, <2>13, ReadField
    <2>17. ReadArray(d, o + 24, 4, n) = m.grad
      BY <2>1, <2>12, ReadElements DEF y, n
    <2>18. QED
      BY <2>4, <2>5, <2>10, <2>11, <2>15, <2>16, <2>17, <1>1 DEF z
  <1>2. CASE m.grad = None
    BY <1>2 DEF GradPart
  <1>3. QED
    BY <1>1, <1>2

LEMMA DataRead ==
    ASSUME NEW m \in Message, NEW d, Len(d) \in Nat, NEW o \in Nat, At(d, o, DataPart(m))
    PROVE  /\ Read(d, o, 4) \in Nat /\ Len(DataPart(m)) = 4 + Read(d, o, 4)
           /\ IF m.payload = None \/ m.payload = <<>> THEN Read(d, o, 4) = 0
              ELSE Read(d, o, 4) > 0 /\ ReadArray(d, o + 4, 1, Read(d, o, 4)) = m.payload
  <1>1. CASE m.payload # None
    <2> DEFINE n == Len(m.payload)
               x == Field(4, n)
               y == ArrayBytes(1, m.payload)
    <2>1. m.payload \in Seq(Int) /\ 4 \in Nat \ {0}
      BY <1>1, MessageFields
    <2>2. n \in Nat /\ 1 * n = n /\ (n = 0 <=> m.payload = <<>>)
      BY <2>1, EmptySeq
    <2>3. y \in Seq(Byte) /\ Len(y) = n
      BY <2>1, <2>2, ArrayIs
    <2>4. x \in Seq(Byte) /\ Len(x) = 4
      <3>1. n \in Int /\ 4 \in Nat
        BY <2>2
      <3> HIDE DEF n
      <3>2. QED
        BY <3>1, FieldBytes
    <2>5. DataPart(m) = x \o y
      BY <1>1 DEF DataPart
    <2> HIDE DEF x, y
    <2>6. Len(x \o y) = Len(x) + Len(y)
      BY <2>3, <2>4, JoinIs
    <2>7. At(d, o, x) /\ At(d, o + 4, y)
      BY <2>3, <2>4, <2>5, JoinedAt
    <2>8. Read(d, o, 4) = n
      <3>1. At(d, o, Field(4, n))
        BY <2>7, Zenon DEF x
      <3>2. n \in Int
        BY <2>2
      <3> HIDE DEF n
      <3>3. QED
        BY <3>1, <3>2, <2>1, ReadField, Zenon
    <2>9. ReadArray(d, o + 4, 1, n) = m.payload
      <3>1. At(d, o + 4, ArrayBytes(1, m.payload)) /\ 1 \in {1, 4, 8}
        BY <2>7, Zenon DEF y
      <3>2. ReadArray(d, o + 4, 1, 1 * n) = m.payload
        BY <3>1, <2>1, ReadElements, Zenon
      <3> HIDE DEF n
      <3>3. QED
        BY <3>2, <2>2
    <2> HIDE DEF n
    <2>10. Len(DataPart(m)) = 4 + n
      BY <2>3, <2>4, <2>5, <2>6
    <2>11. QED
      BY <2>2, <2>8, <2>9, <2>10, <1>1
  <1>2. CASE m.payload = None
    <2>1. DataPart(m) = Field(4, 0) /\ 4 \in Nat \ {0} /\ 0 \in Int
      BY <1>2 DEF DataPart
    <2>2. Len(DataPart(m)) = 4
      BY <2>1, FieldIs
    <2>3. Read(d, o, 4) = 0
      BY <2>1, ReadField
    <2>4. QED
      BY <2>2, <2>3, <1>2
  <1>3. QED
    BY <1>1, <1>2

(* u is m as unpack() gives it back from the bytes d. *)
Same(u, d, m) ==
    /\ u.end = Len(d)
    /\ u.type = m.type /\ u.sender = m.sender /\ u.sequence = m.sequence
    /\ u.target = m.target /\ u.grad = m.grad /\ u.incarnation = m.incarnation
    /\ u.payload = IF m.payload = <<>> THEN None ELSE m.payload
    /\ IF m.grad = None
       THEN u.indices = None /\ u.version = 0 /\ u.step = 0
       ELSE u.indices = m.indices /\ u.version = m.version /\ u.step = m.step

(* unpack(pack(m)) is m, for every message. *)
LEMMA UnpackPack ==
    ASSUME NEW m \in Message
    PROVE  Same(Unpacked(Packed(m)), Packed(m), m)
  <1> DEFINE d == Packed(m)
             t == Len(TargetPart(m))
             q == Len(GradPart(m))
             k == NameLength[m.sender]
             c == NameLength[m.target]
             nameLen   == Read(d, 1, 2)
             o1        == 3 + nameLen
             flags     == Read(d, o1 + 16, 1)
             o2        == o1 + 17
             hasTarget == flags % 2 = 1
             targetLen == Read(d, o2, 2)
             o3        == IF hasTarget THEN o2 + 2 + targetLen ELSE o2
             hasGrad   == (flags \div 2) % 2 = 1
             gradLen   == Read(d, o3 + 16, 8)
             o4        == IF hasGrad THEN o3 + 24 + gradLen ELSE o3
             hasIndex  == hasGrad /\ (flags \div 4) % 2 = 1
             indexLen  == Read(d, o4, 8)
             o5        == IF hasIndex THEN o4 + 8 + indexLen ELSE o4
             dataLen   == Read(d, o5 + 4, 4)
             u == Unpacked(d)
  <1>1. /\ Len(d) \in Nat /\ t \in Nat /\ q \in Nat
        /\ At(d, 0, Field(1, m.type)) /\ At(d, 1, Field(2, k))
        /\ At(d, 3, Field(k, m.sender)) /\ At(d, 3 + k, Field(8, m.sequence))
        /\ At(d, 19 + k, Field(1, Flags(m)))
        /\ At(d, 20 + k, TargetPart(m)) /\ At(d, 20 + k + t, GradPart(m))
        /\ At(d, 20 + k + t + q, Field(4, m.incarnation))
        /\ At(d, 24 + k + t + q, DataPart(m))
        /\ Len(d) = 24 + k + t + q + Len(DataPart(m)) /\ Len(DataPart(m)) \in Nat
    BY PackedLayout, Zenon
  <1>2. /\ u.type = Read(d, 0, 1) /\ u.sender = Read(d, 3, nameLen) /\ u.sequence = Read(d, o1, 8)
        /\ u.target = IF hasTarget THEN Read(d, o2 + 2, targetLen) ELSE None
        /\ u.grad = IF hasGrad THEN ReadArray(d, o3 + 24, 4, gradLen) ELSE None
        /\ u.indices = IF hasIndex THEN ReadArray(d, o4 + 8, 8, indexLen) ELSE None
        /\ u.version = IF hasGrad THEN Read(d, o3, 8) ELSE 0
        /\ u.step = IF hasGrad THEN Read(d, o3 + 8, 8) ELSE 0
        /\ u.incarnation = Read(d, o5, 4)
        /\ u.payload = IF dataLen > 0 THEN ReadArray(d, o5 + 8, 1, dataLen) ELSE None
        /\ u.end = o5 + 8 + dataLen
    BY Zenon DEF Unpacked
  <1>name. k \in Nat \ {0} /\ k \in Int
    BY MessageFields
  <1> HIDE DEF u, d, t, q, k, c
  <1>at. /\ Len(d) \in Nat /\ t \in Nat /\ q \in Nat
         /\ 1 \in Nat \ {0} /\ 2 \in Nat \ {0} /\ 4 \in Nat \ {0} /\ 8 \in Nat \ {0} /\ k \in Nat
         /\ 3 + k \in Nat /\ 19 + k \in Nat /\ 20 + k \in Nat /\ 20 + k + t + q \in Nat
    BY <1>1, <1>name
  <1>3. /\ m.type \in Int /\ m.sender \in Int /\ m.sequence \in Int /\ m.incarnation \in Int
        /\ Flags(m) \in Int
    BY MessageFields, FlagsTell
  <1>4. nameLen = k
    <2>1. At(d, 1, Field(2, k))
      BY <1>1, Zenon
    <2>2. QED
      BY <2>1, <1>at, <1>name, ReadField, Zenon
  <1> HIDE DEF nameLen
  <1>5. o1 = 3 + k /\ o2 = 20 + k
    BY <1>4, <1>name
  <1> HIDE DEF o1, o2
  <1>6. u.type = m.type
    <2>1. Read(d, 0, 1) = m.type
      <3>1. At(d, 0, Field(1, m.type))
        BY <1>1, Zenon
      <3>2. QED
        BY <3>1, <1>at, <1>3, ReadField, Zenon
    <2>2. u.type = Read(d, 0, 1)
      BY <1>2
    <2>3. QED
      BY <2>1, <2>2
  <1>7. u.sender = m.sender
    <2>1. Read(d, 3, k) = m.sender
      <3>1. At(d, 3, Field(k, m.sender))
        BY <1>1, Zenon
      <3>2. QED
        BY <3>1, <1>at, <1>name, <1>3, ReadField, Zenon
    <2>2. u.sender = Read(d, 3, k)
      BY <1>2, <1>4
    <2>3. QED
      BY <2>1, <2>2
  <1>8. u.sequence = m.sequence
    <2>1. Read(d, 3 + k, 8) = m.sequence
      <3>1. At(d, 3 + k, Field(8, m.sequence))
        BY <1>1, Zenon
      <3>2. QED
        BY <3>1, <1>at, <1>3, ReadField, Zenon
    <2>2. u.sequence = Read(d, 3 + k, 8)
      BY <1>2, <1>5
    <2>3. QED
      BY <2>1, <2>2
  <1>9. flags = Flags(m)
    <2>1. o1 + 16 = 19 + k
      BY <1>5, <1>name
    <2>2. Read(d, 19 + k, 1) = Flags(m)
      <3>1. At(d, 19 + k, Field(1, Flags(m)))
        BY <1>1, Zenon
      <3>2. QED
        BY <3>1, <1>at, <1>3, ReadField, Zenon
    <2>3. QED
      BY <2>1, <2>2
  <1> HIDE DEF flags
  <1>10. /\ hasTarget <=> m.target # None
         /\ hasGrad <=> m.grad # None
         /\ hasIndex <=> m.grad # None /\ m.indices # None
    BY <1>9, FlagsTell
  <1> HIDE DEF hasTarget, hasGrad, hasIndex
  <1>11. /\ m.target = None => t = 0
         /\ m.target # None => c \in Nat /\ t = 2 + c /\ Read(d, 20 + k, 2) = c
                             /\ Read(d, 20 + k + 2, c) = m.target
    <2>1. At(d, 20 + k, TargetPart(m)) /\ 20 + k \in Nat
      BY <1>1, <1>at
    <2>2. QED
      BY <2>1, <1>at, TargetRead, Zenon DEF t, c
  <1>12. u.target = m.target /\ o3 = 20 + k + t
    <2>1. CASE m.target = None
      BY <2>1, <1>2, <1>5, <1>10, <1>11, <1>at
    <2>2. CASE m.target # None
      <3>1. targetLen = c
        BY <2>2, <1>5, <1>11
      <3>2. Read(d, o2 + 2, targetLen) = m.target
        BY <3>1, <2>2, <1>5, <1>11
      <3> HIDE DEF targetLen
      <3>3. u.target = m.target
        BY <3>2, <2>2, <1>2, <1>10, Zenon
      <3>4. o3 = o2 + 2 + targetLen
        BY <2>2, <1>10, Zenon
      <3>5. c \in Nat /\ t = 2 + c
        BY <2>2, <1>11, Zenon
      <3> HIDE DEF o3
      <3>6. o3 = 20 + k + t
        BY <3>1, <3>4, <3>5, <1>5, <1>at
      <3>7. QED
        BY <3>3, <3>6
    <2>3. QED
      BY <2>1, <2>2
  <1> HIDE DEF targetLen, o3
  <1>13. o3 \in Nat /\ At(d, o3, GradPart(m))
    BY <1>1, <1>12, <1>at
  <1>read. IF m.grad = None THEN q = 0
           ELSE /\ Read(d, o3, 8) = m.version /\ Read(d, o3 + 8, 8) = m.step
                /\ gradLen \in Nat
                /\ ReadArray(d, o3 + 24, 4, gradLen) = m.grad
                /\ At(d, o3 + 24 + gradLen, IndexPart(m))
                /\ Len(IndexPart(m)) \in Nat
                /\ q = 24 + gradLen + Len(IndexPart(m))
    BY <1>at, <1>13, GradRead, Zenon DEF q
  <1>14. ASSUME m.grad # None
         PROVE  /\ o5 = 20 + k + t + q /\ u.grad = m.grad /\ u.indices = m.indices
                /\ u.version = m.version /\ u.step = m.step
    <2>1. /\ Read(d, o3, 8) = m.version /\ Read(d, o3 + 8, 8) = m.step
          /\ gradLen \in Nat /\ ReadArray(d, o3 + 24, 4, gradLen) = m.grad
          /\ At(d, o3 + 24 + gradLen, IndexPart(m))
          /\ Len(IndexPart(m)) \in Nat /\ q = 24 + gradLen + Len(IndexPart(m))
      BY <1>14, <1>read, Zenon
    <2>2. u.grad = m.grad /\ u.version = m.version /\ u.step = m.step
      BY <2>1, <1>2, <1>10, <1>14
    <2> HIDE DEF gradLen
    <2>3. o4 = o3 + 24 + gradLen
      BY <1>10, <1>14
    <2>4. o4 \in Nat /\ At(d, o4, IndexPart(m))
      BY <2>1, <2>3, <1>13
    <2> HIDE DEF o4
    <2>5. CASE m.indices = None
      <3>1. Len(IndexPart(m)) = 0
        BY <2>4, <2>5, <1>at, IndexRead
      <3>2. u.indices = None /\ o5 = o4
        BY <2>5, <1>2, <1>10
      <3>3. q = 24 + gradLen /\ gradLen \in Nat
        BY <3>1, <2>1
      <3> HIDE DEF o5
      <3>4. o5 = o3 + q
        BY <3>2, <3>3, <2>3, <1>13
      <3>5. o5 = 20 + k + t + q
        BY <3>4, <1>12
      <3>6. QED
        BY <3>2, <3>5, <2>2, <2>5
    <2>6. CASE m.indices # None
      <3>1. /\ indexLen \in Nat /\ Len(IndexPart(m)) = 8 + indexLen
            /\ ReadArray(d, o4 + 8, 8, indexLen) = m.indices
        BY <2>4, <2>6, <1>at, IndexRead
      <3>2. u.indices = m.indices /\ o5 = o4 + 8 + indexLen
        <4>1. hasIndex
          BY <1>10, <1>14, <2>6
        <4>2. o5 = o4 + 8 + indexLen
          BY <4>1
        <4>3. u.indices = ReadArray(d, o4 + 8, 8, indexLen)
          BY <4>1, <1>2, Zenon
        <4>4. QED
          BY <3>1, <4>2, <4>3, Zenon
      <3> HIDE DEF indexLen, o5
      <3>3. o5 = 20 + k + t + q
        BY <3>1, <3>2, <2>1, <2>3, <1>at, <1>12
      <3>4. QED
        BY <3>2, <3>3, <2>2
    <2>7. QED
      BY <2>5, <2>6
  <1>15. /\ o5 = 20 + k + t + q /\ u.grad = m.grad
         /\ IF m.grad = None
            THEN u.indices = None /\ u.version = 0 /\ u.step = 0
            ELSE u.indices = m.indices /\ u.version = m.version /\ u.step = m.step
    <2>1. CASE m.grad = None
      <3>1. q = 0
        BY <2>1, <1>read, Zenon
      <3>2. o5 = 20 + k + t + q
        BY <3>1, <2>1, <1>at, <1>10, <1>12
      <3>3. u.grad = None /\ u.indices = None /\ u.version = 0 /\ u.step = 0
        BY <2>1, <1>2, <1>10
      <3>4. QED
        BY <3>2, <3>3, <2>1
    <2>2. CASE m.grad # None
      BY <2>2, <1>14
    <2>3. QED
      BY <2>1, <2>2
  <1> HIDE DEF gradLen, o4, indexLen, o5
  <1>16. u.incarnation = m.incarnation
    <2>1. Read(d, 20 + k + t + q, 4) = m.incarnation
      <3>1. At(d, 20 + k + t + q, Field(4, m.incarnation))
        BY <1>1, Zenon
      <3>2. QED
        BY <3>1, <1>at, <1>3, ReadField, Zenon
    <2>2. u.incarnation = Read(d, 20 + k + t + q, 4)
      BY <1>2, <1>15
    <2>3. QED
      BY <2>1, <2>2
  <1>17. o5 \in Nat /\ o5 + 4 \in Nat /\ At(d, o5 + 4, DataPart(m)) /\ o5 + 8 = o5 + 4 + 4
    <2>1. o5 \in Nat /\ o5 + 4 = 24 + k + t + q
      <3>1. o5 = 20 + k + t + q
        BY <1>15, Zenon
      <3>2. k \in Nat /\ t \in Nat /\ q \in Nat
        BY <1>at, Zenon
      <3>3. QED
        BY <3>1, <3>2
    <2>2. At(d, 24 + k + t + q, DataPart(m))
      BY <1>1, Zenon
    <2>3. At(d, o5 + 4, DataPart(m))
      <3>1. o5 + 4 = 24 + k + t + q
        BY <2>1, Zenon
      <3>2. QED
        BY <3>1, <2>2, Zenon
    <2>4. QED
      BY <2>1, <2>3
  <1>18. /\ dataLen \in Nat /\ Len(DataPart(m)) = 4 + dataLen
         /\ IF m.payload = None \/ m.payload = <<>> THEN dataLen = 0
            ELSE dataLen > 0 /\ ReadArray(d, o5 + 8, 1, dataLen) = m.payload
    <2>1. /\ dataLen \in Nat /\ Len(DataPart(m)) = 4 + dataLen
          /\ IF m.payload = None \/ m.payload = <<>> THEN dataLen = 0
             ELSE dataLen > 0 /\ ReadArray(d, o5 + 4 + 4, 1, dataLen) = m.payload
      BY <1>at, <1>17, DataRead, Zenon
    <2> HIDE DEF dataLen
    <2>2. QED
      BY <2>1, <1>17
  <1> HIDE DEF dataLen
  <1>19. u.end = Len(d)
    BY <1>1, <1>2, <1>15, <1>18, <1>at
  <1>20. u.payload = IF m.payload = <<>> THEN None ELSE m.payload
    <2>1. CASE m.payload = None \/ m.payload = <<>>
      <3>1. dataLen = 0
        BY <2>1, <1>18
      <3>2. u.payload = None
        BY <3>1, <1>2
      <3>3. QED
        BY <3>2, <2>1
    <2>2. CASE ~ (m.payload = None \/ m.payload = <<>>)
      <3>1. dataLen > 0 /\ ReadArray(d, o5 + 8, 1, dataLen) = m.payload
        BY <2>2, <1>18
      <3>2. QED
        BY <3>1, <2>2, <1>2
    <2>3. QED
      BY <2>1, <2>2
  <1>21. QED
    BY <1>6, <1>7, <1>8, <1>12, <1>15, <1>16, <1>19, <1>20 DEF Same, u, d

-----------------------------------------------------------------------------
(* The inductive invariant *)

InTransit == stage \in {"message", "bytes", "received"}

(* What is on its way accounts for the difference between balance and      *)
(* residual.                                                               *)
Carried ==
    InTransit /\ scale > 0 =>
        \E g \in Vector, S \in SUBSET Index : \E order \in Orders(S) :
            /\ sent.grad = [n \in DOMAIN order |-> scale * g[order[n]]]
            /\ sent.indices = [n \in DOMAIN order |-> order[n] - 1]
            /\ balance = Plus(residual, Sparse(g, S))

(* Nothing is on its way. *)
Settled == stage \in {"idle", "quantized"} \/ scale = 0 => balance = residual

(* The bytes and the message read from them belong to the one sent. *)
Transported ==
    /\ InTransit => sent \in Message
    /\ stage \in {"bytes", "received"} => data = Packed(sent)
    /\ stage = "received" => got = Unpacked(data)

Coded(g, bits) ==
    [input |-> g, bits |-> bits, low |-> Lowest(g), high |-> Highest(g),
     code |-> [i \in Index |-> Code(g[i], Lowest(g), Highest(g), bits)]]

Quantized ==
    stage = "quantized" => \E g \in Vector, b \in 1..8 : codes = Coded(g, b)

Types ==
    /\ balance \in Vector /\ scale \in Nat /\ rounds \in Nat
    /\ stage \in {"idle", "message", "bytes", "received", "quantized"}

IInv == Types /\ Residuals /\ Carried /\ Settled /\ Transported /\ Quantized

(* An order lists the selected indices. *)
LEMMA OrderIs ==
    ASSUME NEW S \in SUBSET Index, NEW order \in Orders(S)
    PROVE  /\ DOMAIN order = 1..Cardinality(S) /\ Cardinality(S) \in Nat
           /\ \A n \in DOMAIN order : order[n] \in S
           /\ \A i \in S : \E n \in DOMAIN order : order[n] = i
  <1>1. Cardinality(S) \in Nat
    <2>1. IsFiniteSet(S)
      BY IndexFinite, FS_Subset
    <2>2. QED
      BY <2>1, FS_CardinalityType
  <1>2. order \in [1..Cardinality(S) -> S] /\ \A i \in S : \E n \in 1..Cardinality(S) : order[n] = i
    BY DEF Orders, Bijection, Surjection, Injection
  <1>3. QED
    BY <1>1, <1>2

LEMMA SendIs ==
    ASSUME NEW g \in Vector, NEW S \in SUBSET Index, NEW order \in Orders(S),
           NEW f \in Nat \ {0}, rounds \in Nat, Send(g, order, f)
    PROVE  /\ stage = "idle" /\ stage' = "message" /\ scale' = f /\ sent' \in Message
           /\ sent'.grad = [n \in DOMAIN order |-> f * g[order[n]]]
           /\ sent'.indices = [n \in DOMAIN order |-> order[n] - 1]
           /\ rounds' \in Nat
  <1> DEFINE grad == [n \in DOMAIN order |-> f * g[order[n]]]
             indices == [n \in DOMAIN order |-> order[n] - 1]
  <1>1. /\ DOMAIN order = 1..Cardinality(S) /\ Cardinality(S) \in Nat
        /\ \A n \in DOMAIN order : order[n] \in Index
    BY OrderIs
  <1>2. \A n \in DOMAIN order : f * g[order[n]] \in Int /\ order[n] - 1 \in Int
    <2> SUFFICES ASSUME NEW n \in DOMAIN order
                 PROVE  f * g[order[n]] \in Int /\ order[n] - 1 \in Int
      OBVIOUS
    <2>1. order[n] \in Index /\ order[n] \in Int /\ g[order[n]] \in Int
      BY <1>1, WireAssumption DEF Vector, Index
    <2>2. QED
      BY <2>1
  <1>3. grad \in Seq(Int) /\ indices \in Seq(Int)
    <2>1. grad \in [1..Cardinality(S) -> Int] /\ indices \in [1..Cardinality(S) -> Int]
      BY <1>1, <1>2
    <2> HIDE DEF grad, indices
    <2>2. QED
      BY <2>1, <1>1, SMTT(30)
  <1>4. sent' = [type |-> 10, sender |-> Self, sequence |-> rounds, target |-> None,
                 grad |-> grad, indices |-> indices,
                 version |-> rounds, step |-> rounds + 1, incarnation |-> 0, payload |-> None]
    BY DEF Send, PushGradient
  <1> HIDE DEF grad, indices
  <1>5. sent' \in Message /\ sent'.grad = grad /\ sent'.indices = indices
    BY <1>3, <1>4, NameAssumption DEF Message
  <1>6. stage = "idle" /\ stage' = "message" /\ scale' = f /\ rounds' \in Nat
    BY DEF Send
  <1>7. QED
    BY <1>5, <1>6 DEF grad, indices

LEMMA VectorSums ==
    ASSUME NEW u \in Vector, NEW v \in Vector
    PROVE  /\ Plus(u, v) \in Vector /\ Minus(u, v) \in Vector
           /\ \A i \in Index : Plus(u, v)[i] = u[i] + v[i] /\ Minus(u, v)[i] = u[i] - v[i]
           /\ \A i \in Index : u[i] \in Int /\ v[i] \in Int
  BY DEF Vector, Plus, Minus

LEMMA VectorEqual ==
    ASSUME NEW u \in Vector, NEW v \in Vector, \A i \in Index : u[i] = v[i]
    PROVE  u = v
  BY DEF Vector

(* A sparse gradient is sent: what its receiver will subtract is added.     *)
LEMMA SendStep ==
    ASSUME IInv, NEW g \in Vector, NEW S \in SUBSET Index, NEW order \in Orders(S),
           NEW f \in Nat \ {0}, Send(g, order, f), Residuals',
           balance' = Plus(residual', Sparse(g, S))
    PROVE  IInv'
  <1>1. /\ stage = "idle" /\ stage' = "message" /\ scale' = f /\ sent' \in Message
        /\ sent'.grad = [n \in DOMAIN order |-> scale' * g[order[n]]]
        /\ sent'.indices = [n \in DOMAIN order |-> order[n] - 1]
        /\ rounds' \in Nat
    <2>1. rounds \in Nat
      BY DEF IInv, Types
    <2>2. /\ stage = "idle" /\ stage' = "message" /\ scale' = f /\ sent' \in Message
          /\ sent'.grad = [n \in DOMAIN order |-> f * g[order[n]]]
          /\ sent'.indices = [n \in DOMAIN order |-> order[n] - 1]
          /\ rounds' \in Nat
      BY <2>1, SendIs
    <2>3. QED
      BY <2>2
  <1>2. Types'
    <2>1. balance' \in Vector
      BY RemainderIs, VectorSums DEF Residuals
    <2>2. QED
      BY <2>1, <1>1 DEF Types
  <1>3. Carried'
    BY <1>1 DEF Carried
  <1>4. Settled' /\ Transported' /\ Quantized'
    BY <1>1 DEF Settled, Transported, Quantized, InTransit
  <1>5. QED
    BY <1>2, <1>3, <1>4 DEF IInv

LEMMA TopKStep ==
    ASSUME IInv, NEW c \in [Index -> Values], CompressTopK(c)
    PROVE  IInv'
  <1> DEFINE g == Plus(c, residual)
  <1>1. residual \in Vector /\ c \in Vector /\ balance = residual
    <2>1. stage = "idle"
      BY DEF CompressTopK, Send
    <2>2. c \in Vector
      BY WireAssumption DEF Vector
    <2>3. QED
      BY <2>1, <2>2 DEF IInv, Residuals, Settled
  <1>2. g \in Vector
    BY <1>1, VectorSums
  <1>3. PICK S \in TopK(g) :
            /\ \E order \in Sorted(g, S) : Send(g, order, 1)
            /\ residual' = Remainder(g, S)
            /\ balance' = Plus(balance, c)
    BY DEF CompressTopK
  <1>4. PICK order \in Sorted(g, S) : Send(g, order, 1)
    BY <1>3
  <1>5. S \in SUBSET Index /\ order \in Orders(S)
    BY DEF TopK, Sorted
  <1>6. Residuals'
    <2>1. residual' \in Vector
      BY <1>2, <1>3, <1>5, RemainderIs
    <2>2. ASSUME NEW V \in Nat, Bound(V) PROVE Layered(residual', V)
      <3>1. Layered(residual, V)
        BY <2>2 DEF IInv, Residuals
      <3>2. QED
        BY <3>1, <2>2, <1>1, <1>3, TopKLayers
    <2>3. \A V \in Nat : Bound(V)' <=> Bound(V)
      BY DEF Bound
    <2>4. QED
      BY <2>1, <2>2, <2>3 DEF Residuals, Layered, Over
  <1>7. balance' = Plus(residual', Sparse(g, S))
    <2> HIDE DEF g
    <2>1. /\ residual' \in Vector /\ Sparse(g, S) \in Vector /\ balance' \in Vector
          /\ \A i \in Index : residual'[i] = IF i \in S THEN 0 ELSE g[i]
      BY <1>1, <1>2, <1>3, <1>5, RemainderIs, VectorSums
    <2>2. Plus(residual', Sparse(g, S)) \in Vector
      BY <2>1, VectorSums
    <2>3. ASSUME NEW i \in Index PROVE balance'[i] = Plus(residual', Sparse(g, S))[i]
      <3>1. balance'[i] = residual[i] + c[i] /\ residual[i] \in Int /\ c[i] \in Int
        BY <1>1, <1>3, VectorSums
      <3>2. g[i] = c[i] + residual[i]
        BY <1>1, VectorSums DEF g
      <3>3. Plus(residual', Sparse(g, S))[i] = residual'[i] + Sparse(g, S)[i]
        BY <2>1, VectorSums
      <3>4. Sparse(g, S)[i] = IF i \in S THEN g[i] ELSE 0
        BY DEF Sparse
      <3>5. residual'[i] + Sparse(g, S)[i] = g[i]
        BY <3>1, <3>2, <3>4, <2>1
      <3>6. QED
        BY <3>1, <3>2, <3>3, <3>5
    <2>4. QED
      BY <2>1, <2>2, <2>3, VectorEqual
  <1>8. QED
    BY <1>2, <1>4, <1>5, <1>6, <1>7, SendStep

(* Without error feedback *)
LEMMA OnceStep ==
    ASSUME IInv, NEW c \in [Index -> Values], CompressOnce(c) \/ CompressRandom(c)
    PROVE  IInv'
  <1>1. c \in Vector
    BY WireAssumption DEF Vector
  <1>2. PICK S \in SUBSET Index : \E f \in Nat \ {0} :
            /\ \E order \in Orders(S) : Send(c, order, f)
            /\ balance' = Plus(balance, Sparse(c, S)) /\ residual' = residual
    <2>1. CASE CompressOnce(c)
      BY <2>1 DEF CompressOnce, TopK, Sorted
    <2>2. CASE CompressRandom(c)
      BY <2>2, WireAssumption DEF CompressRandom
    <2>3. QED
      BY <2>1, <2>2
  <1>3. PICK f \in Nat \ {0}, order \in Orders(S) :
            /\ Send(c, order, f)
            /\ balance' = Plus(balance, Sparse(c, S)) /\ residual' = residual
    BY <1>2
  <1>4. Residuals'
    BY <1>3 DEF IInv, Residuals, Layered, Over, Bound
  <1>5. balance = residual
    BY <1>3 DEF IInv, Settled, Send
  <1>6. QED
    BY <1>1, <1>3, <1>4, <1>5, SendStep

LEMMA Unscaled ==
    ASSUME NEW x \in Int, NEW f \in Nat \ {0}
    PROVE  (f * x) \div f = x
  OBVIOUS

(* decompress() on the receiving side gives back what was selected. *)
LEMMA DecompressStep == IInv /\ Decompress => IInv'
  <1> SUFFICES ASSUME IInv, Decompress PROVE IInv'
    OBVIOUS
  <1> DEFINE dense == [i \in Index |->
                          IF \E n \in DOMAIN got.indices : got.indices[n] = i - 1
                          THEN got.grad[CHOOSE n \in DOMAIN got.indices :
                                            got.indices[n] = i - 1] \div scale
                          ELSE 0]
  <1>1. /\ stage = "received" /\ scale > 0 /\ balance' = Minus(balance, dense)
        /\ stage' = "idle" /\ scale' = 0 /\ residual' = residual /\ rounds' = rounds
    BY DEF Decompress
  <1>a. PICK g \in Vector, S \in SUBSET Index : \E order \in Orders(S) :
            /\ sent.grad = [n \in DOMAIN order |-> scale * g[order[n]]]
            /\ sent.indices = [n \in DOMAIN order |-> order[n] - 1]
            /\ balance = Plus(residual, Sparse(g, S))
    BY <1>1 DEF IInv, Carried, InTransit
  <1>2. PICK order \in Orders(S) :
            /\ sent.grad = [n \in DOMAIN order |-> scale * g[order[n]]]
            /\ sent.indices = [n \in DOMAIN order |-> order[n] - 1]
            /\ balance = Plus(residual, Sparse(g, S))
    BY <1>a
  <1>3. sent \in Message /\ Same(got, data, sent)
    <2>1. sent \in Message /\ data = Packed(sent) /\ got = Unpacked(data)
      BY <1>1 DEF IInv, Transported, InTransit
    <2>2. QED
      BY <2>1, UnpackPack
  <1>4. /\ DOMAIN order = 1..Cardinality(S) /\ Cardinality(S) \in Nat
        /\ \A n \in DOMAIN order : order[n] \in S /\ order[n] \in Index
        /\ \A i \in S : \E n \in DOMAIN order : order[n] = i
    BY OrderIs
  <1>5. scale \in Nat \ {0} /\ residual \in Vector /\ rounds \in Nat /\ balance \in Vector
    BY <1>1 DEF IInv, Types, Residuals
  <1>6. got.grad = sent.grad /\ got.indices = sent.indices
    <2>1. sent.grad # None
      <3>1. \A n \in DOMAIN order : scale * g[order[n]] \in Int
        BY <1>4, <1>5 DEF Vector
      <3>2. sent.grad \in [1..Cardinality(S) -> Int]
        BY <3>1, <1>2, <1>4
      <3>3. sent.grad \in Seq(Int)
        BY <3>2, <1>4
      <3>4. QED
        BY <3>3, MessageAssumption
    <2>2. QED
      BY <2>1, <1>3 DEF Same
  <1>7. /\ DOMAIN got.indices = DOMAIN order
        /\ \A n \in DOMAIN order : /\ got.indices[n] = order[n] - 1
                                   /\ got.grad[n] = scale * g[order[n]]
    BY <1>2, <1>6
  <1>8. ASSUME NEW i \in Index PROVE dense[i] = Sparse(g, S)[i]
    <2>1. i \in Int /\ g[i] \in Int /\ Sparse(g, S)[i] = IF i \in S THEN g[i] ELSE 0
      BY WireAssumption DEF Index, Vector, Sparse
    <2>2. \A n \in DOMAIN order : got.indices[n] = i - 1 <=> order[n] = i
      <3> SUFFICES ASSUME NEW n \in DOMAIN order PROVE got.indices[n] = i - 1 <=> order[n] = i
        OBVIOUS
      <3>1. order[n] \in Int /\ got.indices[n] = order[n] - 1
        BY <1>4, <1>7, WireAssumption DEF Index
      <3>2. QED
        BY <3>1, <2>1
    <2>3. dense[i] = IF \E n \in DOMAIN order : got.indices[n] = i - 1
                     THEN got.grad[CHOOSE n \in DOMAIN order : got.indices[n] = i - 1] \div scale
                     ELSE 0
      BY <1>7
    <2> HIDE DEF dense
    <2>4. CASE i \in S
      <3> DEFINE n == CHOOSE k \in DOMAIN order : got.indices[k] = i - 1
      <3>1. \E k \in DOMAIN order : got.indices[k] = i - 1
        BY <2>2, <2>4, <1>4
      <3>2. n \in DOMAIN order /\ got.indices[n] = i - 1
        BY <3>1
      <3>3. dense[i] = got.grad[n] \div scale
        BY <2>3, <3>1
      <3> HIDE DEF n
      <3>4. got.grad[n] = scale * g[i]
        BY <3>2, <2>2, <1>7
      <3>5. (scale * g[i]) \div scale = g[i]
        BY <2>1, <1>5, Unscaled
      <3>6. QED
        BY <3>3, <3>4, <3>5, <2>1, <2>4
    <2>5. CASE i \notin S
      <3>1. ~ \E n \in DOMAIN order : got.indices[n] = i - 1
        BY <2>2, <2>5, <1>4
      <3>2. QED
        BY <3>1, <2>1, <2>3, <2>5
    <2>6. QED
      BY <2>4, <2>5
  <1>9. dense = Sparse(g, S) /\ Sparse(g, S) \in Vector
    <2>1. Sparse(g, S) = [i \in Index |-> Sparse(g, S)[i]]
      BY DEF Sparse
    <2>2. dense = [i \in Index |-> dense[i]]
      OBVIOUS
    <2> HIDE DEF dense
    <2>3. dense = Sparse(g, S)
      BY <2>1, <2>2, <1>8
    <2>4. QED
      BY <2>3, RemainderIs
  <1> HIDE DEF dense
  <1>10. balance' = residual /\ balance' \in Vector
    <2>1. balance' \in Vector
      BY <1>1, <1>5, <1>9, VectorSums
    <2>2. ASSUME NEW i \in Index PROVE balance'[i] = residual[i]
      <3>1. balance'[i] = balance[i] - Sparse(g, S)[i]
        BY <1>1, <1>5, <1>9, VectorSums
      <3>2. balance[i] = residual[i] + Sparse(g, S)[i]
        BY <1>2, <1>5, <1>9, VectorSums
      <3>3. residual[i] \in Int /\ Sparse(g, S)[i] \in Int
        BY <1>5, <1>9 DEF Vector
      <3>4. QED
        BY <3>1, <3>2, <3>3
    <2>3. QED
      BY <2>1, <2>2, <1>5, VectorEqual
  <1>11. Types' /\ Settled'
    BY <1>1, <1>5, <1>10 DEF Types, Settled
  <1>12. Carried' /\ Transported' /\ Quantized'
    BY <1>1 DEF Carried, Transported, Quantized, InTransit
  <1>13. Residuals'
    BY <1>1 DEF IInv, Residuals, Layered, Over, Bound
  <1>14. QED
    BY <1>11, <1>12, <1>13 DEF IInv

LEMMA ZeroLayers ==
    Zero \in Vector /\ \A V \in Nat : Layered(Zero, V)
  <1>1. Zero \in Vector /\ \A i \in Index : Zero[i] = 0
    BY DEF Zero, Vector
  <1>2. ASSUME NEW V \in Nat, NEW j \in Nat PROVE Over(Zero, j * V) = {}
    <2>1. j * V \in Nat
      OBVIOUS
    <2>2. \A i \in Index : Magnitude(Zero[i]) = 0
      BY <1>1, MagnitudeType
    <2> DEFINE t == j * V
    <2>3. t \in Nat
      BY <2>1
    <2> HIDE DEF t
    <2>4. Over(Zero, t) = {}
      BY <2>2, <2>3 DEF Over
    <2>5. QED
      BY <2>4 DEF t
  <1>3. QED
    BY <1>1, <1>2 DEF Layered

LEMMA ResetStep == IInv /\ ResetErrorFeedback => IInv'
  <1> SUFFICES ASSUME IInv, ResetErrorFeedback PROVE IInv'
    OBVIOUS
  <1>1. /\ stage = "idle" /\ stage' = "idle" /\ residual' = Zero /\ scale' = scale
        /\ balance' = Minus(balance, residual) /\ rounds' = rounds
    BY DEF ResetErrorFeedback
  <1>2. balance = residual /\ residual \in Vector
    BY <1>1 DEF IInv, Settled, Residuals
  <1>3. balance' = Zero /\ Zero \in Vector
    <2>1. balance' \in Vector /\ Zero \in Vector
      BY <1>1, <1>2, VectorSums, ZeroLayers
    <2>2. ASSUME NEW i \in Index PROVE balance'[i] = Zero[i]
      <3>1. balance'[i] = residual[i] - residual[i] /\ residual[i] \in Int
        BY <1>1, <1>2, VectorSums
      <3>2. QED
        BY <3>1 DEF Zero
    <2>3. QED
      BY <2>1, <2>2, VectorEqual
  <1>4. Types' /\ Settled'
    BY <1>1, <1>3 DEF IInv, Types, Settled
  <1>5. Carried' /\ Transported' /\ Quantized'
    BY <1>1 DEF Carried, Transported, Quantized, InTransit
  <1>6. Residuals'
    BY <1>1, ZeroLayers DEF Residuals, Layered, Over, Bound
  <1>7. QED
    BY <1>4, <1>5, <1>6 DEF IInv

-----------------------------------------------------------------------------
(* The initial state satisfies the inductive invariant. *)
LEMMA InvInit == WireInit => IInv
  <1> SUFFICES ASSUME WireInit PROVE IInv
    OBVIOUS
  <1>1. /\ stage = "idle" /\ rounds = 0 /\ scale = 0
        /\ residual = Zero /\ balance = Zero
    BY DEF WireInit
  <1>2. Types /\ Settled
    BY <1>1, ZeroLayers DEF Types, Settled
  <1>3. Residuals
    BY <1>1, ZeroLayers DEF Residuals
  <1>4. Carried /\ Transported /\ Quantized
    BY <1>1 DEF Carried, Transported, Quantized, InTransit
  <1>5. QED
    BY <1>2, <1>3, <1>4 DEF IInv

(* Every step keeps it. *)
LEMMA InvStep == IInv /\ [WireNext]_wireVars => IInv'
  <1> SUFFICES ASSUME IInv, [WireNext]_wireVars PROVE IInv'
    OBVIOUS
  <1>1. ASSUME NEW c \in [Index -> Values], CompressTopK(c) \/ CompressOnce(c) \/ CompressRandom(c)
        PROVE  IInv'
    BY <1>1, TopKStep, OnceStep
  <1>2. ASSUME UNCHANGED <<residual, balance>>, Types', Carried', Settled', Transported', Quantized'
        PROVE  IInv'
    BY <1>2 DEF IInv, Residuals, Layered, Over, Bound
  <1>3. ASSUME NEW g \in [Index -> Samples], NEW b \in Bits, Quantize(g, b) PROVE IInv'
    <2>1. /\ stage = "idle" /\ stage' = "quantized" /\ codes' = Coded(g, b)
          /\ UNCHANGED <<residual, balance, scale, rounds>>
      BY <1>3 DEF Quantize, Coded
    <2>2. g \in Vector /\ b \in 1..8
      BY WireAssumption, Zenon DEF Vector
    <2>3. Quantized'
      BY <2>1, <2>2, Zenon DEF Quantized, Coded, Lowest, Highest, Code, Rounded
    <2>4. Types' /\ Settled' /\ Carried' /\ Transported'
      BY <2>1 DEF IInv, Types, Settled, Carried, Transported, InTransit
    <2>5. QED
      BY <2>1, <2>3, <2>4, <1>2
  <1>4. CASE ResetErrorFeedback
    BY <1>4, ResetStep
  <1>5. CASE Decompress
    BY <1>5, DecompressStep
  <1>6. CASE QuantizeDone
    <2>1. /\ stage = "quantized" /\ stage' = "idle"
          /\ UNCHANGED <<residual, balance, scale, rounds>>
      BY <1>6 DEF QuantizeDone
    <2>2. Types' /\ Settled' /\ Carried' /\ Transported' /\ Quantized'
      BY <2>1 DEF IInv, Types, Settled, Carried, Transported, Quantized, InTransit
    <2>3. QED
      BY <2>1, <2>2, <1>2
  <1>7. ASSUME NEW m \in Control, SendControl(m) PROVE IInv'
    <2>1. /\ stage = "idle" /\ stage' = "message" /\ scale' = 0 /\ sent' = m /\ m \in Message
          /\ UNCHANGED <<residual, balance, rounds>>
      BY <1>7, MessageAssumption DEF SendControl
    <2>2. Types' /\ Settled' /\ Carried' /\ Transported' /\ Quantized'
      BY <2>1 DEF IInv, Types, Settled, Carried, Transported, Quantized, InTransit
    <2>3. QED
      BY <2>1, <2>2, <1>2
  <1>8. CASE Pack
    <2>1. /\ stage = "message" /\ stage' = "bytes" /\ data' = Packed(sent)
          /\ UNCHANGED <<residual, balance, scale, sent, rounds>>
      BY <1>8 DEF Pack
    <2>2. Transported'
      <3>1. sent' \in Message /\ data' = Packed(sent')
        BY <2>1 DEF IInv, Transported, InTransit
      <3>2. QED
        BY <3>1, <2>1 DEF Transported
    <2>3. Types' /\ Settled' /\ Carried' /\ Quantized'
      BY <2>1 DEF IInv, Types, Settled, Carried, Quantized, InTransit
    <2>4. QED
      BY <2>1, <2>2, <2>3, <1>2
  <1>9. CASE Unpack
    <2>1. /\ stage = "bytes" /\ stage' = "received" /\ got' = Unpacked(data)
          /\ UNCHANGED <<residual, balance, scale, sent, data, rounds>>
      BY <1>9 DEF Unpack
    <2>2. Transported'
      <3>1. sent' \in Message /\ data' = Packed(sent') /\ got' = Unpacked(data')
        BY <2>1 DEF IInv, Transported, InTransit
      <3>2. QED
        BY <3>1 DEF Transported
    <2>3. Types' /\ Settled' /\ Carried' /\ Quantized'
      BY <2>1 DEF IInv, Types, Settled, Carried, Quantized, InTransit
    <2>4. QED
      BY <2>1, <2>2, <2>3, <1>2
  <1>10. CASE ControlDone
    <2>1. /\ stage = "received" /\ scale = 0 /\ stage' = "idle"
          /\ UNCHANGED <<residual, balance, scale, rounds>>
      BY <1>10 DEF ControlDone
    <2>2. Types' /\ Settled' /\ Carried' /\ Transported' /\ Quantized'
      BY <2>1 DEF IInv, Types, Settled, Carried, Transported, Quantized, InTransit
    <2>3. QED
      BY <2>1, <2>2, <1>2
  <1>11. CASE UNCHANGED wireVars
    BY <1>11 DEF wireVars, IInv, Types, Residuals, Layered, Over, Bound, Settled, Carried,
                 Transported, Quantized, InTransit
  <1>12. QED
    BY <1>1, <1>3, <1>4, <1>5, <1>6, <1>7, <1>8, <1>9, <1>10, <1>11 DEF WireNext

-----------------------------------------------------------------------------
(* The inductive invariant implies the properties. *)
LEMMA InvRoundTrip == IInv => RoundTrip
  <1> SUFFICES ASSUME IInv, stage = "received"
               PROVE  /\ got.end = Len(data)
                      /\ \A f \in {"type", "sender", "sequence", "target", "grad", "incarnation"} :
                            got[f] = sent[f]
                      /\ got.payload = IF sent.payload = <<>> THEN None ELSE sent.payload
                      /\ IF sent.grad = None
                         THEN got.indices = None /\ got.version = 0 /\ got.step = 0
                         ELSE /\ got.indices = sent.indices
                              /\ got.version = sent.version /\ got.step = sent.step
    BY DEF RoundTrip
  <1>1. sent \in Message /\ data = Packed(sent) /\ got = Unpacked(data)
    BY DEF IInv, Transported, InTransit
  <1>2. Same(got, data, sent)
    BY <1>1, UnpackPack
  <1>3. QED
    BY <1>2 DEF Same

LEMMA InvHalfStep == IInv => WithinHalfStep
  <1> SUFFICES ASSUME IInv, stage = "quantized", NEW i \in Index
               PROVE  2 * Magnitude(Dequantized(i) - codes.input[i] * (2^codes.bits - 1))
                          <= codes.high - codes.low
    BY DEF WithinHalfStep
  <1>1. PICK g \in Vector, b \in 1..8 : codes = Coded(g, b)
    BY DEF IInv, Quantized
  <1>2. /\ codes.input = g /\ codes.bits = b /\ codes.low = Lowest(g) /\ codes.high = Highest(g)
        /\ codes.code[i] = Code(g[i], Lowest(g), Highest(g), b)
    BY <1>1 DEF Coded
  <1>3. /\ Lowest(g) \in Int /\ Highest(g) \in Int /\ g[i] \in Int
        /\ Lowest(g) <= g[i] /\ g[i] <= Highest(g)
    BY Extremes DEF Vector
  <1> DEFINE l == Lowest(g)
             h == Highest(g)
             x == g[i]
  <1> HIDE DEF l, h, x
  <1>4. l \in Int /\ h \in Int /\ x \in Int /\ l <= x /\ x <= h
    BY <1>3 DEF l, h, x
  <1>5. 2 * Magnitude((Code(x, l, h, b) * (h - l) + l * (2^b - 1)) - x * (2^b - 1)) <= h - l
    BY <1>4, CodeIs
  <1>6. Dequantized(i) = Code(x, l, h, b) * (h - l) + l * (2^b - 1)
    BY <1>2 DEF Dequantized, l, h, x
  <1>7. codes.input[i] = x /\ codes.bits = b /\ codes.high = h /\ codes.low = l
    BY <1>2 DEF l, h, x
  <1>8. QED
    BY <1>5, <1>6, <1>7

(* The inductive invariant holds in every reachable state. *)
THEOREM Invariance == WireSpec => []IInv
  BY InvInit, InvStep, PTL DEF WireSpec

(* Error feedback loses nothing, for every gradient size and ratio: what    *)
(* TopKCompressor was given and neither delivered nor dropped on purpose is *)
(* in error_feedback, through compress, pack, unpack and decompress.        *)
THEOREM FeedbackLosesNothing == WireSpec => []FeedbackConserves
  <1>1. IInv => FeedbackConserves
    BY DEF IInv, Settled, FeedbackConserves
  <1>2. QED
    BY <1>1, Invariance, PTL

(* No component is starved: however long compress is called, every residual *)
(* stays within (Size - 1) \div K times the largest computed component.     *)
THEOREM ResidualsStayBounded == WireSpec => []ResidualBounded
  <1>1. IInv => ResidualBounded
    BY LayersBound DEF IInv, Residuals, ResidualBounded
  <1>2. QED
    BY <1>1, Invariance, PTL

(* unpack(pack(m)) gives m back and consumes all bytes, for every message.  *)
THEOREM MessagesSurvive == WireSpec => []RoundTrip
  BY InvRoundTrip, Invariance, PTL

(* Dequantizing is off by at most half an interval, for every gradient and  *)
(* every width up to a byte.                                                *)
THEOREM QuantizerAccurate == WireSpec => []WithinHalfStep
  BY InvHalfStep, Invariance, PTL
=============================================================================
