----------------------------- MODULE TourLemmas -----------------------------
(***************************************************************************)
(* What the proofs of WorkerProofs need to know of sequences and sums, and *)
(* what the operators of Itinerary, Moves, Shaking and Validator do to a   *)
(* tour.                                                                   *)
(***************************************************************************)
EXTENDS Worker, Induction, FiniteSetTheorems

-----------------------------------------------------------------------------
(* Sums *)

\* SumFunction adds one value after the other, in some order.
Accumulates(g, c, f, D) ==
  /\ g \in [SUBSET D -> Nat]
  /\ SumFunction(f) = g[D]
  /\ g[{}] = 0
  /\ \A s \in SUBSET D : s # {} => c[s] \in s /\ g[s] = f[c[s]] + g[s \ {c[s]}]

LEMMA SumUnfolds ==
  ASSUME NEW D, NEW f \in [D -> Nat], IsFiniteSet(D)
  PROVE  \E g, c : Accumulates(g, c, f, D)
<1> DEFINE P(s) == CHOOSE x \in s : TRUE
    Sum(g, s) == IF s = {} THEN 0 ELSE f[P(s)] + g[s \ {P(s)}]
    n == Cardinality(D)
<1>1. n \in Nat /\ \A s \in SUBSET D : Cardinality(s) \in 0 .. n
  BY FS_CardinalityType, FS_Subset
<1>2. \A s \in SUBSET D : s # {} =>
        /\ P(s) \in s
        /\ s \ {P(s)} \in SUBSET D
        /\ Cardinality(s \ {P(s)}) = Cardinality(s) - 1
  BY FS_RemoveElement, FS_Subset
<1>3. \A s \in SUBSET D : Cardinality(s) = 0 <=> s = {}
  BY FS_EmptySet, FS_Subset
<1> HIDE DEF P, n
<1>4. \E g \in [SUBSET D -> Nat] : \A s \in SUBSET D : g[s] = Sum(g, s)
  <2> DEFINE T == {m \in 0 .. n : \E g \in [SUBSET D -> Nat] :
                     \A s \in SUBSET D : Cardinality(s) <= m => g[s] = Sum(g, s)}
  <2>1. 0 \in T
    <3> DEFINE g == [s \in SUBSET D |-> 0]
    <3>1. g \in [SUBSET D -> Nat]
      OBVIOUS
    <3>2. \A s \in SUBSET D : Cardinality(s) <= 0 => g[s] = Sum(g, s)
      BY <1>1, <1>3
    <3> HIDE DEF g
    <3> QED BY <1>1, <3>1, <3>2
  <2>2. ASSUME NEW m \in T, m + 1 <= n PROVE m + 1 \in T
    <3>1. PICK g \in [SUBSET D -> Nat] :
            \A s \in SUBSET D : Cardinality(s) <= m => g[s] = Sum(g, s)
      OBVIOUS
    <3> DEFINE h == [s \in SUBSET D |-> IF Cardinality(s) <= m THEN g[s] ELSE Sum(g, s)]
    <3>2. ASSUME NEW s \in SUBSET D PROVE Sum(g, s) \in Nat
      <4>1. CASE s = {}
        BY <4>1
      <4>2. CASE s # {}
        <5> P(s) \in D /\ s \ {P(s)} \in SUBSET D
          BY <4>2, <1>2
        <5> QED BY <4>2
      <4> QED BY <4>1, <4>2
    <3>3. h \in [SUBSET D -> Nat]
      BY <3>2
    <3>4. ASSUME NEW s \in SUBSET D, Cardinality(s) <= m + 1 PROVE h[s] = Sum(h, s)
      <4>1. h[s] = Sum(g, s)
        BY <3>1
      <4>2. s # {} => h[s \ {P(s)}] = g[s \ {P(s)}]
        <5> SUFFICES ASSUME s # {} PROVE Cardinality(s \ {P(s)}) <= m
          BY <1>2
        <5> QED BY <1>1, <1>2, <3>4
      <4> HIDE DEF h
      <4> QED BY <4>1, <4>2
    <3> HIDE DEF h, Sum
    <3>5. m + 1 \in 0 .. n
      BY <2>2, <1>1
    <3>6. \E a \in [SUBSET D -> Nat] :
            \A s \in SUBSET D : Cardinality(s) <= m + 1 => a[s] = Sum(a, s)
      BY <3>3, <3>4
    <3> QED BY <3>5, <3>6
  <2>3. n \in T
    <3> HIDE DEF T
    <3>1. T \in SUBSET (0 .. n)
      BY DEF T
    <3>2. T = 0 .. n
      BY <1>1, <2>1, <2>2, <3>1, Climb
    <3> QED BY <1>1, <3>2
  <2>4. PICK g \in [SUBSET D -> Nat] :
          \A s \in SUBSET D : Cardinality(s) <= n => g[s] = Sum(g, s)
    <3> HIDE DEF Sum
    <3> QED BY <2>3
  <2>5. \A s \in SUBSET D : g[s] = Sum(g, s)
    <3> HIDE DEF Sum
    <3> QED BY <1>1, <2>4
  <2> QED BY <2>5, Zenon
<1> DEFINE G == CHOOSE g : g = [s \in SUBSET D |-> Sum(g, s)]
<1>5. G = [s \in SUBSET D |-> Sum(G, s)]
  <2> \E g : g = [s \in SUBSET D |-> Sum(g, s)]
    <3> PICK g \in [SUBSET D -> Nat] : \A s \in SUBSET D : g[s] = Sum(g, s)
      BY <1>4
    <3> g = [s \in SUBSET D |-> Sum(g, s)]
      OBVIOUS
    <3> QED OBVIOUS
  <2> QED OBVIOUS
<1>6. SumFunction(f) = G[D]
  <2> DOMAIN f = D
    OBVIOUS
  <2> QED
    BY Zenon DEF SumFunction, SumFunctionOnSet, FoldFunctionOnSet, MapThenFoldSet, P
<1> HIDE DEF G
<1>7. \A s \in SUBSET D : G[s] = Sum(G, s)
  BY <1>5
<1>8. \A s \in SUBSET D : G[s] \in Nat
  <2> DEFINE T == {m \in 0 .. n : \A s \in SUBSET D : Cardinality(s) = m => G[s] \in Nat}
  <2>1. 0 \in T
    <3> SUFFICES ASSUME NEW s \in SUBSET D, Cardinality(s) = 0 PROVE G[s] \in Nat
      BY <1>1
    <3> s = {}
      BY <1>3
    <3> QED BY <1>7
  <2>2. ASSUME NEW m \in T, m + 1 <= n PROVE m + 1 \in T
    <3> SUFFICES ASSUME NEW s \in SUBSET D, Cardinality(s) = m + 1 PROVE G[s] \in Nat
      BY <2>2, <1>1
    <3>1. s # {}
      BY <1>3
    <3>2. G[s \ {P(s)}] \in Nat
      BY <1>2, <3>1
    <3> QED BY <1>2, <1>7, <3>1, <3>2
  <2>3. T = 0 .. n
    <3> HIDE DEF T
    <3>1. T \in SUBSET (0 .. n)
      BY DEF T
    <3> QED BY <1>1, <2>1, <2>2, <3>1, Climb
  <2> QED BY <1>1, <2>3
<1>9. G \in [SUBSET D -> Nat]
  BY <1>5, <1>8
<1> DEFINE c == [s \in SUBSET D |-> P(s)]
<1>10. \A s \in SUBSET D : s # {} => c[s] \in s /\ G[s] = f[c[s]] + G[s \ {c[s]}]
  BY <1>2, <1>7
<1>11. G[{}] = 0
  BY <1>7
<1> HIDE DEF c
<1> QED BY <1>6, <1>9, <1>10, <1>11 DEF Accumulates

LEMMA SumIsNat ==
  ASSUME NEW D, NEW f \in [D -> Nat], IsFiniteSet(D)
  PROVE  SumFunction(f) \in Nat
<1>1. PICK g, c : Accumulates(g, c, f, D)
  BY SumUnfolds
<1>2. D \in SUBSET D
  OBVIOUS
<1> QED BY <1>1, <1>2 DEF Accumulates

\* The order of the additions does not matter: any value may be the first.
Others(f, x) == [y \in DOMAIN f \ {x} |-> f[y]]

LEMMA SumSplit ==
  ASSUME NEW D, NEW x \in D, NEW f \in [D -> Nat], IsFiniteSet(D)
  PROVE  SumFunction(f) = f[x] + SumFunction(Others(f, x))
<1> DEFINE n == Cardinality(D)
           E == D \ {x}
           h == Others(f, x)
<1> h \in [D \ {x} -> Nat] /\ \A y \in D \ {x} : h[y] = f[y]
  BY DEF Others
<1> HIDE DEF h
<1>1. n \in Nat /\ \A s \in SUBSET D : Cardinality(s) \in 0 .. n
  BY FS_CardinalityType, FS_Subset
<1>2. \A s \in SUBSET D : \A y \in s :
        s \ {y} \in SUBSET D /\ Cardinality(s \ {y}) = Cardinality(s) - 1
  BY FS_RemoveElement, FS_Subset
<1>3. \A s \in SUBSET D : Cardinality(s) = 0 <=> s = {}
  BY FS_EmptySet, FS_Subset
<1>4. PICK g, c : Accumulates(g, c, f, D)
  BY SumUnfolds
<1>5. PICK a, b : Accumulates(a, b, h, E)
  <2> IsFiniteSet(E)
    BY FS_Subset
  <2> QED BY SumUnfolds
<1> HIDE DEF n, E
<1>6. \A s \in SUBSET D : \A y \in s : g[s] = f[y] + g[s \ {y}]
  <2> DEFINE T == {m \in 0 .. n : \A s \in SUBSET D : Cardinality(s) = m =>
                     \A y \in s : g[s] = f[y] + g[s \ {y}]}
  <2>1. 0 \in T
    BY <1>1, <1>3
  <2>2. ASSUME NEW m \in T, m + 1 <= n PROVE m + 1 \in T
    <3> SUFFICES \A s \in SUBSET D : Cardinality(s) = m + 1 =>
                   \A y \in s : g[s] = f[y] + g[s \ {y}]
      <4> m + 1 \in 0 .. n
        BY <2>2, <1>1
      <4> QED OBVIOUS
    <3> SUFFICES ASSUME NEW s \in SUBSET D, Cardinality(s) = m + 1, NEW y \in s
                 PROVE  g[s] = f[y] + g[s \ {y}]
      OBVIOUS
    <3> DEFINE z == c[s]
               r == s \ {z}
               t == s \ {y}
    <3>1. z \in s /\ g[s] = f[z] + g[r]
      BY <1>4 DEF Accumulates
    <3>2. CASE y = z
      BY <3>1, <3>2
    <3>3. CASE y # z
      <4>1. y \in r /\ z \in t /\ r \ {y} = t \ {z}
        BY <3>1, <3>3
      <4>2. Cardinality(r) = m /\ Cardinality(t) = m /\ r \in SUBSET D /\ t \in SUBSET D
        BY <1>1, <1>2, <3>1
      <4>3. g[r] = f[y] + g[r \ {y}] /\ g[t] = f[z] + g[t \ {z}]
        <5> HIDE DEF r, t, z
        <5> QED BY <4>1, <4>2
      <4>4. f[y] \in Nat /\ f[z] \in Nat /\ g[r \ {y}] \in Nat
        <5> y \in D /\ z \in D /\ r \ {y} \in SUBSET D
          BY <3>1
        <5> QED BY <1>4 DEF Accumulates
      <4>5. g[r \ {y}] = g[t \ {z}]
        <5> HIDE DEF r, t, z
        <5> QED BY <4>1
      <4> HIDE DEF z, r
      <4>6. g[s] = f[y] + g[t]
        BY <3>1, <4>3, <4>4, <4>5
      <4> QED BY <4>6
    <3> QED BY <3>2, <3>3
  <2>3. T = 0 .. n
    <3>1. 0 \in Nat /\ T \in SUBSET (0 .. n)
      OBVIOUS
    <3> HIDE DEF T
    <3> QED BY <1>1, <2>1, <2>2, <3>1, Climb
  <2> QED BY <1>1, <2>3
<1>7. \A s \in SUBSET E : g[s] = a[s]
  <2> DEFINE T == {m \in 0 .. n : \A s \in SUBSET E : Cardinality(s) = m => g[s] = a[s]}
  <2>1. 0 \in T
    <3> \A s \in SUBSET E : Cardinality(s) = 0 => s = {}
      BY <1>3 DEF E
    <3> g[{}] = 0 /\ a[{}] = 0
      BY <1>4, <1>5 DEF Accumulates
    <3> QED BY <1>1
  <2>2. ASSUME NEW m \in T, m + 1 <= n PROVE m + 1 \in T
    <3> SUFFICES ASSUME NEW s \in SUBSET E, Cardinality(s) = m + 1 PROVE g[s] = a[s]
      BY <2>2, <1>1
    <3> DEFINE z == b[s]
    <3>1. s # {} /\ s \in SUBSET D
      BY <1>3 DEF E
    <3>2. z \in s /\ a[s] = h[z] + a[s \ {z}]
      BY <1>5, <3>1 DEF Accumulates
    <3>3. g[s] = f[z] + g[s \ {z}]
      BY <1>6, <3>1, <3>2
    <3>4. h[z] = f[z]
      BY <3>2 DEF E
    <3>5. Cardinality(s \ {z}) = m /\ s \ {z} \in SUBSET E
      BY <1>2, <3>1, <3>2
    <3>6. g[s \ {z}] = a[s \ {z}]
      BY <3>5
    <3> QED BY <3>2, <3>3, <3>4, <3>6
  <2>3. T = 0 .. n
    <3>1. 0 \in Nat /\ T \in SUBSET (0 .. n)
      OBVIOUS
    <3> HIDE DEF T
    <3> QED BY <1>1, <2>1, <2>2, <3>1, Climb
  <2>4. \A s \in SUBSET E : Cardinality(s) \in 0 .. n
    BY <1>1 DEF E
  <2> QED BY <2>3, <2>4
<1>8. g[D] = f[x] + g[E]
  BY <1>6 DEF E
<1>9. g[E] = a[E]
  BY <1>7
<1> QED BY <1>4, <1>5, <1>8, <1>9 DEF Accumulates, h

LEMMA SumOfNone ==
  ASSUME NEW f \in [{} -> Nat]
  PROVE  SumFunction(f) = 0
<1>1. PICK g, c : Accumulates(g, c, f, {})
  BY SumUnfolds, FS_EmptySet
<1> QED BY <1>1 DEF Accumulates

LEMMA SumOfTwo ==
  ASSUME NEW f \in [1 .. 2 -> Nat]
  PROVE  SumFunction(f) = f[1] + f[2]
<1> DEFINE D == 1 .. 2
           g == Others(f, 2)
           h == Others(g, 1)
<1>1. IsFiniteSet(D) /\ IsFiniteSet({1})
  <2> 1 \in Int /\ 2 \in Int
    OBVIOUS
  <2> QED BY FS_Interval, FS_Singleton
<1>2. D \ {2} = {1}
  OBVIOUS
<1>3. g \in [{1} -> Nat] /\ g[1] = f[1]
  BY <1>2 DEF Others
<1>4. h \in [{} -> Nat]
  <2> HIDE DEF g
  <2> QED BY <1>3 DEF Others
<1>5. f \in [D -> Nat] /\ 2 \in D
  OBVIOUS
<1> HIDE DEF D
<1>6. SumFunction(f) = f[2] + SumFunction(g)
  BY <1>1, <1>5, SumSplit
<1> HIDE DEF g
<1>7. SumFunction(g) = g[1] + SumFunction(h)
  <2> 1 \in {1}
    OBVIOUS
  <2> QED BY <1>1, <1>3, SumSplit
<1>8. SumFunction(h) = 0
  <2> HIDE DEF h
  <2> QED BY <1>4, SumOfNone
<1>9. f[1] \in Nat /\ f[2] \in Nat
  OBVIOUS
<1> QED BY <1>3, <1>6, <1>7, <1>8, <1>9

-----------------------------------------------------------------------------
(* Subsequences *)

\* A finite set of naturals that is not empty has a greatest element.
LEMMA GreatestNat ==
  ASSUME NEW n \in Nat, NEW T \in SUBSET (1 .. n), T # {}
  PROVE  \E m \in T : \A i \in T : i <= m
<1> DEFINE U == {b \in Nat : \A i \in T : i <= b}
<1>1. n \in U
  OBVIOUS
<1>2. PICK b \in U : \A c \in U : b <= c
  <2>1. U \in SUBSET Nat /\ U # {}
    BY <1>1
  <2> HIDE DEF U
  <2> QED BY <2>1, LeastNat
<1>3. b \in T
  <2> SUFFICES ASSUME b \notin T PROVE FALSE
    OBVIOUS
  <2>1. \A i \in T : i \in Nat /\ i >= 1 /\ i <= b /\ i # b
    BY <1>2
  <2>2. b - 1 \in Nat
    <3> PICK i \in T : TRUE
      OBVIOUS
    <3> i \in Nat /\ i >= 1 /\ i <= b /\ b \in Nat
      BY <2>1, <1>2
    <3> QED OBVIOUS
  <2>3. b - 1 \in U
    BY <2>1, <2>2, <1>2
  <2> QED BY <1>2, <2>3
<1> QED BY <1>2, <1>3

UpTo(keep, i) == {j \in keep : j <= i}

\* In a set of n positions there is one with m positions up to it, for each m.
LEMMA RankExists ==
  ASSUME NEW n \in Nat, NEW keep \in SUBSET (1 .. n), NEW m \in 1 .. Cardinality(keep)
  PROVE  \E i \in keep : Cardinality(UpTo(keep, i)) = m
<1>1. IsFiniteSet(1 .. n)
  <2> 1 \in Int /\ n \in Int
    OBVIOUS
  <2> QED BY FS_Interval
<1>2. IsFiniteSet(keep) /\ Cardinality(keep) \in Nat
  BY <1>1, FS_Subset, FS_CardinalityType
<1>3. keep # {}
  BY FS_EmptySet
<1> DEFINE U == {i \in keep : Cardinality(UpTo(keep, i)) >= m}
<1>4. U # {}
  <2>1. PICK i \in keep : \A j \in keep : j <= i
    BY <1>3, GreatestNat
  <2>2. UpTo(keep, i) = keep
    BY <2>1 DEF UpTo
  <2> QED BY <1>2, <2>2
<1>5. PICK i \in U : \A j \in U : i <= j
  <2>1. U \subseteq keep
    OBVIOUS
  <2> HIDE DEF U
  <2>2. U \in SUBSET Nat
    BY <2>1
  <2> QED BY <1>4, <2>2, LeastNat
<1>6. i \in keep /\ i \in 1 .. n /\ Cardinality(UpTo(keep, i)) >= m
  BY <1>5
<1> DEFINE B == UpTo(keep, i) \ {i}
<1>7. IsFiniteSet(UpTo(keep, i)) /\ IsFiniteSet(B)
  BY <1>2, FS_Subset DEF UpTo
<1>8. Cardinality(B) = Cardinality(UpTo(keep, i)) - 1 /\ Cardinality(UpTo(keep, i)) \in Nat
  <2> i \in UpTo(keep, i)
    BY <1>6 DEF UpTo
  <2> QED BY <1>7, FS_RemoveElement, FS_CardinalityType
<1>9. CASE Cardinality(UpTo(keep, i)) = m
  BY <1>6, <1>9
<1>10. CASE Cardinality(UpTo(keep, i)) > m
  <2>1. Cardinality(B) >= m /\ Cardinality(B) >= 1
    BY <1>8, <1>10
  <2>2. B # {}
    BY <2>1, FS_EmptySet
  <2>3. B \in SUBSET (1 .. n)
    BY DEF UpTo
  <2>4. PICK l \in B : \A j \in B : j <= l
    <3> HIDE DEF B
    <3> QED BY <2>2, <2>3, GreatestNat
  <2>5. l \in keep /\ l \in 1 .. n /\ l < i
    BY <2>4, <1>6 DEF UpTo
  <2>6. UpTo(keep, l) = B
    <3>1. ASSUME NEW j \in keep PROVE j <= l <=> j <= i /\ j # i
      <4>1. j <= l => j <= i /\ j # i
        BY <1>6, <2>5
      <4>2. j <= i /\ j # i => j <= l
        BY <2>4 DEF UpTo
      <4> QED BY <4>1, <4>2
    <3> QED BY <3>1 DEF UpTo
  <2>7. l \in U
    BY <2>1, <2>5, <2>6
  <2> QED BY <1>5, <2>5, <2>7, <1>6
<1> QED BY <1>6, <1>8, <1>9, <1>10

\* The first position is the only one of rank 1, the last one of the highest rank.
LEMMA RankOfEnds ==
  ASSUME NEW n \in Nat, NEW keep \in SUBSET (1 .. n), NEW i \in keep
  PROVE  /\ 1 \in keep => (i = 1 <=> Cardinality(UpTo(keep, i)) = 1)
         /\ n \in keep => (i = n <=> Cardinality(UpTo(keep, i)) = Cardinality(keep))
<1>1. IsFiniteSet(1 .. n)
  <2> 1 \in Int /\ n \in Int
    OBVIOUS
  <2> QED BY FS_Interval
<1>2. IsFiniteSet(keep) /\ IsFiniteSet(UpTo(keep, i))
  <2> UpTo(keep, i) \in SUBSET keep
    BY DEF UpTo
  <2> QED BY <1>1, FS_Subset
<1>3. i \in 1 .. n /\ i \in UpTo(keep, i)
  BY DEF UpTo
<1>4. ASSUME 1 \in keep PROVE i = 1 <=> Cardinality(UpTo(keep, i)) = 1
  <2>1. 1 \in UpTo(keep, i)
    BY <1>3, <1>4 DEF UpTo
  <2>2. ASSUME i = 1 PROVE UpTo(keep, i) = {1}
    <3>1. ASSUME NEW j \in keep PROVE j <= i <=> j = 1
      <4> j \in 1 .. n
        OBVIOUS
      <4> QED BY <2>2
    <3> QED BY <1>4, <3>1 DEF UpTo
  <2>3. ASSUME UpTo(keep, i) = {1} PROVE i = 1
    BY <1>3, <2>3
  <2>4. Cardinality(UpTo(keep, i)) = 1 <=> \E x : UpTo(keep, i) = {x}
    BY <1>2, FS_Singleton
  <2> QED BY <2>1, <2>2, <2>3, <2>4
<1>5. ASSUME n \in keep PROVE i = n <=> Cardinality(UpTo(keep, i)) = Cardinality(keep)
  <2>1. UpTo(keep, i) \in SUBSET keep
    BY DEF UpTo
  <2>2. Cardinality(UpTo(keep, i)) = Cardinality(keep) <=> UpTo(keep, i) = keep
    BY <1>2, <2>1, FS_Subset
  <2>3. ASSUME i = n PROVE UpTo(keep, i) = keep
    <3>1. \A j \in keep : j <= i
      BY <2>3
    <3> QED BY <3>1 DEF UpTo
  <2>4. UpTo(keep, i) = keep => i = n
    BY <1>3, <1>5 DEF UpTo
  <2> QED BY <2>2, <2>3, <2>4
<1> QED BY <1>4, <1>5

\* The elements of s at the positions in keep, in their order: a first or a last
\* position stays first or last.
LEMMA AtPositions ==
  ASSUME NEW S, NEW s \in Seq(S), NEW keep \in SUBSET (1 .. Len(s))
  PROVE  /\ At(s, keep) \in Seq(S) /\ Len(At(s, keep)) = Cardinality(keep)
         /\ \A m \in 1 .. Cardinality(keep) : \E i \in keep :
              /\ At(s, keep)[m] = s[i]
              /\ 1 \in keep => (i = 1 <=> m = 1)
              /\ Len(s) \in keep => (i = Len(s) <=> m = Cardinality(keep))
<1> DEFINE n == Len(s)
           C(m) == CHOOSE i \in keep : Cardinality(UpTo(keep, i)) = m
<1>1. n \in Nat /\ IsFiniteSet(1 .. n)
  <2> 1 \in Int /\ n \in Int
    OBVIOUS
  <2> QED BY FS_Interval
<1>2. Cardinality(keep) \in Nat
  BY <1>1, FS_Subset, FS_CardinalityType
<1>3. ASSUME NEW m \in 1 .. Cardinality(keep)
      PROVE  C(m) \in keep /\ Cardinality(UpTo(keep, C(m))) = m
  <2> \E i \in keep : Cardinality(UpTo(keep, i)) = m
    BY <1>1, RankExists
  <2> QED OBVIOUS
<1>4. At(s, keep) = [m \in 1 .. Cardinality(keep) |-> s[C(m)]]
  BY Zenon DEF At, UpTo
<1>5. ASSUME NEW m \in 1 .. Cardinality(keep)
      PROVE  \E i \in keep : /\ At(s, keep)[m] = s[i]
                             /\ 1 \in keep => (i = 1 <=> m = 1)
                             /\ n \in keep => (i = n <=> m = Cardinality(keep))
  <2> HIDE DEF C
  <2>1. PICK i : i = C(m)
    OBVIOUS
  <2>2. i \in keep /\ Cardinality(UpTo(keep, i)) = m
    BY <1>3, <2>1
  <2>3. At(s, keep)[m] = s[i]
    BY <1>4, <2>1
  <2> HIDE DEF n
  <2>4. n \in Nat /\ keep \in SUBSET (1 .. n)
    BY <1>1 DEF n
  <2>5. /\ 1 \in keep => (i = 1 <=> m = 1)
        /\ n \in keep => (i = n <=> m = Cardinality(keep))
    BY <2>2, <2>4, RankOfEnds
  <2> QED BY <2>2, <2>3, <2>5
<1>6. At(s, keep) \in [1 .. Cardinality(keep) -> S]
  <2> HIDE DEF C
  <2>1. \A i \in keep : s[i] \in S
    OBVIOUS
  <2> QED BY <1>4, <1>5, <2>1
<1>7. At(s, keep) \in Seq(S) /\ Len(At(s, keep)) = Cardinality(keep)
  BY <1>2, <1>6
<1> HIDE DEF n, C
<1> QED BY <1>5, <1>7 DEF n

-----------------------------------------------------------------------------
(* Tours of a day *)

\* A tour of a day: sites between two points.
Tour(pts) ==
  /\ pts \in Seq(Points) /\ Len(pts) >= 2
  /\ \A i \in Inner(pts) : pts[i] \in Sites

SameEnds(pts, qts) == qts[1] = pts[1] /\ qts[Len(qts)] = pts[Len(pts)]

LEMMA InsertKeepsEnds ==
  ASSUME NEW pts, Tour(pts), NEW pos \in Slots(pts), NEW u \in Sites
  PROVE  Tour(InsertAt(pts, pos, u)) /\ SameEnds(pts, InsertAt(pts, pos, u))
<1> DEFINE n == Len(pts)
           qts == InsertAt(pts, pos, u)
<1>1. pts \in Seq(Points) /\ n \in Nat /\ n >= 2 /\ pos \in 2 .. n /\ u \in Points
  BY DEF Tour, Slots, Points
<1>2. qts \in Seq(Points) /\ Len(qts) = n + 1
  BY <1>1 DEF InsertAt
<1>3. \A i \in 1 .. n + 1 : qts[i] = IF i < pos THEN pts[i] ELSE IF i = pos THEN u ELSE pts[i - 1]
  BY <1>1 DEF InsertAt
<1>4. \A i \in 2 .. n - 1 : pts[i] \in Sites
  BY DEF Tour, Inner
<1> HIDE DEF n, qts
<1>5. \A i \in 2 .. n : qts[i] \in Sites
  BY <1>1, <1>3, <1>4
<1>6. qts[1] = pts[1] /\ qts[n + 1] = pts[n]
  BY <1>1, <1>3
<1> QED BY <1>1, <1>2, <1>5, <1>6 DEF Tour, Inner, SameEnds, n, qts

LEMMA RemoveKeepsEnds ==
  ASSUME NEW pts, Tour(pts), NEW pos \in Inner(pts)
  PROVE  Tour(RemoveAt(pts, pos)) /\ SameEnds(pts, RemoveAt(pts, pos)) /\ Len(RemoveAt(pts, pos)) = Len(pts) - 1
<1> DEFINE n == Len(pts)
           qts == RemoveAt(pts, pos)
<1>1. pts \in Seq(Points) /\ n \in Nat /\ n >= 2 /\ pos \in 2 .. n - 1
  BY DEF Tour, Inner
<1>2. qts \in Seq(Points) /\ Len(qts) = n - 1
  BY <1>1 DEF RemoveAt
<1>3. \A i \in 1 .. n - 1 : qts[i] = IF i < pos THEN pts[i] ELSE pts[i + 1]
  BY <1>1 DEF RemoveAt
<1>4. \A i \in 2 .. n - 1 : pts[i] \in Sites
  BY DEF Tour, Inner
<1> HIDE DEF n, qts
<1>5. \A i \in 2 .. n - 2 : qts[i] \in Sites
  BY <1>1, <1>3, <1>4
<1>6. qts[1] = pts[1] /\ qts[n - 1] = pts[n]
  BY <1>1, <1>3
<1> QED BY <1>1, <1>2, <1>5, <1>6 DEF Tour, Inner, SameEnds, n, qts

LEMMA ReplaceKeepsEnds ==
  ASSUME NEW pts, Tour(pts), NEW pos \in Inner(pts), NEW u \in Sites
  PROVE  Tour(ReplaceAt(pts, pos, u)) /\ SameEnds(pts, ReplaceAt(pts, pos, u))
BY DEF Tour, Inner, SameEnds, ReplaceAt, Points

LEMMA ReversedKeepsEnds ==
  ASSUME NEW pts, Tour(pts), NEW i \in 2 .. Len(pts) - 1, NEW j \in Inner(pts), i < j
  PROVE  Tour(Reversed(pts, i, j)) /\ SameEnds(pts, Reversed(pts, i, j))
<1> DEFINE n == Len(pts)
           qts == Reversed(pts, i, j)
<1>1. pts \in Seq(Points) /\ n \in Nat /\ n >= 2 /\ i \in 2 .. n - 1 /\ j \in 2 .. n - 1
  BY DEF Tour, Inner
<1>2. \A x \in i .. j : i + j - x \in 2 .. n - 1
  BY <1>1
<1>3. DOMAIN qts = 1 .. n /\ \A x \in 1 .. n : qts[x] = IF x \in i .. j THEN pts[i + j - x] ELSE pts[x]
  BY <1>1 DEF Reversed
<1>4. \A x \in 2 .. n - 1 : pts[x] \in Sites
  BY DEF Tour, Inner
<1>5. \A x \in 1 .. n : qts[x] \in Points
  <2> HIDE DEF qts
  <2> QED BY <1>1, <1>2, <1>3
<1>6. qts \in Seq(Points) /\ Len(qts) = n
  <2> qts = [x \in 1 .. n |-> qts[x]]
    BY <1>1 DEF Reversed
  <2> HIDE DEF qts
  <2> qts \in [1 .. n -> Points]
    BY <1>5
  <2> QED BY <1>1
<1>7. \A x \in 2 .. n - 1 : qts[x] \in Sites
  <2> SUFFICES ASSUME NEW x \in 2 .. n - 1 PROVE qts[x] \in Sites
    OBVIOUS
  <2>1. x \in 1 .. n
    BY <1>1
  <2> HIDE DEF qts, n
  <2>2. CASE x \in i .. j
    BY <1>2, <1>3, <1>4, <2>1, <2>2
  <2>3. CASE x \notin i .. j
    BY <1>3, <1>4, <2>1, <2>3
  <2> QED BY <2>2, <2>3
<1>8. qts[1] = pts[1] /\ qts[n] = pts[n]
  <2> HIDE DEF qts
  <2> QED BY <1>1, <1>3
<1> HIDE DEF n, qts
<1> QED BY <1>1, <1>6, <1>7, <1>8 DEF Tour, Inner, SameEnds, n, qts

LEMMA MovedKeepsEnds ==
  ASSUME NEW pts, Tour(pts), NEW p \in Inner(pts), NEW q \in Inner(pts)
  PROVE  Tour(Moved(pts, p, q)) /\ SameEnds(pts, Moved(pts, p, q))
<1> DEFINE rest == RemoveAt(pts, p)
           r    == IF q > p THEN q - 1 ELSE q
<1>1. Tour(rest) /\ SameEnds(pts, rest) /\ Len(rest) = Len(pts) - 1
  BY RemoveKeepsEnds
<1>2. Len(pts) \in Nat /\ p \in 2 .. Len(pts) - 1 /\ q \in 2 .. Len(pts) - 1
  BY DEF Tour, Inner
<1>3. pts[p] \in Sites
  BY DEF Tour
<1> HIDE DEF rest
<1>4. r \in Slots(rest)
  BY <1>1, <1>2 DEF Slots
<1> HIDE DEF r
<1>5. Tour(InsertAt(rest, r, pts[p])) /\ SameEnds(rest, InsertAt(rest, r, pts[p]))
  BY <1>1, <1>3, <1>4, InsertKeepsEnds
<1> QED BY <1>1, <1>5 DEF Moved, SameEnds, rest, r

-----------------------------------------------------------------------------
(* Solutions *)

LEMMA LegIsNat ==
  ASSUME NEW pts \in Seq(Points), NEW i \in DOMAIN pts
  PROVE  Leg(pts, i) \in Nat
<1>1. i \in 1 .. Len(pts) /\ pts[i] \in Points /\ (i # 1 => pts[i - 1] \in Points)
  OBVIOUS
<1> QED BY <1>1, MetricAssumption DEF Leg

LEMMA SumOfSeq ==
  ASSUME NEW n \in Nat, NEW f \in [1 .. n -> Nat]
  PROVE  SumFunction(f) \in Nat
<1>1. IsFiniteSet(1 .. n)
  <2> 1 \in Int /\ n \in Int
    OBVIOUS
  <2> QED BY FS_Interval
<1> QED BY <1>1, SumIsNat

LEMMA TourLengthIsNat ==
  ASSUME NEW pts \in Seq(Points)
  PROVE  TourLength(pts) \in Nat
<1> DEFINE f == [i \in DOMAIN pts |-> Leg(pts, i)]
<1>1. f \in [1 .. Len(pts) -> Nat]
  BY LegIsNat
<1>2. Len(pts) \in Nat
  OBVIOUS
<1> HIDE DEF f
<1>3. SumFunction(f) \in Nat
  BY <1>1, <1>2, SumOfSeq
<1> QED BY <1>3 DEF TourLength, f

\* The length of a tour up to its position i, which grows leg by leg.
LengthTo(pts, i) == SumFunction([j \in 1 .. i |-> Leg(pts, j)])

LEMMA LengthGrows ==
  ASSUME NEW pts \in Seq(Points)
  PROVE  /\ Len(pts) >= 1 => LengthTo(pts, 1) = 0
         /\ \A i \in 2 .. Len(pts) : LengthTo(pts, i) = LengthTo(pts, i - 1) + Leg(pts, i)
         /\ LengthTo(pts, Len(pts)) = TourLength(pts)
<1> DEFINE n == Len(pts)
           f(i) == [j \in 1 .. i |-> Leg(pts, j)]
<1>1. n \in Nat /\ DOMAIN pts = 1 .. n
  OBVIOUS
<1>2. \A j \in 1 .. n : Leg(pts, j) \in Nat
  BY <1>1, LegIsNat
<1> HIDE DEF n
<1>3. ASSUME NEW i \in 1 .. n
      PROVE  SumFunction(f(i)) = SumFunction(f(i - 1)) + Leg(pts, i)
  <2> DEFINE g == f(i)
             h == f(i - 1)
             D == 1 .. i
  <2>1. i \in Nat /\ i \in D /\ D \ {i} = 1 .. i - 1 /\ D \in SUBSET (1 .. n)
    BY <1>1
  <2>2. g \in [D -> Nat] /\ g[i] = Leg(pts, i)
    BY <1>2, <2>1
  <2>3. h \in [D \ {i} -> Nat] /\ h = Others(g, i)
    BY <1>2, <2>1 DEF Others
  <2>4. IsFiniteSet(D)
    <3> 1 \in Int /\ i \in Int
      BY <2>1
    <3> QED BY FS_Interval
  <2>5. SumFunction(h) \in Nat
    <3> IsFiniteSet(D \ {i})
      BY <2>4, FS_Subset
    <3> HIDE DEF h
    <3> QED BY <2>3, SumIsNat
  <2>9. i \in D
    BY <2>1
  <2>10. g \in [D -> Nat]
    BY <2>2
  <2> HIDE DEF g, h, D
  <2>6. SumFunction(g) = g[i] + SumFunction(h)
    BY <2>3, <2>4, <2>9, <2>10, SumSplit
  <2>7. g[i] \in Nat
    BY <2>1, <2>2
  <2>8. SumFunction(g) = SumFunction(h) + Leg(pts, i)
    BY <2>2, <2>5, <2>6, <2>7
  <2> QED BY <2>8 DEF g, h
<1>4. \A i : LengthTo(pts, i) = SumFunction(f(i))
  BY Zenon DEF LengthTo
<1>5. SumFunction(f(0)) = 0
  <2> f(0) \in [{} -> Nat]
    BY <1>2
  <2> HIDE DEF f
  <2> QED BY SumOfNone
<1>6. TourLength(pts) = SumFunction(f(n))
  <2> f(n) = [i \in DOMAIN pts |-> Leg(pts, i)]
    BY <1>1
  <2> HIDE DEF f
  <2> QED BY Zenon DEF TourLength
<1> HIDE DEF f
<1>7. n >= 1 => LengthTo(pts, 1) = 0
  <2> SUFFICES ASSUME n >= 1 PROVE SumFunction(f(1)) = 0
    BY <1>4
  <2> 1 \in 1 .. n /\ 1 - 1 = 0
    BY <1>1
  <2> SumFunction(f(1)) = SumFunction(f(0)) + Leg(pts, 1)
    BY <1>3
  <2> QED BY <1>5 DEF Leg
<1>8. \A i \in 2 .. n : LengthTo(pts, i) = LengthTo(pts, i - 1) + Leg(pts, i)
  <2> SUFFICES ASSUME NEW i \in 2 .. n
               PROVE  LengthTo(pts, i) = LengthTo(pts, i - 1) + Leg(pts, i)
    OBVIOUS
  <2> i \in 1 .. n
    BY <1>1
  <2> QED BY <1>3, <1>4
<1> QED BY <1>4, <1>6, <1>7, <1>8 DEF n

\* A day made of a tour.
LEMMA FreshDayOfTour ==
  ASSUME NEW pts \in Seq(Points)
  PROVE  /\ FreshDay(pts) \in DayTours
         /\ PointsOf(FreshDay(pts)) = pts
         /\ FreshDay(pts).dist = TourLength(pts)
<1> DEFINE steps == FreshSteps(pts)
<1>1. DOMAIN pts = 1 .. Len(pts) /\ Len(pts) \in Nat
  OBVIOUS
<1>2. \A i \in 1 .. Len(pts) : [pt |-> pts[i], leg |-> Leg(pts, i)] \in Steps
  BY LegIsNat DEF Steps
<1>3. steps \in [1 .. Len(pts) -> Steps]
  BY <1>1, <1>2 DEF FreshSteps
<1>4. \A i \in 1 .. Len(pts) : steps[i].pt = pts[i]
  BY <1>1 DEF FreshSteps
<1> HIDE DEF steps
<1>5. steps \in Seq(Steps) /\ DOMAIN steps = 1 .. Len(pts)
  BY <1>1, <1>3
<1>6. FreshDay(pts) = [steps |-> steps, dist |-> TourLength(pts)]
  BY DEF FreshDay, steps
<1>7. FreshDay(pts) \in DayTours
  BY <1>5, <1>6, TourLengthIsNat DEF DayTours
<1>8. [i \in 1 .. Len(pts) |-> steps[i].pt] = pts
  BY <1>1, <1>4
<1> QED BY <1>5, <1>6, <1>7, <1>8 DEF PointsOf

LEMMA PointsOfDay ==
  ASSUME NEW day \in DayTours
  PROVE  /\ PointsOf(day) \in Seq(Points)
         /\ Len(PointsOf(day)) = Len(day.steps)
         /\ DOMAIN day.steps = 1 .. Len(day.steps)
         /\ \A i \in 1 .. Len(day.steps) : PointsOf(day)[i] = day.steps[i].pt
<1>1. day.steps \in Seq(Steps)
  BY DEF DayTours
<1>2. \A i \in DOMAIN day.steps : day.steps[i] \in Steps
  BY <1>1
<1>3. \A i \in DOMAIN day.steps : day.steps[i].pt \in Points
  BY <1>2 DEF Steps
<1> QED BY <1>1, <1>3 DEF PointsOf

LEMMA SolutionFields ==
  ASSUME NEW s \in Solutions
  PROVE  /\ s.days \in Seq(DayTours) /\ s.score \in Nat /\ s.dist \in Nat
         /\ DOMAIN s.days = 1 .. Len(s.days) /\ Len(s.days) \in Nat
         /\ \A d \in DOMAIN s.days : s.days[d] \in DayTours
BY DEF Solutions

\* The day d of a solution becomes the tour pts.
LEMMA ReplacedDay ==
  ASSUME NEW s \in Solutions, NEW d \in DOMAIN s.days, NEW pts \in Seq(Points)
  PROVE  /\ Replace(s, d, pts) \in Solutions
         /\ Replace(s, d, pts).score = s.score
         /\ DOMAIN Replace(s, d, pts).days = DOMAIN s.days
         /\ Len(Replace(s, d, pts).days) = Len(s.days)
         /\ Replace(s, d, pts).days[d].dist = TourLength(pts)
         /\ \A e \in DOMAIN s.days \ {d} : Replace(s, d, pts).days[e] = s.days[e]
         /\ \A e \in DOMAIN s.days :
              PointsAt(Replace(s, d, pts), e) = IF e = d THEN pts ELSE PointsAt(s, e)
<1> DEFINE day == FreshDay(pts)
           r   == Replace(s, d, pts)
<1>1. day \in DayTours /\ PointsOf(day) = pts /\ day.dist = TourLength(pts)
  BY FreshDayOfTour
<1>2. s.days \in Seq(DayTours)
  BY SolutionFields
<1> HIDE DEF day
<1>3. r = [s EXCEPT !.days[d] = day]
  BY DEF Replace, day
<1> HIDE DEF r
<1>4. r \in Solutions /\ r.score = s.score /\ r.days = [s.days EXCEPT ![d] = day]
  <2> DEFINE A == Seq(DayTours)
  <2>1. s \in [days : A, score : Nat, dist : Nat] /\ [s.days EXCEPT ![d] = day] \in A
    BY <1>1, <1>2 DEF Solutions
  <2>2. Solutions = [days : A, score : Nat, dist : Nat]
    BY DEF Solutions
  <2> HIDE DEF A
  <2> QED BY <1>3, <2>1, <2>2
<1>7. r.days[d] = day /\ \A e \in DOMAIN s.days \ {d} : r.days[e] = s.days[e]
  BY <1>2, <1>4
<1>8. DOMAIN r.days = DOMAIN s.days /\ Len(r.days) = Len(s.days)
  BY <1>2, <1>4
<1>9. \A e \in DOMAIN s.days : PointsAt(r, e) = IF e = d THEN pts ELSE PointsAt(s, e)
  BY <1>1, <1>7 DEF PointsAt
<1> QED BY <1>1, <1>4, <1>7, <1>8, <1>9 DEF r

LEMMA PointsOfSolution ==
  ASSUME NEW s \in Solutions, NEW d \in DOMAIN s.days
  PROVE  /\ s.days[d] \in DayTours
         /\ PointsAt(s, d) \in Seq(Points)
         /\ Len(PointsAt(s, d)) = Len(s.days[d].steps)
         /\ DOMAIN s.days[d].steps = 1 .. Len(s.days[d].steps)
         /\ \A i \in 1 .. Len(s.days[d].steps) : PointsAt(s, d)[i] = s.days[d].steps[i].pt
<1>1. s.days \in Seq(DayTours)
  BY DEF Solutions
<1>2. s.days[d] \in DayTours
  BY <1>1
<1> QED BY <1>2, PointsOfDay DEF PointsAt

\* In a solution of the right shape every day is a tour.
LEMMA ShapeIsTours ==
  ASSUME NEW s \in Solutions, Shape(s)
  PROVE  /\ DOMAIN s.days = Days
         /\ \A d \in Days : /\ Tour(PointsAt(s, d))
                            /\ PointsAt(s, d)[1] \in Hotels
                            /\ PointsAt(s, d)[Len(PointsAt(s, d))] \in Hotels
<1>1. DOMAIN s.days = Days
  BY DEF Solutions, Shape, Days
<1> QED BY <1>1, PointsOfSolution DEF Shape, Tour, Last

\* A well-typed solution of the right shape.
Framed(s) == s \in Solutions /\ Shape(s)

\* Every day may become any tour with the same ends.
LEMMA SameEndsKeepShape ==
  ASSUME NEW s, Framed(s), NEW r \in Solutions, DOMAIN r.days = DOMAIN s.days,
         \A d \in Days : Tour(PointsAt(r, d)) /\ SameEnds(PointsAt(s, d), PointsAt(r, d))
  PROVE  Framed(r)
<1>1. DOMAIN s.days = Days /\ s \in Solutions
  BY ShapeIsTours DEF Framed
<1>2. Len(r.days) = NbDays
  BY <1>1, SolutionFields, PointsAssumption DEF Days
<1>3. ASSUME NEW d \in Days
      PROVE  /\ Len(PointsAt(r, d)) >= 2
             /\ PointsAt(r, d)[1] = PointsAt(s, d)[1]
             /\ Last(PointsAt(r, d)) = Last(PointsAt(s, d))
             /\ \A i \in Inner(PointsAt(r, d)) : PointsAt(r, d)[i] \in Sites
  BY DEF Tour, SameEnds, Last
<1>4. \A d \in Days : d < NbDays => d + 1 \in Days
  BY PointsAssumption DEF Days
<1> QED BY <1>1, <1>2, <1>3, <1>4 DEF Framed, Shape

\* One day may become any tour with the same ends.
LEMMA ReplaceKeepsShape ==
  ASSUME NEW s, Framed(s), NEW d \in DOMAIN s.days,
         NEW pts, Tour(pts), SameEnds(PointsAt(s, d), pts)
  PROVE  Framed(Replace(s, d, pts)) /\ Replace(s, d, pts).score = s.score
<1> DEFINE r == Replace(s, d, pts)
<1>1. s \in Solutions /\ pts \in Seq(Points)
  BY DEF Tour, Framed
<1>2. /\ r \in Solutions /\ DOMAIN r.days = DOMAIN s.days /\ r.score = s.score
      /\ \A e \in DOMAIN s.days : PointsAt(r, e) = IF e = d THEN pts ELSE PointsAt(s, e)
  BY <1>1, ReplacedDay
<1>3. /\ DOMAIN s.days = Days
      /\ \A e \in Days : Tour(PointsAt(s, e)) /\ SameEnds(PointsAt(s, e), PointsAt(s, e))
  BY ShapeIsTours DEF Framed, SameEnds
<1> HIDE DEF r
<1>4. \A e \in Days : Tour(PointsAt(r, e)) /\ SameEnds(PointsAt(s, e), PointsAt(r, e))
  BY <1>2, <1>3
<1> QED BY <1>2, <1>4, SameEndsKeepShape DEF r

\* EvaluateScore changes the totals only.
LEMMA EvaluatedTotals ==
  ASSUME NEW s \in Solutions
  PROVE  EvaluateScore(s) \in Solutions /\ EvaluateScore(s).days = s.days
<1> DEFINE scores == [d \in DOMAIN s.days |-> DayScore(s.days[d])]
           legs   == [d \in DOMAIN s.days |-> DayLegs(s.days[d])]
<1>1. s.days \in Seq(DayTours) /\ DOMAIN s.days = 1 .. Len(s.days) /\ Len(s.days) \in Nat
  BY DEF Solutions
<1>2. ASSUME NEW day \in DayTours PROVE DayScore(day) \in Nat /\ DayLegs(day) \in Nat
  <2>1. day.steps \in Seq(Steps) /\ DOMAIN day.steps = 1 .. Len(day.steps) /\ Len(day.steps) \in Nat
    BY DEF DayTours
  <2>2. \A i \in DOMAIN day.steps : day.steps[i] \in Steps
    BY <2>1
  <2> DEFINE f == [i \in SitesOfDay(day) |-> Score[day.steps[i].pt]]
             g == [i \in DOMAIN day.steps |-> day.steps[i].leg]
  <2>3. f \in [SitesOfDay(day) -> Nat]
    BY SiteAssumption DEF SitesOfDay
  <2>4. IsFiniteSet(SitesOfDay(day))
    <3>1. SitesOfDay(day) \subseteq 1 .. Len(day.steps)
      BY <2>1 DEF SitesOfDay
    <3>2. 1 \in Int /\ Len(day.steps) \in Int
      BY <2>1
    <3>3. IsFiniteSet(1 .. Len(day.steps))
      BY <3>2, FS_Interval
    <3> QED BY <3>1, <3>3, FS_Subset
  <2>5. g \in [1 .. Len(day.steps) -> Nat]
    BY <2>1, <2>2 DEF Steps
  <2> HIDE DEF f, g
  <2>6. SumFunction(f) \in Nat
    BY <2>3, <2>4, SumIsNat
  <2>7. SumFunction(g) \in Nat
    BY <2>1, <2>5, SumOfSeq
  <2> QED BY <2>6, <2>7 DEF DayScore, DayLegs, f, g
<1>3. \A d \in DOMAIN s.days : s.days[d] \in DayTours
  BY <1>1
<1>4. scores \in [1 .. Len(s.days) -> Nat] /\ legs \in [1 .. Len(s.days) -> Nat]
  BY <1>1, <1>2, <1>3
<1> HIDE DEF scores, legs
<1>5. SumFunction(scores) \in Nat /\ SumFunction(legs) \in Nat
  BY <1>1, <1>4, SumOfSeq
<1>6. EvaluateScore(s) = [s EXCEPT !.score = SumFunction(scores), !.dist = SumFunction(legs)]
  BY Zenon DEF EvaluateScore, scores, legs
<1> DEFINE A == Seq(DayTours)
<1>7. Solutions = [days : A, score : Nat, dist : Nat]
  BY DEF Solutions
<1> HIDE DEF A
<1> QED BY <1>5, <1>6, <1>7

-----------------------------------------------------------------------------
(* Shaking *)

\* A day is in order when it leads from a point to another through sites, and its
\* recorded distance is the length of the tour.
Orderly(day) ==
  /\ day \in DayTours
  /\ Tour(PointsOf(day))
  /\ day.dist = TourLength(PointsOf(day))

\* Removing steps at inner positions.
LEMMA WithoutKeepsEnds ==
  ASSUME NEW day \in DayTours, Tour(PointsOf(day)), NEW gone \in SUBSET Inner(PointsOf(day))
  PROVE  Orderly(Without(day, gone)) /\ SameEnds(PointsOf(day), PointsOf(Without(day, gone)))
<1> DEFINE n     == Len(day.steps)
           pts   == PointsOf(day)
           keep  == DOMAIN day.steps \ gone
           steps == At(day.steps, keep)
           c     == Cardinality(keep)
           qts   == PointsOf(Without(day, gone))
<1>1. /\ day.steps \in Seq(Steps) /\ DOMAIN day.steps = 1 .. n /\ n \in Nat /\ n >= 2
      /\ Len(pts) = n /\ \A i \in 1 .. n : pts[i] = day.steps[i].pt
      /\ \A i \in 2 .. n - 1 : pts[i] \in Sites
  BY PointsOfDay DEF DayTours, Tour, Inner
<1>2. keep \in SUBSET (1 .. n) /\ 1 \in keep /\ n \in keep /\ 1 # n
  BY <1>1 DEF Inner
<1> HIDE DEF keep
<1>3. c \in Nat /\ c >= 2
  <2>1. IsFiniteSet(1 .. n)
    <3> 1 \in Int /\ n \in Int
      BY <1>1
    <3> QED BY FS_Interval
  <2>2. IsFiniteSet(keep)
    BY <1>2, <2>1, FS_Subset
  <2>3. c \in Nat /\ c # 0 /\ (c = 1 => \E x : keep = {x})
    BY <1>2, <2>2, FS_CardinalityType, FS_EmptySet, FS_Singleton
  <2>4. ~ \E x : keep = {x}
    <3> HIDE DEF n
    <3> QED BY <1>2
  <2>5. c # 1
    BY <2>3, <2>4
  <2> HIDE DEF c
  <2> QED BY <2>3, <2>5
<1>4. /\ steps \in Seq(Steps) /\ Len(steps) = c
      /\ \A m \in 1 .. c : \E i \in keep :
           /\ steps[m] = day.steps[i]
           /\ i = 1 <=> m = 1
           /\ i = n <=> m = c
  BY <1>1, <1>2, AtPositions
<1> HIDE DEF steps, c
<1>5. /\ \A m \in 1 .. c : steps[m].pt \in Points
      /\ steps[1] = day.steps[1] /\ steps[c] = day.steps[n]
      /\ \A m \in 2 .. c - 1 : steps[m].pt \in Sites
  <2>1. \A m \in 1 .. c : steps[m] \in Steps
    BY <1>3, <1>4
  <2>2. steps[1] = day.steps[1] /\ steps[c] = day.steps[n]
    BY <1>3, <1>4
  <2>3. ASSUME NEW m \in 2 .. c - 1 PROVE steps[m].pt \in Sites
    <3>1. PICK i \in keep : steps[m] = day.steps[i] /\ i # 1 /\ i # n
      BY <1>3, <1>4
    <3>2. i \in 2 .. n - 1
      BY <1>1, <1>2, <3>1
    <3> QED BY <1>1, <3>1, <3>2
  <2> QED BY <2>1, <2>2, <2>3 DEF Steps
<1>6. Without(day, gone) = [steps |-> steps, dist |-> TourLength(PointsOf([steps |-> steps]))]
  BY DEF Without, steps, keep
<1>7. qts = [i \in 1 .. c |-> steps[i].pt] /\ PointsOf([steps |-> steps]) = [i \in 1 .. c |-> steps[i].pt]
  BY <1>3, <1>4, <1>6 DEF PointsOf
<1>8. /\ qts \in Seq(Points) /\ Len(qts) = c
      /\ \A i \in 1 .. c : qts[i] = steps[i].pt
  BY <1>3, <1>5, <1>7
<1>9. Tour(qts) /\ SameEnds(pts, qts)
  <2> HIDE DEF pts, qts
  <2>1. \A i \in 2 .. c - 1 : qts[i] \in Sites
    BY <1>3, <1>5, <1>8
  <2>2. qts[1] = pts[1] /\ qts[c] = pts[n]
    BY <1>1, <1>3, <1>5, <1>8
  <2> QED BY <1>1, <1>3, <1>8, <2>1, <2>2 DEF Tour, SameEnds, Inner
<1>10. TourLength(qts) \in Nat
  BY <1>8, TourLengthIsNat
<1> HIDE DEF qts
<1>11. Without(day, gone) \in DayTours /\ Without(day, gone).dist = TourLength(qts)
  BY <1>4, <1>6, <1>7, <1>10 DEF DayTours
<1> QED BY <1>9, <1>11 DEF Orderly, qts

\* The tour of two points.
LEMMA LengthOfTwo ==
  ASSUME NEW pts \in Seq(Points), Len(pts) = 2
  PROVE  TourLength(pts) = DistMatrix[pts[1]][pts[2]]
<1> DEFINE f == [i \in DOMAIN pts |-> Leg(pts, i)]
<1>1. DOMAIN pts = 1 .. 2 /\ pts[1] \in Points /\ pts[2] \in Points
  OBVIOUS
<1>2. f \in [1 .. 2 -> Nat]
  BY <1>1, LegIsNat
<1>3. f[1] = 0 /\ f[2] = DistMatrix[pts[1]][pts[2]]
  BY <1>1 DEF Leg
<1>4. DistMatrix[pts[1]][pts[2]] \in Nat
  BY <1>1, MetricAssumption
<1> HIDE DEF f
<1>5. SumFunction(f) = f[1] + f[2]
  BY <1>2, SumOfTwo
<1> QED BY <1>3, <1>4, <1>5 DEF TourLength, f

\* Clearing a day leaves its two ends.
LEMMA ClearKeepsEnds ==
  ASSUME NEW day \in DayTours, Tour(PointsOf(day)),
         PointsOf(day)[1] \in Hotels, PointsOf(day)[Len(PointsOf(day))] \in Hotels
  PROVE  Orderly(ClearDay(day)) /\ SameEnds(PointsOf(day), PointsOf(ClearDay(day)))
<1> DEFINE n     == Len(day.steps)
           pts   == PointsOf(day)
           keep  == {i \in DOMAIN day.steps : day.steps[i].pt \in Hotels}
           steps == HotelSteps(day)
           qts   == PointsOf(ClearDay(day))
<1>1. /\ day.steps \in Seq(Steps) /\ DOMAIN day.steps = 1 .. n /\ n \in Nat /\ n >= 2
      /\ Len(pts) = n /\ \A i \in 1 .. n : pts[i] = day.steps[i].pt
      /\ \A i \in 2 .. n - 1 : pts[i] \in Sites
  BY PointsOfDay DEF DayTours, Tour, Inner
<1>2. pts[1] \in Hotels /\ pts[n] \in Hotels
  BY <1>1
<1>3. \A i \in 1 .. n : day.steps[i].pt \in Hotels <=> i = 1 \/ i = n
  BY <1>1, <1>2, PointsAssumption
<1>4. keep = {1, n} /\ 1 # n
  BY <1>1, <1>3
<1> HIDE DEF keep
<1>5. Cardinality(keep) = 2
  <2>1. IsFiniteSet({1}) /\ Cardinality({1}) = 1
    BY FS_Singleton
  <2>2. {1} \cup {n} = keep /\ n \notin {1}
    BY <1>4
  <2>3. Cardinality({1} \cup {n}) = Cardinality({1}) + 1
    <3> HIDE DEF n
    <3> QED BY <2>1, <2>2, FS_AddElement
  <2>4. Cardinality(keep) = Cardinality({1} \cup {n})
    BY <2>2, Zenon
  <2>5. Cardinality(keep) = Cardinality({1}) + 1
    BY <2>3, <2>4, Zenon
  <2> QED BY <2>1, <2>5
<1>6. steps = At(day.steps, keep)
  BY DEF HotelSteps, keep
<1>7. /\ steps \in Seq(Steps) /\ Len(steps) = 2
      /\ \A m \in 1 .. 2 : \E i \in keep :
           /\ steps[m] = day.steps[i]
           /\ i = 1 <=> m = 1
           /\ i = n <=> m = 2
  <2>1. keep \in SUBSET (1 .. n) /\ 1 \in keep /\ n \in keep
    BY <1>1, <1>4
  <2> DEFINE at == At(day.steps, keep)
             c  == Cardinality(keep)
  <2>4. /\ at \in Seq(Steps) /\ Len(at) = c
        /\ \A m \in 1 .. c : \E i \in keep :
             /\ at[m] = day.steps[i]
             /\ 1 \in keep => (i = 1 <=> m = 1)
             /\ Len(day.steps) \in keep => (i = Len(day.steps) <=> m = c)
    <3> DEFINE s == day.steps
    <3>1. s \in Seq(Steps) /\ keep \in SUBSET (1 .. Len(s))
      BY <1>1, <2>1
    <3> HIDE DEF s
    <3>2. /\ At(s, keep) \in Seq(Steps) /\ Len(At(s, keep)) = Cardinality(keep)
          /\ \A m \in 1 .. Cardinality(keep) : \E i \in keep :
               /\ At(s, keep)[m] = s[i]
               /\ 1 \in keep => (i = 1 <=> m = 1)
               /\ Len(s) \in keep => (i = Len(s) <=> m = Cardinality(keep))
      BY <3>1, AtPositions
    <3> QED BY <3>2 DEF s
  <2> HIDE DEF steps, at, c
  <2>2. /\ at \in Seq(Steps) /\ Len(at) = c
        /\ \A m \in 1 .. c : \E i \in keep :
             /\ at[m] = day.steps[i]
             /\ i = 1 <=> m = 1
             /\ i = n <=> m = c
    BY <2>1, <2>4
  <2>3. c = 2 /\ steps = at
    BY <1>5, <1>6 DEF c, at
  <2> QED BY <2>2, <2>3
<1> HIDE DEF steps
<1>8. steps[1] = day.steps[1] /\ steps[2] = day.steps[n] /\ steps[1] \in Steps /\ steps[2] \in Steps
  <2>1. 1 \in 1 .. 2 /\ 2 \in 1 .. 2
    OBVIOUS
  <2>2. PICK i \in keep : steps[1] = day.steps[i] /\ (i = 1 <=> 1 = 1)
    BY <1>7, <2>1
  <2>3. PICK j \in keep : steps[2] = day.steps[j] /\ (j = n <=> 2 = 2)
    BY <1>7, <2>1
  <2>4. steps[1] \in Steps /\ steps[2] \in Steps
    BY <1>7, SMTT(30)
  <2> HIDE DEF n
  <2> QED BY <2>2, <2>3, <2>4
<1>9. steps[1].pt = pts[1] /\ steps[2].pt = pts[n] /\ steps[1].pt \in Points /\ steps[2].pt \in Points
  BY <1>1, <1>8, SMTT(30) DEF Steps
<1>10. ClearDay(day) = [steps |-> steps, dist |-> DistMatrix[steps[1].pt][steps[2].pt]]
  BY <1>7 DEF ClearDay, steps, Last
<1>11. qts = [i \in 1 .. 2 |-> steps[i].pt]
  BY <1>7, <1>10 DEF PointsOf
<1>12. qts \in Seq(Points) /\ Len(qts) = 2 /\ qts[1] = pts[1] /\ qts[2] = pts[n]
  BY <1>9, <1>11
<1>13. TourLength(qts) = DistMatrix[steps[1].pt][steps[2].pt] /\ TourLength(qts) \in Nat
  BY <1>9, <1>12, LengthOfTwo, TourLengthIsNat
<1>14. Tour(qts) /\ SameEnds(pts, qts)
  <2> HIDE DEF qts, pts
  <2> QED BY <1>1, <1>12 DEF Tour, SameEnds, Inner
<1> HIDE DEF qts
<1>15. ClearDay(day) \in DayTours /\ ClearDay(day).dist = TourLength(qts)
  BY <1>7, <1>10, <1>13 DEF DayTours
<1> QED BY <1>14, <1>15 DEF Orderly, qts

\* Days that become orderly days with the same ends.
LEMMA DaysKeepShape ==
  ASSUME NEW s, Framed(s), NEW D, DOMAIN D = DOMAIN s.days,
         NEW r, r = [s EXCEPT !.days = D],
         \A d \in DOMAIN D : \/ D[d] = s.days[d]
                             \/ Orderly(D[d]) /\ SameEnds(PointsAt(s, d), PointsOf(D[d])),
         D = [d \in DOMAIN D |-> D[d]]
  PROVE  Framed(r) /\ (ExactDistances(s) => ExactDistances(r))
<1>1. /\ s \in Solutions /\ DOMAIN s.days = Days /\ Days = 1 .. Len(s.days) /\ Len(s.days) \in Nat
      /\ \A d \in Days : s.days[d] \in DayTours
  BY ShapeIsTours, SolutionFields DEF Framed
<1>2. \A d \in Days : D[d] \in DayTours
  BY <1>1 DEF Orderly
<1>3. D \in Seq(DayTours)
  BY <1>1, <1>2
<1>4. r \in Solutions /\ r.days = D
  <2> DEFINE A == Seq(DayTours)
  <2>1. Solutions = [days : A, score : Nat, dist : Nat]
    BY DEF Solutions
  <2> HIDE DEF A
  <2>2. D \in A
    BY <1>3 DEF A
  <2> QED BY <1>1, <2>1, <2>2
<1>5. \A d \in Days : Tour(PointsAt(s, d)) /\ SameEnds(PointsAt(s, d), PointsAt(s, d))
  BY ShapeIsTours DEF Framed, SameEnds
<1>6. \A d \in Days : Tour(PointsAt(r, d)) /\ SameEnds(PointsAt(s, d), PointsAt(r, d))
  BY <1>1, <1>4, <1>5 DEF Orderly, PointsAt
<1>7. Framed(r)
  BY <1>1, <1>4, <1>6, SameEndsKeepShape
<1>8. ExactDistances(s) => ExactDistances(r)
  BY <1>1, <1>4 DEF ExactDistances, Orderly, PointsAt
<1> QED BY <1>7, <1>8

\* Removing sites.
LEMMA DropKeepsShape ==
  ASSUME NEW s, Framed(s), NEW positions \in SUBSET SitePositions(s)
  PROVE  /\ Framed(Drop(s, positions))
         /\ ExactDistances(s) => ExactDistances(Drop(s, positions))
<1> DEFINE gone(d) == {i \in DOMAIN s.days[d].steps : <<d, i>> \in positions}
           D == [d \in DOMAIN s.days |->
                   IF gone(d) = {} THEN s.days[d] ELSE Without(s.days[d], gone(d))]
<1>1. s \in Solutions /\ DOMAIN s.days = Days
  BY ShapeIsTours DEF Framed
<1>2. ASSUME NEW d \in Days
      PROVE  /\ s.days[d] \in DayTours
             /\ Tour(PointsOf(s.days[d]))
             /\ PointsOf(s.days[d]) = PointsAt(s, d)
             /\ gone(d) \in SUBSET Inner(PointsOf(s.days[d]))
  <2> DEFINE pts == PointsAt(s, d)
             n   == Len(s.days[d].steps)
  <2>1. /\ s.days[d] \in DayTours /\ Len(pts) = n /\ DOMAIN s.days[d].steps = 1 .. n
        /\ \A i \in 1 .. n : pts[i] = s.days[d].steps[i].pt
    BY <1>1, PointsOfSolution
  <2>2. Tour(pts) /\ pts[1] \in Hotels /\ pts[n] \in Hotels
    BY <2>1, ShapeIsTours DEF Framed
  <2>3. n \in Nat /\ n >= 2
    BY <2>1, <2>2 DEF Tour
  <2>4. ASSUME NEW i \in gone(d) PROVE i \in 2 .. n - 1
    <3>1. i \in 1 .. n /\ <<d, i>> \in SitePositions(s)
      BY <2>1
    <3>2. s.days[d].steps[i].pt \in Sites
      BY <3>1 DEF SitePositions, SitesOfDay
    <3>3. i # 1 /\ i # n
      BY <2>1, <2>2, <2>3, <3>1, <3>2, PointsAssumption
    <3> QED BY <2>3, <3>1, <3>3
  <2> QED BY <2>1, <2>2, <2>4 DEF Inner, PointsAt
<1>3. \A d \in Days : \/ D[d] = s.days[d]
                      \/ Orderly(D[d]) /\ SameEnds(PointsAt(s, d), PointsOf(D[d]))
  <2> SUFFICES ASSUME NEW d \in Days, gone(d) # {}
               PROVE  Orderly(D[d]) /\ SameEnds(PointsAt(s, d), PointsOf(D[d]))
    BY <1>1
  <2>1. D[d] = Without(s.days[d], gone(d))
    BY <1>1
  <2> HIDE DEF D, gone
  <2> QED BY <1>2, <2>1, WithoutKeepsEnds
<1>4. Drop(s, positions) = [s EXCEPT !.days = D]
  BY Zenon DEF Drop
<1>5. DOMAIN D = DOMAIN s.days /\ D = [d \in DOMAIN D |-> D[d]]
  OBVIOUS
<1> HIDE DEF D, gone
<1> QED BY <1>1, <1>3, <1>4, <1>5, DaysKeepShape

\* Clearing the days of a set.
LEMMA ClearKeepsShape ==
  ASSUME NEW s, Framed(s), NEW some \in SUBSET Days, NEW r,
         r = [s EXCEPT !.days =
                [d \in DOMAIN s.days |-> IF d \in some THEN ClearDay(s.days[d]) ELSE s.days[d]]]
  PROVE  Framed(r) /\ (ExactDistances(s) => ExactDistances(r))
<1> DEFINE D == [d \in DOMAIN s.days |-> IF d \in some THEN ClearDay(s.days[d]) ELSE s.days[d]]
<1>1. s \in Solutions /\ DOMAIN s.days = Days
  BY ShapeIsTours DEF Framed
<1>2. ASSUME NEW d \in Days
      PROVE  Orderly(ClearDay(s.days[d])) /\ SameEnds(PointsAt(s, d), PointsOf(ClearDay(s.days[d])))
  <2>1. s.days[d] \in DayTours /\ PointsOf(s.days[d]) = PointsAt(s, d)
    BY <1>1, PointsOfSolution DEF PointsAt
  <2>2. /\ Tour(PointsOf(s.days[d])) /\ PointsOf(s.days[d])[1] \in Hotels
        /\ PointsOf(s.days[d])[Len(PointsOf(s.days[d]))] \in Hotels
    BY <2>1, ShapeIsTours DEF Framed
  <2> QED BY <2>1, <2>2, ClearKeepsEnds
<1>3. \A d \in Days : \/ D[d] = s.days[d]
                      \/ Orderly(D[d]) /\ SameEnds(PointsAt(s, d), PointsOf(D[d]))
  BY <1>1, <1>2
<1>4. DOMAIN D = DOMAIN s.days /\ D = [d \in DOMAIN D |-> D[d]] /\ r = [s EXCEPT !.days = D]
  OBVIOUS
<1> HIDE DEF D
<1> QED BY <1>1, <1>3, <1>4, DaysKeepShape

\* A tour one end of which becomes the hotel h.
LEMMA NewEnd ==
  ASSUME NEW day \in DayTours, Tour(PointsOf(day)),
         PointsOf(day)[1] \in Hotels, PointsOf(day)[Len(PointsOf(day))] \in Hotels,
         NEW i \in {1, Len(day.steps)}, NEW h \in Hotels
  PROVE  LET pts == PointsOf(day)
             qts == PointsOf(ClearDay(AtHotel(day, i, h)))
         IN  /\ Orderly(ClearDay(AtHotel(day, i, h)))
             /\ qts[1] = IF i = 1 THEN h ELSE pts[1]
             /\ Last(qts) = IF i = Len(day.steps) THEN h ELSE Last(pts)
<1> DEFINE new == AtHotel(day, i, h)
           n   == Len(day.steps)
           pts == PointsOf(day)
           nts == PointsOf(new)
<1>1. /\ day.steps \in Seq(Steps) /\ DOMAIN day.steps = 1 .. n /\ n \in Nat /\ n >= 2
      /\ Len(pts) = n /\ \A x \in 1 .. n : pts[x] = day.steps[x].pt
      /\ \A x \in 2 .. n - 1 : pts[x] \in Sites
  BY PointsOfDay DEF DayTours, Tour, Inner
<1>2. i \in 1 .. n /\ h \in Points /\ day.steps[i] \in Steps
  BY <1>1 DEF Points
<1>3. [day.steps[i] EXCEPT !.pt = h] \in Steps /\ [day.steps[i] EXCEPT !.pt = h].pt = h
  BY <1>2 DEF Steps
<1> DEFINE step  == [day.steps[i] EXCEPT !.pt = h]
           steps == [day.steps EXCEPT ![i] = step]
<1>4. new = [day EXCEPT !.steps = steps]
  BY DEF AtHotel
<1> HIDE DEF step, new
<1>5. /\ steps \in Seq(Steps) /\ Len(steps) = n /\ DOMAIN steps = 1 .. n
      /\ steps[i] = step /\ \A x \in 1 .. n : x # i => steps[x] = day.steps[x]
  BY <1>1, <1>2, <1>3 DEF step
<1> HIDE DEF steps
<1>6. new \in DayTours /\ new.steps = steps
  BY <1>4, <1>5 DEF DayTours
<1>7. /\ nts \in Seq(Points) /\ Len(nts) = n
      /\ \A x \in 1 .. n : nts[x] = IF x = i THEN h ELSE pts[x]
  <2>1. /\ nts \in Seq(Points) /\ Len(nts) = n
        /\ \A x \in 1 .. n : nts[x] = steps[x].pt
    <3> HIDE DEF nts, n
    <3> QED BY <1>5, <1>6, PointsOfDay DEF nts
  <2>2. ASSUME NEW x \in 1 .. n PROVE steps[x].pt = IF x = i THEN h ELSE pts[x]
    BY <1>1, <1>3, <1>5 DEF step
  <2> HIDE DEF nts, pts, n
  <2> QED BY <2>1, <2>2
<1>8. Tour(nts) /\ nts[1] \in Hotels /\ nts[n] \in Hotels
  <2>1. pts[1] \in Hotels /\ pts[n] \in Hotels
    BY <1>1
  <2> HIDE DEF nts, pts, n
  <2>2. \A x \in 2 .. n - 1 : nts[x] \in Sites
    BY <1>1, <1>7 DEF n
  <2> QED BY <1>1, <1>7, <2>1, <2>2 DEF Tour, Inner
<1>9. Orderly(ClearDay(new)) /\ SameEnds(nts, PointsOf(ClearDay(new)))
  BY <1>6, <1>7, <1>8, ClearKeepsEnds
<1> DEFINE qts == PointsOf(ClearDay(new))
<1>10. qts[1] = nts[1] /\ qts[Len(qts)] = nts[n]
  BY <1>7, <1>9 DEF SameEnds
<1>11. 1 \in 1 .. n /\ n \in 1 .. n /\ Len(pts) = n
  BY <1>1
<1> HIDE DEF nts, qts, n
<1>12. /\ qts[1] = IF i = 1 THEN h ELSE pts[1]
       /\ qts[Len(qts)] = IF i = n THEN h ELSE pts[n]
  BY <1>7, <1>10, <1>11
<1> QED BY <1>9, <1>11, <1>12 DEF qts, n, new, Last

\* The junction of two days moves to another hotel.
LEMMA JunctionKeepsShape ==
  ASSUME NEW s, Framed(s), NEW d \in 1 .. NbDays - 1, NEW h \in Hotels,
         NEW r \in Solutions, DOMAIN r.days = DOMAIN s.days,
         \A e \in Days :
           /\ Tour(PointsAt(r, e))
           /\ PointsAt(r, e)[1] = IF e = d + 1 THEN h ELSE PointsAt(s, e)[1]
           /\ Last(PointsAt(r, e)) = IF e = d THEN h ELSE Last(PointsAt(s, e))
  PROVE  Framed(r)
<1>1. DOMAIN s.days = Days /\ s \in Solutions /\ NbDays \in Nat
  BY ShapeIsTours, PointsAssumption DEF Framed
<1>2. Len(r.days) = NbDays
  BY <1>1, SolutionFields DEF Days
<1>3. ASSUME NEW e \in Days
      PROVE  /\ Len(PointsAt(r, e)) >= 2
             /\ PointsAt(r, e)[1] \in Hotels /\ Last(PointsAt(r, e)) \in Hotels
             /\ \A i \in Inner(PointsAt(r, e)) : PointsAt(r, e)[i] \in Sites
             /\ e = 1 => PointsAt(r, e)[1] = StartHotelID
             /\ e = NbDays => Last(PointsAt(r, e)) = EndHotelID
             /\ e < NbDays => Last(PointsAt(r, e)) = PointsAt(r, e + 1)[1]
  <2>1. e \in Nat /\ d \in Nat /\ e >= 1 /\ d >= 1 /\ e <= NbDays /\ d < NbDays
    BY <1>1 DEF Days
  <2>2. e < NbDays => e + 1 \in Days
    BY <1>1, <2>1 DEF Days
  <2>3. /\ PointsAt(s, e)[1] \in Hotels /\ Last(PointsAt(s, e)) \in Hotels
        /\ e = 1 => PointsAt(s, e)[1] = StartHotelID
        /\ e = NbDays => Last(PointsAt(s, e)) = EndHotelID
        /\ e < NbDays => Last(PointsAt(s, e)) = PointsAt(s, e + 1)[1]
    BY <1>1 DEF Framed, Shape
  <2>4. Len(PointsAt(r, e)) >= 2 /\ \A i \in Inner(PointsAt(r, e)) : PointsAt(r, e)[i] \in Sites
    BY DEF Tour
  <2>5. PointsAt(r, e)[1] \in Hotels /\ Last(PointsAt(r, e)) \in Hotels
    BY <2>3
  <2>6. e = 1 => PointsAt(r, e)[1] = StartHotelID
    BY <2>1, <2>3
  <2>7. e = NbDays => Last(PointsAt(r, e)) = EndHotelID
    BY <2>1, <2>3
  <2>8. ASSUME e < NbDays PROVE Last(PointsAt(r, e)) = PointsAt(r, e + 1)[1]
    <3> PointsAt(r, e + 1)[1] = IF e + 1 = d + 1 THEN h ELSE PointsAt(s, e + 1)[1]
      BY <2>2, <2>8
    <3> QED BY <2>1, <2>3, <2>8
  <2> QED BY <2>4, <2>5, <2>6, <2>7, <2>8
<1> QED BY <1>1, <1>2, <1>3 DEF Framed, Shape

LEMMA MoveJunctionKeepsShape ==
  ASSUME NEW s, Framed(s), NEW d \in 1 .. NbDays - 1, NEW h \in Hotels
  PROVE  /\ Framed(MoveJunction(s, d, h))
         /\ ExactDistances(s) => ExactDistances(MoveJunction(s, d, h))
<1>1. s \in Solutions /\ DOMAIN s.days = Days /\ NbDays \in Nat /\ s.days \in Seq(DayTours)
  BY ShapeIsTours, SolutionFields, PointsAssumption DEF Framed
<1>2. d \in Days /\ d + 1 \in Days /\ d # d + 1
  BY <1>1 DEF Days
<1>3. ASSUME NEW e \in Days
      PROVE  /\ s.days[e] \in DayTours
             /\ Tour(PointsOf(s.days[e])) /\ Len(s.days[e].steps) >= 2
             /\ PointsOf(s.days[e])[1] \in Hotels
             /\ PointsOf(s.days[e])[Len(PointsOf(s.days[e]))] \in Hotels
             /\ Len(PointsOf(s.days[e])) = Len(s.days[e].steps)
  BY <1>1, ShapeIsTours, PointsOfSolution DEF Framed, PointsAt, Tour
<1> DEFINE l == Len(s.days[d].steps)
           A == ClearDay(AtHotel(s.days[d], l, h))
           B == ClearDay(AtHotel(s.days[d + 1], 1, h))
           r == MoveJunction(s, d, h)
<1>4. l \in Nat /\ l >= 2 /\ Len(s.days[d + 1].steps) \in Nat /\ Len(s.days[d + 1].steps) >= 2
  BY <1>2, <1>3 DEF DayTours
<1>5. Orderly(A) /\ PointsOf(A)[1] = PointsOf(s.days[d])[1] /\ Last(PointsOf(A)) = h
  BY <1>2, <1>3, <1>4, NewEnd
<1>6. Orderly(B) /\ PointsOf(B)[1] = h /\ Last(PointsOf(B)) = Last(PointsOf(s.days[d + 1]))
  BY <1>2, <1>3, <1>4, NewEnd
<1>7. r = [s EXCEPT !.days[d] = A, !.days[d + 1] = B]
  <2>1. s.days[d + 1] = [s.days EXCEPT ![d] = A][d + 1]
    BY <1>1, <1>2
  <2> QED BY <1>4, <2>1 DEF MoveJunction
<1> HIDE DEF A, B, r
<1>8. /\ r \in Solutions /\ DOMAIN r.days = DOMAIN s.days
      /\ r.days[d] = A /\ r.days[d + 1] = B
      /\ \A e \in Days : e # d /\ e # d + 1 => r.days[e] = s.days[e]
  <2> DEFINE T == Seq(DayTours)
             D == [s.days EXCEPT ![d] = A, ![d + 1] = B]
  <2>1. D \in T
    BY <1>1, <1>2, <1>5, <1>6 DEF Orderly
  <2>2. /\ DOMAIN D = DOMAIN s.days /\ D[d] = A /\ D[d + 1] = B
        /\ \A e \in Days : e # d /\ e # d + 1 => D[e] = s.days[e]
    BY <1>1, <1>2
  <2>3. s \in [days : T, score : Nat, dist : Nat] /\ Solutions = [days : T, score : Nat, dist : Nat]
    BY <1>1 DEF Solutions
  <2>4. r = [s EXCEPT !.days = D]
    BY <1>7
  <2> HIDE DEF T, D
  <2>5. r \in Solutions /\ r.days = D
    BY <2>1, <2>3, <2>4
  <2> QED BY <2>2, <2>5
<1>9. \A e \in Days :
        /\ Tour(PointsAt(r, e))
        /\ PointsAt(r, e)[1] = IF e = d + 1 THEN h ELSE PointsAt(s, e)[1]
        /\ Last(PointsAt(r, e)) = IF e = d THEN h ELSE Last(PointsAt(s, e))
  BY <1>1, <1>2, <1>3, <1>5, <1>6, <1>8 DEF PointsAt, Orderly
<1>10. Framed(r)
  BY <1>8, <1>9, JunctionKeepsShape
<1>11. ExactDistances(s) => ExactDistances(r)
  BY <1>1, <1>2, <1>5, <1>6, <1>8 DEF ExactDistances, PointsAt, Orderly
<1> QED BY <1>10, <1>11 DEF r

\* No shake, of whatever force, breaks the frame of a trip or leaves a wrong
\* distance.
LEMMA ShakenKeepsShape ==
  ASSUME NEW s, Framed(s), NEW f \in 1 .. MaxForce, NEW x \in Shaken(s, f)
  PROVE  Framed(x) /\ (ExactDistances(s) => ExactDistances(x))
<1> DEFINE Good(t) == Framed(t) /\ (ExactDistances(s) => ExactDistances(t))
<1>1. s \in Solutions /\ DOMAIN s.days = Days /\ NbDays \in Nat /\ f \in Int
  BY ShapeIsTours, PointsAssumption, ForceAssumption DEF Framed
<1>2. ASSUME NEW count, NEW t \in RemoveSites(s, count) PROVE Good(t)
  <2>1. PICK positions \in SUBSET SitePositions(s) : t = Drop(s, positions)
    BY DEF RemoveSites, kSubset
  <2> QED BY <2>1, DropKeepsShape
<1>3. ASSUME NEW u, Good(u), NEW t \in JunctionsMoved(u) PROVE Good(t)
  <2>1. CASE t = u
    BY <1>3, <2>1
  <2>2. CASE \E d \in 1 .. NbDays - 1, h \in Hotels : t = MoveJunction(u, d, h)
    BY <1>3, <2>2, MoveJunctionKeepsShape
  <2> QED BY <2>1, <2>2 DEF JunctionsMoved
<1>4. PICK t \in Destroyed(s, f) : x = EvaluateScore(t)
  BY DEF Shaken
<1>5. Good(t)
  <2>1. CASE f <= 1
    BY <1>2, <1>4, <2>1 DEF Destroyed
  <2>2. CASE f = 2
    <3> PICK u \in RemoveSites(s, Max({3, Cardinality(SitePositions(s)) \div 8})) : t \in JunctionsMoved(u)
      <4>1. Destroyed(s, f) =
              UNION {JunctionsMoved(u) :
                u \in RemoveSites(s, Max({3, Cardinality(SitePositions(s)) \div 8}))}
        BY <2>2 DEF Destroyed
      <4> QED BY <1>4, <4>1, Zenon
    <3> QED BY <1>2, <1>3
  <2>3. CASE f = 3
    <3>1. CASE t = s
      BY <3>1
    <3>2. CASE \E d \in Days : t = [s EXCEPT !.days[d] = ClearDay(@)]
      <4>1. PICK d \in Days : t = [s EXCEPT !.days[d] = ClearDay(@)]
        BY <3>2
      <4> DEFINE some == {d}
      <4>2. t = [s EXCEPT !.days =
                   [e \in DOMAIN s.days |-> IF e \in some THEN ClearDay(s.days[e]) ELSE s.days[e]]]
        <5>1. [s.days EXCEPT ![d] = ClearDay(@)] =
                [e \in DOMAIN s.days |-> IF e \in some THEN ClearDay(s.days[e]) ELSE s.days[e]]
          OBVIOUS
        <5> QED BY <4>1, <5>1
      <4>3. some \in SUBSET Days
        OBVIOUS
      <4> HIDE DEF some
      <4> QED BY <4>2, <4>3, ClearKeepsShape
    <3> QED BY <1>1, <1>4, <2>3, <3>1, <3>2 DEF Destroyed
  <2>4. CASE f > 3
    <3>1. t = [s EXCEPT !.days = [d \in DOMAIN s.days |-> ClearDay(s.days[d])]]
      BY <1>4, <2>4 DEF Destroyed
    <3>2. t = [s EXCEPT !.days =
                 [d \in DOMAIN s.days |-> IF d \in Days THEN ClearDay(s.days[d]) ELSE s.days[d]]]
      BY <1>1, <3>1
    <3> QED BY <3>2, ClearKeepsShape
  <2> QED BY <1>1, <2>1, <2>2, <2>3, <2>4
<1>6. t \in Solutions /\ x \in Solutions /\ x.days = t.days
  BY <1>4, <1>5, EvaluatedTotals DEF Framed
<1> HIDE DEF Good
<1>7. Framed(x) /\ (ExactDistances(t) => ExactDistances(x))
  <2> Framed(t)
    BY <1>5 DEF Good
  <2> QED BY <1>6 DEF Framed, Shape, ExactDistances, PointsAt
<1> QED BY <1>5, <1>7 DEF Good

-----------------------------------------------------------------------------
(* Moves *)

\* The days that are changed are feasible.
FeasibleChange(s, r) ==
  /\ DOMAIN r.days = DOMAIN s.days
  /\ \A d \in DOMAIN s.days : Feasible(d, PointsAt(r, d)) \/ PointsAt(r, d) = PointsAt(s, d)

\* What every move of a descent keeps: the frame, exact distances, feasible days.
Keeps(s, r) ==
  /\ Framed(r)
  /\ ExactDistances(s) => ExactDistances(r)
  /\ FeasibleChange(s, r)

LEMMA KeepsTransitive ==
  ASSUME NEW s, NEW r, NEW t, Keeps(s, r), Keeps(r, t)
  PROVE  Keeps(s, t)
BY DEF Keeps, FeasibleChange

LEMMA ReplaceKeeps ==
  ASSUME NEW s, Framed(s), NEW d \in DOMAIN s.days,
         NEW pts, Tour(pts), SameEnds(PointsAt(s, d), pts), Feasible(d, pts)
  PROVE  /\ Keeps(s, Replace(s, d, pts))
         /\ Replace(s, d, pts).score = s.score
         /\ DOMAIN Replace(s, d, pts).days = DOMAIN s.days
         /\ \A e \in DOMAIN s.days \ {d} : PointsAt(Replace(s, d, pts), e) = PointsAt(s, e)
<1> DEFINE r == Replace(s, d, pts)
<1>1. s \in Solutions /\ pts \in Seq(Points)
  BY DEF Framed, Tour
<1>2. Framed(r) /\ r.score = s.score
  BY ReplaceKeepsShape
<1>3. /\ DOMAIN r.days = DOMAIN s.days
      /\ r.days[d].dist = TourLength(pts)
      /\ \A e \in DOMAIN s.days \ {d} : r.days[e] = s.days[e]
      /\ \A e \in DOMAIN s.days : PointsAt(r, e) = IF e = d THEN pts ELSE PointsAt(s, e)
  BY <1>1, ReplacedDay
<1> HIDE DEF r
<1>4. ExactDistances(s) => ExactDistances(r)
  BY <1>3 DEF ExactDistances
<1>5. FeasibleChange(s, r)
  BY <1>3 DEF FeasibleChange
<1> QED BY <1>2, <1>3, <1>4, <1>5 DEF Keeps, r

\* Only the total changes.
LEMMA ScoreKeeps ==
  ASSUME NEW s, NEW t, Keeps(s, t), NEW a \in Nat
  PROVE  Keeps(s, [t EXCEPT !.score = a])
<1> DEFINE r == [t EXCEPT !.score = a]
<1>1. r \in Solutions /\ r.days = t.days
  BY DEF Keeps, Framed, Solutions
<1> HIDE DEF r
<1>2. Keeps(s, r)
  BY <1>1 DEF Keeps, Framed, Shape, ExactDistances, FeasibleChange, PointsAt
<1> QED BY <1>2 DEF r

LEMMA DayOfFrame ==
  ASSUME NEW s, Framed(s), NEW d \in DOMAIN s.days
  PROVE  /\ Tour(PointsAt(s, d)) /\ PointsAt(s, d) \in Seq(Points)
         /\ Len(PointsAt(s, d)) \in Nat /\ Len(PointsAt(s, d)) >= 2
         /\ \A i \in Inner(PointsAt(s, d)) : PointsAt(s, d)[i] \in Sites
BY ShapeIsTours DEF Framed, Tour

LEMMA InsertKeeps ==
  ASSUME NEW s, Framed(s), NEW d \in DOMAIN s.days, NEW pos \in Slots(PointsAt(s, d)),
         NEW u \in Sites, Feasible(d, InsertAt(PointsAt(s, d), pos, u))
  PROVE  Keeps(s, Insert(s, d, pos, u))
<1> DEFINE pts == InsertAt(PointsAt(s, d), pos, u)
           r   == Replace(s, d, pts)
<1>1. Tour(pts) /\ SameEnds(PointsAt(s, d), pts)
  BY DayOfFrame, InsertKeepsEnds
<1>2. Keeps(s, r) /\ r.score = s.score
  BY <1>1, ReplaceKeeps
<1>3. Insert(s, d, pos, u) = [r EXCEPT !.score = r.score + Score[u]]
  BY DEF Insert
<1>4. r.score + Score[u] \in Nat
  BY <1>2, SiteAssumption, SolutionFields DEF Framed
<1> HIDE DEF r
<1> QED BY <1>2, <1>3, <1>4, ScoreKeeps

LEMMA SwapKeeps ==
  ASSUME NEW s, Framed(s), NEW d \in DOMAIN s.days, NEW pos \in Inner(PointsAt(s, d)),
         NEW u \in Sites, Feasible(d, ReplaceAt(PointsAt(s, d), pos, u)), Gain(s, d, pos, u) > 0
  PROVE  Keeps(s, Swap(s, d, pos, u))
<1> DEFINE pts == ReplaceAt(PointsAt(s, d), pos, u)
           r   == Replace(s, d, pts)
<1>1. Tour(pts) /\ SameEnds(PointsAt(s, d), pts)
  BY DayOfFrame, ReplaceKeepsEnds
<1>2. Keeps(s, r) /\ r.score = s.score
  BY <1>1, ReplaceKeeps
<1>3. Swap(s, d, pos, u) = [r EXCEPT !.score = r.score + Gain(s, d, pos, u)]
  BY DEF Swap
<1>4. Gain(s, d, pos, u) \in Int
  BY DayOfFrame, SiteAssumption DEF Gain
<1>5. r.score + Gain(s, d, pos, u) \in Nat
  BY <1>2, <1>4, SolutionFields DEF Framed
<1> HIDE DEF r
<1> QED BY <1>2, <1>3, <1>5, ScoreKeeps

LEMMA ReverseKeeps ==
  ASSUME NEW s, Framed(s), NEW m \in Reversals(s)
  PROVE  Keeps(s, Reverse2Opt(s, m))
<1> DEFINE pts == PointsAt(s, m[1])
           new == Reversed(pts, m[2], m[3])
<1>1. /\ m[1] \in DOMAIN s.days /\ m[2] \in 2 .. Len(SiteIDs) + 1
      /\ m[2] < m[3] /\ m[3] \in Inner(pts) /\ Feasible(m[1], new)
  BY DEF Reversals
<1>2. m[2] \in 2 .. Len(pts) - 1
  BY <1>1, DayOfFrame DEF Inner
<1>3. Tour(pts)
  BY <1>1, DayOfFrame
<1> HIDE DEF pts
<1>4. Tour(new) /\ SameEnds(pts, new)
  BY <1>1, <1>2, <1>3, ReversedKeepsEnds
<1> QED BY <1>1, <1>4, ReplaceKeeps DEF Reverse2Opt, pts

\* The list of unvisited sites stays a list of sites.
LEMMA ListsOfSites ==
  /\ \A s : Unvisited(s) \in Seq(Sites)
  /\ \A l \in Seq(Sites) : \A i \in DOMAIN l : MarkVisited(l, l[i]) \in Seq(Sites)
  /\ \A l \in Seq(Sites) : \A u \in Sites : MarkUnvisited(l, u) \in Seq(Sites)
<1>1. ASSUME NEW s PROVE Unvisited(s) \in Seq(Sites)
  <2> DEFINE keep == {i \in DOMAIN SiteIDs : SiteIDs[i] \notin VisitedIn(s)}
  <2>1. SiteIDs \in Seq(Sites)
    BY PointsAssumption DEF Sites, ToSet
  <2>2. keep \in SUBSET (1 .. Len(SiteIDs))
    BY <2>1
  <2>3. Unvisited(s) = At(SiteIDs, keep)
    BY Zenon DEF Unvisited
  <2> HIDE DEF keep
  <2> QED BY <2>1, <2>2, <2>3, AtPositions
<1>2. ASSUME NEW l \in Seq(Sites), NEW i \in DOMAIN l PROVE MarkVisited(l, l[i]) \in Seq(Sites)
  <2> DEFINE c == CHOOSE j \in DOMAIN l : l[j] = l[i]
             m == [l EXCEPT ![c] = Last(l)]
  <2>1. Last(l) \in Sites /\ Len(l) \in Nat /\ Len(l) >= 1
    BY DEF Last
  <2>2. m \in Seq(Sites) /\ Len(m) = Len(l)
    BY <2>1
  <2>3. MarkVisited(l, l[i]) = SubSeq(m, 1, Len(m) - 1)
    BY Zenon DEF MarkVisited, Front
  <2> HIDE DEF m
  <2> QED BY <2>1, <2>2, <2>3
<1>3. \A l \in Seq(Sites) : \A u \in Sites : MarkUnvisited(l, u) \in Seq(Sites)
  BY DEF MarkUnvisited
<1> QED BY <1>1, <1>2, <1>3

LEMMA RelocateWithinKeeps ==
  ASSUME NEW s, Framed(s), NEW d \in DOMAIN s.days, NEW l,
         NEW p \in Inner(PointsAt(s, d)), NEW q \in Inner(PointsAt(s, d))
  PROVE  LET r == RelocateWithin(s, l, d, p, q) IN Keeps(s, r.sol) /\ r.list = l
<1> DEFINE new == Moved(PointsAt(s, d), p, q)
           r   == RelocateWithin(s, l, d, p, q)
<1>1. Tour(new) /\ SameEnds(PointsAt(s, d), new)
  BY DayOfFrame, MovedKeepsEnds
<1>2. CASE r = [sol |-> Replace(s, d, new), list |-> l] /\ Feasible(d, new)
  <2> Keeps(s, Replace(s, d, new))
    BY <1>1, <1>2, ReplaceKeeps
  <2> QED BY <1>2
<1>3. CASE r = [sol |-> s, list |-> l]
  BY <1>3 DEF Keeps, FeasibleChange
<1> QED BY <1>2, <1>3 DEF RelocateWithin, Unchanged

LEMMA RelocateAcrossKeeps ==
  ASSUME NEW s, Framed(s), NEW d \in DOMAIN s.days, NEW e \in DOMAIN s.days, NEW l,
         NEW p \in Inner(PointsAt(s, d)), NEW r \in RelocateAcross(s, l, d, p, e)
  PROVE  Keeps(s, r.sol) /\ r.list = l
<1> DEFINE u     == PointsAt(s, d)[p]
           rest  == RemoveAt(PointsAt(s, d), p)
           into(q) == InsertAt(PointsAt(s, e), q, u)
           slots == {q \in Slots(PointsAt(s, e)) : CanInsert(s, e, q, u)}
           t     == Replace(s, d, rest)
<1>1. CASE r = [sol |-> s, list |-> l]
  BY <1>1 DEF Keeps, FeasibleChange
<1>2. CASE u \in Sites /\ e # d /\ Feasible(d, rest)
           /\ \E q \in slots : r = [sol |-> Replace(t, e, into(q)), list |-> l]
  <2>1. PICK q \in slots : r = [sol |-> Replace(t, e, into(q)), list |-> l]
    BY <1>2
  <2>2. Tour(rest) /\ SameEnds(PointsAt(s, d), rest)
    BY DayOfFrame, RemoveKeepsEnds
  <2>3. Keeps(s, t) /\ DOMAIN t.days = DOMAIN s.days /\ PointsAt(t, e) = PointsAt(s, e)
    BY <1>2, <2>2, ReplaceKeeps
  <2>4. Tour(into(q)) /\ SameEnds(PointsAt(s, e), into(q))
    BY <1>2, DayOfFrame, InsertKeepsEnds
  <2>5. Feasible(e, into(q))
    BY DEF CanInsert
  <2> HIDE DEF t, into
  <2>6. Framed(t)
    BY <2>3 DEF Keeps
  <2>7. Keeps(t, Replace(t, e, into(q)))
    BY <2>3, <2>4, <2>5, <2>6, ReplaceKeeps
  <2> QED BY <2>1, <2>3, <2>7, KeepsTransitive
<1>3. \A S : Best(S, LAMBDA q : <<TourLength(InsertAt(PointsAt(s, e), q, u)), q>>) \subseteq S
  BY DEF Best
<1> QED BY <1>1, <1>2, <1>3 DEF RelocateAcross, Unchanged

LEMMA RelocateInsertKeeps ==
  ASSUME NEW s, Framed(s), NEW d \in DOMAIN s.days, NEW l \in Seq(Sites),
         NEW pos \in Slots(PointsAt(s, d)), NEW i \in DOMAIN l
  PROVE  LET r == RelocateInsert(s, l, d, pos, i) IN Keeps(s, r.sol) /\ r.list \in Seq(Sites)
<1> DEFINE r == RelocateInsert(s, l, d, pos, i)
<1>1. CASE r = [sol |-> s, list |-> l]
  BY <1>1 DEF Keeps, FeasibleChange
<1>2. CASE /\ CanInsert(s, d, pos, l[i])
           /\ r = [sol |-> Insert(s, d, pos, l[i]), list |-> MarkVisited(l, l[i])]
  <2>1. l[i] \in Sites
    OBVIOUS
  <2>2. Keeps(s, Insert(s, d, pos, l[i]))
    BY <1>2, <2>1, InsertKeeps DEF CanInsert
  <2>3. MarkVisited(l, l[i]) \in Seq(Sites)
    BY ListsOfSites
  <2> QED BY <1>2, <2>2, <2>3
<1> QED BY <1>1, <1>2 DEF RelocateInsert, Unchanged

\* One iteration of applyRelocate, whatever is drawn.
LEMMA RelocationKeeps ==
  ASSUME NEW s, Framed(s), NEW d \in DOMAIN s.days, NEW l \in Seq(Sites), NEW type,
         NEW r \in Relocations(s, l, d, type)
  PROVE  Keeps(s, r.sol) /\ r.list \in Seq(Sites)
<1> DEFINE pts == PointsAt(s, d)
<1>1. CASE r = Unchanged(s, l)
  BY <1>1 DEF Unchanged, Keeps, FeasibleChange
<1>2. CASE \E p \in Inner(pts), q \in Inner(pts) : r = RelocateWithin(s, l, d, p, q)
  BY <1>2, RelocateWithinKeeps
<1>3. CASE \E p \in Inner(pts), e \in DOMAIN s.days : r \in RelocateAcross(s, l, d, p, e)
  BY <1>3, RelocateAcrossKeeps
<1>4. CASE \E pos \in Slots(pts), i \in DOMAIN l : r = RelocateInsert(s, l, d, pos, i)
  BY <1>4, RelocateInsertKeeps
<1> HIDE DEF pts
<1> QED BY <1>1, <1>2, <1>3, <1>4 DEF Relocations, pts

LEMMA EndingKeepsTour ==
  ASSUME NEW pts, Tour(pts), NEW i \in {1, Len(pts)}, NEW h \in Hotels
  PROVE  /\ Tour(ReplaceAt(pts, i, h)) /\ Len(ReplaceAt(pts, i, h)) = Len(pts)
         /\ ReplaceAt(pts, i, h)[1] = IF i = 1 THEN h ELSE pts[1]
         /\ Last(ReplaceAt(pts, i, h)) = IF i = Len(pts) THEN h ELSE Last(pts)
<1> DEFINE n   == Len(pts)
           qts == ReplaceAt(pts, i, h)
<1>1. /\ pts \in Seq(Points) /\ n \in Nat /\ n >= 2 /\ i \in 1 .. n /\ h \in Points
      /\ \A x \in 2 .. n - 1 : pts[x] \in Sites
  BY DEF Tour, Inner, Points
<1>2. /\ qts \in Seq(Points) /\ Len(qts) = n
      /\ \A x \in 1 .. n : qts[x] = IF x = i THEN h ELSE pts[x]
  BY <1>1 DEF ReplaceAt
<1>3. 1 \in 1 .. n /\ n \in 1 .. n /\ \A x \in 2 .. n - 1 : x \in 1 .. n /\ x # i
  BY <1>1
<1> HIDE DEF n, qts
<1>4. \A x \in 2 .. n - 1 : qts[x] \in Sites
  BY <1>1, <1>2, <1>3
<1>5. qts[1] = (IF i = 1 THEN h ELSE pts[1]) /\ qts[n] = (IF i = n THEN h ELSE pts[n])
  BY <1>2, <1>3
<1> QED BY <1>1, <1>2, <1>4, <1>5 DEF Tour, Inner, Last, n, qts

\* One junction of tryHotelSwap.
LEMMA SwapHotelKeeps ==
  ASSUME NEW s, Framed(s), NEW d \in 1 .. NbDays - 1
  PROVE  Keeps(s, SwapHotel(s, d))
<1>1. s \in Solutions /\ DOMAIN s.days = Days /\ NbDays \in Nat
  BY ShapeIsTours, PointsAssumption DEF Framed
<1>2. d \in Days /\ d + 1 \in Days /\ d # d + 1
  BY <1>1 DEF Days
<1> DEFINE shorter == {i \in DOMAIN HotelIDs : Shorter(s, d, HotelIDs[i])}
<1>3. CASE SwapHotel(s, d) = s
  BY <1>3 DEF Keeps, FeasibleChange
<1>4. CASE shorter # {} /\ SwapHotel(s, d) = MeetAt(s, d, HotelIDs[Max(shorter)])
  <2>1. Max(shorter) \in shorter
    <3>1. shorter \in SUBSET (1 .. Len(HotelIDs)) /\ Len(HotelIDs) \in Nat
      BY PointsAssumption
    <3> HIDE DEF shorter
    <3>2. PICK x \in shorter : \A y \in shorter : y <= x
      BY <1>4, <3>1, GreatestNat
    <3>3. x \in shorter /\ \A y \in shorter : x >= y
      BY <3>1, <3>2
    <3> QED BY <3>3, Zenon DEF Max
  <2>2. PICK h \in Hotels : SwapHotel(s, d) = MeetAt(s, d, h) /\ Shorter(s, d, h)
    <3> HotelIDs[Max(shorter)] \in Hotels
      BY <2>1, PointsAssumption DEF Hotels, ToSet
    <3> QED BY <1>4, <2>1
  <2> DEFINE a == EndingAt(s, d, h)
             b == StartingAt(s, d + 1, h)
             t == Replace(s, d, a)
             r == Replace(t, d + 1, b)
  <2>3. /\ Tour(a) /\ a[1] = PointsAt(s, d)[1] /\ Last(a) = h
        /\ Tour(b) /\ b[1] = h /\ Last(b) = Last(PointsAt(s, d + 1))
    <3>1. \A e \in Days : /\ Tour(PointsAt(s, e))
                          /\ Len(PointsAt(s, e)) \in Nat /\ Len(PointsAt(s, e)) >= 2
      BY <1>1, DayOfFrame
    <3>2. \A e \in Days : Len(PointsAt(s, e)) # 1
      <4> SUFFICES ASSUME NEW e \in Days, Len(PointsAt(s, e)) = 1 PROVE FALSE
        OBVIOUS
      <4>1. Len(PointsAt(s, e)) >= 2
        BY <3>1
      <4>2. 1 >= 2
        BY <4>1
      <4> QED BY <4>2
    <3> QED BY <1>2, <3>1, <3>2, EndingKeepsTour DEF EndingAt, StartingAt
  <2>4. Feasible(d, a) /\ Feasible(d + 1, b)
    BY <2>2 DEF Shorter
  <2> HIDE DEF a, b
  <2>5. a \in Seq(Points) /\ b \in Seq(Points)
    BY <2>3 DEF Tour
  <2>6. /\ t \in Solutions /\ DOMAIN t.days = Days
        /\ t.days[d].dist = TourLength(a)
        /\ \A e \in Days \ {d} : t.days[e] = s.days[e]
        /\ \A e \in Days : PointsAt(t, e) = IF e = d THEN a ELSE PointsAt(s, e)
    BY <1>1, <1>2, <2>5, ReplacedDay
  <2> HIDE DEF t
  <2>7. /\ r \in Solutions /\ DOMAIN r.days = Days
        /\ r.days[d + 1].dist = TourLength(b)
        /\ \A e \in Days \ {d + 1} : r.days[e] = t.days[e]
        /\ \A e \in Days : PointsAt(r, e) = IF e = d + 1 THEN b ELSE PointsAt(t, e)
    BY <1>2, <2>5, <2>6, ReplacedDay
  <2> HIDE DEF r
  <2>8. Framed(r)
    <3>1. \A e \in Days :
            /\ Tour(PointsAt(r, e))
            /\ PointsAt(r, e)[1] = IF e = d + 1 THEN h ELSE PointsAt(s, e)[1]
            /\ Last(PointsAt(r, e)) = IF e = d THEN h ELSE Last(PointsAt(s, e))
      BY <1>1, <1>2, <2>3, <2>6, <2>7, DayOfFrame
    <3> QED BY <1>1, <2>7, <3>1, JunctionKeepsShape
  <2>9. ExactDistances(s) => ExactDistances(r)
    BY <1>1, <1>2, <2>6, <2>7 DEF ExactDistances
  <2>10. FeasibleChange(s, r)
    BY <1>1, <1>2, <2>4, <2>6, <2>7 DEF FeasibleChange
  <2>11. SwapHotel(s, d) = r
    BY <2>2 DEF MeetAt, a, b, t, r
  <2> QED BY <2>8, <2>9, <2>10, <2>11 DEF Keeps
<1> QED BY <1>3, <1>4 DEF SwapHotel

\* EvaluateScore.
LEMMA EvaluateScoreKeeps ==
  ASSUME NEW s, Framed(s)
  PROVE  Keeps(s, EvaluateScore(s))
<1> DEFINE r == EvaluateScore(s)
<1>1. r \in Solutions /\ r.days = s.days
  BY EvaluatedTotals DEF Framed
<1> HIDE DEF r
<1>2. Keeps(s, r)
  BY <1>1 DEF Keeps, Framed, Shape, ExactDistances, FeasibleChange, PointsAt
<1> QED BY <1>2 DEF r

-----------------------------------------------------------------------------
(* EvaluateSolution *)

\* Of two numbers.
LEMMA MaxOfTwo ==
  ASSUME NEW x \in Nat, NEW y \in Nat
  PROVE  Max({x, y}) \in Nat /\ Max({x, y}) = IF x >= y THEN x ELSE y
<1> DEFINE m == IF x >= y THEN x ELSE y
<1>1. m \in {x, y} /\ \A z \in {x, y} : m >= z
  OBVIOUS
<1>2. \A n \in {x, y} : (\A z \in {x, y} : n >= z) => n = m
  OBVIOUS
<1> HIDE DEF m
<1>3. Max({x, y}) = m
  BY <1>1, <1>2, Zenon DEF Max
<1> QED BY <1>1, <1>3 DEF m

\* A solution with the points of s, whatever its legs and distances.
SamePoints(s, t) ==
  /\ t \in Solutions
  /\ DOMAIN t.days = DOMAIN s.days
  /\ \A d \in DOMAIN s.days : PointsAt(t, d) = PointsAt(s, d)

\* The states of a call for s.
Calls(s) ==
  [ok : BOOLEAN, sol : {t \in Solutions : SamePoints(s, t)}, dist : Nat, time : Nat,
   visitedSites : SUBSET Sites, totalScore : Nat, totalDist : Nat]

LEMMA CallFields ==
  ASSUME NEW s, NEW e \in Calls(s)
  PROVE  /\ e.ok \in BOOLEAN /\ SamePoints(s, e.sol) /\ e.dist \in Nat /\ e.time \in Nat
         /\ e.visitedSites \in SUBSET Sites /\ e.totalScore \in Nat /\ e.totalDist \in Nat
BY DEF Calls

\* One day is replaced by a day with the same points.
LEMMA DayRewritten ==
  ASSUME NEW s \in Solutions, NEW t, SamePoints(s, t), NEW d \in DOMAIN s.days,
         NEW day \in DayTours, PointsOf(day) = PointsAt(s, d)
  PROVE  LET r == [t EXCEPT !.days[d] = day]
         IN  /\ SamePoints(s, r)
             /\ r.days[d] = day /\ \A e \in DOMAIN s.days \ {d} : r.days[e] = t.days[e]
<1> DEFINE r == [t EXCEPT !.days[d] = day]
           A == Seq(DayTours)
<1>1. t \in Solutions /\ t.days \in A /\ d \in DOMAIN t.days
  BY SolutionFields DEF SamePoints
<1>2. [t.days EXCEPT ![d] = day] \in A
  BY <1>1
<1>3. Solutions = [days : A, score : Nat, dist : Nat]
  BY DEF Solutions
<1>4. r \in Solutions /\ r.days = [t.days EXCEPT ![d] = day] /\ r.score = t.score /\ r.dist = t.dist
  <2> HIDE DEF A
  <2> QED BY <1>1, <1>2, <1>3
<1> HIDE DEF r
<1>5. DOMAIN r.days = DOMAIN s.days
  BY <1>1, <1>4 DEF SamePoints
<1>6. r.days[d] = day /\ \A e \in DOMAIN s.days \ {d} : r.days[e] = t.days[e]
  BY <1>1, <1>4 DEF SamePoints
<1>7. \A e \in DOMAIN s.days : PointsAt(r, e) = PointsAt(s, e)
  BY <1>6 DEF PointsAt, SamePoints
<1> QED BY <1>4, <1>5, <1>6, <1>7 DEF SamePoints, r

\* With the recorded distances of s as well.
SameDists(s, t) == \A d \in DOMAIN s.days : t.days[d].dist = s.days[d].dist

\* A leg is rewritten.
LEMMA WithLegKeepsPoints ==
  ASSUME NEW s \in Solutions, NEW t, SamePoints(s, t), NEW d \in DOMAIN s.days,
         NEW i \in DOMAIN t.days[d].steps, NEW leg \in Nat
  PROVE  SamePoints(s, WithLeg(t, d, i, leg)) /\ SameDists(t, WithLeg(t, d, i, leg))
<1> DEFINE steps == t.days[d].steps
           new   == [steps EXCEPT ![i].leg = leg]
           day   == [t.days[d] EXCEPT !.steps = new]
           B     == Seq(Steps)
<1>1. t \in Solutions /\ d \in DOMAIN t.days /\ t.days[d] \in DayTours
  BY SolutionFields DEF SamePoints
<1>2. steps \in B /\ DOMAIN steps = 1 .. Len(steps) /\ \A j \in DOMAIN steps : steps[j] \in Steps
  BY <1>1 DEF DayTours
<1>3. [steps[i] EXCEPT !.leg = leg] \in Steps /\ [steps[i] EXCEPT !.leg = leg].pt = steps[i].pt
  BY <1>2 DEF Steps
<1>4. /\ new \in B /\ DOMAIN new = DOMAIN steps
      /\ \A j \in DOMAIN steps : new[j].pt = steps[j].pt
  BY <1>2, <1>3
<1>5. DayTours = [steps : B, dist : Nat]
  BY DEF DayTours
<1>6. day \in DayTours /\ day.steps = new /\ day.dist = t.days[d].dist
  <2> HIDE DEF B, new
  <2> QED BY <1>1, <1>4, <1>5
<1>7. PointsOf(day) = PointsAt(t, d)
  <2> HIDE DEF new, day
  <2>1. PointsOf(day) = [j \in DOMAIN steps |-> new[j].pt]
    BY <1>4, <1>6 DEF PointsOf
  <2>2. PointsAt(t, d) = [j \in DOMAIN steps |-> steps[j].pt]
    BY DEF PointsAt, PointsOf
  <2> QED BY <1>4, <2>1, <2>2
<1>8. WithLeg(t, d, i, leg) = [t EXCEPT !.days[d] = day]
  BY DEF WithLeg
<1>9. PointsOf(day) = PointsAt(s, d)
  BY <1>7 DEF SamePoints
<1> HIDE DEF day
<1> DEFINE r == [t EXCEPT !.days[d] = day]
<1>10. /\ SamePoints(s, r)
       /\ r.days[d] = day /\ \A e \in DOMAIN s.days \ {d} : r.days[e] = t.days[e]
  BY <1>6, <1>9, DayRewritten
<1> HIDE DEF r
<1>11. SameDists(t, r)
  BY <1>6, <1>10 DEF SameDists, SamePoints
<1> QED BY <1>8, <1>10, <1>11 DEF r

\* One step of the walk.
LEMMA WalkKeepsPoints ==
  ASSUME NEW s \in Solutions, NEW e \in Calls(s), NEW d \in DOMAIN s.days,
         NEW i \in 2 .. Len(PointsAt(s, d))
  PROVE  /\ Onwards(e, d, i) \in Calls(s)
         /\ SameDists(e.sol, Onwards(e, d, i).sol)
         /\ Onwards(e, d, i).ok => e.ok
         /\ e.ok => Onwards(e, d, i).dist = e.dist + Leg(PointsAt(s, d), i)
<1> DEFINE steps == e.sol.days[d].steps
           pt    == steps[i].pt
           leg   == DistMatrix[steps[i - 1].pt][pt]
           visit == Max({e.time + leg, OpenTime[pt]})
           new   == WithLeg(e.sol, d, i, leg)
           there == [e EXCEPT !.sol = WithLeg(@, d, i, leg),
                              !.dist = @ + leg, !.time = @ + leg]
<1>1. /\ e.sol \in Solutions /\ d \in DOMAIN e.sol.days /\ PointsAt(e.sol, d) = PointsAt(s, d)
      /\ SamePoints(s, e.sol)
  BY CallFields DEF SamePoints
<1>2. /\ Len(steps) = Len(PointsAt(s, d)) /\ DOMAIN steps = 1 .. Len(PointsAt(s, d))
      /\ PointsAt(s, d) \in Seq(Points)
      /\ \A j \in 1 .. Len(PointsAt(s, d)) : steps[j].pt = PointsAt(s, d)[j]
  BY <1>1, PointsOfSolution
<1>3. i \in DOMAIN steps /\ i - 1 \in DOMAIN steps
  BY <1>2
<1>4. pt \in Points /\ steps[i - 1].pt \in Points
  BY <1>2, <1>3
<1>5. leg \in Nat
  BY <1>4, MetricAssumption
<1>6. new \in {t \in Solutions : SamePoints(s, t)} /\ SameDists(e.sol, new)
  <2> SamePoints(s, new) /\ SameDists(e.sol, new)
    BY <1>1, <1>3, <1>5, WithLegKeepsPoints
  <2> QED BY DEF SamePoints
<1>12. leg = Leg(PointsAt(s, d), i)
  <2>1. pt = PointsAt(s, d)[i] /\ steps[i - 1].pt = PointsAt(s, d)[i - 1] /\ i # 1
    BY <1>2, <1>3
  <2> HIDE DEF steps, pt
  <2> QED BY <2>1 DEF Leg
<1> HIDE DEF leg, pt, steps, new
<1>7. there \in Calls(s) /\ there.sol = new /\ there.dist = e.dist + leg /\ there.ok = e.ok
  <2> DEFINE x == e.dist + leg
             y == e.time + leg
  <2>1. x \in Nat /\ y \in Nat
    BY <1>5, CallFields
  <2>2. there = [e EXCEPT !.sol = new, !.dist = x, !.time = y]
    BY DEF new
  <2> HIDE DEF there, x, y
  <2>3. [e EXCEPT !.sol = new, !.dist = x, !.time = y] \in Calls(s)
    BY <1>6, <2>1, Zenon DEF Calls
  <2>4. there.sol = new /\ there.dist = x /\ there.ok = e.ok
    BY <2>2 DEF Calls
  <2> QED BY <2>2, <2>3, <2>4 DEF x
<1>8. /\ Refused(there) \in Calls(s) /\ ~Refused(there).ok
      /\ Refused(there).sol = there.sol /\ Refused(there).dist = there.dist
  <2> HIDE DEF there
  <2> QED BY <1>7 DEF Refused, Calls
<1>9. pt \in Sites => visit \in Nat /\ Score[pt] \in Nat /\ ServiceTime[pt] \in Nat
  <2> SUFFICES ASSUME pt \in Sites PROVE visit \in Nat /\ Score[pt] \in Nat /\ ServiceTime[pt] \in Nat
    OBVIOUS
  <2>1. OpenTime[pt] \in Nat /\ Score[pt] \in Nat /\ ServiceTime[pt] \in Nat /\ e.time + leg \in Nat
    BY <1>5, SiteAssumption, CallFields
  <2>2. \A x, y \in Nat : Max({x, y}) \in Nat
    BY MaxOfTwo
  <2> QED BY <2>1, <2>2
<1> DEFINE visited == [there EXCEPT !.visitedSites = @ \cup {pt}, !.totalScore = @ + Score[pt],
                                    !.time = visit + ServiceTime[pt]]
<1>10. pt \in Sites => visited \in Calls(s)
  <2> HIDE DEF there, visit
  <2> DEFINE x == there.visitedSites \cup {pt}
             y == there.totalScore + Score[pt]
             z == visit + ServiceTime[pt]
  <2> SUFFICES ASSUME pt \in Sites
               PROVE  visited \in Calls(s)
    OBVIOUS
  <2>1. x \in SUBSET Sites /\ y \in Nat /\ z \in Nat
    BY <1>7, <1>9, CallFields
  <2>2. visited = [there EXCEPT !.visitedSites = x, !.totalScore = y, !.time = z]
    OBVIOUS
  <2> HIDE DEF x, y, z, visited
  <2>3. [there EXCEPT !.visitedSites = x, !.totalScore = y, !.time = z] \in Calls(s)
    BY <1>7, <2>1, Zenon DEF Calls
  <2> QED BY <2>2, <2>3
<1>11. visited.sol = there.sol /\ visited.dist = there.dist /\ visited.ok = there.ok
  <2> HIDE DEF there, visit
  <2> QED BY <1>7 DEF Calls
<1> HIDE DEF there, visit, visited
<1>13. Walk(e, d, i) =
         IF pt \notin Sites THEN there
         ELSE IF pt \in e.visitedSites \/ visit > CloseTime[pt] THEN Refused(there)
         ELSE visited
  BY Zenon DEF Walk, there, visit, visited, leg, pt, steps
<1> DEFINE r == Walk(e, d, i)
<1>14. /\ r \in Calls(s) /\ r.sol = new /\ r.dist = e.dist + leg
       /\ r.ok => e.ok
  BY <1>13, <1>7, <1>8, <1>10, <1>11
<1> HIDE DEF r
<1>15. SameDists(e.sol, e.sol)
  BY DEF SameDists
<1> QED BY <1>6, <1>12, <1>14, <1>15 DEF Onwards, r

LEMMA BeganKeepsPoints ==
  ASSUME NEW s \in Solutions, NEW e \in Calls(s), NEW d \in DOMAIN s.days,
         Len(PointsAt(s, d)) >= 1
  PROVE  /\ Began(e, d) \in Calls(s)
         /\ Began(e, d).dist = 0 /\ Began(e, d).time = 0
         /\ SameDists(e.sol, Began(e, d).sol)
         /\ Began(e, d).ok = e.ok
<1> DEFINE new == WithLeg(e.sol, d, 1, 0)
<1>1. /\ SamePoints(s, e.sol) /\ e.sol \in Solutions /\ d \in DOMAIN e.sol.days
      /\ PointsAt(e.sol, d) = PointsAt(s, d)
  BY CallFields DEF SamePoints
<1>2. 1 \in DOMAIN e.sol.days[d].steps
  BY <1>1, PointsOfSolution
<1>3. new \in {t \in Solutions : SamePoints(s, t)} /\ SameDists(e.sol, new)
  <2> SamePoints(s, new) /\ SameDists(e.sol, new)
    BY <1>1, <1>2, WithLegKeepsPoints
  <2> QED BY DEF SamePoints
<1>4. Began(e, d) = [e EXCEPT !.sol = new, !.dist = 0, !.time = 0]
  BY DEF Began
<1> HIDE DEF new
<1>5. [e EXCEPT !.sol = new, !.dist = 0, !.time = 0] \in Calls(s)
  <2> DEFINE z == 0
  <2>1. z \in Nat
    OBVIOUS
  <2> HIDE DEF z
  <2>2. [e EXCEPT !.sol = new, !.dist = z, !.time = z] \in Calls(s)
    BY <1>3, <2>1, Zenon DEF Calls
  <2> QED BY <2>2 DEF z
<1>6. /\ Began(e, d).sol = new /\ Began(e, d).dist = 0 /\ Began(e, d).time = 0
      /\ Began(e, d).ok = e.ok
  BY <1>4 DEF Calls
<1> QED BY <1>3, <1>4, <1>5, <1>6

LEMMA EndedKeepsPoints ==
  ASSUME NEW s \in Solutions, NEW e \in Calls(s), NEW d \in DOMAIN s.days
  PROVE  /\ Ended(e, d) \in Calls(s)
         /\ Ended(e, d).ok = e.ok
         /\ Ended(e, d).sol.days[d].dist = e.dist
         /\ \A x \in DOMAIN s.days \ {d} : Ended(e, d).sol.days[x] = e.sol.days[x]
<1> DEFINE new == [e.sol EXCEPT !.days[d].dist = e.dist]
           day == [e.sol.days[d] EXCEPT !.dist = e.dist]
           B   == Seq(Steps)
<1>1. SamePoints(s, e.sol) /\ e.sol \in Solutions /\ d \in DOMAIN e.sol.days /\ e.dist \in Nat
  BY CallFields DEF SamePoints
<1>2. e.sol.days[d] \in DayTours
  BY <1>1, SolutionFields
<1>3. DayTours = [steps : B, dist : Nat]
  BY DEF DayTours
<1>4. day \in DayTours /\ day.steps = e.sol.days[d].steps /\ day.dist = e.dist
  <2> HIDE DEF B
  <2> QED BY <1>1, <1>2, <1>3
<1>5. PointsOf(day) = PointsAt(s, d)
  <2> HIDE DEF day
  <2> QED BY <1>1, <1>4 DEF PointsOf, PointsAt, SamePoints
<1>6. new = [e.sol EXCEPT !.days[d] = day]
  OBVIOUS
<1> HIDE DEF day, new
<1>7. /\ SamePoints(s, new)
      /\ new.days[d] = day /\ \A x \in DOMAIN s.days \ {d} : new.days[x] = e.sol.days[x]
  BY <1>1, <1>4, <1>5, <1>6, DayRewritten
<1> DEFINE total == e.totalDist + e.dist
<1>8. total \in Nat /\ new \in {t \in Solutions : SamePoints(s, t)}
  BY <1>1, <1>7, CallFields DEF SamePoints
<1>9. Ended(e, d) = [e EXCEPT !.sol = new, !.totalDist = total]
  BY DEF Ended, new
<1> HIDE DEF total
<1>10. [e EXCEPT !.sol = new, !.totalDist = total] \in Calls(s)
  BY <1>8, Zenon DEF Calls
<1>11. Ended(e, d).sol = new /\ Ended(e, d).ok = e.ok
  BY <1>9 DEF Calls
<1> QED BY <1>4, <1>7, <1>9, <1>10, <1>11

\* The walk along a day, and the answer given at its end.
Walks(s, e, d, w) ==
  LET pts == PointsAt(s, d)
      end == w[Len(pts)]
  IN  /\ w \in [1 .. Len(pts) -> Calls(s)]
      /\ w[1] = Began(e, d)
      /\ \A i \in 2 .. Len(pts) : w[i] = Onwards(w[i - 1], d, i)
      /\ EvaluateDay(e, d) =
           IF ~StartsAt(d, pts[1])
             THEN Refused(e)
           ELSE IF end.ok /\ EndsAt(d, Last(pts)) /\ end.time <= DayMaxDist(d)
             THEN Ended(end, d)
             ELSE Refused(end)

LEMMA WalkExists ==
  ASSUME NEW s \in Solutions, NEW e \in Calls(s), NEW d \in DOMAIN s.days,
         Len(PointsAt(s, d)) >= 1
  PROVE  \E w : Walks(s, e, d, w)
<1> DEFINE pts   == PointsAt(s, d)
           n     == Len(pts)
           steps == e.sol.days[d].steps
           Next1(w, i) == IF i = 1 THEN Began(e, d) ELSE Onwards(w[i - 1], d, i)
           w     == CHOOSE w : w = [i \in DOMAIN steps |-> Next1(w, i)]
           step  == [p \in Calls(s) \X (1 + 1 .. n) |-> Onwards(p[1], d, p[2])]
<1>1. /\ DOMAIN steps = 1 .. n /\ Len(steps) = n /\ n \in Nat /\ pts \in Seq(Points)
      /\ \A i \in 1 .. n : steps[i].pt = pts[i]
  <2> /\ e.sol \in Solutions /\ d \in DOMAIN e.sol.days /\ PointsAt(e.sol, d) = pts
    BY CallFields DEF SamePoints
  <2> QED BY PointsOfSolution
<1>2. n >= 1
  OBVIOUS
<1>3. Began(e, d) \in Calls(s)
  BY BeganKeepsPoints
<1>4. step \in [Calls(s) \X (1 + 1 .. n) -> Calls(s)]
  BY WalkKeepsPoints
<1> HIDE DEF n, steps
<1>5. \E f \in [1 .. n -> Calls(s)] : \A i \in 1 .. n : f[i] = Next1(f, i)
  <2>1. PICK f \in [1 .. n -> Calls(s)] :
          \A i \in 1 .. n : f[i] = IF i = 1 THEN Began(e, d) ELSE step[<<f[i - 1], i>>]
    <3> DEFINE S == Calls(s)
               b == Began(e, d)
    <3>1. 1 \in Nat /\ n \in Nat /\ b \in S /\ step \in [S \X (1 + 1 .. n) -> S]
      BY <1>1, <1>3, <1>4
    <3> HIDE DEF step, S, b
    <3>2. PICK f : Recursive(f, 1, n, S, b, step)
      BY <3>1, RecursionExists
    <3> QED BY <3>2 DEF Recursive, S, b
  <2>2. \A i \in 2 .. n : step[<<f[i - 1], i>>] = Onwards(f[i - 1], d, i)
    BY <1>1
  <2> HIDE DEF step
  <2>3. \A i \in 1 .. n : i # 1 => i \in 2 .. n
    BY <1>1
  <2>4. \A i \in 1 .. n : f[i] = Next1(f, i)
    BY <2>1, <2>2, <2>3
  <2> QED BY <2>4
<1>6. w = [i \in DOMAIN steps |-> Next1(w, i)]
  <2> \E f : f = [i \in DOMAIN steps |-> Next1(f, i)]
    <3> HIDE DEF Next1
    <3> PICK f \in [1 .. n -> Calls(s)] : \A i \in 1 .. n : f[i] = Next1(f, i)
      BY <1>5
    <3> f = [i \in DOMAIN steps |-> Next1(f, i)]
      BY <1>1
    <3> QED OBVIOUS
  <2> QED OBVIOUS
<1>7. EvaluateDay(e, d) =
        IF ~StartsAt(d, steps[1].pt) THEN Refused(e)
        ELSE IF /\ w[Len(steps)].ok /\ EndsAt(d, Last(steps).pt)
                /\ w[Len(steps)].time <= DayMaxDist(d)
          THEN Ended(w[Len(steps)], d) ELSE Refused(w[Len(steps)])
  BY Zenon DEF EvaluateDay, steps
<1> HIDE DEF w
<1>8. \A i \in 1 .. n : w[i] = Next1(w, i)
  BY <1>1, <1>6
<1>9. \A i \in 1 .. n : w[i] \in Calls(s)
  <2> DEFINE T == {i \in 1 .. n : w[i] \in Calls(s)}
  <2>1. 1 \in T
    BY <1>2, <1>1, <1>3, <1>8
  <2>2. ASSUME NEW i \in T, i + 1 <= n PROVE i + 1 \in T
    <3>1. i + 1 \in 2 .. n /\ i + 1 \in 1 .. n /\ (i + 1) - 1 = i /\ i + 1 # 1
      BY <2>2, <1>1
    <3>2. w[i + 1] = Onwards(w[i], d, i + 1)
      BY <1>8, <3>1
    <3> QED BY <3>1, <3>2, WalkKeepsPoints DEF n
  <2>3. T = 1 .. n
    <3> 1 \in Nat /\ T \in SUBSET (1 .. n)
      OBVIOUS
    <3> HIDE DEF T
    <3> QED BY <1>1, <2>1, <2>2, Climb
  <2> QED BY <2>3
<1>10. w \in [1 .. n -> Calls(s)]
  <2> DOMAIN w = 1 .. n /\ w = [i \in 1 .. n |-> w[i]]
    BY <1>1, <1>6
  <2> QED BY <1>9
<1>11. w[1] = Began(e, d) /\ \A i \in 2 .. n : w[i] = Onwards(w[i - 1], d, i)
  BY <1>1, <1>2, <1>8
<1>12. steps[1].pt = pts[1] /\ Last(steps).pt = Last(pts)
  BY <1>1, <1>2 DEF Last, n
<1>13. Walks(s, e, d, w)
  <2> HIDE DEF Next1, step
  <2> QED BY <1>1, <1>7, <1>10, <1>11, <1>12 DEF Walks, n
<1> QED BY <1>13, Zenon

LEMMA EvaluateDayKeepsPoints ==
  ASSUME NEW s \in Solutions, NEW e \in Calls(s), NEW d \in DOMAIN s.days,
         Len(PointsAt(s, d)) >= 1
  PROVE  EvaluateDay(e, d) \in Calls(s)
<1>1. PICK w : Walks(s, e, d, w)
  BY WalkExists
<1> DEFINE n   == Len(PointsAt(s, d))
           end == w[n]
<1>2. end \in Calls(s)
  <2> n \in 1 .. n
    BY PointsOfSolution
  <2> QED BY <1>1 DEF Walks
<1>3. \A c \in Calls(s) : Refused(c) \in Calls(s)
  BY DEF Refused, Calls
<1> HIDE DEF end
<1>4. EvaluateDay(e, d) \in {Refused(e), Ended(end, d), Refused(end)}
  BY <1>1, Zenon DEF Walks, end
<1>5. Refused(e) \in Calls(s) /\ Refused(end) \in Calls(s) /\ Ended(end, d) \in Calls(s)
  BY <1>2, <1>3, EndedKeepsPoints
<1> QED BY <1>4, <1>5

\* The pass over the days.
NextDay(s, e, d) == IF e.ok /\ PointsAt(s, d) # <<>> THEN EvaluateDay(e, d) ELSE e

Passes(s, u) ==
  /\ u \in [0 .. Len(s.days) -> Calls(s)]
  /\ u[0] = Entry(s)
  /\ \A d \in 1 .. Len(s.days) : u[d] = NextDay(s, u[d - 1], d)
  /\ Evaluated(s) = u[Len(s.days)]

LEMMA NextDayKeepsPoints ==
  ASSUME NEW s \in Solutions, NEW e \in Calls(s), NEW d \in DOMAIN s.days
  PROVE  /\ NextDay(s, e, d) \in Calls(s)
         /\ NextDay(s, e, d) = IF e.ok /\ e.sol.days[d].steps # <<>> THEN EvaluateDay(e, d) ELSE e
<1>1. /\ PointsAt(s, d) \in Seq(Points)
      /\ Len(PointsAt(s, d)) = Len(e.sol.days[d].steps)
      /\ e.sol.days[d].steps \in Seq(Steps)
  <2>1. /\ e.sol \in Solutions /\ d \in DOMAIN e.sol.days /\ PointsAt(e.sol, d) = PointsAt(s, d)
    BY CallFields DEF SamePoints
  <2> QED BY <2>1, PointsOfSolution DEF DayTours
<1>2. PointsAt(s, d) # <<>> <=> e.sol.days[d].steps # <<>>
  BY <1>1
<1>3. PointsAt(s, d) # <<>> => Len(PointsAt(s, d)) >= 1
  BY <1>1
<1> QED BY <1>2, <1>3, EvaluateDayKeepsPoints DEF NextDay

LEMMA EntryKeepsPoints ==
  ASSUME NEW s \in Solutions
  PROVE  Entry(s) \in Calls(s)
<1>1. s \in {t \in Solutions : SamePoints(s, t)}
  BY DEF SamePoints
<1> DEFINE z == 0
           v == {}
           y == TRUE
<1>2. z \in Nat /\ v \in SUBSET Sites /\ y \in BOOLEAN
  OBVIOUS
<1>3. Entry(s) = [ok |-> y, sol |-> s, dist |-> z, time |-> z,
                  visitedSites |-> v, totalScore |-> z, totalDist |-> z]
  BY DEF Entry
<1> HIDE DEF z, v, y
<1>4. [ok |-> y, sol |-> s, dist |-> z, time |-> z,
       visitedSites |-> v, totalScore |-> z, totalDist |-> z] \in Calls(s)
  BY <1>1, <1>2, Zenon DEF Calls
<1> QED BY <1>3, <1>4

LEMMA PassExists ==
  ASSUME NEW s \in Solutions
  PROVE  \E u : Passes(s, u)
<1> DEFINE n     == Len(s.days)
           Then(u, d) == IF d = 0 THEN Entry(s)
                         ELSE LET e == u[d - 1]
                              IN  IF e.ok /\ e.sol.days[d].steps # <<>> THEN EvaluateDay(e, d) ELSE e
           u     == CHOOSE u : u = [d \in 0 .. n |-> Then(u, d)]
           step  == [p \in Calls(s) \X (0 + 1 .. n) |-> NextDay(s, p[1], p[2])]
<1>1. n \in Nat /\ DOMAIN s.days = 1 .. n
  BY SolutionFields
<1>2. Entry(s) \in Calls(s)
  BY EntryKeepsPoints
<1>3. \A e \in Calls(s), d \in 1 .. n : NextDay(s, e, d) \in Calls(s)
  BY <1>1, NextDayKeepsPoints
<1>4. step \in [Calls(s) \X (0 + 1 .. n) -> Calls(s)]
  BY <1>3
<1>5. \A x, d : /\ x[d - 1] \in Calls(s) /\ d \in 1 .. n => Then(x, d) = NextDay(s, x[d - 1], d)
  <2> SUFFICES ASSUME NEW x, NEW d \in 1 .. n, x[d - 1] \in Calls(s)
               PROVE  Then(x, d) = NextDay(s, x[d - 1], d)
    OBVIOUS
  <2>1. d # 0
    OBVIOUS
  <2>2. NextDay(s, x[d - 1], d) =
          IF x[d - 1].ok /\ x[d - 1].sol.days[d].steps # <<>>
            THEN EvaluateDay(x[d - 1], d) ELSE x[d - 1]
    BY <1>1, NextDayKeepsPoints
  <2> QED BY <2>1, <2>2, Zenon
<1>6. \A x : Then(x, 0) = Entry(s)
  OBVIOUS
<1>7. Evaluated(s) = u[n]
  BY Zenon DEF Evaluated
<1> HIDE DEF n, Then
<1>8. \E f \in [0 .. n -> Calls(s)] : \A d \in 0 .. n : f[d] = Then(f, d)
  <2> DEFINE S == Calls(s)
             b == Entry(s)
  <2>1. 0 \in Nat /\ n \in Nat /\ b \in S /\ step \in [S \X (0 + 1 .. n) -> S]
    BY <1>1, <1>2, <1>4
  <2> HIDE DEF step, S, b
  <2>2. PICK f : Recursive(f, 0, n, S, b, step)
    BY <2>1, RecursionExists
  <2>3. \A d \in 1 .. n : f[d] = step[<<f[d - 1], d>>] /\ d - 1 \in 0 .. n /\ f[d - 1] \in S
    BY <1>1, <2>2 DEF Recursive
  <2>4. \A d \in 1 .. n : step[<<f[d - 1], d>>] = NextDay(s, f[d - 1], d)
    <3> SUFFICES ASSUME NEW d \in 1 .. n PROVE step[<<f[d - 1], d>>] = NextDay(s, f[d - 1], d)
      OBVIOUS
    <3>1. f[d - 1] \in S
      BY <2>3
    <3>2. d \in 0 + 1 .. n
      BY <1>1
    <3> QED BY <3>1, <3>2 DEF step, S
  <2>5. \A d \in 1 .. n : f[d] = Then(f, d)
    BY <1>5, <2>3, <2>4 DEF S
  <2>6. f[0] = Then(f, 0)
    <3> 0 \in 0 .. n
      BY <1>1
    <3> f[0] = Entry(s)
      BY <2>2 DEF Recursive, b
    <3> QED BY <1>6
  <2>7. \A d \in 0 .. n : d = 0 \/ d \in 1 .. n
    BY <1>1
  <2>8. f \in [0 .. n -> S]
    BY <2>2 DEF Recursive
  <2> QED BY <2>5, <2>6, <2>7, <2>8 DEF S
<1>9. u = [d \in 0 .. n |-> Then(u, d)]
  <2> \E f : f = [d \in 0 .. n |-> Then(f, d)]
    <3> PICK f \in [0 .. n -> Calls(s)] : \A d \in 0 .. n : f[d] = Then(f, d)
      BY <1>8
    <3> f = [d \in 0 .. n |-> Then(f, d)]
      OBVIOUS
    <3> QED OBVIOUS
  <2> QED OBVIOUS
<1> HIDE DEF u
<1>10. u[0] = Entry(s)
  BY <1>1, <1>6, <1>9
<1>11. \A d \in 0 .. n : u[d] \in Calls(s)
  <2> DEFINE T == {d \in 0 .. n : u[d] \in Calls(s)}
  <2>1. 0 \in T
    BY <1>1, <1>2, <1>10
  <2>2. ASSUME NEW d \in T, d + 1 <= n PROVE d + 1 \in T
    <3>1. d + 1 \in 0 .. n /\ d + 1 \in 1 .. n /\ (d + 1) - 1 = d
      BY <2>2, <1>1
    <3>2. u[d + 1] = Then(u, d + 1)
      BY <1>9, <3>1
    <3>3. u[d + 1] = NextDay(s, u[d], d + 1)
      BY <1>5, <3>1, <3>2
    <3> QED BY <1>3, <3>1, <3>3
  <2>3. T = 0 .. n
    <3>1. 0 \in Nat /\ T \in SUBSET (0 .. n)
      OBVIOUS
    <3> HIDE DEF T
    <3> QED BY <1>1, <2>1, <2>2, <3>1, Climb
  <2> QED BY <2>3
<1>12. u \in [0 .. n -> Calls(s)]
  <2> DOMAIN u = 0 .. n /\ u = [d \in 0 .. n |-> u[d]]
    BY <1>9
  <2> QED BY <1>11
<1>13. \A d \in 1 .. n : u[d] = NextDay(s, u[d - 1], d)
  <2> SUFFICES ASSUME NEW d \in 1 .. n PROVE u[d] = NextDay(s, u[d - 1], d)
    OBVIOUS
  <2> d \in 0 .. n /\ d - 1 \in 0 .. n
    BY <1>1
  <2> u[d] = Then(u, d) /\ u[d - 1] \in Calls(s)
    BY <1>9, <1>11
  <2> QED BY <1>5
<1>14. Passes(s, u)
  <2> HIDE DEF step
  <2> QED BY <1>7, <1>10, <1>12, <1>13 DEF Passes, n
<1> QED BY <1>14, Zenon

\* EvaluateSolution moves no visit, whatever it answers.
LEMMA EvaluationKeepsPoints ==
  ASSUME NEW s \in Solutions
  PROVE  SamePoints(s, EvaluateSolution(s).sol) /\ EvaluateSolution(s).valid \in BOOLEAN
<1>1. PICK u : Passes(s, u)
  BY PassExists
<1> DEFINE end == Evaluated(s)
<1>2. end \in Calls(s)
  <2> Len(s.days) \in 0 .. Len(s.days)
    BY SolutionFields
  <2> QED BY <1>1 DEF Passes
<1>3. /\ end.ok \in BOOLEAN /\ SamePoints(s, end.sol)
      /\ end.totalScore \in Nat /\ end.totalDist \in Nat
  BY <1>2, CallFields
<1> HIDE DEF end
<1> DEFINE new == [end.sol EXCEPT !.score = end.totalScore, !.dist = end.totalDist]
<1>4. new \in Solutions /\ new.days = end.sol.days
  <2> DEFINE A == Seq(DayTours)
  <2>1. Solutions = [days : A, score : Nat, dist : Nat]
    BY DEF Solutions
  <2>2. end.sol \in Solutions
    BY <1>3 DEF SamePoints
  <2> HIDE DEF A
  <2> QED BY <1>3, <2>1, <2>2
<1>5. SamePoints(s, new)
  <2> HIDE DEF new
  <2> QED BY <1>3, <1>4 DEF SamePoints, PointsAt
<1>6. EvaluateSolution(s) = [valid |-> end.ok, sol |-> IF end.ok THEN new ELSE end.sol]
  BY DEF EvaluateSolution, end
<1> HIDE DEF new
<1> QED BY <1>3, <1>5, <1>6
\* As long as nothing is refused the local distance is the length walked.
LEMMA WalkedDistance ==
  ASSUME NEW s \in Solutions, NEW e \in Calls(s), NEW d \in DOMAIN s.days,
         Len(PointsAt(s, d)) >= 1, NEW w, Walks(s, e, d, w)
  PROVE  \A i \in 1 .. Len(PointsAt(s, d)) :
           /\ SameDists(e.sol, w[i].sol)
           /\ w[i].ok => w[i].dist = LengthTo(PointsAt(s, d), i)
<1> DEFINE pts == PointsAt(s, d)
           n   == Len(pts)
           T   == {i \in 1 .. n : /\ SameDists(e.sol, w[i].sol)
                                  /\ w[i].ok => w[i].dist = LengthTo(pts, i)}
<1>1. pts \in Seq(Points) /\ n \in Nat /\ n >= 1
  BY PointsOfSolution
<1>2. /\ w \in [1 .. n -> Calls(s)] /\ w[1] = Began(e, d)
      /\ \A i \in 2 .. n : w[i] = Onwards(w[i - 1], d, i)
  BY DEF Walks
<1>3. /\ LengthTo(pts, 1) = 0
      /\ \A i \in 2 .. n : LengthTo(pts, i) = LengthTo(pts, i - 1) + Leg(pts, i)
  BY <1>1, LengthGrows
<1>4. 1 \in T
  BY <1>1, <1>2, <1>3, BeganKeepsPoints
<1>5. ASSUME NEW i \in T, i + 1 <= n PROVE i + 1 \in T
  <2>1. i + 1 \in 2 .. n /\ i + 1 \in 1 .. n /\ (i + 1) - 1 = i /\ i \in 1 .. n
    BY <1>1, <1>5
  <2>2. w[i + 1] = Onwards(w[i], d, i + 1) /\ w[i] \in Calls(s)
    BY <1>2, <2>1
  <2>3. /\ SameDists(w[i].sol, w[i + 1].sol)
        /\ w[i + 1].ok => w[i].ok
        /\ w[i].ok => w[i + 1].dist = w[i].dist + Leg(pts, i + 1)
    BY <2>1, <2>2, WalkKeepsPoints
  <2>4. SameDists(e.sol, w[i + 1].sol)
    <3> DOMAIN e.sol.days = DOMAIN w[i].sol.days
      BY <2>2, CallFields DEF SamePoints
    <3> QED BY <2>3 DEF SameDists
  <2>5. LengthTo(pts, i + 1) = LengthTo(pts, i) + Leg(pts, i + 1)
    BY <1>3, <2>1
  <2>6. w[i + 1].ok => w[i + 1].dist = LengthTo(pts, i + 1)
    BY <2>3, <2>5
  <2> QED BY <2>1, <2>4, <2>6
<1>6. T = 1 .. n
  <2> 1 \in Nat /\ T \in SUBSET (1 .. n)
    OBVIOUS
  <2> HIDE DEF T, n
  <2> QED BY <1>1, <1>4, <1>5, Climb
<1> QED BY <1>6

\* The days a call has gone through keep or get exact distances.
LEMMA EvaluateDayKeepsExact ==
  ASSUME NEW s \in Solutions, NEW e \in Calls(s), NEW d \in DOMAIN s.days,
         Len(PointsAt(s, d)) >= 1, ExactDistances(e.sol)
  PROVE  ExactDistances(EvaluateDay(e, d).sol)
<1>1. PICK w : Walks(s, e, d, w)
  BY WalkExists
<1> DEFINE n   == Len(PointsAt(s, d))
           end == w[n]
<1>2. end \in Calls(s) /\ SameDists(e.sol, end.sol) /\ (end.ok => end.dist = TourLength(PointsAt(s, d)))
  <2>1. n \in 1 .. n /\ PointsAt(s, d) \in Seq(Points)
    BY PointsOfSolution
  <2>2. end \in Calls(s)
    BY <1>1, <2>1 DEF Walks
  <2>3. SameDists(e.sol, end.sol) /\ (end.ok => end.dist = LengthTo(PointsAt(s, d), n))
    BY <1>1, <2>1, WalkedDistance
  <2>4. LengthTo(PointsAt(s, d), n) = TourLength(PointsAt(s, d))
    BY <2>1, LengthGrows
  <2> QED BY <2>2, <2>3, <2>4
<1>3. \A c \in Calls(s) : Refused(c).sol = c.sol
  BY DEF Refused, Calls
<1> HIDE DEF end
<1>4. EvaluateDay(e, d) \in {Refused(e), Refused(end)} \/ (end.ok /\ EvaluateDay(e, d) = Ended(end, d))
  BY <1>1, Zenon DEF Walks, end
<1>5. ExactDistances(end.sol)
  BY <1>2, CallFields DEF ExactDistances, SamePoints, SameDists
<1>6. end.ok => ExactDistances(Ended(end, d).sol)
  <2> SUFFICES ASSUME end.ok PROVE ExactDistances(Ended(end, d).sol)
    OBVIOUS
  <2> DEFINE r == Ended(end, d).sol
  <2>1. /\ SamePoints(s, r) /\ r.days[d].dist = end.dist
        /\ \A x \in DOMAIN s.days \ {d} : r.days[x] = end.sol.days[x]
    BY <1>2, EndedKeepsPoints, CallFields
  <2> HIDE DEF r
  <2>2. SamePoints(s, end.sol)
    BY <1>2, CallFields
  <2>3. ExactDistances(r)
    BY <1>2, <1>5, <2>1, <2>2 DEF ExactDistances, SamePoints
  <2> QED BY <2>3 DEF r
<1> QED BY <1>2, <1>3, <1>4, <1>5, <1>6

LEMMA EvaluationKeepsExact ==
  ASSUME NEW s \in Solutions, ExactDistances(s)
  PROVE  ExactDistances(EvaluateSolution(s).sol)
<1>1. PICK u : Passes(s, u)
  BY PassExists
<1> DEFINE n   == Len(s.days)
           T   == {d \in 0 .. n : ExactDistances(u[d].sol)}
<1>2. n \in Nat /\ DOMAIN s.days = 1 .. n
  BY SolutionFields
<1>3. /\ u \in [0 .. n -> Calls(s)] /\ u[0] = Entry(s) /\ Evaluated(s) = u[n]
      /\ \A d \in 1 .. n : u[d] = NextDay(s, u[d - 1], d)
  BY <1>1 DEF Passes
<1> HIDE DEF n
<1>4. 0 \in T
  BY <1>2, <1>3 DEF Entry
<1>5. ASSUME NEW d \in T, d + 1 <= n PROVE d + 1 \in T
  <2>1. d + 1 \in 1 .. n /\ d + 1 \in 0 .. n /\ (d + 1) - 1 = d /\ d \in 0 .. n
    BY <1>2, <1>5
  <2>2. u[d] \in Calls(s) /\ u[d + 1] = NextDay(s, u[d], d + 1) /\ ExactDistances(u[d].sol)
    BY <1>3, <2>1
  <2>3. PointsAt(s, d + 1) # <<>> => Len(PointsAt(s, d + 1)) >= 1
    BY <1>2, <2>1, PointsOfSolution
  <2>4. ExactDistances(u[d + 1].sol)
    BY <1>2, <2>1, <2>2, <2>3, EvaluateDayKeepsExact DEF NextDay
  <2> QED BY <2>1, <2>4
<1>6. T = 0 .. n
  <2> 0 \in Nat /\ T \in SUBSET (0 .. n)
    OBVIOUS
  <2> HIDE DEF T
  <2> QED BY <1>2, <1>4, <1>5, Climb
<1>7. ExactDistances(Evaluated(s).sol)
  BY <1>2, <1>3, <1>6
<1>8. EvaluateSolution(s).sol.days = Evaluated(s).sol.days
  <2> DEFINE end == Evaluated(s)
  <2>1. end \in Calls(s)
    BY <1>2, <1>3
  <2>2. EvaluateSolution(s).sol \in
          {end.sol, [end.sol EXCEPT !.score = end.totalScore, !.dist = end.totalDist]}
    BY DEF EvaluateSolution
  <2> HIDE DEF end
  <2>3. end.sol \in Solutions
    BY <2>1, CallFields DEF SamePoints
  <2>4. [end.sol EXCEPT !.score = end.totalScore, !.dist = end.totalDist].days = end.sol.days
    BY <2>3 DEF Solutions
  <2> QED BY <2>2, <2>4 DEF end
<1> QED BY <1>7, <1>8 DEF ExactDistances, PointsAt
=============================================================================
