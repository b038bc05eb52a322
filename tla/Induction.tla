------------------------------ MODULE Induction ------------------------------
(***************************************************************************)
(* Induction along an interval, and recursive functions, for sets and      *)
(* functions instead of operators.                                         *)
(***************************************************************************)
EXTENDS Integers, WellFoundedInduction, TLAPS

\* A set of naturals that is not empty has a least element.
LEMMA LeastNat ==
  ASSUME NEW T \in SUBSET Nat, T # {}
  PROVE  \E m \in T : \A n \in T : m <= n
<1> DEFINE R == {ss \in Nat \X Nat : ss[1] < ss[2]}
<1>1. IsWellFoundedOn(R, Nat)
  BY NatLessThanWellFounded, Zenon DEF OpToRel
<1>2. PICK m \in T : \A n \in T : <<n, m>> \notin R
  <2> HIDE DEF R
  <2> QED BY <1>1, WFMin
<1>3. \A n \in T : m <= n
  <2> SUFFICES ASSUME NEW n \in T, n < m PROVE FALSE
    OBVIOUS
  <2> <<n, m>> \in R
    OBVIOUS
  <2> QED BY <1>2
<1> QED BY <1>3

\* A set that contains the first number of an interval, and with each number the
\* next one, is the interval.
LEMMA Climb ==
  ASSUME NEW lo \in Nat, NEW hi \in Nat, NEW T \in SUBSET (lo .. hi),
         lo <= hi => lo \in T,
         \A i \in T : i + 1 <= hi => i + 1 \in T
  PROVE  T = lo .. hi
<1> DEFINE U == (lo .. hi) \ T
<1> SUFFICES ASSUME U # {} PROVE FALSE
  OBVIOUS
<1>1. PICK m \in U : \A n \in U : m <= n
  <2> U \in SUBSET Nat
    OBVIOUS
  <2> HIDE DEF U
  <2> QED BY LeastNat
<1>2. m \in Nat /\ lo <= m /\ m <= hi /\ m \notin T
  OBVIOUS
<1>3. m # lo
  BY <1>2
<1>4. m - 1 \in T
  BY <1>1, <1>2, <1>3
<1> QED BY <1>2, <1>4

\* A recursive definition along an interval defines a function.
Recursive(f, lo, hi, S, base, step) ==
  /\ f \in [lo .. hi -> S]
  /\ \A i \in lo .. hi : f[i] = IF i = lo THEN base ELSE step[<<f[i - 1], i>>]

LEMMA RecursionExists ==
  ASSUME NEW lo \in Nat, NEW hi \in Nat, NEW S, NEW base \in S,
         NEW step \in [S \X (lo + 1 .. hi) -> S]
  PROVE  \E f : Recursive(f, lo, hi, S, base, step)
<1> SUFFICES \E f \in [lo .. hi -> S] :
           \A i \in lo .. hi : f[i] = IF i = lo THEN base ELSE step[<<f[i - 1], i>>]
  BY DEF Recursive
<1> DEFINE Fits(f, m) ==
      \A i \in lo .. m : f[i] = IF i = lo THEN base ELSE step[<<f[i - 1], i>>]
    T == {m \in lo .. hi : \E f \in [lo .. hi -> S] : Fits(f, m)}
<1>1. CASE hi < lo
  <2> [i \in lo .. hi |-> base] \in [lo .. hi -> S]
    OBVIOUS
  <2> \A i \in lo .. hi : FALSE
    BY <1>1
  <2> QED BY <1>1
<1>2. CASE lo <= hi
  <2>1. lo \in T
    <3> DEFINE f == [i \in lo .. hi |-> base]
    <3>1. f \in [lo .. hi -> S]
      OBVIOUS
    <3>2. Fits(f, lo)
      BY <1>2
    <3> HIDE DEF f
    <3> QED BY <1>2, <3>1, <3>2
  <2>2. ASSUME NEW m \in T, m + 1 <= hi PROVE m + 1 \in T
    <3>1. PICK f \in [lo .. hi -> S] : Fits(f, m)
      OBVIOUS
    <3> DEFINE g == [f EXCEPT ![m + 1] = step[<<f[m], m + 1>>]]
    <3>2. m \in lo .. hi /\ m + 1 \in lo + 1 .. hi
      BY <2>2
    <3>3. step[<<f[m], m + 1>>] \in S
      BY <3>2
    <3>4. g \in [lo .. hi -> S]
      BY <3>3
    <3>5. \A i \in lo .. m : g[i] = f[i]
      BY <3>2
    <3>6. g[m + 1] = step[<<g[m], m + 1>>]
      BY <3>2, <3>5, SMTT(30)
    <3>7. Fits(g, m + 1)
      <4> SUFFICES ASSUME NEW i \in lo .. m + 1
                   PROVE  g[i] = IF i = lo THEN base ELSE step[<<g[i - 1], i>>]
        OBVIOUS
      <4>1. CASE i = m + 1
        BY <4>1, <3>2, <3>6
      <4>2. CASE i # m + 1
        <5> i \in lo .. m /\ (i # lo => i - 1 \in lo .. m)
          BY <4>2, <3>2
        <5> HIDE DEF g
        <5> QED BY <3>1, <3>5
      <4> QED BY <4>1, <4>2
    <3> HIDE DEF g
    <3> QED BY <3>2, <3>4, <3>7, SMTT(30)
  <2>3. T = lo .. hi
    <3> T \in SUBSET (lo .. hi)
      OBVIOUS
    <3> HIDE DEF T
    <3> QED BY <2>1, <2>2, Climb
  <2>4. hi \in T
    <3> HIDE DEF T
    <3> QED BY <1>2, <2>3
  <2> QED BY <2>4
<1> QED BY <1>1, <1>2
=============================================================================
