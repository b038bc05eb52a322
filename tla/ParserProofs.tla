----------------------------- MODULE ParserProofs -----------------------------
(***************************************************************************)
(* LoadInstance on files of any lines of any length: an ID is an index,    *)
(* and each one a hotel's or a site's; an instance has what its header     *)
(* announced, or an error is returned; and what a file of the documented   *)
(* format gives can be solved.                                             *)
(***************************************************************************)
EXTENDS Parser, Induction, SequenceTheorems

USE DEF budget, ids, result

-----------------------------------------------------------------------------
(* Loops that pass over some elements *)

\* The steps of such a loop.
Collects(f, s, T) ==
  /\ f[0] = <<>>
  /\ \A i \in 1 .. Len(s) : f[i] = IF s[i] \in T THEN Append(f[i - 1], s[i]) ELSE f[i - 1]

LEMMA ThoseSteps ==
  ASSUME NEW S, NEW s \in Seq(S), NEW T
  PROVE  \E f \in [0 .. Len(s) -> Seq(S)] : Collects(f, s, T) /\ Those(s, T) = f[Len(s)]
<1> DEFINE n == Len(s)
           R == Seq(S)
           b == <<>>
           step == [ri \in R \X (0 + 1 .. n) |->
                      IF s[ri[2]] \in T THEN Append(ri[1], s[ri[2]]) ELSE ri[1]]
           Then(g, i) == IF i = 0 THEN <<>>
                         ELSE IF s[i] \in T THEN Append(g[i - 1], s[i])
                         ELSE g[i - 1]
           c == CHOOSE g : g = [i \in 0 .. n |-> Then(g, i)]
<1>1. n \in Nat /\ b \in R /\ \A i \in 1 .. n : s[i] \in S
  OBVIOUS
<1>2. step \in [R \X (0 + 1 .. n) -> R]
  <2> SUFFICES ASSUME NEW r \in R, NEW i \in 1 .. n PROVE Append(r, s[i]) \in R
    OBVIOUS
  <2> QED BY <1>1
<1>3. PICK f : Recursive(f, 0, n, R, b, step)
  <2> HIDE DEF n, R, b, step
  <2> QED BY <1>1, <1>2, RecursionExists
<1>4. f \in [0 .. n -> R] /\ f[0] = b /\ \A i \in 1 .. n : f[i] = step[<<f[i - 1], i>>]
  BY <1>1, <1>3 DEF Recursive
<1>5. \A i \in 1 .. n : /\ i - 1 \in 0 .. n /\ f[i - 1] \in R
                        /\ step[<<f[i - 1], i>>] = Then(f, i)
  <2> SUFFICES ASSUME NEW i \in 1 .. n
               PROVE  /\ i - 1 \in 0 .. n /\ f[i - 1] \in R
                      /\ step[<<f[i - 1], i>>] = Then(f, i)
    OBVIOUS
  <2>1. i - 1 \in 0 .. n /\ i # 0 /\ i \in 0 + 1 .. n
    BY <1>1
  <2>2. f[i - 1] \in R
    BY <1>4, <2>1
  <2>3. <<f[i - 1], i>> \in R \X (0 + 1 .. n)
    BY <2>1, <2>2
  <2> QED BY <2>1, <2>2, <2>3
<1> HIDE DEF step
<1>6. \A i \in 0 .. n : f[i] = Then(f, i)
  <2>1. f[0] = Then(f, 0)
    BY <1>4
  <2>2. \A i \in 1 .. n : f[i] = Then(f, i)
    <3> HIDE DEF Then
    <3> QED BY <1>4, <1>5
  <2>3. \A i \in 0 .. n : i = 0 \/ i \in 1 .. n
    BY <1>1
  <2> HIDE DEF Then
  <2> QED BY <2>1, <2>2, <2>3
<1>7. c = [i \in 0 .. n |-> Then(c, i)]
  <2> f = [i \in 0 .. n |-> Then(f, i)]
    BY <1>4, <1>6
  <2> QED OBVIOUS
<1>8. Those(s, T) = c[n]
  BY Zenon DEF Those
<1> HIDE DEF c
<1>9. c \in [0 .. n -> R]
  <2> DEFINE U == {i \in 0 .. n : c[i] = f[i]}
  <2>1. 0 \in U
    BY <1>1, <1>6, <1>7
  <2>2. ASSUME NEW i \in U, i + 1 <= n PROVE i + 1 \in U
    <3>1. i + 1 \in 0 .. n /\ (i + 1) - 1 = i /\ i + 1 # 0
      BY <2>2, <1>1
    <3> QED BY <1>6, <1>7, <3>1
  <2>3. U = 0 .. n
    <3> U \in SUBSET (0 .. n) /\ 0 \in Nat
      OBVIOUS
    <3> HIDE DEF U
    <3> QED BY <1>1, <2>1, <2>2, Climb
  <2> QED BY <1>4, <1>7, <2>3
<1>10. Collects(c, s, T)
  <2>1. \A i \in 0 .. n : c[i] = Then(c, i)
    BY <1>7
  <2>2. \A i \in 1 .. n : i \in 0 .. n /\ i # 0
    BY <1>1
  <2>3. 0 \in 0 .. n
    BY <1>1
  <2> QED BY <2>1, <2>2, <2>3 DEF Collects
<1> QED BY <1>8, <1>9, <1>10

\* What has been collected is of the kind the loop looks for, and there is no more
\* of it than has been seen.
LEMMA ThoseAreSome ==
  ASSUME NEW S, NEW s \in Seq(S), NEW T
  PROVE  Those(s, T) \in Seq(S) /\ Those(s, T) \in Seq(T) /\ Len(Those(s, T)) <= Len(s)
<1>1. PICK f \in [0 .. Len(s) -> Seq(S)] : Collects(f, s, T) /\ Those(s, T) = f[Len(s)]
  BY ThoseSteps
<1> DEFINE n == Len(s)
           U == {i \in 0 .. n : f[i] \in Seq(T) /\ Len(f[i]) <= i}
<1>2. n \in Nat
  OBVIOUS
<1>3. 0 \in U
  BY <1>1 DEF Collects
<1>4. ASSUME NEW i \in U, i + 1 <= n PROVE i + 1 \in U
  <2>1. i + 1 \in 1 .. n /\ i + 1 \in 0 .. n /\ (i + 1) - 1 = i /\ f[i] \in Seq(T) /\ Len(f[i]) <= i
    BY <1>4
  <2>2. f[i + 1] = IF s[i + 1] \in T THEN Append(f[i], s[i + 1]) ELSE f[i]
    BY <1>1, <2>1 DEF Collects
  <2>3. CASE s[i + 1] \in T
    <3>1. f[i + 1] = Append(f[i], s[i + 1])
      BY <2>2, <2>3
    <3>2. Append(f[i], s[i + 1]) \in Seq(T) /\ Len(Append(f[i], s[i + 1])) = Len(f[i]) + 1
      BY <2>1, <2>3
    <3>3. Len(f[i]) + 1 <= i + 1
      BY <2>1
    <3> QED BY <2>1, <3>1, <3>2, <3>3
  <2>4. CASE s[i + 1] \notin T
    BY <2>1, <2>2, <2>4
  <2> QED BY <2>3, <2>4
<1>5. U = 0 .. n
  <2> U \in SUBSET (0 .. n) /\ 0 \in Nat
    OBVIOUS
  <2> HIDE DEF U
  <2> QED BY <1>2, <1>3, <1>4, Climb
<1>6. n \in U
  BY <1>2, <1>5
<1> QED BY <1>1, <1>6

\* Two loops that look at the same elements in the same way collect the same.
LEMMA ThoseAgree ==
  ASSUME NEW S, NEW s \in Seq(S), NEW T, NEW r \in Seq(S), NEW V, Len(s) <= Len(r),
         \A i \in 1 .. Len(s) : s[i] = r[i] /\ (s[i] \in T <=> r[i] \in V)
  PROVE  /\ Len(s) = Len(r) => Those(s, T) = Those(r, V)
         /\ Len(s) + 1 = Len(r) =>
              Those(r, V) = IF r[Len(r)] \in V THEN Append(Those(s, T), r[Len(r)]) ELSE Those(s, T)
<1> DEFINE n == Len(s)
<1>1. PICK f \in [0 .. n -> Seq(S)] : Collects(f, s, T) /\ Those(s, T) = f[n]
  BY ThoseSteps
<1>2. PICK g \in [0 .. Len(r) -> Seq(S)] : Collects(g, r, V) /\ Those(r, V) = g[Len(r)]
  BY ThoseSteps
<1> DEFINE U == {i \in 0 .. n : f[i] = g[i]}
<1>3. n \in Nat /\ Len(r) \in Nat
  OBVIOUS
<1>4. 0 \in U
  BY <1>1, <1>2 DEF Collects
<1>5. ASSUME NEW i \in U, i + 1 <= n PROVE i + 1 \in U
  <2>1. i + 1 \in 1 .. n /\ i + 1 \in 1 .. Len(r) /\ i + 1 \in 0 .. n /\ (i + 1) - 1 = i /\ f[i] = g[i]
    BY <1>5
  <2>2. f[i + 1] = IF s[i + 1] \in T THEN Append(f[i], s[i + 1]) ELSE f[i]
    BY <1>1, <2>1 DEF Collects
  <2>3. g[i + 1] = IF r[i + 1] \in V THEN Append(g[i], r[i + 1]) ELSE g[i]
    BY <1>2, <2>1 DEF Collects
  <2> QED BY <2>1, <2>2, <2>3
<1>6. U = 0 .. n
  <2> U \in SUBSET (0 .. n) /\ 0 \in Nat
    OBVIOUS
  <2> HIDE DEF U
  <2> QED BY <1>3, <1>4, <1>5, Climb
<1>7. f[n] = g[n]
  BY <1>3, <1>6
<1>8. n + 1 = Len(r) => g[n + 1] = IF r[n + 1] \in V THEN Append(g[n], r[n + 1]) ELSE g[n]
  BY <1>2, <1>3 DEF Collects
<1> QED BY <1>1, <1>2, <1>7, <1>8

\* So the longer one of them has one element to go.
LEMMA ThoseExtend ==
  ASSUME NEW S, NEW s \in Seq(S), NEW T, NEW r \in Seq(S), NEW V, Len(r) = Len(s) + 1,
         \A i \in 1 .. Len(s) : s[i] = r[i] /\ (s[i] \in T <=> r[i] \in V)
  PROVE  Those(r, V) = IF r[Len(r)] \in V THEN Append(Those(s, T), r[Len(r)]) ELSE Those(s, T)
<1> Len(s) <= Len(r) /\ Len(s) + 1 = Len(r)
  OBVIOUS
<1> QED BY ThoseAgree

\* One more element is collected or passed over.
LEMMA ThoseGrow ==
  ASSUME NEW S, NEW s \in Seq(S), NEW x \in S, NEW T
  PROVE  Those(Append(s, x), T) = IF x \in T THEN Append(Those(s, T), x) ELSE Those(s, T)
<1>1. /\ Append(s, x) \in Seq(S) /\ Len(Append(s, x)) = Len(s) + 1 /\ Len(s) \in Nat
      /\ \A i \in 1 .. Len(s) : Append(s, x)[i] = s[i]
      /\ Append(s, x)[Len(s) + 1] = x
  OBVIOUS
<1> DEFINE r == Append(s, x)
<1> HIDE DEF r
<1>2. /\ r \in Seq(S) /\ Len(r) = Len(s) + 1 /\ Len(s) \in Nat
      /\ \A i \in 1 .. Len(s) : r[i] = s[i]
      /\ r[Len(s) + 1] = x
  BY <1>1 DEF r
<1>3. Those(r, T) = IF r[Len(r)] \in T THEN Append(Those(s, T), r[Len(r)]) ELSE Those(s, T)
  BY <1>2, ThoseExtend
<1> QED BY <1>2, <1>3 DEF r

\* A loop over nothing, and one that passes over nothing.
LEMMA ThoseAreAll ==
  ASSUME NEW T, NEW s \in Seq(T)
  PROVE  Those(s, T) = s
<1>1. PICK f \in [0 .. Len(s) -> Seq(T)] : Collects(f, s, T) /\ Those(s, T) = f[Len(s)]
  BY ThoseSteps
<1> DEFINE n == Len(s)
           U == {i \in 0 .. n : Len(f[i]) = i /\ \A j \in 1 .. i : f[i][j] = s[j]}
<1>2. n \in Nat
  OBVIOUS
<1>3. 0 \in U
  BY <1>1 DEF Collects
<1>4. ASSUME NEW i \in U, i + 1 <= n PROVE i + 1 \in U
  <2>1. /\ i + 1 \in 1 .. n /\ i + 1 \in 0 .. n /\ (i + 1) - 1 = i /\ i \in 0 .. n
        /\ f[i] \in Seq(T) /\ Len(f[i]) = i /\ \A j \in 1 .. i : f[i][j] = s[j]
    BY <1>4
  <2>2. f[i + 1] = Append(f[i], s[i + 1]) /\ s[i + 1] \in T
    <3>1. s[i + 1] \in T
      BY <2>1
    <3> QED BY <1>1, <2>1, <3>1 DEF Collects
  <2>3. Len(Append(f[i], s[i + 1])) = i + 1
    BY <2>1, <2>2
  <2>4. \A j \in 1 .. i + 1 : Append(f[i], s[i + 1])[j] = s[j]
    BY <2>1, <2>2
  <2> QED BY <2>1, <2>2, <2>3, <2>4
<1>5. U = 0 .. n
  <2> U \in SUBSET (0 .. n) /\ 0 \in Nat
    OBVIOUS
  <2> HIDE DEF U
  <2> QED BY <1>2, <1>3, <1>4, Climb
<1>6. n \in U /\ f[n] \in Seq(T)
  BY <1>1, <1>2, <1>5
<1> QED BY <1>1, <1>6

LEMMA ThoseOfNone == ASSUME NEW T PROVE Those(<<>>, T) = <<>>
<1> <<>> \in Seq(T)
  OBVIOUS
<1> QED BY ThoseAreAll

-----------------------------------------------------------------------------
(* The numbering of the points *)

\* The sequences the loop over the rows extends.
Numbered ==
  /\ points \in Seq(Point) /\ hotelIDs \in Seq(Nat) /\ siteIDs \in Seq(Nat)
  /\ \A k \in DOMAIN hotelIDs : hotelIDs[k] < Len(points)
  /\ \A k \in DOMAIN siteIDs : siteIDs[k] < Len(points)

\* Indices of the points of a type.
IndicesOf(pts, type) == {i - 1 : i \in {j \in DOMAIN pts : pts[j].Type = type}}

NumberInv == Numbered /\ IdsArePositions

\* Fields are numbers when they are read as such.
LEMMA FieldIsRead ==
  ASSUME NEW f \in Field
  PROVE  ParseFloat(f) \in Int /\ (IsAmount(f) => ParseFloat(f) \in Nat)
BY DEF Field, ParseFloat, IsAmount

\* A row of seven fields is a point.
LEMMA RowIsPoint ==
  ASSUME NEW row \in Seq(Field), Len(row) >= 7, NEW id \in Nat
  PROVE  PointOf(row, id) \in Point /\ PointOf(row, id).ID = id
<1>1. \A k \in 1 .. 7 : row[k] \in Field
  BY ElementOfSeq
<1>2. \A k \in 1 .. 7 : ParseFloat(row[k]) \in Int
  BY <1>1, FieldIsRead
<1>3. QED
  BY <1>2 DEF PointOf, Point

\* A sequence that grows by something larger than all of it keeps increasing.
LEMMA AppendLarger ==
  ASSUME NEW s \in Seq(Nat), NEW n \in Nat, Increasing(s), \A k \in DOMAIN s : s[k] < n
  PROVE  /\ Append(s, n) \in Seq(Nat) /\ Increasing(Append(s, n))
         /\ \A k \in DOMAIN Append(s, n) : Append(s, n)[k] < n + 1
         /\ ToSet(Append(s, n)) = ToSet(s) \cup {n}
<1>1. /\ Append(s, n) \in Seq(Nat) /\ Len(Append(s, n)) = Len(s) + 1
      /\ \A k \in 1 .. Len(s) : Append(s, n)[k] = s[k]
      /\ Append(s, n)[Len(s) + 1] = n
      /\ DOMAIN Append(s, n) = 1 .. Len(s) + 1 /\ DOMAIN s = 1 .. Len(s)
  BY AppendProperties
<1>2. \A k \in 1 .. Len(s) : s[k] \in Nat /\ s[k] < n
  BY <1>1
<1>3. Increasing(Append(s, n))
  BY <1>1, <1>2 DEF Increasing
<1>4. \A k \in DOMAIN Append(s, n) : Append(s, n)[k] < n + 1
  BY <1>1, <1>2
<1>5. ToSet(Append(s, n)) = ToSet(s) \cup {n}
  BY <1>1 DEF ToSet
<1>6. QED
  BY <1>1, <1>3, <1>4, <1>5

\* A new point has the next index, and no other point changes its type.
LEMMA AppendIndex ==
  ASSUME NEW pts \in Seq(Point), NEW p \in Point, NEW type
  PROVE  IndicesOf(Append(pts, p), type) =
           IF p.Type = type THEN IndicesOf(pts, type) \cup {Len(pts)} ELSE IndicesOf(pts, type)
<1>1. /\ Len(Append(pts, p)) = Len(pts) + 1
      /\ \A k \in 1 .. Len(pts) : Append(pts, p)[k] = pts[k]
      /\ Append(pts, p)[Len(pts) + 1] = p
      /\ DOMAIN Append(pts, p) = 1 .. Len(pts) + 1 /\ DOMAIN pts = 1 .. Len(pts)
      /\ Len(pts) \in Nat
  BY AppendProperties
<1>2. {j \in DOMAIN Append(pts, p) : Append(pts, p)[j].Type = type} =
        IF p.Type = type THEN {j \in DOMAIN pts : pts[j].Type = type} \cup {Len(pts) + 1}
        ELSE {j \in DOMAIN pts : pts[j].Type = type}
  BY <1>1
<1>3. (Len(pts) + 1) - 1 = Len(pts)
  BY <1>1
<1>4. QED
  BY <1>2, <1>3 DEF IndicesOf

\* The loop over the rows begins without points.
LEMMA InitNumbered == Init => NumberInv
<1> SUFFICES ASSUME Init PROVE NumberInv
  OBVIOUS
<1>1. points = <<>> /\ hotelIDs = <<>> /\ siteIDs = <<>> /\ DOMAIN <<>> = {}
  BY DEF Init
<1>2. Numbered
  BY <1>1 DEF Numbered
<1>3. IdsArePositions
  BY <1>1 DEF IdsArePositions, Increasing, ToSet
<1>4. QED
  BY <1>2, <1>3 DEF NumberInv

\* A row adds a point with the next ID to one of the two lists, or is skipped.
LEMMA RowNumbered ==
  ASSUME NumberInv, Row
  PROVE  NumberInv'
<1>1. PICK line \in Lines :
        \/ Len(line) < 7 /\ UNCHANGED ids
        \/ /\ Len(line) >= 7
           /\ LET p == PointOf(line, Len(points))
              IN  /\ points' = Append(points, p)
                  /\ \/ p.Type = "hotel" /\ hotelIDs' = Append(hotelIDs, p.ID) /\ UNCHANGED siteIDs
                     \/ p.Type = "site" /\ siteIDs' = Append(siteIDs, p.ID) /\ UNCHANGED hotelIDs
  BY DEF Row
<1>2. CASE UNCHANGED ids
  BY <1>2 DEF NumberInv, Numbered, IdsArePositions, Increasing
<1>3. CASE ~UNCHANGED ids
  <2> DEFINE n == Len(points)
             p == PointOf(line, n)
  <2>1. line \in Seq(Field) /\ Len(line) >= 7 /\ n \in Nat /\ points \in Seq(Point)
    BY <1>1, <1>3, LinesAssumption, LenProperties DEF NumberInv, Numbered
  <2>2. p \in Point /\ p.ID = n
    BY <2>1, RowIsPoint
  <2>3. /\ points' = Append(points, p)
        /\ \/ p.Type = "hotel" /\ hotelIDs' = Append(hotelIDs, n) /\ siteIDs' = siteIDs
           \/ p.Type = "site" /\ siteIDs' = Append(siteIDs, n) /\ hotelIDs' = hotelIDs
    BY <1>1, <1>3, <2>2
  <2> HIDE DEF p
  <2>4. /\ points' \in Seq(Point) /\ Len(points') = n + 1
        /\ \A k \in 1 .. n : points'[k] = points[k]
        /\ points'[n + 1] = p /\ DOMAIN points' = 1 .. n + 1 /\ DOMAIN points = 1 .. n
    BY <2>1, <2>2, <2>3, AppendProperties
  <2>5. /\ hotelIDs \in Seq(Nat) /\ Increasing(hotelIDs) /\ \A k \in DOMAIN hotelIDs : hotelIDs[k] < n
        /\ siteIDs \in Seq(Nat) /\ Increasing(siteIDs) /\ \A k \in DOMAIN siteIDs : siteIDs[k] < n
        /\ \A k \in DOMAIN hotelIDs : hotelIDs[k] \in Nat
        /\ \A k \in DOMAIN siteIDs : siteIDs[k] \in Nat
    BY DEF NumberInv, Numbered, IdsArePositions
  <2>6. /\ ToSet(hotelIDs) = IndicesOf(points, "hotel")
        /\ ToSet(siteIDs) = IndicesOf(points, "site")
    BY DEF NumberInv, IdsArePositions, IndicesOf
  <2>7. \A i \in DOMAIN points' : points'[i].ID = i - 1
    BY <2>1, <2>2, <2>4 DEF NumberInv, IdsArePositions
  <2>8. \A type : IndicesOf(points', type) =
          IF p.Type = type THEN IndicesOf(points, type) \cup {n} ELSE IndicesOf(points, type)
    BY <2>1, <2>2, <2>3, AppendIndex
  <2>9. CASE p.Type = "hotel"
    <3>1. hotelIDs' = Append(hotelIDs, n) /\ siteIDs' = siteIDs
      BY <2>3, <2>9
    <3>2. /\ hotelIDs' \in Seq(Nat) /\ Increasing(hotelIDs')
          /\ \A k \in DOMAIN hotelIDs' : hotelIDs'[k] < n + 1
          /\ ToSet(hotelIDs') = ToSet(hotelIDs) \cup {n}
      BY <2>1, <2>5, <3>1, AppendLarger
    <3>3. \A k \in DOMAIN siteIDs' : siteIDs'[k] < n + 1
      BY <2>1, <2>5, <3>1
    <3>4. Numbered'
      BY <2>4, <2>5, <3>1, <3>2, <3>3 DEF Numbered
    <3>5. ToSet(hotelIDs') = IndicesOf(points', "hotel") /\ ToSet(siteIDs') = IndicesOf(points', "site")
      BY <2>6, <2>8, <2>9, <3>1, <3>2
    <3>6. IdsArePositions'
      BY <2>5, <2>7, <3>1, <3>2, <3>5 DEF IdsArePositions, IndicesOf
    <3>7. QED
      BY <3>4, <3>6 DEF NumberInv
  <2>10. CASE p.Type = "site"
    <3>1. siteIDs' = Append(siteIDs, n) /\ hotelIDs' = hotelIDs
      BY <2>3, <2>10
    <3>2. /\ siteIDs' \in Seq(Nat) /\ Increasing(siteIDs')
          /\ \A k \in DOMAIN siteIDs' : siteIDs'[k] < n + 1
          /\ ToSet(siteIDs') = ToSet(siteIDs) \cup {n}
      BY <2>1, <2>5, <3>1, AppendLarger
    <3>3. \A k \in DOMAIN hotelIDs' : hotelIDs'[k] < n + 1
      BY <2>1, <2>5, <3>1
    <3>4. Numbered'
      BY <2>4, <2>5, <3>1, <3>2, <3>3 DEF Numbered
    <3>5. ToSet(hotelIDs') = IndicesOf(points', "hotel") /\ ToSet(siteIDs') = IndicesOf(points', "site")
      BY <2>6, <2>8, <2>10, <3>1, <3>2
    <3>6. IdsArePositions'
      BY <2>5, <2>7, <3>1, <3>2, <3>5 DEF IdsArePositions, IndicesOf
    <3>7. QED
      BY <3>4, <3>6 DEF NumberInv
  <2>11. QED
    BY <2>3, <2>9, <2>10
<1>4. QED
  BY <1>2, <1>3

\* Only a row adds points.
LEMMA StepNumbered == NumberInv /\ [Next]_vars => NumberInv'
<1> SUFFICES ASSUME NumberInv, [Next]_vars PROVE NumberInv'
  OBVIOUS
<1>1. CASE UNCHANGED ids
  BY <1>1 DEF NumberInv, Numbered, IdsArePositions, Increasing
<1>2. CASE Row
  BY <1>2, RowNumbered
<1>3. UNCHANGED ids \/ Row
  BY DEF Next, vars, Open, BlankLine, Header, Tmax, Td, End, Returned
<1>4. QED
  BY <1>1, <1>2, <1>3

\* However rows are skipped, IDs are indices and each one a hotel's or a site's.
THEOREM IdsAreAlwaysPositions == Spec => []IdsArePositions
<1>1. NumberInv => IdsArePositions
  BY DEF NumberInv
<1>2. QED
  BY <1>1, InitNumbered, StepNumbered, PTL DEF Spec

-----------------------------------------------------------------------------
(* What is returned *)

\* An instance is returned without a reading error, and is made of all the loops
\* have taken from the file.
Complete ==
  inst # None =>
    /\ pc = "return" /\ ~broken
    /\ inst = InstanceOf(dCount, tMax, maxDistPerDay, points, hotelIDs, siteIDs)

\* No error of the scanner, at whichever line, lets a part of the points pass for
\* an instance, and nothing is read after an instance is made.
THEOREM NoPartialInstance == Spec => []Complete
<1>1. Init => Complete
  BY DEF Init, Complete
<1>2. Complete /\ [Next]_vars => Complete'
  <2> SUFFICES ASSUME Complete, [Next]_vars PROVE Complete'
    OBVIOUS
  <2>1. CASE UNCHANGED vars
    BY <2>1 DEF vars, Complete
  <2>2. CASE Open \/ BlankLine
    BY <2>2 DEF Open, BlankLine, Loops, Fail, Complete
  <2>3. CASE Header
    BY <2>3 DEF Header, Fail, Complete
  <2>4. CASE Tmax
    BY <2>4 DEF Tmax, Fail, Complete
  <2>5. CASE Td
    BY <2>5 DEF Td, Complete
  <2>6. CASE Row
    BY <2>6 DEF Row, Complete
  <2>7. CASE End
    BY <2>7 DEF End, Loops, Fail, Accept, Complete
  <2>8. QED
    BY <2>1, <2>2, <2>3, <2>4, <2>5, <2>6, <2>7 DEF Next, Returned
<1>3. QED
  BY <1>1, <1>2, PTL DEF Spec
-----------------------------------------------------------------------------
(* What the loops have taken from the lines read so far *)

RowLines == {line \in Lines : Len(line) >= 7}

\* The lines that count, one after the other.
LEMMA TextGrows ==
  ASSUME NEW file \in Seq(Lines)
  PROVE  /\ Text(file) \in Seq(Lines) /\ Len(Text(file)) <= Len(file)
         /\ \A i \in 1 .. Len(Text(file)) : Text(file)[i] \in Lines /\ Text(file)[i] # <<>>
         /\ \A line \in Lines : Text(Append(file, line)) =
              IF line = <<>> THEN Text(file) ELSE Append(Text(file), line)
<1> DEFINE T == {line \in Lines : line # <<>>}
<1>1. /\ Those(file, T) \in Seq(Lines) /\ Those(file, T) \in Seq(T) /\ Len(Those(file, T)) <= Len(file)
  <2> HIDE DEF T
  <2> QED BY ThoseAreSome
<1>2. \A i \in 1 .. Len(Those(file, T)) : Those(file, T)[i] \in T
  <2> HIDE DEF T
  <2> QED BY <1>1
<1>3. \A line \in Lines : Those(Append(file, line), T) =
        IF line \in T THEN Append(Those(file, T), line) ELSE Those(file, T)
  <2> HIDE DEF T
  <2> QED BY ThoseGrow
<1> QED BY <1>1, <1>2, <1>3 DEF Text

\* The lines before the last one of a longer text.
LEMMA LinesStay ==
  ASSUME NEW file \in Seq(Lines), NEW line \in Lines, line # <<>>
  PROVE  /\ Len(Text(Append(file, line))) = Len(Text(file)) + 1
         /\ \A i \in 1 .. Len(Text(file)) : Text(Append(file, line))[i] = Text(file)[i]
         /\ Text(Append(file, line))[Len(Text(file)) + 1] = line
<1>1. Text(file) \in Seq(Lines) /\ Text(Append(file, line)) = Append(Text(file), line)
  BY TextGrows
<1> QED BY <1>1, AppendProperties

\* The same, of the lines read in a step.
LEMMA LineRead ==
  ASSUME read \in Seq(Lines), NEW line \in Lines \ {<<>>}, read' = Append(read, line),
         NEW n \in Nat, Len(Text(read)) = n
  PROVE  /\ read' \in Seq(Lines) /\ Len(Text(read')) = n + 1
         /\ \A i \in 1 .. n : Text(read')[i] = Text(read)[i]
         /\ Text(read')[n + 1] = line
<1>1. line \in Lines /\ line # <<>>
  OBVIOUS
<1>2. /\ Len(Text(Append(read, line))) = n + 1
      /\ \A i \in 1 .. n : Text(Append(read, line))[i] = Text(read)[i]
      /\ Text(Append(read, line))[n + 1] = line
  <2> DEFINE now == Text(Append(read, line))
  <2>1. /\ Len(now) = Len(Text(read)) + 1
        /\ \A i \in 1 .. Len(Text(read)) : now[i] = Text(read)[i]
        /\ now[Len(Text(read)) + 1] = line
    <3> HIDE DEF now
    <3> QED BY <1>1, LinesStay DEF now
  <2> HIDE DEF now
  <2> QED BY <2>1 DEF now
<1>3. Append(read, line) \in Seq(Lines)
  BY <1>1
<1> QED BY <1>2, <1>3

\* The rows: all of the text from its fourth line on that have seven fields.
LEMMA RowsGrow ==
  ASSUME NEW file \in Seq(Lines), Len(Text(file)) >= 3
  PROVE  /\ Rows(file) \in Seq(RowLines)
         /\ Len(Text(file)) = 3 => Rows(file) = <<>>
         /\ \A line \in Lines : line # <<>> =>
              Rows(Append(file, line)) =
                IF Len(line) >= 7 THEN Append(Rows(file), line) ELSE Rows(file)
<1> DEFINE text == Text(file)
           tail == SubSeq(text, 4, Len(text))
<1>1. text \in Seq(Lines) /\ Len(text) \in Nat /\ Len(text) >= 3
  BY TextGrows
<1>2. /\ tail \in Seq(Lines) /\ Len(tail) = Len(text) - 3
      /\ \A i \in 1 .. Len(text) - 3 : tail[i] = text[i + 3]
      /\ Len(text) = 3 => tail = <<>>
  <2> DEFINE n == Len(text)
  <2> HIDE DEF text
  <2>1. n \in Int /\ 4 \in Int /\ \A i \in 4 .. n : text[i] \in Lines
    BY <1>1
  <2>2. /\ SubSeq(text, 4, n) \in Seq(Lines)
        /\ Len(SubSeq(text, 4, n)) = IF 4 <= n THEN n - 4 + 1 ELSE 0
        /\ \A i \in 1 .. n - 4 + 1 : SubSeq(text, 4, n)[i] = text[4 + i - 1]
    <3> HIDE DEF n
    <3> QED BY <2>1, SubSeqProperties
  <2>3. \A i \in 1 .. n - 3 : i \in 1 .. n - 4 + 1 /\ 4 + i - 1 = i + 3
    BY <2>1
  <2>4. n = 3 => SubSeq(text, 4, n) = <<>>
    BY SubSeqEmpty
  <2>5. Len(SubSeq(text, 4, n)) = n - 3
    <3>1. n \in Nat /\ n >= 3
      BY <1>1
    <3> HIDE DEF n
    <3>2. n - 4 + 1 = n - 3 /\ (~(4 <= n) => n - 3 = 0)
      BY <3>1
    <3> QED BY <2>2, <3>2
  <2>6. \A i \in 1 .. n - 3 : SubSeq(text, 4, n)[i] = text[i + 3]
    <3> HIDE DEF n
    <3> QED BY <2>2, <2>3
  <2> QED BY <2>2, <2>4, <2>5, <2>6
<1>3. Rows(file) = Those(tail, RowLines)
  BY DEF Rows, RowLines
<1>4. Those(tail, RowLines) \in Seq(RowLines)
  <2> HIDE DEF tail
  <2> QED BY <1>2, ThoseAreSome
<1>5. Len(text) = 3 => Those(tail, RowLines) = <<>>
  <2> HIDE DEF tail
  <2> QED BY <1>2, ThoseOfNone
<1>6. ASSUME NEW line \in Lines, line # <<>>
      PROVE  Rows(Append(file, line)) =
               IF Len(line) >= 7 THEN Append(Rows(file), line) ELSE Rows(file)
  <2>1. Text(Append(file, line)) = Append(text, line)
    BY <1>6, TextGrows
  <2>2. Rows(Append(file, line)) =
          Those(SubSeq(Append(text, line), 4, Len(Append(text, line))), RowLines)
    BY <2>1 DEF Rows, RowLines
  <2>3. SubSeq(Append(text, line), 4, Len(Append(text, line))) = Append(tail, line)
    <3> DEFINE more == Append(text, line)
               n    == Len(text)
               x    == SubSeq(more, 4, n + 1)
               y    == Append(tail, line)
    <3> HIDE DEF text, tail
    <3>1. /\ more \in Seq(Lines) /\ Len(more) = n + 1 /\ n \in Nat /\ n >= 3
          /\ \A i \in 1 .. n : more[i] = text[i]
          /\ more[n + 1] = line
      BY <1>1, AppendProperties
    <3> HIDE DEF more, n
    <3>2. n + 1 \in Int /\ 4 \in Int /\ \A i \in 4 .. n + 1 : more[i] \in Lines
      BY <3>1
    <3>3. /\ x \in Seq(Lines) /\ Len(x) = IF 4 <= n + 1 THEN (n + 1) - 4 + 1 ELSE 0
          /\ \A i \in 1 .. (n + 1) - 4 + 1 : x[i] = more[4 + i - 1]
      BY <3>2, SubSeqProperties
    <3>4. Len(x) = n - 2 /\ \A i \in 1 .. n - 2 : x[i] = more[i + 3]
      <4> \A i \in 1 .. n - 2 : i \in 1 .. (n + 1) - 4 + 1 /\ 4 + i - 1 = i + 3
        BY <3>1
      <4> QED BY <3>1, <3>3
    <3> HIDE DEF x
    <3>5. tail \in Seq(Lines) /\ Len(tail) = n - 3 /\ \A i \in 1 .. n - 3 : tail[i] = text[i + 3]
      BY <1>2 DEF n
    <3>6. /\ y \in Seq(Lines) /\ Len(y) = n - 2
          /\ \A i \in 1 .. n - 3 : y[i] = tail[i]
          /\ y[n - 2] = line
      <4>1. Len(tail) + 1 = n - 2
        BY <3>1, <3>5
      <4> QED BY <3>5, <4>1, AppendProperties
    <3> HIDE DEF y
    <3>7. \A i \in 1 .. n - 2 : x[i] = y[i]
      <4> SUFFICES ASSUME NEW i \in 1 .. n - 2 PROVE x[i] = y[i]
        OBVIOUS
      <4>1. CASE i = n - 2
        <5> i + 3 = n + 1
          BY <3>1, <4>1
        <5> QED BY <3>1, <3>4, <3>6, <4>1
      <4>2. CASE i # n - 2
        <5> i \in 1 .. n - 3 /\ i + 3 \in 1 .. n
          BY <3>1, <4>2
        <5> QED BY <3>1, <3>4, <3>5, <3>6
      <4> QED BY <4>1, <4>2
    <3>8. x = y
      BY <3>3, <3>4, <3>6, <3>7, SeqEqual
    <3>9. Len(more) = n + 1
      BY <3>1
    <3> QED BY <3>8, <3>9 DEF x, y, more
  <2>4. Those(Append(tail, line), RowLines) =
          IF line \in RowLines THEN Append(Those(tail, RowLines), line) ELSE Those(tail, RowLines)
    <3> HIDE DEF tail
    <3> QED BY <1>2, ThoseGrow
  <2> HIDE DEF text, tail
  <2> QED BY <1>3, <2>2, <2>3, <2>4 DEF RowLines
<1> QED BY <1>3, <1>4, <1>5, <1>6

\* One row more is one point more, with the next number.
LEMMA PointsGrow ==
  ASSUME NEW rows \in Seq(RowLines)
  PROVE  /\ PointsOf(rows) \in Seq(Point) /\ Len(PointsOf(rows)) = Len(rows)
         /\ \A i \in 1 .. Len(rows) : PointsOf(rows)[i] = PointOf(rows[i], i - 1)
         /\ \A row \in RowLines :
              PointsOf(Append(rows, row)) = Append(PointsOf(rows), PointOf(row, Len(rows)))
<1>1. Len(rows) \in Nat /\ DOMAIN rows = 1 .. Len(rows) /\ \A i \in 1 .. Len(rows) : rows[i] \in RowLines
  OBVIOUS
<1>2. \A row \in RowLines, id \in Nat : PointOf(row, id) \in Point
  BY RowIsPoint, LinesAssumption DEF RowLines
<1>3. \A i \in 1 .. Len(rows) : i - 1 \in Nat
  BY <1>1
<1>4. PointsOf(rows) = [i \in 1 .. Len(rows) |-> PointOf(rows[i], i - 1)]
  BY <1>1 DEF PointsOf
<1>5. \A i \in 1 .. Len(rows) : PointOf(rows[i], i - 1) \in Point
  BY <1>1, <1>2, <1>3
<1>6. PointsOf(rows) \in Seq(Point) /\ Len(PointsOf(rows)) = Len(rows)
  BY <1>1, <1>4, <1>5
<1>7. ASSUME NEW row \in RowLines
      PROVE  PointsOf(Append(rows, row)) = Append(PointsOf(rows), PointOf(row, Len(rows)))
  <2> DEFINE more == Append(rows, row)
             n    == Len(rows)
  <2>1. /\ DOMAIN more = 1 .. n + 1 /\ more[n + 1] = row
        /\ \A i \in 1 .. n : more[i] = rows[i]
    BY <1>1, AppendProperties
  <2> HIDE DEF more
  <2>2. PointsOf(more) = [i \in 1 .. n + 1 |-> PointOf(more[i], i - 1)]
    BY <2>1 DEF PointsOf
  <2>3. \A i \in 1 .. n + 1 : PointOf(more[i], i - 1) =
          IF i = n + 1 THEN PointOf(row, n) ELSE PointOf(rows[i], i - 1)
    <3> SUFFICES ASSUME NEW i \in 1 .. n + 1
                 PROVE  PointOf(more[i], i - 1) =
                          IF i = n + 1 THEN PointOf(row, n) ELSE PointOf(rows[i], i - 1)
      OBVIOUS
    <3>1. CASE i = n + 1
      <4> i - 1 = n /\ more[i] = row
        BY <1>1, <2>1, <3>1
      <4> QED BY <3>1
    <3>2. CASE i # n + 1
      <4> i \in 1 .. n
        BY <1>1, <3>2
      <4> QED BY <2>1, <3>2
    <3> QED BY <3>1, <3>2
  <2> DEFINE x == PointOf(row, n)
             s == PointsOf(rows)
             r == PointsOf(more)
  <2>4. \A i \in 1 .. n : s[i] = PointOf(rows[i], i - 1)
    BY <1>4
  <2>5. /\ DOMAIN r = 1 .. n + 1 /\ r = [i \in 1 .. n + 1 |-> r[i]]
        /\ \A i \in 1 .. n + 1 : r[i] = IF i = n + 1 THEN x ELSE s[i]
    BY <1>1, <2>2, <2>3, <2>4
  <2>6. s \in Seq(Point) /\ x \in Point /\ Len(s) = n
    BY <1>1, <1>2, <1>6
  <2> HIDE DEF x, s, r, n
  <2>7. r = Append(s, x)
    <3>1. n \in Nat
      BY <2>6
    <3>2. /\ Append(s, x) \in Seq(Point) /\ Len(Append(s, x)) = n + 1
          /\ \A i \in 1 .. n : Append(s, x)[i] = s[i]
          /\ Append(s, x)[n + 1] = x
      BY <2>6, AppendProperties
    <3>3. \A i \in 1 .. n + 1 : i = n + 1 \/ i \in 1 .. n
      BY <3>1
    <3>4. \A i \in 1 .. n : i \in 1 .. n + 1 /\ i # n + 1 /\ s[i] \in Point
      BY <2>6, <3>1
    <3>5. \A i \in 1 .. n + 1 : r[i] \in Point /\ r[i] = Append(s, x)[i]
      <4> SUFFICES ASSUME NEW i \in 1 .. n + 1 PROVE r[i] \in Point /\ r[i] = Append(s, x)[i]
        OBVIOUS
      <4>1. CASE i = n + 1
        BY <2>5, <2>6, <3>2, <4>1
      <4>2. CASE i \in 1 .. n
        BY <2>5, <3>2, <3>4, <4>2
      <4> QED BY <3>3, <4>1, <4>2
    <3>6. r \in Seq(Point) /\ Len(r) = n + 1
      BY <2>5, <3>1, <3>5
    <3> QED BY <3>2, <3>5, <3>6, SeqEqual
  <2> QED BY <2>7 DEF x, s, r, n, more
<1> QED BY <1>4, <1>6, <1>7

\* One point more is one position more among those of its type.
LEMMA NamedGrows ==
  ASSUME NEW pts \in Seq(Point), NEW p \in Point, NEW type
  PROVE  /\ Named(<<>>, type) = <<>>
         /\ Named(Append(pts, p), type) =
              IF p.Type = type THEN Append(Named(pts, type), Len(pts)) ELSE Named(pts, type)
<1> DEFINE n == Len(pts)
           r == Append(pts, p)
           s == [i \in 1 .. n |-> i - 1]
           t == [i \in 1 .. n + 1 |-> i - 1]
           T == {q \in 0 .. n - 1 : pts[q + 1].Type = type}
           V == {q \in 0 .. n : r[q + 1].Type = type}
<1>1. /\ n \in Nat /\ DOMAIN pts = 1 .. n /\ DOMAIN r = 1 .. n + 1 /\ Len(r) = n + 1
      /\ \A i \in 1 .. n : r[i] = pts[i]
      /\ r[n + 1] = p
  BY AppendProperties
<1>2. Named(pts, type) = Those(s, T)
  BY <1>1 DEF Named
<1>3. Named(r, type) = Those(t, V)
  <2>1. Len(r) - 1 = n
    BY <1>1
  <2> HIDE DEF r, n
  <2> QED BY <1>1, <2>1 DEF Named
<1>4. s \in Seq(Nat) /\ t \in Seq(Nat) /\ Len(s) = n /\ Len(t) = n + 1
  BY <1>1
<1>5. \A i \in 1 .. n : s[i] = t[i] /\ (s[i] \in T <=> t[i] \in V)
  <2> SUFFICES ASSUME NEW i \in 1 .. n PROVE s[i] = t[i] /\ (s[i] \in T <=> t[i] \in V)
    OBVIOUS
  <2>1. i - 1 \in 0 .. n - 1 /\ i - 1 \in 0 .. n /\ (i - 1) + 1 = i /\ s[i] = i - 1 /\ t[i] = i - 1
    BY <1>1
  <2> HIDE DEF r, n
  <2> QED BY <1>1, <2>1
<1>6. t[n + 1] = n /\ (n \in V <=> p.Type = type)
  BY <1>1
<1> HIDE DEF n, r, s, t, T, V
<1>7. Those(t, V) = IF t[Len(t)] \in V THEN Append(Those(s, T), t[Len(t)]) ELSE Those(s, T)
  <2> DEFINE N == Nat
  <2>1. /\ s \in Seq(N) /\ t \in Seq(N) /\ Len(t) = Len(s) + 1
        /\ \A i \in 1 .. Len(s) : s[i] = t[i] /\ (s[i] \in T <=> t[i] \in V)
    BY <1>1, <1>4, <1>5
  <2> HIDE DEF N
  <2> QED BY <2>1, ThoseExtend
<1>8. Named(<<>>, type) = <<>>
  <2> DEFINE none == [i \in DOMAIN <<>> |-> i - 1]
  <2>1. none = <<>>
    OBVIOUS
  <2> QED BY <2>1, ThoseOfNone DEF Named
<1> QED BY <1>2, <1>3, <1>4, <1>6, <1>7, <1>8 DEF n, r

HeaderTaken == Len(Text(read)[1]) >= 3 /\ dCount = Atoi(Text(read)[1][3])

TmaxTaken ==
  /\ Len(Text(read)[2]) = 1 /\ IsNumber(Text(read)[2][1])
  /\ tMax = ParseFloat(Text(read)[2][1])

TdTaken == maxDistPerDay = Budgets(Text(read)[3])

RowsTaken ==
  /\ points = PointsOf(Rows(read))
  /\ hotelIDs = Named(points, "hotel") /\ siteIDs = Named(points, "site")

Given == inst # None

\* Each loop is entered with what the ones before it took, and a failure is met
\* before the fourth line that counts, or is one of the scanner.
ReadInv ==
  /\ read \in Seq(Lines)
  /\ pc \in Loops \cup {"open", "return"}
  /\ pc \in {"open", "header"} => Text(read) = <<>>
  /\ pc = "Tmax" => Len(Text(read)) = 1
  /\ pc = "Td" => Len(Text(read)) = 2
  /\ pc = "points" \/ Given => Len(Text(read)) >= 3
  /\ pc \in {"Tmax", "Td", "points"} \/ Given => HeaderTaken
  /\ pc \in {"Td", "points"} \/ Given => TmaxTaken
  /\ pc = "points" \/ Given => TdTaken /\ RowsTaken
  /\ pc \in {"open", "header", "Tmax", "Td"} => ids = <<<<>>, <<>>, <<>>>>
  /\ pc # "return" => ~broken /\ ~Given /\ err = None
  /\ pc = "return" =>
       \/ Given /\ err = None /\ ~broken
       \/ ~Given /\ err \in Errors /\ (broken \/ Len(Text(read)) < 5)

LEMMA InitRead == Init => ReadInv
<1> SUFFICES ASSUME Init PROVE ReadInv
  OBVIOUS
<1>1. Text(<<>>) = <<>>
  BY ThoseOfNone DEF Text
<1> QED BY <1>1 DEF Init, ReadInv, Given, Loops

LEMMA OpenRead ==
  ASSUME ReadInv, Open
  PROVE  ReadInv'
<1>1. Len(Text(read)) = 0
  BY DEF Open, ReadInv
<1> QED BY <1>1 DEF Open, Fail, ReadInv, Given, Errors, Loops

LEMMA BlankRead ==
  ASSUME ReadInv, BlankLine
  PROVE  ReadInv'
<1>1. read \in Seq(Lines) /\ <<>> \in Lines /\ read' = Append(read, <<>>)
  BY DEF BlankLine, Scan, ReadInv
<1>2. Text(read') = Text(read) /\ read' \in Seq(Lines)
  BY <1>1, TextGrows
<1>3. Rows(read') = Rows(read)
  BY <1>2 DEF Rows
<1> QED BY <1>2, <1>3 DEF BlankLine, ReadInv, Given, HeaderTaken, TmaxTaken, TdTaken, RowsTaken, Loops

LEMMA HeaderRead ==
  ASSUME ReadInv, Header
  PROVE  ReadInv'
<1>1. PICK line \in Lines \ {<<>>} :
        /\ pc = "header" /\ Scan(line)
        /\ \/ Len(line) < 3 /\ Fail("header") /\ UNCHANGED dCount
           \/ Len(line) >= 3 /\ pc' = "Tmax" /\ dCount' = Atoi(line[3]) /\ UNCHANGED result
        /\ UNCHANGED <<tMax, maxDistPerDay, ids, broken>>
  BY DEF Header
<1>2. read \in Seq(Lines) /\ read' = Append(read, line) /\ read' \in Seq(Lines)
  BY <1>1 DEF Scan, ReadInv
<1>3. Len(Text(read)) = 0
  BY <1>1 DEF ReadInv
<1>4. Len(Text(read')) = 1 /\ Text(read')[1] = line
  <2> DEFINE n == 0
  <2>1. Len(Text(read')) = n + 1 /\ Text(read')[n + 1] = line
    <3>1. n \in Nat /\ Len(Text(read)) = n
      BY <1>3
    <3> HIDE DEF n
    <3> QED BY <1>2, <3>1, LineRead
  <2> QED BY <2>1
<1> QED BY <1>1, <1>2, <1>4 DEF Fail, ReadInv, Given, HeaderTaken, Errors, Loops

LEMMA TmaxRead ==
  ASSUME ReadInv, Tmax
  PROVE  ReadInv'
<1>1. PICK line \in Lines \ {<<>>} :
        /\ pc = "Tmax" /\ Scan(line)
        /\ LET number == Len(line) = 1 /\ IsNumber(line[1])
           IN  \/ ~number /\ Fail("Tmax") /\ UNCHANGED tMax
               \/ number /\ pc' = "Td" /\ tMax' = ParseFloat(line[1]) /\ UNCHANGED result
        /\ UNCHANGED <<dCount, maxDistPerDay, ids, broken>>
  BY DEF Tmax
<1>2. read \in Seq(Lines) /\ read' = Append(read, line) /\ read' \in Seq(Lines)
  BY <1>1 DEF Scan, ReadInv
<1>3. Len(Text(read)) = 1
  BY <1>1 DEF ReadInv
<1>4. Len(Text(read')) = 2 /\ Text(read')[1] = Text(read)[1] /\ Text(read')[2] = line
  <2> DEFINE n == 1
  <2>1. /\ Len(Text(read')) = n + 1 /\ Text(read')[n + 1] = line
        /\ \A i \in 1 .. n : Text(read')[i] = Text(read)[i]
    <3>1. n \in Nat /\ Len(Text(read)) = n
      BY <1>3
    <3> HIDE DEF n
    <3> QED BY <1>2, <3>1, LineRead
  <2> QED BY <2>1
<1> QED BY <1>1, <1>2, <1>4 DEF Fail, ReadInv, Given, HeaderTaken, TmaxTaken, Errors, Loops

LEMMA TdRead ==
  ASSUME ReadInv, Td
  PROVE  ReadInv'
<1>1. PICK line \in Lines \ {<<>>} :
        /\ pc = "Td" /\ Scan(line)
        /\ maxDistPerDay' = Budgets(line)
        /\ pc' = "points"
        /\ UNCHANGED <<dCount, tMax, ids, broken, result>>
  BY DEF Td
<1>2. read \in Seq(Lines) /\ read' = Append(read, line) /\ read' \in Seq(Lines)
  BY <1>1 DEF Scan, ReadInv
<1>3. Len(Text(read)) = 2
  BY <1>1 DEF ReadInv
<1>4. /\ Len(Text(read')) = 3 /\ Text(read')[1] = Text(read)[1] /\ Text(read')[2] = Text(read)[2]
      /\ Text(read')[3] = line
  <2> DEFINE n == 2
  <2>1. /\ Len(Text(read')) = n + 1 /\ Text(read')[n + 1] = line
        /\ \A i \in 1 .. n : Text(read')[i] = Text(read)[i]
    <3>1. n \in Nat /\ Len(Text(read)) = n
      BY <1>3
    <3> HIDE DEF n
    <3> QED BY <1>2, <3>1, LineRead
  <2> QED BY <2>1
<1>5. ids' = <<<<>>, <<>>, <<>>>>
  BY <1>1 DEF ReadInv
<1>6. RowsTaken'
  <2>1. Rows(read') = <<>>
    <3> DEFINE file == read'
    <3>1. file \in Seq(Lines) /\ Len(Text(file)) = 3
      BY <1>2, <1>4
    <3> HIDE DEF file
    <3>2. Rows(file) = <<>>
      <4>1. Len(Text(file)) >= 3
        BY <3>1
      <4>2. Len(Text(file)) = 3 => Rows(file) = <<>>
        BY <3>1, <4>1, RowsGrow
      <4> QED BY <3>1, <4>2
    <3> QED BY <3>2 DEF file
  <2>2. PointsOf(<<>>) = <<>>
    BY DEF PointsOf
  <2>3. \A type : Named(<<>>, type) = <<>>
    <3> SUFFICES ASSUME NEW type PROVE Named(<<>>, type) = <<>>
      OBVIOUS
    <3> [i \in DOMAIN <<>> |-> i - 1] = <<>>
      OBVIOUS
    <3> QED BY ThoseOfNone DEF Named
  <2> QED BY <1>5, <2>1, <2>2, <2>3 DEF RowsTaken
<1> QED BY <1>1, <1>2, <1>4, <1>6 DEF ReadInv, Given, HeaderTaken, TmaxTaken, TdTaken, Loops

LEMMA RowRead ==
  ASSUME ReadInv, Row
  PROVE  ReadInv'
<1>1. PICK line \in Lines \ {<<>>} :
        /\ pc = "points" /\ Scan(line)
        /\ \/ Len(line) < 7 /\ UNCHANGED ids
           \/ /\ Len(line) >= 7
              /\ LET p == PointOf(line, Len(points))
                 IN  /\ points' = Append(points, p)
                     /\ \/ p.Type = "hotel" /\ hotelIDs' = Append(hotelIDs, p.ID) /\ UNCHANGED siteIDs
                        \/ p.Type = "site" /\ siteIDs' = Append(siteIDs, p.ID) /\ UNCHANGED hotelIDs
        /\ UNCHANGED <<pc, budget, broken, result>>
  BY DEF Row
<1>2. read \in Seq(Lines) /\ read' = Append(read, line) /\ read' \in Seq(Lines)
  BY <1>1 DEF Scan, ReadInv
<1>3. Len(Text(read)) >= 3 /\ HeaderTaken /\ TmaxTaken /\ TdTaken /\ RowsTaken
  BY <1>1 DEF ReadInv
<1>4. Len(Text(read')) >= 3 /\ \A i \in 1 .. 3 : Text(read')[i] = Text(read)[i]
  BY <1>2, <1>3, LinesStay, TextGrows
<1>5. HeaderTaken' /\ TmaxTaken' /\ TdTaken'
  BY <1>1, <1>3, <1>4 DEF HeaderTaken, TmaxTaken, TdTaken
<1>6. RowsTaken'
  <2> DEFINE rows == Rows(read)
             p    == PointOf(line, Len(points))
  <2>1. /\ rows \in Seq(RowLines)
        /\ Rows(read') = IF Len(line) >= 7 THEN Append(rows, line) ELSE rows
    BY <1>2, <1>3, RowsGrow
  <2>2. CASE Len(line) < 7
    <3> Len(line) \in Nat
      BY LinesAssumption
    <3> QED BY <1>1, <1>3, <2>1, <2>2 DEF RowsTaken
  <2>3. CASE Len(line) >= 7
    <3>1. line \in RowLines /\ line \in Seq(Field) /\ Len(line) \in Nat
      BY <2>3, LinesAssumption DEF RowLines
    <3>2. /\ points \in Seq(Point) /\ Len(points) = Len(rows) /\ Len(points) \in Nat
          /\ PointsOf(Rows(read')) = Append(points, p)
      BY <1>3, <2>1, <2>3, <3>1, PointsGrow DEF RowsTaken
    <3>3. p \in Point /\ p.ID = Len(points)
      BY <2>3, <3>1, <3>2, RowIsPoint
    <3>4. /\ points' = Append(points, p)
          /\ \/ p.Type = "hotel" /\ hotelIDs' = Append(hotelIDs, Len(points)) /\ siteIDs' = siteIDs
             \/ p.Type = "site" /\ siteIDs' = Append(siteIDs, Len(points)) /\ hotelIDs' = hotelIDs
      BY <1>1, <2>3, <3>1, <3>3
    <3> HIDE DEF p, rows
    <3>5. \A type : Named(points', type) =
            IF p.Type = type THEN Append(Named(points, type), Len(points)) ELSE Named(points, type)
      BY <3>2, <3>3, <3>4, NamedGrows
    <3> QED BY <1>3, <3>2, <3>4, <3>5 DEF RowsTaken
  <2>4. Len(line) < 7 \/ Len(line) >= 7
    BY <1>1
  <2> QED BY <2>2, <2>3, <2>4
<1> QED BY <1>1, <1>2, <1>4, <1>5, <1>6 DEF ReadInv, Given, Loops

-----------------------------------------------------------------------------
(* The numbers taken *)

\* A line's budgets are numbers, one for each field if all of them are, and none
\* is negative if no field is.
LEMMA BudgetsAreNumbers ==
  ASSUME NEW line \in Seq(Field)
  PROVE  /\ Budgets(line) \in Seq(Int)
         /\ (\A i \in DOMAIN line : IsAmount(line[i])) =>
              Len(Budgets(line)) = Len(line) /\ Budgets(line) \in Seq(Nat)
<1> DEFINE found == Those(line, Numbers)
<1>1. found \in Seq(Field)
  BY ThoseAreSome
<1>2. (\A i \in DOMAIN line : IsAmount(line[i])) => found = line
  <2> SUFFICES ASSUME \A i \in DOMAIN line : line[i] \in Numbers PROVE found = line
    BY DEF IsAmount, IsNumber
  <2>1. line \in Seq(Numbers)
    BY ElementOfSeq
  <2> QED BY <2>1, ThoseAreAll
<1> HIDE DEF found
<1>3. \A d \in 1 .. Len(found) :
        ParseFloat(found[d]) \in Int /\ (IsAmount(found[d]) => ParseFloat(found[d]) \in Nat)
  BY <1>1, FieldIsRead
<1>4. Budgets(line) = [d \in 1 .. Len(found) |-> ParseFloat(found[d])]
  BY <1>1 DEF Budgets, found
<1>5. Len(found) \in Nat
  BY <1>1
<1>6. Budgets(line) \in Seq(Int) /\ Len(Budgets(line)) = Len(found)
  BY <1>3, <1>4, <1>5
<1>7. ASSUME \A i \in DOMAIN line : IsAmount(line[i]) PROVE Budgets(line) \in Seq(Nat)
  <2>1. \A d \in 1 .. Len(found) : ParseFloat(found[d]) \in Nat
    BY <1>2, <1>3, <1>5, <1>7
  <2> QED BY <1>4, <1>5, <2>1
<1> QED BY <1>2, <1>6, <1>7

\* What the loops have stored are numbers, and no more lines are read than there are.
ValueInv ==
  /\ Len(read) <= MaxLines /\ broken \in BOOLEAN
  /\ dCount \in Int /\ tMax \in Int /\ maxDistPerDay \in Seq(Int)

LEMMA InitValues == Init => ValueInv
<1> SUFFICES ASSUME Init PROVE ValueInv
  OBVIOUS
<1>1. Len(<<>>) <= MaxLines /\ <<>> \in Seq(Int)
  BY LinesAssumption
<1>2. 0 \in Int
  OBVIOUS
<1> QED BY <1>1, <1>2 DEF Init, ValueInv

\* A line longer than the last is still one of at most MaxLines.
LEMMA ScanFits ==
  ASSUME NEW line \in Lines, read \in Seq(Lines), Scan(line)
  PROVE  Len(read') <= MaxLines
<1>1. Len(read) \in Nat /\ Len(Append(read, line)) = Len(read) + 1
  BY AppendProperties
<1>2. Len(read) < MaxLines /\ read' = Append(read, line) /\ MaxLines \in Nat
  BY LinesAssumption DEF Scan
<1> QED BY <1>1, <1>2

LEMMA StepValues ==
  ASSUME ReadInv, ValueInv, [Next]_vars
  PROVE  ValueInv'
<1>1. read \in Seq(Lines)
  BY DEF ReadInv
<1>2. CASE Open \/ End \/ UNCHANGED vars
  BY <1>2 DEF Open, End, vars, ValueInv
<1>3. CASE BlankLine
  BY <1>1, <1>3, ScanFits DEF BlankLine, ValueInv
<1>4. CASE Header
  <2>1. PICK line \in Lines \ {<<>>} :
          /\ Scan(line) /\ UNCHANGED <<tMax, maxDistPerDay, broken>>
          /\ dCount' = dCount \/ (Len(line) >= 3 /\ dCount' = Atoi(line[3]))
    <3>1. PICK line \in Lines \ {<<>>} :
            /\ pc = "header" /\ Scan(line)
            /\ \/ Len(line) < 3 /\ Fail("header") /\ UNCHANGED dCount
               \/ Len(line) >= 3 /\ pc' = "Tmax" /\ dCount' = Atoi(line[3]) /\ UNCHANGED result
            /\ UNCHANGED <<tMax, maxDistPerDay, ids, broken>>
      BY <1>4 DEF Header
    <3>2. /\ Scan(line) /\ UNCHANGED <<tMax, maxDistPerDay, broken>>
          /\ dCount' = dCount \/ (Len(line) >= 3 /\ dCount' = Atoi(line[3]))
      BY <3>1
    <3> QED BY <3>2
  <2>2. Len(line) >= 3 => Atoi(line[3]) \in Int
    <3> SUFFICES ASSUME Len(line) >= 3 PROVE Atoi(line[3]) \in Int
      OBVIOUS
    <3>1. line \in Seq(Field)
      BY LinesAssumption
    <3>2. line[3] \in Field
      BY <3>1
    <3> QED BY <3>2 DEF Atoi, Field
  <2> QED BY <1>1, <2>1, <2>2, ScanFits DEF ValueInv
<1>5. CASE Tmax
  <2>1. PICK line \in Lines \ {<<>>} :
          /\ Scan(line) /\ UNCHANGED <<dCount, maxDistPerDay, broken>>
          /\ tMax' = tMax \/ (IsNumber(line[1]) /\ tMax' = ParseFloat(line[1]))
    <3>1. PICK line \in Lines \ {<<>>} :
            /\ pc = "Tmax" /\ Scan(line)
            /\ LET number == Len(line) = 1 /\ IsNumber(line[1])
               IN  \/ ~number /\ Fail("Tmax") /\ UNCHANGED tMax
                   \/ number /\ pc' = "Td" /\ tMax' = ParseFloat(line[1]) /\ UNCHANGED result
            /\ UNCHANGED <<dCount, maxDistPerDay, ids, broken>>
      BY <1>5 DEF Tmax
    <3>2. /\ Scan(line) /\ UNCHANGED <<dCount, maxDistPerDay, broken>>
          /\ tMax' = tMax \/ (IsNumber(line[1]) /\ tMax' = ParseFloat(line[1]))
      BY <3>1
    <3> QED BY <3>2
  <2>2. IsNumber(line[1]) => ParseFloat(line[1]) \in Int
    BY FieldIsRead DEF IsNumber, Numbers
  <2> QED BY <1>1, <2>1, <2>2, ScanFits DEF ValueInv
<1>6. CASE Td
  <2>1. PICK line \in Lines \ {<<>>} :
          /\ Scan(line) /\ UNCHANGED <<dCount, tMax, broken>>
          /\ maxDistPerDay' = Budgets(line)
    BY <1>6 DEF Td
  <2>2. line \in Seq(Field)
    BY LinesAssumption
  <2>3. maxDistPerDay' \in Seq(Int)
    BY <2>1, <2>2, BudgetsAreNumbers
  <2> QED BY <1>1, <2>1, <2>3, ScanFits DEF ValueInv
<1>7. CASE Row
  <2>1. PICK line \in Lines \ {<<>>} :
          Scan(line) /\ UNCHANGED <<dCount, tMax, maxDistPerDay, broken>>
    BY <1>7 DEF Row
  <2> QED BY <1>1, <2>1, ScanFits DEF ValueInv
<1> QED BY <1>2, <1>3, <1>4, <1>5, <1>6, <1>7 DEF Next, Returned

IsMetric(M, n) ==
  \A p, q, r \in 1 .. n : M[p][p] = 0 /\ M[p][q] = M[q][p] /\ M[p][r] <= M[p][q] + M[q][r]

\* The matrix of the points of rows: distances, and those of a metric.
LEMMA MatrixOfRows ==
  ASSUME NEW rows \in Seq(RowLines), NEW pts, pts = PointsOf(rows)
  PROVE  DistMatrixOf(pts) \in Seq(Seq(Nat)) /\ IsMetric(DistMatrixOf(pts), Len(pts))
<1> DEFINE n == Len(pts)
           Places == {Place(PointOf(row, 0)) : row \in {line \in Lines : Len(line) >= 7}}
           D(p, q) == Distance(Place(pts[p]), Place(pts[q]))
           M == DistMatrixOf(pts)
<1>1. /\ pts \in Seq(Point) /\ Len(rows) = n /\ n \in Nat /\ DOMAIN pts = 1 .. n
      /\ \A p \in 1 .. n : pts[p] = PointOf(rows[p], p - 1)
  BY PointsGrow
<1>2. \A p \in 1 .. n : Place(pts[p]) \in Places
  <2> SUFFICES ASSUME NEW p \in 1 .. n PROVE Place(pts[p]) \in Places
    OBVIOUS
  <2>1. rows[p] \in RowLines
    BY <1>1
  <2>2. Place(pts[p]) = Place(PointOf(rows[p], 0))
    <3>1. \A row, id : Place(PointOf(row, id)) = Place(PointOf(row, 0))
      BY DEF Place, PointOf
    <3> QED BY <1>1, <3>1
  <2> QED BY <2>1, <2>2 DEF RowLines
<1>3. \A a, b, c \in Places :
        /\ Distance(a, b) \in Nat /\ Distance(a, b) = Distance(b, a)
        /\ Distance(a, c) <= Distance(a, b) + Distance(b, c)
  BY DistanceAssumption
<1>4. \A p, q, r \in 1 .. n :
        D(p, q) \in Nat /\ D(p, q) = D(q, p) /\ D(p, r) <= D(p, q) + D(q, r)
  <2> HIDE DEF Places
  <2> QED BY <1>2, <1>3
<1>5. M = [p \in 1 .. n |-> [q \in 1 .. n |-> IF p = q THEN 0 ELSE IF p < q THEN D(p, q) ELSE D(q, p)]]
  BY <1>1 DEF DistMatrixOf
<1> HIDE DEF M, D, n, Places
<1>6. \A p, q \in 1 .. n : M[p][q] = IF p = q THEN 0 ELSE D(p, q)
  BY <1>4, <1>5
<1>7. \A p \in 1 .. n : M[p] \in Seq(Nat)
  <2> SUFFICES ASSUME NEW p \in 1 .. n PROVE M[p] \in Seq(Nat)
    OBVIOUS
  <2> DEFINE row == [q \in 1 .. n |-> IF p = q THEN 0 ELSE IF p < q THEN D(p, q) ELSE D(q, p)]
  <2>1. M[p] = row
    BY <1>5
  <2>2. \A q \in 1 .. n : row[q] \in Nat
    BY <1>4
  <2>3. row = [q \in 1 .. n |-> row[q]]
    OBVIOUS
  <2> HIDE DEF row
  <2>4. row \in [1 .. n -> Nat]
    BY <2>2, <2>3
  <2> QED BY <1>1, <2>1, <2>4
<1>8. M \in Seq(Seq(Nat))
  <2>1. M = [p \in 1 .. n |-> M[p]]
    BY <1>5
  <2>2. M \in [1 .. n -> Seq(Nat)]
    BY <1>7, <2>1
  <2> QED BY <1>1, <2>2
<1>9. \A p, q, r \in 1 .. n :
        M[p][p] = 0 /\ M[p][q] = M[q][p] /\ M[p][r] <= M[p][q] + M[q][r]
  <2> SUFFICES ASSUME NEW p \in 1 .. n, NEW q \in 1 .. n, NEW r \in 1 .. n
               PROVE  M[p][p] = 0 /\ M[p][q] = M[q][p] /\ M[p][r] <= M[p][q] + M[q][r]
    OBVIOUS
  <2> DEFINE a == D(p, q)
             b == D(q, r)
             c == D(p, r)
  <2>1. /\ a \in Nat /\ b \in Nat /\ c \in Nat /\ c <= a + b /\ a = D(q, p)
        /\ D(p, p) \in Nat /\ (p = q => c = b) /\ (q = r => c = a)
    BY <1>4
  <2>2. /\ M[p][q] = IF p = q THEN 0 ELSE a
        /\ M[q][p] = IF q = p THEN 0 ELSE D(q, p)
        /\ M[q][r] = IF q = r THEN 0 ELSE b
        /\ M[p][r] = IF p = r THEN 0 ELSE c
        /\ M[p][p] = 0
    BY <1>6
  <2> HIDE DEF a, b, c
  <2> QED BY <2>1, <2>2
<1>10. IsMetric(M, n)
  BY <1>9 DEF IsMetric
<1> QED BY <1>8, <1>10 DEF M, n

-----------------------------------------------------------------------------
(* The end of the file *)

\* What the last loop leaves can be put together.
LEMMA InstanceIsMade ==
  ASSUME ReadInv, NumberInv, ValueInv, pc = "points"
  PROVE  InstanceOf(dCount, tMax, maxDistPerDay, points, hotelIDs, siteIDs) \in Instance
<1>1. Rows(read) \in Seq(RowLines) /\ points = PointsOf(Rows(read))
  BY RowsGrow DEF ReadInv, RowsTaken
<1>2. DistMatrixOf(points) \in Seq(Seq(Nat))
  BY <1>1, MatrixOfRows
<1>3. points \in Seq(Point) /\ hotelIDs \in Seq(Nat) /\ siteIDs \in Seq(Nat)
  BY DEF NumberInv, Numbered
<1>4. dCount \in Int /\ tMax \in Int /\ maxDistPerDay \in Seq(Int)
  BY DEF ValueInv
<1> DEFINE M == DistMatrixOf(points)
           e == IF Len(points) >= 2 THEN 1 ELSE 0
<1>5. e \in {0, 1}
  OBVIOUS
<1> HIDE DEF M, e
<1>6. [NbDays |-> dCount, MaxDist |-> tMax, MaxDistPerDay |-> maxDistPerDay, Points |-> points,
       HotelIDs |-> hotelIDs, SiteIDs |-> siteIDs, DistMatrix |-> M,
       StartHotelID |-> 0, EndHotelID |-> e] \in Instance
  BY <1>2, <1>3, <1>4, <1>5 DEF Instance, M
<1> QED BY <1>6 DEF InstanceOf, M, e

\* The file ends, or cannot be read any further: an error of each loop but the
\* last comes before the fourth line, the last one accepts or sees the scanner's.
LEMMA EndRead ==
  ASSUME ReadInv, NumberInv, ValueInv, End
  PROVE  ReadInv'
<1>1. UNCHANGED <<read, budget, ids>> /\ pc \in Loops /\ pc' = "return" /\ broken' \in BOOLEAN
  BY DEF End, Fail, Accept
<1>2. Len(Text(read)) \in Nat
  BY TextGrows DEF ReadInv
<1>3. CASE pc # "points" /\ Fail(pc)
  <2>1. Len(Text(read)) < 5
    <3>1. /\ pc = "header" => Len(Text(read)) = 0
          /\ pc = "Tmax" => Len(Text(read)) = 1
          /\ pc = "Td" => Len(Text(read)) = 2
      BY DEF ReadInv
    <3>2. pc = "header" \/ pc = "Tmax" \/ pc = "Td"
      BY <1>1, <1>3 DEF Loops
    <3>3. Len(Text(read)) = 0 \/ Len(Text(read)) = 1 \/ Len(Text(read)) = 2
      BY <3>1, <3>2
    <3> DEFINE k == Len(Text(read))
    <3> HIDE DEF k
    <3>4. k = 0 \/ k = 1 \/ k = 2
      BY <3>3 DEF k
    <3>5. k < 5
      BY <3>4
    <3> QED BY <3>5 DEF k
  <2>2. ~Given' /\ err' \in Errors
    BY <1>1, <1>3 DEF Fail, ReadInv, Given, Loops, Errors
  <2> QED BY <1>1, <2>1, <2>2 DEF ReadInv, Loops
<1>4. CASE pc = "points" /\ broken' /\ Fail("reading")
  <2>1. ~Given' /\ err' \in Errors
    BY <1>4 DEF Fail, ReadInv, Given, Errors
  <2> QED BY <1>1, <1>4, <2>1 DEF ReadInv, Loops
<1>5. CASE pc = "points" /\ ~broken' /\ Accept
  <2>1. inst' \in Instance /\ err' = None
    BY <1>5, InstanceIsMade DEF Accept, ReadInv
  <2>2. Given' /\ err' = None
    BY <2>1, NoneAssumption DEF Given
  <2>3. HeaderTaken' /\ TmaxTaken' /\ TdTaken' /\ RowsTaken' /\ Len(Text(read)) >= 3
    BY <1>1, <1>5 DEF ReadInv, HeaderTaken, TmaxTaken, TdTaken, RowsTaken
  <2> QED BY <1>1, <1>5, <2>2, <2>3 DEF ReadInv, Loops
<1> QED BY <1>3, <1>4, <1>5 DEF End

\* Nothing of it changes in a step that changes nothing.
LEMMA StayRead ==
  ASSUME ReadInv, UNCHANGED vars
  PROVE  ReadInv'
BY DEF vars, ReadInv, Given, HeaderTaken, TmaxTaken, TdTaken, RowsTaken

\* The invariant of the four loops.
Reads == ReadInv /\ NumberInv /\ ValueInv /\ inst \in Instance \cup {None}

LEMMA StepReads == Reads /\ [Next]_vars => Reads'
<1> SUFFICES ASSUME ReadInv, NumberInv, ValueInv, inst \in Instance \cup {None}, [Next]_vars
             PROVE  Reads'
  BY DEF Reads
<1>1. ReadInv'
  BY OpenRead, BlankRead, HeaderRead, TmaxRead, TdRead, RowRead, EndRead, StayRead DEF Next, Returned
<1>2. NumberInv' /\ ValueInv'
  BY StepNumbered, StepValues
<1>3. inst' \in Instance \cup {None}
  <2>1. CASE UNCHANGED inst
    BY <2>1
  <2>2. CASE pc = "points" /\ Accept
    BY <2>2, InstanceIsMade DEF Accept
  <2>3. CASE Open \/ BlankLine \/ Td \/ Row
    BY <2>1, <2>3 DEF Open, Fail, BlankLine, Td, Row
  <2>4. CASE Header
    BY <2>1, <2>4 DEF Header, Fail
  <2>5. CASE Tmax
    BY <2>1, <2>5 DEF Tmax, Fail
  <2>6. CASE End
    BY <2>1, <2>2, <2>6 DEF End, Fail
  <2>7. CASE UNCHANGED vars
    BY <2>1, <2>7 DEF vars
  <2> QED BY <2>3, <2>4, <2>5, <2>6, <2>7 DEF Next, Returned
<1> QED BY <1>1, <1>2, <1>3 DEF Reads

LEMMA LoopsRead == Spec => []Reads
<1>1. Init => Reads
  BY InitRead, InitNumbered, InitValues DEF Reads, Init
<1>2. QED
  BY <1>1, StepReads, PTL DEF Spec

\* Whatever lines a file has, each field is converted to a number before it is
\* stored as one, and only whole instances and known errors are returned.
THEOREM ParserTyped == Spec => []TypeOK
<1>1. Reads => TypeOK
  <2> SUFFICES ASSUME Reads PROVE TypeOK
    OBVIOUS
  <2>1. /\ read \in Seq(Lines) /\ pc \in {"open", "header", "Tmax", "Td", "points", "return"}
        /\ err \in Errors \cup {None}
    BY DEF Reads, ReadInv, Loops
  <2> QED BY <2>1 DEF Reads, ValueInv, NumberInv, Numbered, TypeOK
<1>2. QED
  BY <1>1, LoopsRead, PTL

\* What is returned is the reading of the whole file, or an error.
THEOREM WholeFileIsRead == Spec => []WholeFileOrError
<1>1. Reads /\ Complete => WholeFileOrError
  <2> SUFFICES ASSUME ReadInv, Complete PROVE WholeFileOrError
    BY DEF Reads
  <2>1. /\ inst = None \/ err = None
        /\ pc = "return" => inst # None \/ err # None
    BY NoneAssumption DEF ReadInv, Given
  <2>2. ASSUME inst # None PROVE ~broken /\ inst = Reading(read)
    <3>1. HeaderTaken /\ TmaxTaken /\ TdTaken /\ RowsTaken
      BY <2>2 DEF ReadInv, Given
    <3>2. inst = InstanceOf(dCount, tMax, maxDistPerDay, points, hotelIDs, siteIDs) /\ ~broken
      BY <2>2 DEF Complete
    <3>3. InstanceOf(dCount, tMax, maxDistPerDay, points, hotelIDs, siteIDs) = Reading(read)
      BY <3>1 DEF Reading, HeaderTaken, TmaxTaken, TdTaken, RowsTaken
    <3> QED BY <3>2, <3>3
  <2> QED BY <2>1, <2>2 DEF WholeFileOrError
<1>2. QED
  BY <1>1, LoopsRead, NoPartialInstance, PTL

-----------------------------------------------------------------------------
(* Files of the format *)

\* The text of such a file: its rows are all of its lines from the fourth on, the
\* first two of them are hotels, and its amounts are read as such.
LEMMA FormatIsRead ==
  ASSUME NEW file \in Seq(Lines), OfTheFormat(file)
  PROVE  LET text == Text(file)
             pts  == PointsOf(Rows(file))
         IN  /\ Rows(file) \in Seq(RowLines) /\ Len(pts) >= 2
             /\ pts[1].Type = "hotel" /\ pts[2].Type = "hotel"
             /\ Atoi(text[1][3]) \in Nat \ {0}
             /\ Len(Budgets(text[3])) = Atoi(text[1][3])
             /\ ParseFloat(text[2][1]) \in Nat /\ Budgets(text[3]) \in Seq(Nat)
             /\ \A p \in ToSet(pts) :
                  {p.Score, p.ServiceTime, p.OpenTime, p.CloseTime} \subseteq Nat
<1> DEFINE text == Text(file)
           rows == SubSeq(text, 4, Len(text))
           pts  == PointsOf(Rows(file))
<1>1. text \in Seq(Lines) /\ \A i \in 1 .. Len(text) : text[i] \in Lines /\ text[i] # <<>>
  BY TextGrows
<1>2. Len(text) \in Nat /\ Len(text) >= 5
  BY <1>1 DEF OfTheFormat
<1>3. /\ text[1] \in Seq(Field) /\ text[3] \in Seq(Field) /\ text[3] # <<>>
      /\ Len(text[1]) = 3 /\ \A i \in 1 .. 3 : text[1][i] \in Field /\ text[1][i].kind = "int"
  <2>1. text[1] \in Lines /\ text[3] \in Lines /\ text[3] # <<>>
    BY <1>1, <1>2
  <2>2. text[1] \in Seq(Field) /\ text[3] \in Seq(Field)
    BY <2>1, LinesAssumption
  <2>3. Len(text[1]) = 3 /\ \A i \in 1 .. 3 : text[1][i].kind = "int"
    BY DEF OfTheFormat
  <2>4. \A i \in 1 .. 3 : text[1][i] \in Field
    BY <2>2, <2>3
  <2> QED BY <2>1, <2>2, <2>3, <2>4
<1>4. \A i \in 1 .. 3 : text[1][i].value \in Nat
  <2>1. \A i \in 1 .. 3 : text[1][i].value >= 0
    BY DEF OfTheFormat, IsAmount
  <2> QED BY <1>3, <2>1 DEF Field
<1>5. Atoi(text[1][3]) = Len(text[3])
  <2>1. text[1][3].kind = "int"
    BY <1>3
  <2>2. Len(text[3]) = text[1][3].value
    BY DEF OfTheFormat
  <2> QED BY <2>1, <2>2 DEF Atoi
<1>6. Len(text[3]) \in Nat \ {0}
  BY <1>3
<1>7. Len(Budgets(text[3])) = Len(text[3]) /\ Budgets(text[3]) \in Seq(Nat)
  <2> \A i \in DOMAIN text[3] : IsAmount(text[3][i])
    BY DEF OfTheFormat
  <2> QED BY <1>3, BudgetsAreNumbers
<1>8. \A r \in DOMAIN rows :
        /\ Len(rows[r]) = 7 /\ (rows[r][1].kind = "hotel" <=> r <= text[1][2].value + 2)
        /\ \A i \in 4 .. 7 : IsAmount(rows[r][i])
  BY DEF OfTheFormat
<1>9. rows \in Seq(Lines) /\ Len(rows) \in Nat /\ Len(rows) >= 2
  <2> DEFINE n == Len(text)
  <2> HIDE DEF text
  <2>1. n \in Int /\ 4 \in Int /\ \A i \in 4 .. n : text[i] \in Lines
    BY <1>1
  <2>2. rows \in Seq(Lines) /\ Len(rows) = IF 4 <= n THEN n - 4 + 1 ELSE 0
    <3> HIDE DEF n
    <3>1. /\ SubSeq(text, 4, n) \in Seq(Lines)
          /\ Len(SubSeq(text, 4, n)) = IF 4 <= n THEN n - 4 + 1 ELSE 0
      BY <2>1, SubSeqProperties
    <3> QED BY <3>1 DEF n
  <2> HIDE DEF n, rows
  <2>3. n >= 5 /\ n \in Nat
    BY <1>2 DEF n
  <2> QED BY <2>2, <2>3
<1> HIDE DEF rows
<1>10. rows \in Seq(RowLines)
  <2>1. \A r \in 1 .. Len(rows) : rows[r] \in RowLines
    <3> SUFFICES ASSUME NEW r \in 1 .. Len(rows) PROVE rows[r] \in RowLines
      OBVIOUS
    <3>1. r \in DOMAIN rows /\ rows[r] \in Lines
      BY <1>9
    <3>2. rows[r] \in Lines /\ Len(rows[r]) = 7
      BY <1>8, <3>1
    <3> DEFINE line == rows[r]
    <3>3. line \in Lines /\ Len(line) = 7
      BY <3>2
    <3> HIDE DEF line
    <3>4. Len(line) >= 7
      BY <3>3
    <3>5. line \in RowLines
      BY <3>3, <3>4 DEF RowLines
    <3> QED BY <3>5 DEF line
  <2> QED BY <1>9, <2>1
<1>11. Rows(file) = rows
  <2>1. Rows(file) = Those(rows, RowLines)
    BY DEF Rows, RowLines, rows
  <2> QED BY <1>10, <2>1, ThoseAreAll
<1>12. Len(pts) = Len(rows) /\ \A i \in 1 .. Len(rows) : pts[i] = PointOf(rows[i], i - 1)
  BY <1>10, <1>11, PointsGrow
<1>13. \A i \in 1 .. 2 : pts[i].Type = "hotel"
  <2> SUFFICES ASSUME NEW i \in 1 .. 2 PROVE pts[i].Type = "hotel"
    OBVIOUS
  <2>1. i \in DOMAIN rows /\ i \in 1 .. Len(rows) /\ i <= text[1][2].value + 2
    BY <1>4, <1>9
  <2>2. rows[i][1].kind = "hotel"
    BY <1>8, <2>1
  <2>3. pts[i] = PointOf(rows[i], i - 1)
    BY <1>12, <2>1
  <2> QED BY <2>2, <2>3 DEF PointOf
<1>14. ParseFloat(text[2][1]) \in Nat
  <2>1. text[2] \in Seq(Field) /\ Len(text[2]) = 1 /\ IsAmount(text[2][1])
    BY <1>1, <1>2, LinesAssumption DEF OfTheFormat
  <2>2. text[2][1] \in Field
    BY <2>1
  <2> QED BY <2>1, <2>2, FieldIsRead
<1>15. ASSUME NEW p \in ToSet(pts)
       PROVE  {p.Score, p.ServiceTime, p.OpenTime, p.CloseTime} \subseteq Nat
  <2>1. PICK r \in 1 .. Len(rows) : p = PointOf(rows[r], r - 1)
    BY <1>9, <1>12 DEF ToSet
  <2>2. rows[r] \in Seq(Field) /\ Len(rows[r]) = 7 /\ \A i \in 4 .. 7 : IsAmount(rows[r][i])
    BY <1>8, <1>9, LinesAssumption
  <2>3. ASSUME NEW i \in 4 .. 7 PROVE ParseFloat(rows[r][i]) \in Nat
    <3>1. i \in 1 .. 7 /\ rows[r][i] \in Field /\ IsAmount(rows[r][i])
      BY <2>2
    <3> QED BY <3>1, FieldIsRead
  <2> QED BY <2>1, <2>3 DEF PointOf
<1> HIDE DEF text, pts
<1>16. /\ Rows(file) \in Seq(RowLines) /\ Len(pts) >= 2
       /\ pts[1].Type = "hotel" /\ pts[2].Type = "hotel"
       /\ Atoi(text[1][3]) \in Nat \ {0}
       /\ Len(Budgets(text[3])) = Atoi(text[1][3])
       /\ ParseFloat(text[2][1]) \in Nat /\ Budgets(text[3]) \in Seq(Nat)
  BY <1>5, <1>6, <1>7, <1>9, <1>10, <1>11, <1>12, <1>13, <1>14
<1> QED BY <1>15, <1>16 DEF text, pts

\* The numbering makes the IDs of hotels and sites a partition of the indices.
LEMMA IdsPartition ==
  ASSUME NumberInv
  PROVE  /\ ToSet(hotelIDs) \cup ToSet(siteIDs) = 0 .. Len(points) - 1
         /\ ToSet(hotelIDs) \cap ToSet(siteIDs) = {}
         /\ IsInjective(siteIDs)
         /\ \A i \in DOMAIN points : points[i].Type = "hotel" => i - 1 \in ToSet(hotelIDs)
<1>1. /\ points \in Seq(Point) /\ DOMAIN points = 1 .. Len(points) /\ Len(points) \in Nat
      /\ \A i \in DOMAIN points : points[i].Type \in {"hotel", "site"}
  <2>1. points \in Seq(Point)
    BY DEF NumberInv, Numbered
  <2>2. \A i \in DOMAIN points : points[i] \in Point
    BY <2>1
  <2>3. \A p \in Point : p.Type \in {"hotel", "site"}
    BY DEF Point
  <2> QED BY <2>1, <2>2, <2>3
<1>2. /\ ToSet(hotelIDs) = {i - 1 : i \in {j \in DOMAIN points : points[j].Type = "hotel"}}
      /\ ToSet(siteIDs) = {i - 1 : i \in {j \in DOMAIN points : points[j].Type = "site"}}
      /\ Increasing(siteIDs)
  BY DEF NumberInv, IdsArePositions
<1>3. ToSet(hotelIDs) \cup ToSet(siteIDs) = {i - 1 : i \in 1 .. Len(points)}
  BY <1>1, <1>2
<1>4. {i - 1 : i \in 1 .. Len(points)} = 0 .. Len(points) - 1
  <2> DEFINE n == Len(points)
  <2>1. n \in Nat
    BY <1>1
  <2> HIDE DEF n
  <2>2. \A j \in 0 .. n - 1 : j + 1 \in 1 .. n /\ (j + 1) - 1 = j
    BY <2>1
  <2>3. \A i \in 1 .. n : i - 1 \in 0 .. n - 1
    BY <2>1
  <2>4. {i - 1 : i \in 1 .. n} = 0 .. n - 1
    BY <2>2, <2>3
  <2> QED BY <2>4 DEF n
<1>5. ToSet(hotelIDs) \cap ToSet(siteIDs) = {}
  <2> SUFFICES ASSUME NEW i \in DOMAIN points, NEW j \in DOMAIN points, i - 1 = j - 1,
                      points[i].Type = "hotel", points[j].Type = "site"
               PROVE  FALSE
    BY <1>2
  <2>1. i = j
    BY <1>1
  <2> QED BY <2>1
<1>6. IsInjective(siteIDs)
  <2>1. siteIDs \in Seq(Nat) /\ DOMAIN siteIDs = 1 .. Len(siteIDs) /\ Len(siteIDs) \in Nat
    BY DEF NumberInv, Numbered
  <2>2. \A i, j \in DOMAIN siteIDs : siteIDs[i] = siteIDs[j] => i = j
    <3> SUFFICES ASSUME NEW i \in DOMAIN siteIDs, NEW j \in DOMAIN siteIDs, i # j
                 PROVE  siteIDs[i] # siteIDs[j]
      OBVIOUS
    <3>1. i \in Nat /\ j \in Nat /\ siteIDs[i] \in Nat /\ siteIDs[j] \in Nat
      BY <2>1
    <3>2. i < j => siteIDs[i] < siteIDs[j]
      BY <1>2 DEF Increasing
    <3>3. j < i => siteIDs[j] < siteIDs[i]
      BY <1>2 DEF Increasing
    <3> QED BY <3>1, <3>2, <3>3
  <2> QED BY <2>2 DEF IsInjective
<1>7. \A i \in DOMAIN points : points[i].Type = "hotel" => i - 1 \in ToSet(hotelIDs)
  BY <1>2
<1> QED BY <1>3, <1>4, <1>5, <1>6, <1>7

\* A file of the format that can be read to its end is accepted, and what is made
\* of it has what the rest of the program takes for granted.
THEOREM FormatFilesAreUsable == Spec => []FormatIsUsable
<1>1. Reads /\ Complete => FormatIsUsable
  <2> SUFFICES ASSUME ReadInv, NumberInv, Complete, pc = "return", ~broken, OfTheFormat(read)
               PROVE  inst # None /\ Usable(inst)
    BY DEF Reads, FormatIsUsable
  <2>1. read \in Seq(Lines) /\ Len(Text(read)) >= 5 /\ Len(Text(read)) \in Nat
    BY TextGrows DEF ReadInv, OfTheFormat
  <2>2. inst # None
    BY <2>1 DEF ReadInv, Given
  <2>3. HeaderTaken /\ TmaxTaken /\ TdTaken /\ RowsTaken
    BY <2>2 DEF ReadInv, Given
  <2>4. inst = InstanceOf(dCount, tMax, maxDistPerDay, points, hotelIDs, siteIDs)
    BY <2>2 DEF Complete
  <2> DEFINE n == Len(points)
             M == DistMatrixOf(points)
  <2>5. /\ inst.NbDays = dCount /\ inst.MaxDist = tMax /\ inst.MaxDistPerDay = maxDistPerDay /\ inst.Points = points
        /\ inst.HotelIDs = hotelIDs /\ inst.SiteIDs = siteIDs /\ inst.DistMatrix = M
        /\ inst.StartHotelID = 0 /\ inst.EndHotelID = IF n >= 2 THEN 1 ELSE 0
    BY <2>4 DEF InstanceOf
  <2>6. /\ Rows(read) \in Seq(RowLines) /\ n >= 2
        /\ points[1].Type = "hotel" /\ points[2].Type = "hotel"
        /\ dCount \in Nat \ {0} /\ Len(maxDistPerDay) = dCount
        /\ tMax \in Nat /\ maxDistPerDay \in Seq(Nat)
        /\ \A p \in ToSet(points) :
             {p.Score, p.ServiceTime, p.OpenTime, p.CloseTime} \subseteq Nat
    BY <2>1, <2>3, FormatIsRead DEF HeaderTaken, TmaxTaken, TdTaken, RowsTaken
  <2>7. \A p, q, r \in 1 .. n : M[p][p] = 0 /\ M[p][q] = M[q][p] /\ M[p][r] <= M[p][q] + M[q][r]
    <3> DEFINE rows == Rows(read)
    <3>1. points = PointsOf(rows)
      BY <2>3 DEF RowsTaken
    <3>2. rows \in Seq(RowLines)
      BY <2>6
    <3> DEFINE pts == points
    <3>3. pts = PointsOf(rows)
      BY <3>1
    <3> HIDE DEF rows, pts
    <3>4. IsMetric(DistMatrixOf(pts), Len(pts))
      BY <3>2, <3>3, MatrixOfRows
    <3> QED BY <3>4 DEF pts, IsMetric
  <2>8. 0 \in ToSet(hotelIDs) /\ 1 \in ToSet(hotelIDs)
    <3>1. 1 \in DOMAIN points /\ 2 \in DOMAIN points
      BY <2>6 DEF NumberInv, Numbered
    <3>2. 1 - 1 \in ToSet(hotelIDs) /\ 2 - 1 \in ToSet(hotelIDs)
      BY <2>6, <3>1, IdsPartition
    <3> QED BY <3>2
  <2>9. /\ ToSet(hotelIDs) \cup ToSet(siteIDs) = 0 .. n - 1
        /\ ToSet(hotelIDs) \cap ToSet(siteIDs) = {} /\ IsInjective(siteIDs)
    BY IdsPartition
  <2> HIDE DEF M, n
  <2>10. Len(inst.Points) = n
    BY <2>5 DEF n
  <2>11. /\ inst.NbDays > 0 /\ Len(inst.MaxDistPerDay) = inst.NbDays
         /\ {inst.StartHotelID, inst.EndHotelID} \subseteq ToSet(inst.HotelIDs)
    BY <2>5, <2>6, <2>8
  <2>12. /\ ToSet(inst.HotelIDs) \cup ToSet(inst.SiteIDs) = 0 .. n - 1
         /\ ToSet(inst.HotelIDs) \cap ToSet(inst.SiteIDs) = {} /\ IsInjective(inst.SiteIDs)
    BY <2>5, <2>9
  <2>13. \A p, q, r \in 1 .. n :
           /\ inst.DistMatrix[p][p] = 0 /\ inst.DistMatrix[p][q] = inst.DistMatrix[q][p]
           /\ inst.DistMatrix[p][r] <= inst.DistMatrix[p][q] + inst.DistMatrix[q][r]
    BY <2>5, <2>7
  <2>14. /\ {inst.MaxDist} \cup ToSet(inst.MaxDistPerDay) \subseteq Nat
         /\ \A p \in ToSet(inst.Points) :
              {p.Score, p.ServiceTime, p.OpenTime, p.CloseTime} \subseteq Nat
    <3>1. ToSet(maxDistPerDay) \subseteq Nat
      BY <2>6 DEF ToSet
    <3> QED BY <2>5, <2>6, <3>1
  <2> QED BY <2>2, <2>10, <2>11, <2>12, <2>13, <2>14 DEF Usable
<1>2. QED
  BY <1>1, LoopsRead, NoPartialInstance, PTL

=============================================================================
