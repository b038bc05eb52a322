---------------------------- MODULE VisitProofs ----------------------------
(***************************************************************************)
(* Which sites a trip visits, for every instance: no site twice, and the   *)
(* list of unvisited sites that the moves take sites from and put sites    *)
(* into is always the complement of the trip.                              *)
(***************************************************************************)
EXTENDS WorkerProofs

-----------------------------------------------------------------------------
(* The sites of a day *)

\* No site twice in a day, and the sites of a day.
Simple(pts) ==
  \A i, j \in 1 .. Len(pts) : pts[i] \in Sites /\ pts[i] = pts[j] => i = j

SitesOn(pts) == {pts[i] : i \in 1 .. Len(pts)} \cap Sites

\* A tour that visits the sites of pts, less those of out, and those of new, each once.
Visiting(qts, pts, out, new) ==
  Simple(qts) /\ SitesOn(qts) = (SitesOn(pts) \ out) \cup new

LEMMA InsertVisits ==
  ASSUME NEW pts, Tour(pts), Simple(pts), NEW pos \in Slots(pts), NEW u \in Sites \ SitesOn(pts)
  PROVE  Visiting(InsertAt(pts, pos, u), pts, {}, {u})
<1> DEFINE n == Len(pts)
           qts == InsertAt(pts, pos, u)
<1>1. pts \in Seq(Points) /\ n \in Nat /\ n >= 2 /\ pos \in 2 .. n /\ u \in Points
  <2>1. pts \in Seq(Points) /\ n >= 2
    BY DEF Tour
  <2>2. n \in Nat
    BY <2>1
  <2>3. pos \in 2 .. n
    BY DEF Slots
  <2>4. u \in Points
    BY DEF Points
  <2> QED BY <2>1, <2>2, <2>3, <2>4
<1>2. Len(qts) = n + 1
  BY <1>1 DEF InsertAt
<1>3. \A i \in 1 .. n + 1 : qts[i] = IF i < pos THEN pts[i] ELSE IF i = pos THEN u ELSE pts[i - 1]
  BY <1>1 DEF InsertAt
<1>4. /\ \A i \in 1 .. n : pts[i] # u
      /\ \A i, j \in 1 .. n : pts[i] \in Sites /\ pts[i] = pts[j] => i = j
  BY DEF SitesOn, Simple
<1>5. /\ \A i \in 1 .. n + 1 : i < pos => i \in 1 .. n
      /\ \A i \in 1 .. n + 1 : i > pos => i - 1 \in 1 .. n
      /\ \A i \in 1 .. n : i < pos => i \in 1 .. n + 1
      /\ \A i \in 1 .. n : ~(i < pos) => /\ i + 1 \in 1 .. n + 1 /\ ~(i + 1 < pos) /\ i + 1 # pos
                                         /\ (i + 1) - 1 = i
      /\ \A i \in 1 .. n + 1 : i < pos \/ i = pos \/ i > pos
      /\ pos \in 1 .. n + 1
  BY <1>1
<1> HIDE DEF n, qts
<1>6. ASSUME NEW i \in 1 .. n + 1, NEW j \in 1 .. n + 1, qts[i] \in Sites, qts[i] = qts[j]
      PROVE  i = j
  BY <1>1, <1>3, <1>4, <1>5, <1>6
<1>7. ASSUME NEW p \in Sites
      PROVE  (\E i \in 1 .. n + 1 : qts[i] = p) <=> p = u \/ \E i \in 1 .. n : pts[i] = p
  <2>1. ASSUME NEW i \in 1 .. n + 1, qts[i] = p PROVE p = u \/ \E j \in 1 .. n : pts[j] = p
    BY <1>1, <1>3, <1>5, <2>1
  <2>2. ASSUME NEW i \in 1 .. n, pts[i] = p PROVE \E j \in 1 .. n + 1 : qts[j] = p
    BY <1>1, <1>3, <1>5, <2>2
  <2>3. qts[pos] = u
    BY <1>1, <1>3, <1>5
  <2> QED BY <1>5, <2>1, <2>2, <2>3
<1>8. Simple(qts)
  BY <1>2, <1>6 DEF Simple
<1>9. SitesOn(qts) = SitesOn(pts) \cup {u}
  BY <1>2, <1>7 DEF SitesOn, n
<1> QED BY <1>8, <1>9 DEF Visiting, qts

LEMMA RemoveVisits ==
  ASSUME NEW pts, Tour(pts), Simple(pts), NEW pos \in Inner(pts)
  PROVE  Visiting(RemoveAt(pts, pos), pts, {pts[pos]}, {})
<1> DEFINE n == Len(pts)
           qts == RemoveAt(pts, pos)
<1>1. pts \in Seq(Points) /\ n \in Nat /\ n >= 2 /\ pos \in 2 .. n - 1
  BY DEF Tour, Inner
<1>2. Len(qts) = n - 1
  BY <1>1 DEF RemoveAt
<1>3. \A i \in 1 .. n - 1 : qts[i] = IF i < pos THEN pts[i] ELSE pts[i + 1]
  BY <1>1 DEF RemoveAt
<1>4. /\ \A i, j \in 1 .. n : pts[i] \in Sites /\ pts[i] = pts[j] => i = j
      /\ pts[pos] \in Sites /\ pos \in 1 .. n
  BY <1>1 DEF Simple, Tour
<1>5. /\ \A i \in 1 .. n - 1 : i \in 1 .. n /\ i + 1 \in 1 .. n
      /\ \A i \in 1 .. n : i < pos => i \in 1 .. n - 1
      /\ \A i \in 1 .. n : i > pos => i - 1 \in 1 .. n - 1 /\ ~(i - 1 < pos) /\ (i - 1) + 1 = i
      /\ \A i \in 1 .. n : i < pos \/ i = pos \/ i > pos
      /\ \A i \in 1 .. n - 1 : ~(i < pos) => i + 1 > pos /\ i + 1 # pos
  BY <1>1
<1> HIDE DEF n, qts
<1>6. ASSUME NEW i \in 1 .. n - 1, NEW j \in 1 .. n - 1, qts[i] \in Sites, qts[i] = qts[j]
      PROVE  i = j
  <2> DEFINE at(m) == IF m < pos THEN m ELSE m + 1
  <2>1. \A m \in 1 .. n - 1 : qts[m] = pts[at(m)] /\ at(m) \in 1 .. n
    BY <1>3, <1>5
  <2>2. at(i) = at(j) => i = j
    BY <1>1
  <2> HIDE DEF at
  <2> QED BY <1>4, <1>6, <2>1, <2>2
<1>7. ASSUME NEW p \in Sites
      PROVE  (\E i \in 1 .. n - 1 : qts[i] = p) <=> p # pts[pos] /\ \E i \in 1 .. n : pts[i] = p
  <2>1. ASSUME NEW i \in 1 .. n - 1, qts[i] = p PROVE p # pts[pos] /\ \E j \in 1 .. n : pts[j] = p
    <3>1. CASE i < pos
      <4> pts[i] = p /\ i \in 1 .. n /\ i # pos
        BY <1>1, <1>3, <1>5, <2>1, <3>1
      <4> QED BY <1>4
    <3>2. CASE ~(i < pos)
      <4> pts[i + 1] = p /\ i + 1 \in 1 .. n /\ i + 1 # pos
        BY <1>1, <1>3, <1>5, <2>1, <3>2
      <4> QED BY <1>4
    <3> QED BY <3>1, <3>2
  <2>2. ASSUME NEW i \in 1 .. n, pts[i] = p, p # pts[pos] PROVE \E j \in 1 .. n - 1 : qts[j] = p
    BY <1>1, <1>3, <1>5, <2>2
  <2> QED BY <2>1, <2>2
<1>8. Simple(qts)
  BY <1>2, <1>6 DEF Simple
<1>9. SitesOn(qts) = SitesOn(pts) \ {pts[pos]}
  BY <1>2, <1>7 DEF SitesOn, n
<1> QED BY <1>8, <1>9 DEF Visiting, qts

\* A site takes the place of another one.
LEMMA ReplaceVisits ==
  ASSUME NEW pts, Tour(pts), Simple(pts), NEW pos \in Inner(pts), NEW u \in Sites \ SitesOn(pts)
  PROVE  Visiting(ReplaceAt(pts, pos, u), pts, {pts[pos]}, {u})
<1> DEFINE n == Len(pts)
           qts == ReplaceAt(pts, pos, u)
<1>1. pts \in Seq(Points) /\ n \in Nat /\ n >= 2 /\ pos \in 2 .. n - 1 /\ pos \in 1 .. n
  BY DEF Tour, Inner
<1>2. Len(qts) = n /\ \A i \in 1 .. n : qts[i] = IF i = pos THEN u ELSE pts[i]
  BY <1>1 DEF ReplaceAt
<1>3. /\ \A i \in 1 .. n : pts[i] # u
      /\ \A i, j \in 1 .. n : pts[i] \in Sites /\ pts[i] = pts[j] => i = j
      /\ pts[pos] \in Sites
  BY DEF SitesOn, Simple, Tour
<1> HIDE DEF n, qts
<1>4. ASSUME NEW i \in 1 .. n, NEW j \in 1 .. n, qts[i] \in Sites, qts[i] = qts[j]
      PROVE  i = j
  BY <1>2, <1>3, <1>4
<1>5. ASSUME NEW p \in Sites
      PROVE  (\E i \in 1 .. n : qts[i] = p)
               <=> p = u \/ (p # pts[pos] /\ \E i \in 1 .. n : pts[i] = p)
  BY <1>1, <1>2, <1>3
<1>6. Simple(qts)
  BY <1>2, <1>4 DEF Simple
<1>7. SitesOn(qts) = (SitesOn(pts) \ {pts[pos]}) \cup {u}
  BY <1>2, <1>5 DEF SitesOn, n
<1> QED BY <1>6, <1>7 DEF Visiting, qts

\* A hotel takes the place of another one.
LEMMA HotelVisits ==
  ASSUME NEW pts, Tour(pts), Simple(pts), NEW i \in {1, Len(pts)}, pts[i] \in Hotels, NEW h \in Hotels
  PROVE  Visiting(ReplaceAt(pts, i, h), pts, {}, {})
<1> DEFINE n == Len(pts)
           qts == ReplaceAt(pts, i, h)
<1>1. pts \in Seq(Points) /\ n \in Nat /\ n >= 2 /\ i \in 1 .. n
      /\ h \notin Sites /\ pts[i] \notin Sites
  BY PointsAssumption DEF Tour
<1>2. Len(qts) = n /\ \A x \in 1 .. n : qts[x] = IF x = i THEN h ELSE pts[x]
  BY <1>1 DEF ReplaceAt
<1> HIDE DEF n, qts
<1>3. Simple(qts)
  BY <1>1, <1>2 DEF Simple, n
<1>4. ASSUME NEW p \in Sites PROVE (\E x \in 1 .. n : qts[x] = p) <=> \E x \in 1 .. n : pts[x] = p
  BY <1>1, <1>2
<1>5. SitesOn(qts) = SitesOn(pts)
  BY <1>2, <1>4 DEF SitesOn, n
<1> QED BY <1>3, <1>5 DEF Visiting, qts

LEMMA ReversedVisits ==
  ASSUME NEW pts, Tour(pts), Simple(pts), NEW i \in 2 .. Len(pts) - 1, NEW j \in Inner(pts), i < j
  PROVE  Visiting(Reversed(pts, i, j), pts, {}, {})
<1> DEFINE n == Len(pts)
           qts == Reversed(pts, i, j)
           t(x) == IF x \in i .. j THEN i + j - x ELSE x
<1>1. pts \in Seq(Points) /\ n \in Nat /\ n >= 2 /\ i \in 2 .. n - 1 /\ j \in 2 .. n - 1
      /\ DOMAIN pts = 1 .. n
  BY DEF Tour, Inner
<1>2. \A x \in 1 .. n : t(x) \in 1 .. n /\ t(t(x)) = x
  BY <1>1
<1>3. Len(qts) = n /\ \A x \in 1 .. n : qts[x] = pts[t(x)]
  BY <1>1 DEF Reversed
<1> HIDE DEF qts, t, n
<1>4. Simple(qts)
  <2> SUFFICES ASSUME NEW x \in 1 .. n, NEW y \in 1 .. n, qts[x] \in Sites, qts[x] = qts[y]
               PROVE  x = y
    BY <1>3 DEF Simple
  <2> t(x) = t(y)
    BY <1>2, <1>3 DEF Simple, n
  <2> QED BY <1>2
<1>5. ASSUME NEW p PROVE (\E x \in 1 .. n : qts[x] = p) <=> \E x \in 1 .. n : pts[x] = p
  BY <1>2, <1>3
<1>6. SitesOn(qts) = SitesOn(pts)
  BY <1>3, <1>5 DEF SitesOn, n
<1> QED BY <1>4, <1>6 DEF Visiting, qts

LEMMA MovedVisits ==
  ASSUME NEW pts, Tour(pts), Simple(pts), NEW p \in Inner(pts), NEW q \in Inner(pts)
  PROVE  Visiting(Moved(pts, p, q), pts, {}, {})
<1> DEFINE rest == RemoveAt(pts, p)
           r    == IF q > p THEN q - 1 ELSE q
           u    == pts[p]
<1>1. Tour(rest) /\ Len(rest) = Len(pts) - 1 /\ Visiting(rest, pts, {u}, {})
  BY RemoveKeepsEnds, RemoveVisits
<1>2. /\ Len(pts) \in Nat /\ p \in 2 .. Len(pts) - 1 /\ q \in 2 .. Len(pts) - 1
      /\ u \in Sites /\ p \in 1 .. Len(pts)
  BY DEF Tour, Inner
<1>3. u \in SitesOn(pts)
  BY <1>2 DEF SitesOn
<1> HIDE DEF rest, u
<1>4. r \in Slots(rest)
  BY <1>1, <1>2 DEF Slots
<1> HIDE DEF r
<1>5. Visiting(InsertAt(rest, r, u), rest, {}, {u})
  BY <1>1, <1>2, <1>4, InsertVisits DEF Visiting
<1> QED BY <1>1, <1>3, <1>5 DEF Visiting, Moved, rest, r, u

-----------------------------------------------------------------------------
(* Subsequences and the list of unvisited sites *)

\* A subsequence takes each of its positions once.
LEMMA AtIsOnto ==
  ASSUME NEW S, NEW s \in Seq(S), NEW keep \in SUBSET (1 .. Len(s))
  PROVE  \E c \in [1 .. Cardinality(keep) -> keep] :
           /\ \A m \in 1 .. Cardinality(keep) : At(s, keep)[m] = s[c[m]]
           /\ \A a, b \in 1 .. Cardinality(keep) : c[a] = c[b] => a = b
           /\ \A i \in keep : \E m \in 1 .. Cardinality(keep) : c[m] = i
<1> DEFINE N == Cardinality(keep)
           C(m) == CHOOSE i \in keep : Cardinality(UpTo(keep, i)) = m
           c == [m \in 1 .. N |-> C(m)]
<1>1. Len(s) \in Nat /\ IsFiniteSet(1 .. Len(s))
  <2> 1 \in Int /\ Len(s) \in Int
    OBVIOUS
  <2> QED BY FS_Interval
<1>2. IsFiniteSet(keep) /\ N \in Nat
  BY <1>1, FS_Subset, FS_CardinalityType
<1>3. ASSUME NEW m \in 1 .. N
      PROVE  C(m) \in keep /\ Cardinality(UpTo(keep, C(m))) = m
  <2> \E i \in keep : Cardinality(UpTo(keep, i)) = m
    BY <1>1, RankExists
  <2> QED OBVIOUS
<1>4. At(s, keep) = [m \in 1 .. N |-> s[C(m)]]
  BY Zenon DEF At, UpTo
<1> HIDE DEF C, N
<1>5. /\ c \in [1 .. N -> keep]
      /\ \A m \in 1 .. N : c[m] = C(m) /\ At(s, keep)[m] = s[c[m]]
  BY <1>3, <1>4
<1> HIDE DEF c
<1>6. \A a, b \in 1 .. N : c[a] = c[b] => a = b
  BY <1>3, <1>5
<1>7. ASSUME NEW i \in keep, NEW j \in keep, i < j
      PROVE  Cardinality(UpTo(keep, i)) # Cardinality(UpTo(keep, j))
  <2>1. i \in Int /\ j \in Int /\ \A x \in keep : x \in Int
    BY <1>1
  <2>2. UpTo(keep, i) \in SUBSET UpTo(keep, j)
    <3> \A x \in keep : x <= i => x <= j
      BY <1>7, <2>1
    <3> QED BY DEF UpTo
  <2>3. j \in UpTo(keep, j) /\ j \notin UpTo(keep, i)
    BY <1>7, <2>1 DEF UpTo
  <2>4. IsFiniteSet(UpTo(keep, j))
    <3> UpTo(keep, j) \in SUBSET keep
      BY DEF UpTo
    <3> QED BY <1>2, FS_Subset
  <2> QED BY <2>2, <2>3, <2>4, FS_Subset
<1>8. ASSUME NEW i \in keep PROVE \E m \in 1 .. N : c[m] = i
  <2> DEFINE m == Cardinality(UpTo(keep, i))
  <2>1. UpTo(keep, i) \in SUBSET keep /\ i \in UpTo(keep, i) /\ i \in Int
    BY <1>1 DEF UpTo
  <2>2. m \in Nat /\ m <= N /\ m # 0
    BY <1>2, <2>1, FS_Subset, FS_CardinalityType, FS_EmptySet DEF N
  <2>3. m \in 1 .. N
    BY <1>2, <2>2
  <2>4. C(m) \in keep /\ Cardinality(UpTo(keep, C(m))) = m
    BY <1>3, <2>3
  <2>5. C(m) = i
    <3> DEFINE j == C(m)
    <3> HIDE DEF C
    <3>1. j \in keep /\ i \in Int /\ j \in Int
      <4> \A x \in keep : x \in Int
        BY <1>1
      <4> QED BY <2>1, <2>4
    <3>2. ~(i < j) /\ ~(j < i)
      BY <1>7, <2>4, <3>1
    <3> HIDE DEF j
    <3>3. i = j
      BY <3>1, <3>2
    <3> QED BY <3>3 DEF j
  <2> QED BY <1>5, <2>3, <2>5
<1> QED BY <1>5, <1>6, <1>8 DEF N

\* A sequence without repetition.
Single(l) == \A i, j \in 1 .. Len(l) : l[i] = l[j] => i = j

\* The list of unvisited sites is the complement of the trip.
Complements(l, V) ==
  l \in Seq(Sites) /\ Single(l) /\ {l[i] : i \in 1 .. Len(l)} = Sites \ V

\* newSearchState.
LEMMA UnvisitedComplements ==
  ASSUME NEW s
  PROVE  Complements(Unvisited(s), VisitedIn(s))
<1> DEFINE keep == {i \in DOMAIN SiteIDs : SiteIDs[i] \notin VisitedIn(s)}
           l    == Unvisited(s)
<1>1. /\ SiteIDs \in Seq(Sites) /\ DOMAIN SiteIDs = 1 .. Len(SiteIDs)
      /\ \A p \in Sites : \E i \in DOMAIN SiteIDs : SiteIDs[i] = p
      /\ \A i, j \in DOMAIN SiteIDs : SiteIDs[i] = SiteIDs[j] => i = j
  BY PointsAssumption, IdsAssumption DEF Sites, ToSet, IsInjective
<1>2. keep \in SUBSET (1 .. Len(SiteIDs))
  BY <1>1
<1>3. l = At(SiteIDs, keep)
  BY Zenon DEF Unvisited
<1>4. \A i \in keep : i \in DOMAIN SiteIDs /\ SiteIDs[i] \notin VisitedIn(s)
  OBVIOUS
<1>5. \A p \in Sites \ VisitedIn(s) : \E i \in keep : SiteIDs[i] = p
  BY <1>1
<1> HIDE DEF keep, l
<1> DEFINE N == Cardinality(keep)
<1>6. l \in Seq(Sites) /\ Len(l) = N
  BY <1>1, <1>2, <1>3, AtPositions
<1>7. PICK c \in [1 .. N -> keep] :
           /\ \A m \in 1 .. N : l[m] = SiteIDs[c[m]]
           /\ \A a, b \in 1 .. N : c[a] = c[b] => a = b
           /\ \A i \in keep : \E m \in 1 .. N : c[m] = i
  BY <1>1, <1>2, <1>3, AtIsOnto
<1> HIDE DEF N
<1>8. Single(l)
  <2> SUFFICES ASSUME NEW a \in 1 .. N, NEW b \in 1 .. N, l[a] = l[b] PROVE a = b
    BY <1>6 DEF Single
  <2> c[a] = c[b]
    BY <1>1, <1>4, <1>7
  <2> QED BY <1>7
<1>9. ASSUME NEW p PROVE (\E m \in 1 .. N : l[m] = p) <=> p \in Sites \ VisitedIn(s)
  <2>1. ASSUME NEW m \in 1 .. N, l[m] = p PROVE p \in Sites \ VisitedIn(s)
    <3> c[m] \in keep /\ p = SiteIDs[c[m]]
      BY <1>7, <2>1
    <3> QED BY <1>1, <1>4
  <2>2. ASSUME p \in Sites \ VisitedIn(s) PROVE \E m \in 1 .. N : l[m] = p
    BY <1>5, <1>7, <2>2
  <2> QED BY <2>1, <2>2
<1>10. {l[i] : i \in 1 .. Len(l)} = Sites \ VisitedIn(s)
  BY <1>6, <1>9
<1> QED BY <1>6, <1>8, <1>10 DEF Complements, l

\* markVisited takes one site out, the last one takes its place.
LEMMA MarkVisitedComplements ==
  ASSUME NEW l, NEW V, Complements(l, V), NEW x \in 1 .. Len(l)
  PROVE  Complements(MarkVisited(l, l[x]), V \cup {l[x]})
<1> DEFINE n == Len(l)
           c == CHOOSE j \in DOMAIN l : l[j] = l[x]
           m == [l EXCEPT ![c] = Last(l)]
           r == MarkVisited(l, l[x])
<1>1. /\ l \in Seq(Sites) /\ n \in Nat /\ n >= 1 /\ DOMAIN l = 1 .. n
      /\ \A i, j \in 1 .. n : l[i] = l[j] => i = j
      /\ {l[i] : i \in 1 .. n} = Sites \ V
  BY DEF Complements, Single
<1>2. c = x
  <2> c \in DOMAIN l /\ l[c] = l[x]
    BY <1>1
  <2> HIDE DEF c
  <2> QED BY <1>1
<1>3. r = SubSeq(m, 1, Len(m) - 1)
  BY Zenon DEF MarkVisited, Front
<1> HIDE DEF c, r
<1>4. m \in Seq(Sites) /\ Len(m) = n /\ \A i \in 1 .. n : m[i] = IF i = x THEN l[n] ELSE l[i]
  BY <1>1, <1>2 DEF Last
<1> HIDE DEF m
<1>5. r \in Seq(Sites) /\ Len(r) = n - 1 /\ \A i \in 1 .. n - 1 : r[i] = m[i]
  BY <1>1, <1>3, <1>4
<1> HIDE DEF n
<1>6. /\ \A i \in 1 .. n - 1 : i \in 1 .. n /\ i # n
      /\ n \in 1 .. n
      /\ \A i \in 1 .. n : i # n => i \in 1 .. n - 1
      /\ \A i \in 1 .. n - 1 : r[i] = IF i = x THEN l[n] ELSE l[i]
  <2>1. /\ \A i \in 1 .. n - 1 : i \in 1 .. n /\ i # n
        /\ n \in 1 .. n
        /\ \A i \in 1 .. n : i # n => i \in 1 .. n - 1
    BY <1>1
  <2> QED BY <1>4, <1>5, <2>1
<1>7. Single(r)
  <2> SUFFICES ASSUME NEW i \in 1 .. n - 1, NEW j \in 1 .. n - 1, r[i] = r[j] PROVE i = j
    BY <1>5 DEF Single
  <2> QED BY <1>1, <1>6
<1>8. ASSUME NEW p PROVE (\E i \in 1 .. n - 1 : r[i] = p) <=> p # l[x] /\ \E i \in 1 .. n : l[i] = p
  <2>1. ASSUME NEW i \in 1 .. n - 1, r[i] = p PROVE p # l[x] /\ \E j \in 1 .. n : l[j] = p
    <3>1. CASE i = x
      BY <1>1, <1>6, <2>1, <3>1 DEF n
    <3>2. CASE i # x
      BY <1>1, <1>6, <2>1, <3>2 DEF n
    <3> QED BY <3>1, <3>2
  <2>2. ASSUME NEW i \in 1 .. n, l[i] = p, p # l[x] PROVE \E j \in 1 .. n - 1 : r[j] = p
    <3>1. CASE i = n
      <4> x # n /\ x \in 1 .. n - 1
        BY <1>6, <2>2, <3>1 DEF n
      <4> QED BY <1>6, <2>2, <3>1
    <3>2. CASE i # n
      BY <1>6, <2>2, <3>2
    <3> QED BY <3>1, <3>2
  <2> QED BY <2>1, <2>2
<1>9. {r[i] : i \in 1 .. Len(r)} = Sites \ (V \cup {l[x]})
  <2>1. \A p : p \in {r[i] : i \in 1 .. Len(r)} <=> p # l[x] /\ p \in {l[i] : i \in 1 .. n}
    BY <1>5, <1>8
  <2>2. \A p : p \in {r[i] : i \in 1 .. Len(r)} <=> p # l[x] /\ p \in Sites \ V
    BY <1>1, <2>1
  <2> QED BY <2>2
<1> QED BY <1>5, <1>7, <1>9 DEF Complements, r

\* markUnvisited puts one back.
LEMMA MarkUnvisitedComplements ==
  ASSUME NEW l, NEW V, Complements(l, V), NEW u \in Sites \cap V
  PROVE  Complements(MarkUnvisited(l, u), V \ {u})
<1> DEFINE n == Len(l)
           r == Append(l, u)
<1>1. /\ l \in Seq(Sites) /\ n \in Nat
      /\ \A i, j \in 1 .. n : l[i] = l[j] => i = j
      /\ {l[i] : i \in 1 .. n} = Sites \ V
  BY DEF Complements, Single
<1>2. r \in Seq(Sites) /\ Len(r) = n + 1 /\ r[n + 1] = u /\ \A i \in 1 .. n : r[i] = l[i]
  BY <1>1
<1>3. \A i \in 1 .. n : r[i] # u
  BY <1>1, <1>2
<1>4. \A i \in 1 .. n + 1 : i = n + 1 \/ i \in 1 .. n
  BY <1>1
<1>5. n + 1 \in 1 .. n + 1 /\ \A i \in 1 .. n : i \in 1 .. n + 1
  BY <1>1
<1> HIDE DEF n, r
<1>6. Single(r)
  <2> SUFFICES ASSUME NEW i \in 1 .. n + 1, NEW j \in 1 .. n + 1, r[i] = r[j] PROVE i = j
    BY <1>2 DEF Single
  <2> QED BY <1>1, <1>2, <1>3, <1>4
<1>7. ASSUME NEW p PROVE (\E i \in 1 .. n + 1 : r[i] = p) <=> p = u \/ \E i \in 1 .. n : l[i] = p
  BY <1>2, <1>4, <1>5
<1>8. {r[i] : i \in 1 .. Len(r)} = Sites \ (V \ {u})
  BY <1>1, <1>2, <1>7
<1> QED BY <1>2, <1>6, <1>8 DEF Complements, MarkUnvisited, r

\* A list without repetition is as long as the set of its elements is large.
LEMMA SingleLength ==
  ASSUME NEW S, NEW l \in Seq(S), Single(l)
  PROVE  Len(l) = Cardinality(ToSet(l))
<1> DEFINE n == Len(l)
           T == ToSet(l)
<1>1. n \in Nat /\ DOMAIN l = 1 .. n /\ T = {l[i] : i \in 1 .. n}
  BY DEF ToSet
<1>2. l \in Bijection(1 .. n, T)
  <2> l \in [1 .. n -> T] /\ (\A t \in T : \E i \in 1 .. n : l[i] = t)
    BY <1>1
  <2> \A i, j \in 1 .. n : l[i] = l[j] => i = j
    BY DEF Single
  <2> QED BY <1>1 DEF Bijection, Injection, Surjection, IsInjective
<1> QED BY <1>1, <1>2, FS_CountingElements DEF ExistsBijection

-----------------------------------------------------------------------------
(* The sites of a trip *)

SitesAt(s, d) == SitesOn(PointsAt(s, d))

\* No site twice, by days.
Apart(s) ==
  /\ \A d \in DOMAIN s.days : Simple(PointsAt(s, d))
  /\ \A d, e \in DOMAIN s.days : d # e => SitesAt(s, d) \cap SitesAt(s, e) = {}

LEMMA ApartIsOnce ==
  ASSUME NEW s \in Solutions
  PROVE  /\ Apart(s) <=> Once(s.days)
         /\ Apart(s) <=> NoSiteTwice(s.days)
<1> DEFINE P(d) == PointsAt(s, d)
<1>1. /\ s.days \in Seq(DayTours)
      /\ \A d \in DOMAIN s.days : PointsOf(s.days[d]) = P(d)
  BY SolutionFields DEF PointsAt
<1>2. ASSUME Apart(s) PROVE Once(s.days)
  <2> SUFFICES ASSUME NEW d \in DOMAIN s.days, NEW e \in DOMAIN s.days,
                      NEW i \in 1 .. Len(P(d)), NEW j \in 1 .. Len(P(e)),
                      P(d)[i] \in Sites, P(d)[i] = P(e)[j]
               PROVE  d = e /\ i = j
    BY <1>1 DEF Once
  <2>1. P(d)[i] \in SitesAt(s, d) /\ P(d)[i] \in SitesAt(s, e)
    BY DEF SitesAt, SitesOn
  <2>2. d = e
    BY <1>2, <2>1 DEF Apart
  <2> QED BY <1>2, <2>2 DEF Apart, Simple
<1>3. ASSUME Once(s.days) PROVE Apart(s)
  <2>1. ASSUME NEW d \in DOMAIN s.days PROVE Simple(P(d))
    BY <1>1, <1>3 DEF Once, Simple
  <2>2. ASSUME NEW d \in DOMAIN s.days, NEW e \in DOMAIN s.days, d # e,
               NEW p \in SitesAt(s, d) \cap SitesAt(s, e)
        PROVE  FALSE
    <3>1. PICK i \in 1 .. Len(P(d)), j \in 1 .. Len(P(e)) : P(d)[i] = p /\ P(e)[j] = p /\ p \in Sites
      BY DEF SitesAt, SitesOn
    <3> QED BY <1>1, <1>3, <2>2, <3>1 DEF Once
  <2> QED BY <2>1, <2>2 DEF Apart
<1> QED BY <1>1, <1>2, <1>3, OnceIsNoSiteTwice

LEMMA VisitedBySites ==
  ASSUME NEW s \in Solutions
  PROVE  \A p : p \in VisitedIn(s) <=> \E d \in DOMAIN s.days : p \in SitesAt(s, d)
<1>1. ASSUME NEW d \in DOMAIN s.days
      PROVE  SitesAt(s, d) = ToSet(PointsAt(s, d)) \cap Sites
  <2> PointsAt(s, d) \in Seq(Points)
    BY PointsOfSolution
  <2> QED BY DEF SitesAt, SitesOn, ToSet
<1>2. \A p : p \in VisitedIn(s) <=> p \in Sites /\ \E d \in DOMAIN s.days : p \in ToSet(PointsAt(s, d))
  <2> DEFINE T == {ToSet(PointsAt(s, d)) : d \in DOMAIN s.days}
  <2>1. VisitedIn(s) = (UNION T) \cap Sites
    BY DEF VisitedIn
  <2>2. ASSUME NEW p PROVE p \in UNION T <=> \E d \in DOMAIN s.days : p \in ToSet(PointsAt(s, d))
    OBVIOUS
  <2> HIDE DEF T
  <2> QED BY <2>1, <2>2
<1> QED BY <1>1, <1>2

\* r visits what s visits, less the sites of out, and those of new, each once.
Turns(s, r, out, new) ==
  Apart(r) /\ VisitedIn(r) = (VisitedIn(s) \ out) \cup new

\* One day becomes another tour.
LEMMA ReplaceTurns ==
  ASSUME NEW s \in Solutions, Apart(s), NEW d \in DOMAIN s.days, NEW pts \in Seq(Points),
         NEW out, NEW new, out \in SUBSET SitesAt(s, d), new \cap VisitedIn(s) = {},
         Visiting(pts, PointsAt(s, d), out, new)
  PROVE  Turns(s, Replace(s, d, pts), out, new)
<1> DEFINE r == Replace(s, d, pts)
<1>1. /\ r \in Solutions /\ DOMAIN r.days = DOMAIN s.days
      /\ \A e \in DOMAIN s.days : PointsAt(r, e) = IF e = d THEN pts ELSE PointsAt(s, e)
  BY ReplacedDay
<1> HIDE DEF r
<1>2. /\ SitesAt(r, d) = (SitesAt(s, d) \ out) \cup new
      /\ \A e \in DOMAIN s.days \ {d} : SitesAt(r, e) = SitesAt(s, e)
      /\ \A e \in DOMAIN s.days : Simple(PointsAt(r, e))
  BY <1>1 DEF Visiting, SitesAt, Apart
<1>3. \A e \in DOMAIN s.days : new \cap SitesAt(s, e) = {}
  BY VisitedBySites
<1>4. ASSUME NEW e \in DOMAIN s.days \ {d} PROVE SitesAt(s, d) \cap SitesAt(s, e) = {}
  BY DEF Apart
<1>5. ASSUME NEW a \in DOMAIN s.days, NEW b \in DOMAIN s.days, a # b
      PROVE  SitesAt(r, a) \cap SitesAt(r, b) = {}
  <2>1. CASE a = d
    BY <1>2, <1>3, <1>4, <1>5, <2>1
  <2>2. CASE b = d
    BY <1>2, <1>3, <1>4, <1>5, <2>2
  <2>3. CASE a # d /\ b # d
    BY <1>2, <1>5, <2>3 DEF Apart
  <2> QED BY <2>1, <2>2, <2>3
<1>6. Apart(r)
  BY <1>1, <1>2, <1>5 DEF Apart
<1>7. ASSUME NEW p PROVE p \in VisitedIn(r) <=> p \in (VisitedIn(s) \ out) \cup new
  <2>1. p \in VisitedIn(r) <=> \E e \in DOMAIN s.days : p \in SitesAt(r, e)
    BY <1>1, VisitedBySites
  <2>2. p \in VisitedIn(s) <=> \E e \in DOMAIN s.days : p \in SitesAt(s, e)
    BY VisitedBySites
  <2>3. ASSUME NEW e \in DOMAIN s.days, p \in SitesAt(r, e) PROVE p \in (VisitedIn(s) \ out) \cup new
    <3>1. CASE e = d
      BY <1>2, <2>2, <2>3, <3>1
    <3>2. CASE e # d
      BY <1>2, <1>4, <2>2, <2>3, <3>2
    <3> QED BY <3>1, <3>2
  <2>4. ASSUME NEW e \in DOMAIN s.days, p \in SitesAt(s, e), p \notin out
        PROVE \E f \in DOMAIN s.days : p \in SitesAt(r, f)
    BY <1>2, <2>4
  <2>5. p \in new => p \in SitesAt(r, d)
    BY <1>2
  <2> QED BY <2>1, <2>2, <2>3, <2>4, <2>5
<1> QED BY <1>6, <1>7 DEF Turns, r

\* Totals, legs and distances do not count.
LEMMA SamePointsTurn ==
  ASSUME NEW s \in Solutions, Apart(s), NEW r \in Solutions, SamePoints(s, r)
  PROVE  Turns(s, r, {}, {})
<1>1. DOMAIN r.days = DOMAIN s.days /\ \A d \in DOMAIN s.days : PointsAt(r, d) = PointsAt(s, d)
  BY DEF SamePoints
<1>2. Apart(r)
  BY <1>1 DEF Apart, SitesAt
<1>3. \A p : p \in VisitedIn(r) <=> p \in VisitedIn(s)
  BY <1>1, VisitedBySites DEF SitesAt
<1> QED BY <1>2, <1>3 DEF Turns

LEMMA SameDaysTurn ==
  ASSUME NEW s \in Solutions, Apart(s), NEW r \in Solutions, r.days = s.days
  PROVE  Turns(s, r, {}, {})
BY SamePointsTurn DEF SamePoints, PointsAt

LEMMA TurnsTotal ==
  ASSUME NEW s, NEW t \in Solutions, NEW out, NEW new, Turns(s, t, out, new), NEW a \in Nat
  PROVE  Turns(s, [t EXCEPT !.score = a], out, new)
<1> DEFINE r == [t EXCEPT !.score = a]
<1>1. r \in Solutions /\ r.days = t.days
  BY DEF Solutions
<1> HIDE DEF r
<1>2. Turns(t, r, {}, {})
  BY <1>1, SameDaysTurn DEF Turns
<1> QED BY <1>2 DEF Turns, r

\* A site outside the trip goes in.
LEMMA InsertTurns ==
  ASSUME NEW s, Framed(s), Apart(s), NEW d \in DOMAIN s.days, NEW pos \in Slots(PointsAt(s, d)),
         NEW u \in Sites \ VisitedIn(s)
  PROVE  Turns(s, Insert(s, d, pos, u), {}, {u})
<1> DEFINE pts == InsertAt(PointsAt(s, d), pos, u)
           r   == Replace(s, d, pts)
<1>1. s \in Solutions /\ u \notin SitesAt(s, d)
  BY VisitedBySites DEF Framed
<1>2. Tour(pts) /\ Visiting(pts, PointsAt(s, d), {}, {u})
  BY <1>1, DayOfFrame, InsertKeepsEnds, InsertVisits DEF Apart, SitesAt
<1> HIDE DEF pts
<1>3. pts \in Seq(Points) /\ {} \in SUBSET SitesAt(s, d) /\ {u} \cap VisitedIn(s) = {}
  BY <1>2 DEF Tour
<1>4. Turns(s, r, {}, {u})
  BY <1>1, <1>2, <1>3, ReplaceTurns
<1>5. r \in Solutions /\ r.score = s.score
  BY <1>1, <1>3, ReplacedDay
<1>6. Insert(s, d, pos, u) = [r EXCEPT !.score = r.score + Score[u]]
  BY DEF Insert, pts
<1>7. r.score + Score[u] \in Nat
  BY <1>1, <1>5, SiteAssumption, SolutionFields
<1> HIDE DEF r
<1> QED BY <1>4, <1>5, <1>6, <1>7, TurnsTotal

\* A site outside the trip takes the place of one that goes out.
LEMMA SwapTurns ==
  ASSUME NEW s, Framed(s), Apart(s), NEW d \in DOMAIN s.days, NEW pos \in Inner(PointsAt(s, d)),
         NEW u \in Sites \ VisitedIn(s), Gain(s, d, pos, u) > 0
  PROVE  /\ Turns(s, Swap(s, d, pos, u), {PointsAt(s, d)[pos]}, {u})
         /\ PointsAt(s, d)[pos] \in Sites \cap VisitedIn(s)
<1> DEFINE pts == ReplaceAt(PointsAt(s, d), pos, u)
           v   == PointsAt(s, d)[pos]
           r   == Replace(s, d, pts)
<1>1. s \in Solutions /\ u \notin SitesAt(s, d)
  BY VisitedBySites DEF Framed
<1>2. Tour(pts) /\ Visiting(pts, PointsAt(s, d), {v}, {u})
  BY <1>1, DayOfFrame, ReplaceKeepsEnds, ReplaceVisits DEF Apart, SitesAt
<1>3. v \in Sites /\ v \in SitesAt(s, d) /\ v \in VisitedIn(s)
  <2> pos \in 1 .. Len(PointsAt(s, d)) /\ v \in Sites
    BY DayOfFrame DEF Inner
  <2> v \in SitesAt(s, d)
    BY DEF SitesAt, SitesOn
  <2> QED BY <1>1, VisitedBySites
<1> HIDE DEF pts, v
<1>4. pts \in Seq(Points) /\ {v} \in SUBSET SitesAt(s, d) /\ {u} \cap VisitedIn(s) = {}
  BY <1>2, <1>3 DEF Tour
<1>5. Turns(s, r, {v}, {u})
  BY <1>1, <1>2, <1>4, ReplaceTurns
<1>6. r \in Solutions /\ r.score = s.score
  BY <1>1, <1>4, ReplacedDay
<1>7. Swap(s, d, pos, u) = [r EXCEPT !.score = r.score + Gain(s, d, pos, u)]
  BY DEF Swap, pts
<1>8. r.score + Gain(s, d, pos, u) \in Nat
  <2> Gain(s, d, pos, u) \in Int
    BY <1>3, SiteAssumption DEF Gain, v
  <2> QED BY <1>1, <1>6, SolutionFields
<1> HIDE DEF r
<1>9. Turns(s, Swap(s, d, pos, u), {v}, {u})
  BY <1>5, <1>6, <1>7, <1>8, TurnsTotal
<1> QED BY <1>3, <1>9 DEF v

LEMMA ReverseTurns ==
  ASSUME NEW s, Framed(s), Apart(s), NEW m \in Reversals(s)
  PROVE  Turns(s, Reverse2Opt(s, m), {}, {})
<1> DEFINE pts == PointsAt(s, m[1])
           new == Reversed(pts, m[2], m[3])
<1>1. /\ m[1] \in DOMAIN s.days /\ m[2] \in 2 .. Len(SiteIDs) + 1
      /\ m[2] < m[3] /\ m[3] \in Inner(pts)
  BY DEF Reversals
<1>2. m[2] \in 2 .. Len(pts) - 1
  BY <1>1, DayOfFrame DEF Inner
<1>3. Tour(pts) /\ Simple(pts) /\ s \in Solutions
  BY <1>1, DayOfFrame DEF Apart, Framed
<1> HIDE DEF pts
<1>4. Tour(new) /\ Visiting(new, pts, {}, {})
  BY <1>1, <1>2, <1>3, ReversedKeepsEnds, ReversedVisits
<1> HIDE DEF new
<1>5. new \in Seq(Points) /\ {} \in SUBSET SitesAt(s, m[1]) /\ {} \cap VisitedIn(s) = {}
  BY <1>4 DEF Tour
<1>6. Turns(s, Replace(s, m[1], new), {}, {})
  BY <1>1, <1>3, <1>4, <1>5, ReplaceTurns DEF pts
<1> QED BY <1>6 DEF Reverse2Opt, pts, new

\* What an iteration of applyRelocate does to a trip and the list.
Follows(r) == Apart(r.sol) /\ Complements(r.list, VisitedIn(r.sol))

LEMMA RelocateWithinFollows ==
  ASSUME NEW s, Framed(s), Apart(s), NEW l, Complements(l, VisitedIn(s)), NEW d \in DOMAIN s.days,
         NEW p \in Inner(PointsAt(s, d)), NEW q \in Inner(PointsAt(s, d))
  PROVE  LET r == RelocateWithin(s, l, d, p, q) IN Follows(r) /\ VisitedIn(r.sol) = VisitedIn(s)
<1> DEFINE new == Moved(PointsAt(s, d), p, q)
           r   == RelocateWithin(s, l, d, p, q)
<1>1. s \in Solutions /\ Tour(PointsAt(s, d)) /\ Simple(PointsAt(s, d))
  BY DayOfFrame DEF Framed, Apart
<1>2. Tour(new) /\ Visiting(new, PointsAt(s, d), {}, {})
  BY <1>1, MovedKeepsEnds, MovedVisits
<1>3. r = [sol |-> Replace(s, d, new), list |-> l] \/ r = [sol |-> s, list |-> l]
  BY DEF RelocateWithin, Unchanged
<1> HIDE DEF new, r
<1>4. new \in Seq(Points) /\ {} \in SUBSET SitesAt(s, d) /\ {} \cap VisitedIn(s) = {}
  BY <1>2 DEF Tour
<1>5. Turns(s, Replace(s, d, new), {}, {})
  BY <1>1, <1>2, <1>4, ReplaceTurns
<1>6. Apart(Replace(s, d, new)) /\ VisitedIn(Replace(s, d, new)) = VisitedIn(s)
  BY <1>5 DEF Turns
<1> QED BY <1>3, <1>6 DEF Follows, r

LEMMA RelocateAcrossFollows ==
  ASSUME NEW s, Framed(s), Apart(s), NEW l, Complements(l, VisitedIn(s)),
         NEW d \in DOMAIN s.days, NEW e \in DOMAIN s.days,
         NEW p \in Inner(PointsAt(s, d)), NEW r \in RelocateAcross(s, l, d, p, e)
  PROVE  Follows(r) /\ VisitedIn(r.sol) = VisitedIn(s)
<1> DEFINE u     == PointsAt(s, d)[p]
           rest  == RemoveAt(PointsAt(s, d), p)
           into(q) == InsertAt(PointsAt(s, e), q, u)
           slots == {q \in Slots(PointsAt(s, e)) : CanInsert(s, e, q, u)}
           t     == Replace(s, d, rest)
<1>1. CASE r = [sol |-> s, list |-> l]
  BY <1>1 DEF Follows
<1>2. CASE u \in Sites /\ e # d /\ \E q \in slots : r = [sol |-> Replace(t, e, into(q)), list |-> l]
  <2>1. PICK q \in slots : r = [sol |-> Replace(t, e, into(q)), list |-> l]
    BY <1>2
  <2>2. q \in Slots(PointsAt(s, e))
    BY <2>1
  <2>3. s \in Solutions /\ \A a \in DOMAIN s.days : Tour(PointsAt(s, a)) /\ Simple(PointsAt(s, a))
    BY DayOfFrame DEF Framed, Apart
  <2>4. Tour(rest) /\ Visiting(rest, PointsAt(s, d), {u}, {})
    BY <2>3, RemoveKeepsEnds, RemoveVisits
  <2>5. u \in Sites /\ u \in SitesAt(s, d) /\ u \in VisitedIn(s)
    <3> p \in 1 .. Len(PointsAt(s, d))
      BY DayOfFrame DEF Inner
    <3> u \in SitesAt(s, d)
      BY <1>2 DEF SitesAt, SitesOn
    <3> QED BY <1>2, <2>3, VisitedBySites
  <2> HIDE DEF rest, u
  <2>6. rest \in Seq(Points) /\ {u} \in SUBSET SitesAt(s, d) /\ {} \cap VisitedIn(s) = {}
    BY <2>4, <2>5 DEF Tour
  <2>7. Turns(s, t, {u}, {})
    BY <2>3, <2>4, <2>6, ReplaceTurns
  <2>8. t \in Solutions /\ DOMAIN t.days = DOMAIN s.days /\ PointsAt(t, e) = PointsAt(s, e)
    BY <1>2, <2>3, <2>6, ReplacedDay
  <2> HIDE DEF t
  <2>9. Apart(t) /\ VisitedIn(t) = VisitedIn(s) \ {u} /\ u \notin SitesAt(t, e)
    <3> Apart(t) /\ VisitedIn(t) = VisitedIn(s) \ {u}
      BY <2>7 DEF Turns
    <3> QED BY <2>8, VisitedBySites
  <2>10. u \notin SitesOn(PointsAt(s, e))
    BY <2>8, <2>9 DEF SitesAt
  <2>11. Tour(into(q)) /\ Visiting(into(q), PointsAt(t, e), {}, {u})
    BY <2>2, <2>3, <2>5, <2>8, <2>10, InsertKeepsEnds, InsertVisits
  <2> HIDE DEF into
  <2>12. into(q) \in Seq(Points) /\ {} \in SUBSET SitesAt(t, e) /\ {u} \cap VisitedIn(t) = {}
    BY <2>9, <2>11 DEF Tour
  <2>13. Turns(t, Replace(t, e, into(q)), {}, {u})
    BY <2>8, <2>9, <2>11, <2>12, ReplaceTurns
  <2>14. Apart(r.sol) /\ VisitedIn(r.sol) = VisitedIn(s) /\ r.list = l
    BY <2>1, <2>5, <2>9, <2>13 DEF Turns
  <2> QED BY <2>14 DEF Follows
<1>3. \A S : Best(S, LAMBDA q : <<TourLength(InsertAt(PointsAt(s, e), q, u)), q>>) \subseteq S
  BY DEF Best
<1> QED BY <1>1, <1>2, <1>3 DEF RelocateAcross, Unchanged

LEMMA RelocateInsertFollows ==
  ASSUME NEW s, Framed(s), Apart(s), NEW l, Complements(l, VisitedIn(s)), NEW d \in DOMAIN s.days,
         NEW pos \in Slots(PointsAt(s, d)), NEW i \in DOMAIN l
  PROVE  Follows(RelocateInsert(s, l, d, pos, i))
<1> DEFINE r == RelocateInsert(s, l, d, pos, i)
           t == Insert(s, d, pos, l[i])
<1>1. CASE r = [sol |-> s, list |-> l]
  BY <1>1 DEF Follows
<1>2. CASE r = [sol |-> t, list |-> MarkVisited(l, l[i])]
  <2>1. l[i] \in Sites \ VisitedIn(s) /\ i \in 1 .. Len(l)
    <3> DOMAIN l = 1 .. Len(l) /\ {l[x] : x \in 1 .. Len(l)} = Sites \ VisitedIn(s)
      BY DEF Complements
    <3> QED OBVIOUS
  <2>2. Turns(s, t, {}, {l[i]})
    BY <2>1, InsertTurns
  <2> HIDE DEF t
  <2>3. Complements(MarkVisited(l, l[i]), VisitedIn(s) \cup {l[i]})
    BY <2>1, MarkVisitedComplements
  <2>4. Apart(t) /\ VisitedIn(t) = VisitedIn(s) \cup {l[i]}
    BY <2>2 DEF Turns
  <2> QED BY <1>2, <2>3, <2>4 DEF Follows
<1> QED BY <1>1, <1>2 DEF RelocateInsert, Unchanged

LEMMA RelocationFollows ==
  ASSUME NEW s, Framed(s), Apart(s), NEW l, Complements(l, VisitedIn(s)),
         NEW d \in DOMAIN s.days, NEW type, NEW r \in Relocations(s, l, d, type)
  PROVE  Follows(r)
<1> DEFINE pts == PointsAt(s, d)
<1>1. CASE r = Unchanged(s, l)
  BY <1>1 DEF Unchanged, Follows
<1>2. CASE \E p \in Inner(pts), q \in Inner(pts) : r = RelocateWithin(s, l, d, p, q)
  BY <1>2, RelocateWithinFollows
<1>3. CASE \E p \in Inner(pts), e \in DOMAIN s.days : r \in RelocateAcross(s, l, d, p, e)
  BY <1>3, RelocateAcrossFollows
<1>4. CASE \E pos \in Slots(pts), i \in DOMAIN l : r = RelocateInsert(s, l, d, pos, i)
  BY <1>4, RelocateInsertFollows
<1> HIDE DEF pts
<1> QED BY <1>1, <1>2, <1>3, <1>4 DEF Relocations, pts

\* One junction of tryHotelSwap.
LEMMA SwapHotelTurns ==
  ASSUME NEW s, Framed(s), Apart(s), NEW d \in 1 .. NbDays - 1
  PROVE  Turns(s, SwapHotel(s, d), {}, {})
<1>1. s \in Solutions /\ DOMAIN s.days = Days /\ NbDays \in Nat
  BY ShapeIsTours, PointsAssumption DEF Framed
<1>2. d \in Days /\ d + 1 \in Days /\ d # d + 1
  BY <1>1 DEF Days
<1> DEFINE shorter == {i \in DOMAIN HotelIDs : Shorter(s, d, HotelIDs[i])}
<1>3. CASE SwapHotel(s, d) = s
  BY <1>3 DEF Turns
<1>4. CASE shorter # {} /\ SwapHotel(s, d) = MeetAt(s, d, HotelIDs[Max(shorter)])
  <2>1. Max(shorter) \in shorter
    <3>1. shorter \in SUBSET (1 .. Len(HotelIDs)) /\ Len(HotelIDs) \in Nat
      BY PointsAssumption
    <3> HIDE DEF shorter
    <3>2. PICK x \in shorter : \A y \in shorter : y <= x
      BY <1>4, <3>1, GreatestNat
    <3>3. x \in shorter /\ \A y \in shorter : x >= y
      BY <3>1, <3>2
    <3> QED BY <3>3, Zenon DEF Max
  <2>2. PICK h \in Hotels : SwapHotel(s, d) = MeetAt(s, d, h)
    <3> HotelIDs[Max(shorter)] \in Hotels
      BY <2>1, PointsAssumption DEF Hotels, ToSet
    <3> QED BY <1>4, <2>1
  <2> DEFINE a == EndingAt(s, d, h)
             b == StartingAt(s, d + 1, h)
             t == Replace(s, d, a)
             r == Replace(t, d + 1, b)
  <2>3. /\ Tour(a) /\ Visiting(a, PointsAt(s, d), {}, {})
        /\ Tour(b) /\ Visiting(b, PointsAt(s, d + 1), {}, {})
    <3>1. \A e \in Days : /\ Tour(PointsAt(s, e)) /\ Simple(PointsAt(s, e))
                          /\ PointsAt(s, e)[1] \in Hotels
                          /\ PointsAt(s, e)[Len(PointsAt(s, e))] \in Hotels
      BY <1>1, ShapeIsTours DEF Apart, Framed
    <3> QED BY <1>2, <3>1, EndingKeepsTour, HotelVisits DEF EndingAt, StartingAt
  <2> HIDE DEF a, b
  <2>4. /\ a \in Seq(Points) /\ {} \in SUBSET SitesAt(s, d) /\ {} \cap VisitedIn(s) = {}
        /\ b \in Seq(Points) /\ {} \in SUBSET SitesAt(t, d + 1) /\ {} \cap VisitedIn(t) = {}
    BY <2>3 DEF Tour
  <2>5. Turns(s, t, {}, {})
    BY <1>1, <1>2, <2>3, <2>4, ReplaceTurns
  <2>6. t \in Solutions /\ DOMAIN t.days = Days /\ PointsAt(t, d + 1) = PointsAt(s, d + 1)
    BY <1>1, <1>2, <2>4, ReplacedDay
  <2> HIDE DEF t
  <2>7. Apart(t) /\ VisitedIn(t) = VisitedIn(s)
    BY <2>5 DEF Turns
  <2>8. Turns(t, r, {}, {})
    BY <1>2, <2>3, <2>4, <2>6, <2>7, ReplaceTurns
  <2>9. SwapHotel(s, d) = r
    BY <2>2 DEF MeetAt, a, b, t
  <2> QED BY <2>7, <2>8, <2>9 DEF Turns
<1> QED BY <1>3, <1>4 DEF SwapHotel

\* EvaluateScore and EvaluateSolution.
LEMMA EvaluationTurns ==
  ASSUME NEW s, Framed(s), Apart(s)
  PROVE  /\ Turns(s, EvaluateScore(s), {}, {})
         /\ Turns(s, EvaluateSolution(s).sol, {}, {})
<1>1. s \in Solutions
  BY DEF Framed
<1>2. Turns(s, EvaluateScore(s), {}, {})
  BY <1>1, EvaluatedTotals, SameDaysTurn
<1>3. SamePoints(s, EvaluateSolution(s).sol)
  BY <1>1, EvaluationKeepsPoints
<1>4. Turns(s, EvaluateSolution(s).sol, {}, {})
  BY <1>1, <1>3, SamePointsTurn DEF SamePoints
<1> QED BY <1>2, <1>4

-----------------------------------------------------------------------------
(* Shaking *)

LEMMA FewerSites ==
  ASSUME NEW s, Apart(s), NEW r, DOMAIN r.days = DOMAIN s.days,
         \A d \in DOMAIN s.days : Simple(PointsAt(r, d)) /\ SitesAt(r, d) \subseteq SitesAt(s, d)
  PROVE  Apart(r)
BY DEF Apart

\* The positions a subsequence takes its elements from, each once.
Picks(s, keep, c) ==
  /\ \A m \in 1 .. Cardinality(keep) : c[m] \in keep /\ At(s, keep)[m] = s[c[m]]
  /\ \A a, b \in 1 .. Cardinality(keep) : c[a] = c[b] => a = b

LEMMA AtPicks ==
  ASSUME NEW S, NEW s \in Seq(S), NEW keep \in SUBSET (1 .. Len(s))
  PROVE  \E c : Picks(s, keep, c)
<1> PICK c \in [1 .. Cardinality(keep) -> keep] :
           /\ \A m \in 1 .. Cardinality(keep) : At(s, keep)[m] = s[c[m]]
           /\ \A a, b \in 1 .. Cardinality(keep) : c[a] = c[b] => a = b
           /\ \A i \in keep : \E m \in 1 .. Cardinality(keep) : c[m] = i
  BY AtIsOnto
<1> QED BY DEF Picks

\* A subsequence visits fewer sites.
LEMMA SomeStepsVisits ==
  ASSUME NEW steps \in Seq(Steps), NEW keep \in SUBSET (1 .. Len(steps)), NEW pts, NEW qts,
         pts \in Seq(Points), Len(pts) = Len(steps), \A i \in 1 .. Len(steps) : pts[i] = steps[i].pt,
         qts \in Seq(Points), Len(qts) = Cardinality(keep),
         \A m \in 1 .. Cardinality(keep) : qts[m] = At(steps, keep)[m].pt,
         Simple(pts)
  PROVE  /\ Simple(qts) /\ SitesOn(qts) \subseteq SitesOn(pts)
         /\ (\A i \in keep : steps[i].pt \in Hotels) => SitesOn(qts) = {}
<1> DEFINE N == Cardinality(keep)
           l == At(steps, keep)
<1>0. PICK c : Picks(steps, keep, c)
  BY AtPicks
<1> HIDE DEF l
<1>1. /\ \A m \in 1 .. N : c[m] \in keep /\ l[m] = steps[c[m]]
      /\ \A a, b \in 1 .. N : c[a] = c[b] => a = b
  BY <1>0 DEF Picks, l
<1>2. \A m \in 1 .. N : qts[m] = l[m].pt
  BY DEF l
<1> HIDE DEF N
<1>3. ASSUME NEW m \in 1 .. N
      PROVE  /\ c[m] \in 1 .. Len(pts) /\ c[m] \in keep
             /\ qts[m] = pts[c[m]] /\ qts[m] = steps[c[m]].pt
  <2>1. c[m] \in keep
    BY <1>1
  <2>2. qts[m] = l[m].pt /\ l[m] = steps[c[m]]
    BY <1>1, <1>2
  <2> QED BY <2>1, <2>2
<1>4. Len(qts) = N
  BY DEF N
<1>5. Simple(qts)
  BY <1>1, <1>3, <1>4 DEF Simple
<1>6. SitesOn(qts) \subseteq SitesOn(pts)
  BY <1>3, <1>4 DEF SitesOn
<1>7. (\A i \in keep : steps[i].pt \in Hotels) => SitesOn(qts) = {}
  BY <1>3, <1>4, PointsAssumption DEF SitesOn
<1> QED BY <1>5, <1>6, <1>7

\* A day less some of its steps, and a day of which only the hotels are left.
LEMMA WithoutVisits ==
  ASSUME NEW day \in DayTours, Simple(PointsOf(day)), NEW gone
  PROVE  /\ Simple(PointsOf(Without(day, gone)))
         /\ SitesOn(PointsOf(Without(day, gone))) \subseteq SitesOn(PointsOf(day))
<1> DEFINE keep  == DOMAIN day.steps \ gone
           steps == At(day.steps, keep)
<1>1. /\ day.steps \in Seq(Steps) /\ DOMAIN day.steps = 1 .. Len(day.steps)
      /\ PointsOf(day) \in Seq(Points) /\ Len(PointsOf(day)) = Len(day.steps)
      /\ \A i \in 1 .. Len(day.steps) : PointsOf(day)[i] = day.steps[i].pt
  BY PointsOfDay DEF DayTours
<1>2. keep \in SUBSET (1 .. Len(day.steps))
  BY <1>1
<1>3. Without(day, gone).steps = steps
  BY DEF Without
<1> DEFINE r == Without(day, gone)
<1> HIDE DEF r, keep
<1>4. steps \in Seq(Steps) /\ Len(steps) = Cardinality(keep)
  BY <1>1, <1>2, AtPositions
<1>5. /\ PointsOf(r) \in Seq(Points) /\ Len(PointsOf(r)) = Cardinality(keep)
      /\ \A m \in 1 .. Cardinality(keep) : PointsOf(r)[m] = steps[m].pt
  <2>1. r.steps = steps
    BY <1>3 DEF r, keep
  <2> HIDE DEF steps
  <2>2. DOMAIN steps = 1 .. Cardinality(keep)
    BY <1>4
  <2>3. \A m \in 1 .. Cardinality(keep) : steps[m].pt \in Points
    <3> \A m \in 1 .. Cardinality(keep) : steps[m] \in Steps
      BY <1>4, <2>2
    <3> QED BY DEF Steps
  <2> QED BY <1>4, <2>1, <2>2, <2>3 DEF PointsOf
<1>6. Simple(PointsOf(r)) /\ SitesOn(PointsOf(r)) \subseteq SitesOn(PointsOf(day))
  <2> DEFINE all == day.steps
             pts == PointsOf(day)
             qts == PointsOf(r)
  <2>1. /\ all \in Seq(Steps) /\ keep \in SUBSET (1 .. Len(all))
        /\ pts \in Seq(Points) /\ Len(pts) = Len(all) /\ \A i \in 1 .. Len(all) : pts[i] = all[i].pt
        /\ qts \in Seq(Points) /\ Len(qts) = Cardinality(keep)
        /\ \A m \in 1 .. Cardinality(keep) : qts[m] = At(all, keep)[m].pt
    BY <1>1, <1>2, <1>5
  <2>2. Simple(pts)
    OBVIOUS
  <2> HIDE DEF all, pts, qts, steps
  <2>3. Simple(qts) /\ SitesOn(qts) \subseteq SitesOn(pts)
    BY <2>1, <2>2, SomeStepsVisits
  <2> QED BY <2>3 DEF pts, qts
<1> QED BY <1>6 DEF r

LEMMA ClearVisits ==
  ASSUME NEW day \in DayTours
  PROVE  Simple(PointsOf(ClearDay(day))) /\ SitesOn(PointsOf(ClearDay(day))) = {}
<1> DEFINE keep  == {i \in DOMAIN day.steps : day.steps[i].pt \in Hotels}
           steps == At(day.steps, keep)
           r     == ClearDay(day)
<1>1. day.steps \in Seq(Steps) /\ DOMAIN day.steps = 1 .. Len(day.steps)
  BY DEF DayTours
<1>2. keep \in SUBSET (1 .. Len(day.steps)) /\ \A i \in keep : day.steps[i].pt \in Hotels
  BY <1>1
<1>3. r.steps = steps
  BY DEF ClearDay, HotelSteps
<1> HIDE DEF r, keep
<1>4. /\ steps \in Seq(Steps) /\ Len(steps) = Cardinality(keep)
      /\ \A m \in 1 .. Cardinality(keep) : \E i \in keep : steps[m] = day.steps[i]
  BY <1>1, <1>2, AtPositions
<1> HIDE DEF steps
<1>5. DOMAIN r.steps = 1 .. Len(PointsOf(r)) /\ Len(PointsOf(r)) = Cardinality(keep)
  BY <1>3, <1>4 DEF PointsOf
<1>6. \A m \in 1 .. Len(PointsOf(r)) : PointsOf(r)[m] \in Hotels
  BY <1>2, <1>3, <1>4, <1>5 DEF PointsOf
<1>7. \A m \in 1 .. Len(PointsOf(r)) : PointsOf(r)[m] \notin Sites
  BY <1>6, PointsAssumption
<1> QED BY <1>7 DEF Simple, SitesOn, r

\* No shake brings a site into the trip.
LEMMA DestroyedApart ==
  ASSUME NEW s, Framed(s), Apart(s), NEW f \in 1 .. MaxForce, NEW x \in Destroyed(s, f)
  PROVE  Framed(x) /\ Apart(x)
<1> DEFINE Good(t) == Framed(t) /\ Apart(t)
<1>1. s \in Solutions /\ DOMAIN s.days = Days /\ NbDays \in Nat /\ f \in Int
  BY ShapeIsTours, PointsAssumption, ForceAssumption DEF Framed
<1>2. ASSUME NEW count, NEW t \in RemoveSites(s, count) PROVE Good(t)
  <2>1. PICK positions \in SUBSET SitePositions(s) : t = Drop(s, positions)
    BY <1>2 DEF RemoveSites, kSubset
  <2>2. Framed(t)
    BY <2>1, DropKeepsShape
  <2> DEFINE gone(d) == {i \in DOMAIN s.days[d].steps : <<d, i>> \in positions}
             D == [d \in DOMAIN s.days |->
                     IF gone(d) = {} THEN s.days[d] ELSE Without(s.days[d], gone(d))]
  <2>3. t = [s EXCEPT !.days = D]
    BY <2>1, Zenon DEF Drop
  <2>4. \A d \in DOMAIN s.days : D[d] = s.days[d] \/ D[d] = Without(s.days[d], gone(d))
    OBVIOUS
  <2>5. DOMAIN D = DOMAIN s.days
    OBVIOUS
  <2> HIDE DEF D
  <2>6. t.days = D
    <3> s \in [days : Seq(DayTours), score : Nat, dist : Nat]
      BY <1>1 DEF Solutions
    <3> QED BY <2>3
  <2>7. ASSUME NEW d \in DOMAIN s.days
        PROVE  Simple(PointsAt(t, d)) /\ SitesAt(t, d) \subseteq SitesAt(s, d)
    <3> DEFINE g == gone(d)
    <3>1. s.days[d] \in DayTours /\ Simple(PointsOf(s.days[d]))
      BY <1>1, PointsOfSolution DEF Apart, PointsAt
    <3>2. D[d] = s.days[d] \/ D[d] = Without(s.days[d], g)
      BY <2>4
    <3> HIDE DEF g
    <3>3. /\ Simple(PointsOf(Without(s.days[d], g)))
          /\ SitesOn(PointsOf(Without(s.days[d], g))) \subseteq SitesOn(PointsOf(s.days[d]))
      BY <3>1, WithoutVisits
    <3> QED BY <2>6, <3>1, <3>2, <3>3 DEF PointsAt, SitesAt
  <2> QED BY <2>2, <2>5, <2>6, <2>7, FewerSites
<1>3. ASSUME NEW u, Framed(u), Apart(u), NEW t, Framed(t), DOMAIN t.days = DOMAIN u.days,
             \A d \in DOMAIN u.days :
               t.days[d] = u.days[d] \/ \E day \in DayTours : t.days[d] = ClearDay(day)
      PROVE  Good(t)
  <2>1. ASSUME NEW d \in DOMAIN u.days
        PROVE  Simple(PointsAt(t, d)) /\ SitesAt(t, d) \subseteq SitesAt(u, d)
    <3>1. CASE t.days[d] = u.days[d]
      BY <1>3, <3>1 DEF Apart, PointsAt, SitesAt
    <3>2. CASE \E day \in DayTours : t.days[d] = ClearDay(day)
      BY <3>2, ClearVisits DEF PointsAt, SitesAt
    <3> QED BY <1>3, <3>1, <3>2
  <2> QED BY <1>3, <2>1, FewerSites
<1>4. ASSUME NEW u, Good(u), NEW t \in JunctionsMoved(u) PROVE Good(t)
  <2>1. CASE t = u
    BY <1>4, <2>1
  <2>2. CASE \E d \in 1 .. NbDays - 1, h \in Hotels : t = MoveJunction(u, d, h)
    <3>1. PICK d \in 1 .. NbDays - 1, h \in Hotels : t = MoveJunction(u, d, h)
      BY <2>2
    <3>2. Framed(t)
      BY <1>4, <3>1, MoveJunctionKeepsShape
    <3>3. u \in Solutions /\ DOMAIN u.days = Days /\ d \in Days /\ d + 1 \in Days /\ d # d + 1
          /\ u.days[d] \in DayTours /\ u.days[d + 1] \in DayTours
          /\ Len(u.days[d].steps) >= 2 /\ Len(u.days[d + 1].steps) >= 2
      <4>1. u \in Solutions /\ DOMAIN u.days = Days /\ d \in Days /\ d + 1 \in Days /\ d # d + 1
        BY <1>1, <1>4, ShapeIsTours DEF Framed, Days
      <4>2. \A e \in Days : u.days[e] \in DayTours /\ Len(u.days[e].steps) >= 2
        BY <1>4, <4>1, ShapeIsTours, PointsOfSolution DEF Framed, Tour
      <4> QED BY <4>1, <4>2
    <3> DEFINE a == AtHotel(u.days[d], Len(u.days[d].steps), h)
               b == AtHotel(u.days[d + 1], 1, h)
    <3>4. ASSUME NEW day \in DayTours, NEW i \in 1 .. Len(day.steps) PROVE AtHotel(day, i, h) \in DayTours
      <4> DEFINE step  == [day.steps[i] EXCEPT !.pt = h]
                 steps == [day.steps EXCEPT ![i] = step]
      <4>1. day.steps \in Seq(Steps) /\ day.steps[i] \in Steps /\ h \in Points
        BY <3>1 DEF DayTours, Points
      <4>2. step \in Steps
        BY <4>1 DEF Steps
      <4>3. AtHotel(day, i, h) = [day EXCEPT !.steps = steps]
        BY DEF AtHotel
      <4> HIDE DEF step
      <4>4. steps \in Seq(Steps)
        BY <4>1, <4>2
      <4> HIDE DEF steps
      <4> QED BY <4>3, <4>4 DEF DayTours
    <3>5. a \in DayTours /\ b \in DayTours
      <4> \A e \in Days : u.days[e] \in DayTours => Len(u.days[e].steps) \in Nat
        BY DEF DayTours
      <4> Len(u.days[d].steps) \in 1 .. Len(u.days[d].steps) /\ 1 \in 1 .. Len(u.days[d + 1].steps)
        BY <3>3
      <4> QED BY <3>3, <3>4
    <3>6. t = [u EXCEPT !.days[d] = ClearDay(a), !.days[d + 1] = ClearDay(b)]
      <4>1. u.days[d + 1] = [u.days EXCEPT ![d] = ClearDay(a)][d + 1]
        <5> u.days \in Seq(DayTours)
          BY <3>3, SolutionFields
        <5> QED BY <3>3
      <4> QED BY <3>1, <3>3, <4>1 DEF MoveJunction
    <3> HIDE DEF a, b
    <3> DEFINE A == ClearDay(a)
               B == ClearDay(b)
               D == [u.days EXCEPT ![d] = A, ![d + 1] = B]
    <3>7. t = [u EXCEPT !.days = D]
      BY <3>6
    <3> HIDE DEF A, B
    <3>8. /\ DOMAIN D = DOMAIN u.days
          /\ \A e \in DOMAIN u.days : D[e] = u.days[e] \/ D[e] = A \/ D[e] = B
      <4> u.days \in Seq(DayTours)
        BY <3>3, SolutionFields
      <4> QED BY <3>3
    <3> HIDE DEF D
    <3>9. t.days = D
      <4> u \in [days : Seq(DayTours), score : Nat, dist : Nat]
        BY <3>3 DEF Solutions
      <4> QED BY <3>7
    <3>10. \A e \in DOMAIN u.days :
             t.days[e] = u.days[e] \/ \E day \in DayTours : t.days[e] = ClearDay(day)
      BY <3>5, <3>8, <3>9 DEF A, B
    <3> QED BY <1>3, <1>4, <3>2, <3>8, <3>9, <3>10
  <2> QED BY <1>4, <2>1, <2>2 DEF JunctionsMoved
<1>5. ASSUME NEW some \in SUBSET Days, NEW t,
             t = [s EXCEPT !.days =
                    [d \in DOMAIN s.days |-> IF d \in some THEN ClearDay(s.days[d]) ELSE s.days[d]]]
      PROVE  Good(t)
  <2>1. Framed(t)
    BY <1>5, ClearKeepsShape
  <2> DEFINE D == [d \in DOMAIN s.days |-> IF d \in some THEN ClearDay(s.days[d]) ELSE s.days[d]]
  <2>2. /\ DOMAIN D = DOMAIN s.days
        /\ \A d \in DOMAIN s.days : D[d] = s.days[d] \/ D[d] = ClearDay(s.days[d])
    OBVIOUS
  <2>3. t = [s EXCEPT !.days = D]
    BY <1>5
  <2> HIDE DEF D
  <2>4. t.days = D
    <3> s \in [days : Seq(DayTours), score : Nat, dist : Nat]
      BY <1>1 DEF Solutions
    <3> QED BY <2>3
  <2>5. \A d \in DOMAIN s.days : s.days[d] \in DayTours
    BY <1>1, PointsOfSolution
  <2> QED BY <1>3, <2>1, <2>2, <2>4, <2>5
<1> HIDE DEF Good
<1>6. Good(s)
  BY DEF Good
<1>7. Good(x)
  <2>1. CASE f <= 1
    BY <1>2, <2>1 DEF Destroyed
  <2>2. CASE f = 2
    <3> PICK u \in RemoveSites(s, Max({3, Cardinality(SitePositions(s)) \div 8})) : x \in JunctionsMoved(u)
      <4>1. Destroyed(s, f) =
              UNION {JunctionsMoved(u) :
                u \in RemoveSites(s, Max({3, Cardinality(SitePositions(s)) \div 8}))}
        BY <2>2 DEF Destroyed
      <4> QED BY <4>1, Zenon
    <3> QED BY <1>2, <1>4
  <2>3. CASE f = 3
    <3>1. CASE x = s
      BY <1>6, <3>1
    <3>2. CASE \E d \in Days : x = [s EXCEPT !.days[d] = ClearDay(@)]
      <4>1. PICK d \in Days : x = [s EXCEPT !.days[d] = ClearDay(@)]
        BY <3>2
      <4> DEFINE some == {d}
      <4>2. x = [s EXCEPT !.days =
                   [e \in DOMAIN s.days |-> IF e \in some THEN ClearDay(s.days[e]) ELSE s.days[e]]]
        <5>1. [s.days EXCEPT ![d] = ClearDay(@)] =
                [e \in DOMAIN s.days |-> IF e \in some THEN ClearDay(s.days[e]) ELSE s.days[e]]
          OBVIOUS
        <5> QED BY <4>1, <5>1
      <4>3. some \in SUBSET Days
        OBVIOUS
      <4> HIDE DEF some
      <4> QED BY <1>5, <4>2, <4>3
    <3> QED BY <1>1, <2>3, <3>1, <3>2 DEF Destroyed
  <2>4. CASE f > 3
    <3>1. x = [s EXCEPT !.days = [d \in DOMAIN s.days |-> ClearDay(s.days[d])]]
      BY <2>4 DEF Destroyed
    <3>2. x = [s EXCEPT !.days =
                 [d \in DOMAIN s.days |-> IF d \in Days THEN ClearDay(s.days[d]) ELSE s.days[d]]]
      BY <1>1, <3>1
    <3> QED BY <1>5, <3>2
  <2> QED BY <1>1, <2>1, <2>2, <2>3, <2>4
<1> QED BY <1>7 DEF Good

LEMMA ShakenApart ==
  ASSUME NEW s, Framed(s), Apart(s), NEW f \in 1 .. MaxForce, NEW x \in Shaken(s, f)
  PROVE  Apart(x)
<1>1. PICK t \in Destroyed(s, f) : x = EvaluateScore(t)
  BY DEF Shaken
<1>2. Framed(t) /\ Apart(t)
  BY DestroyedApart
<1> QED BY <1>1, <1>2, EvaluationTurns DEF Turns

-----------------------------------------------------------------------------
(* The descent and the rounds *)

\* The list is used by the neighbourhoods that insert sites.
Listed == stage \in {"inner", "cut"} /\ k \in {0, 2, 3} => Complements(list, VisitedIn(sol))

LEMMA DescentFollows ==
  ASSUME DescentTypes, Framed(sol), Apart(sol), Listed, DescentStep
  PROVE  Apart(sol') /\ Listed'
<1>1. sol \in Solutions /\ DOMAIN sol.days = Days /\ MaxIter \in Nat /\ NbDays \in Nat \ {0}
  BY ShapeIsTours, IterationsAssumption, PointsAssumption DEF Framed
<1>2. CASE Begin
  <2>1. sol' = sol /\ k' = k /\ (k \in {0, 2, 3} => list' = Unvisited(sol))
    BY <1>2 DEF Begin
  <2> QED BY <2>1, UnvisitedComplements DEF Listed
<1>3. CASE Stop
  BY <1>3 DEF Stop, Listed
<1>4. CASE InsertBest
  <2>1. PICK m \in Insertions(sol, list) :
          /\ sol' = Insert(sol, m[2], m[3], list[m[1]])
          /\ list' = MarkVisited(list, list[m[1]])
    BY <1>4, ChosenMoves DEF InsertBest
  <2>2. m[1] \in DOMAIN list /\ m[2] \in DOMAIN sol.days /\ m[3] \in Slots(PointsAt(sol, m[2]))
    BY DEF Insertions
  <2>3. stage = "inner" /\ k = 0
    BY <1>4 DEF InsertBest
  <2>4. Complements(list, VisitedIn(sol))
    BY <2>3 DEF Listed
  <2>5. list[m[1]] \in Sites \ VisitedIn(sol) /\ m[1] \in 1 .. Len(list)
    <3> DOMAIN list = 1 .. Len(list) /\ {list[x] : x \in 1 .. Len(list)} = Sites \ VisitedIn(sol)
      BY <2>4 DEF Complements
    <3> QED BY <2>2
  <2> DEFINE u == list[m[1]]
  <2>6. Complements(MarkVisited(list, u), VisitedIn(sol) \cup {u})
    BY <2>4, <2>5, MarkVisitedComplements
  <2> HIDE DEF u
  <2>7. Turns(sol, Insert(sol, m[2], m[3], u), {}, {u})
    BY <2>2, <2>5, InsertTurns DEF u
  <2>8. Apart(sol') /\ VisitedIn(sol') = VisitedIn(sol) \cup {u} /\ list' = MarkVisited(list, u)
    BY <2>1, <2>7 DEF Turns, u
  <2> QED BY <2>6, <2>8 DEF Listed
<1>5. CASE ReverseFirst
  <2>1. PICK m \in Reversals(sol) : sol' = Reverse2Opt(sol, m)
    BY <1>5, ChosenMoves DEF ReverseFirst
  <2>2. Apart(sol')
    BY <2>1, ReverseTurns DEF Turns
  <2>3. k' = 1
    BY <1>5 DEF ReverseFirst
  <2> QED BY <2>2, <2>3 DEF Listed
<1>6. CASE SwapBest
  <2>1. PICK m \in Swaps(sol, list) :
          /\ sol' = Swap(sol, m[1], m[2], list[m[3]])
          /\ list' = MarkUnvisited(MarkVisited(list, list[m[3]]), PointsAt(sol, m[1])[m[2]])
    BY <1>6, ChosenMoves DEF SwapBest
  <2>2. /\ m[3] \in DOMAIN list /\ m[1] \in DOMAIN sol.days /\ m[2] \in Inner(PointsAt(sol, m[1]))
        /\ Gain(sol, m[1], m[2], list[m[3]]) > 0
    BY DEF Swaps
  <2>3. stage = "inner" /\ k = 2
    BY <1>6 DEF SwapBest
  <2>4. Complements(list, VisitedIn(sol))
    BY <2>3 DEF Listed
  <2>5. list[m[3]] \in Sites \ VisitedIn(sol) /\ m[3] \in 1 .. Len(list)
    <3> DOMAIN list = 1 .. Len(list) /\ {list[x] : x \in 1 .. Len(list)} = Sites \ VisitedIn(sol)
      BY <2>4 DEF Complements
    <3> QED BY <2>2
  <2> DEFINE u == list[m[3]]
             v == PointsAt(sol, m[1])[m[2]]
             W == VisitedIn(sol) \cup {u}
             l == MarkVisited(list, u)
  <2>6. Complements(l, W)
    BY <2>4, <2>5, MarkVisitedComplements
  <2>7. Turns(sol, Swap(sol, m[1], m[2], u), {v}, {u}) /\ v \in Sites \cap VisitedIn(sol)
    BY <2>2, <2>5, SwapTurns
  <2>8. u # v
    BY <2>5, <2>7
  <2> HIDE DEF u, v, l
  <2>9. v \in Sites \cap W
    BY <2>7
  <2> HIDE DEF W
  <2>10. Complements(MarkUnvisited(l, v), W \ {v})
    BY <2>6, <2>9, MarkUnvisitedComplements
  <2>11. W \ {v} = (VisitedIn(sol) \ {v}) \cup {u}
    BY <2>8 DEF W
  <2>12. Apart(sol') /\ VisitedIn(sol') = (VisitedIn(sol) \ {v}) \cup {u} /\ list' = MarkUnvisited(l, v)
    BY <2>1, <2>7 DEF Turns, u, v, l
  <2> QED BY <2>10, <2>11, <2>12 DEF Listed
<1>7. CASE Relocate
  <2>1. PICK d \in DOMAIN sol.days, type \in 0 .. 2 :
          \E r \in Relocations(sol, list, d, type) : sol' = r.sol /\ list' = r.list
    BY <1>7 DEF Relocate
  <2>2. PICK r \in Relocations(sol, list, d, type) : sol' = r.sol /\ list' = r.list
    BY <2>1
  <2>3. Complements(list, VisitedIn(sol))
    BY <1>7 DEF Relocate, Listed
  <2>4. Follows(r)
    BY <2>3, RelocationFollows
  <2> QED BY <2>2, <2>4 DEF Follows, Listed
<1>8. CASE SwapHotelNext
  <2>1. Len(sol.days) = NbDays
    BY DEF Framed, Shape
  <2>2. iter + 1 \in 1 .. NbDays - 1
    BY <1>1, <1>8, <2>1 DEF SwapHotelNext, Junctions, DescentTypes
  <2>3. sol' = SwapHotel(sol, iter + 1) /\ k' = 4
    BY <1>8 DEF SwapHotelNext
  <2>4. Apart(sol')
    BY <2>2, <2>3, SwapHotelTurns DEF Turns
  <2> QED BY <2>3, <2>4 DEF Listed
<1>9. CASE Finish
  <2>1. sol' = Rescored /\ stage' = "head"
    BY <1>9 DEF Finish
  <2>2. Apart(sol')
    BY <2>1, EvaluationTurns DEF Rescored, Turns
  <2> QED BY <2>1, <2>2 DEF Listed
<1> QED BY <1>2, <1>3, <1>4, <1>5, <1>6, <1>7, <1>8, <1>9 DEF DescentStep

TripInv ==
  /\ BuiltOnce
  /\ Descending => Apart(sol) /\ Listed
  /\ ~seeding => Apart(bestSol)
  /\ Joined => Apart(record)

LEMMA NothingBuiltOnce == NothingBuilt => BuiltOnce
BY PointsAssumption DEF NothingBuilt, BuiltOnce, Once, OpenOnce

LEMMA BuiltOnceStep ==
  ASSUME WorkerInv, BuiltOnce, [Next]_vars
  PROVE  BuiltOnce'
<1>1. GreedyInv
  BY InvParts
<1>2. CASE Construct
  <2>1. ~Built /\ (EndDay \/ \E x \in DOMAIN SiteIDs : Visit(x))
    BY <1>2 DEF Construct, GreedyStep
  <2> QED BY <1>1, <2>1, VisitKeepsOnce, EndDayKeepsOnce
<1>4. CASE Constructed
  <2>1. NothingBuilt'
    BY <1>4 DEF Constructed, StartGreedy, NothingBuilt
  <2> QED BY <2>1, NothingBuiltOnce, PTL
<1>5. CASE UNCHANGED greedyVars
  BY <1>5 DEF greedyVars, BuiltOnce, OpenOnce
<1>6. Construct \/ Constructed \/ UNCHANGED greedyVars
  BY DEF Next, Step, Descend, Seeded, ReturnSeed, Start, Restart, Shake, Refuse, Accept, Exit,
    Collect, Returned, DeadlinePasses, vars
<1> QED BY <1>2, <1>4, <1>5, <1>6

LEMMA GreedySolutionApart ==
  ASSUME GreedyInv, BuiltOnce, Built
  PROVE  Apart(GreedySolution)
<1> DEFINE s == [days |-> days, score |-> 0, dist |-> 0]
<1>1. s \in Solutions /\ s.days = days
  BY DEF GreedyInv, GreedyTypeOK, Solutions
<1> HIDE DEF s
<1>2. Apart(s)
  BY <1>1, ApartIsOnce DEF BuiltOnce
<1>3. EvaluateScore(s) \in Solutions /\ EvaluateScore(s).days = s.days
  BY <1>1, EvaluatedTotals
<1>4. Apart(EvaluateScore(s))
  BY <1>1, <1>2, <1>3, SameDaysTurn DEF Turns
<1> QED BY <1>4 DEF GreedySolution, s

LEMMA TripStep ==
  ASSUME WorkerInv, TripInv, [Next]_vars
  PROVE  TripInv'
<1>1. /\ GreedyInv /\ DescentTypes /\ WorkerTypes /\ SoundTrips /\ Control
      /\ \A s : Sound(s) => Framed(s)
  BY InvParts DEF Sound
<1>2. BuiltOnce'
  BY BuiltOnceStep DEF TripInv
<1>3. CASE Constructed
  <2>1. sol' = GreedySolution /\ stage' = "head"
    BY <1>3 DEF Constructed, StartDescent
  <2>2. Apart(sol') /\ Listed'
    BY <1>1, <1>3, <2>1, GreedySolutionApart DEF Constructed, TripInv, Listed
  <2> QED BY <1>2, <1>3, <2>2 DEF Constructed, TripInv, Joined
<1>4. CASE Descend
  <2>1. Framed(sol) /\ Apart(sol) /\ Listed
    BY <1>1, <1>4 DEF Descend, SoundTrips, Descending, TripInv
  <2>2. Apart(sol') /\ Listed'
    BY <1>1, <1>4, <2>1, DescentFollows DEF Descend
  <2> QED BY <1>2, <1>4, <2>2 DEF Descend, workerVars, TripInv, Joined
<1>5. CASE Shake
  <2>1. PICK s \in Shaken(record, force) : StartDescent(s)
    BY <1>5 DEF Shake
  <2>2. Framed(record) /\ Apart(record) /\ force \in 1 .. MaxForce
    BY <1>1, <1>5 DEF Shake, SoundTrips, Control, TripInv, WorkerTypes
  <2>3. Apart(s)
    BY <2>2, ShakenApart
  <2>4. sol' = s /\ stage' = "head"
    BY <2>1 DEF StartDescent
  <2>5. Apart(sol') /\ Listed'
    BY <2>3, <2>4 DEF Listed
  <2> QED BY <1>2, <1>5, <2>5 DEF Shake, TripInv, Joined
<1>6. CASE Seeded
  BY <1>2, <1>6 DEF Seeded, TripInv, Descending, Joined
<1>7. CASE ReturnSeed \/ Start \/ Restart \/ Exit
  BY <1>1, <1>2, <1>7 DEF ReturnSeed, Start, Restart, Exit, TripInv, Descending, Joined, Control
<1>8. CASE Refuse \/ Accept
  <2>1. Framed(sol) /\ Apart(sol)
    BY <1>1, <1>8 DEF Refuse, Accept, Judging, SoundTrips, Descending, TripInv
  <2>2. Apart(Judged.sol)
    BY <2>1, EvaluationTurns DEF Judged, Turns
  <2> QED BY <1>2, <1>8, <2>2 DEF Refuse, Accept, Judging, TripInv, Descending, Joined
<1>9. CASE Collect
  <2>1. /\ Framed(record) /\ Apart(record) /\ Framed(bestSol) /\ Apart(bestSol)
        /\ Sound(record)
    BY <1>1, <1>9 DEF Collect, Control, SoundTrips, TripInv
  <2>2. Apart(EvaluateSolution(record).sol) /\ Framed(EvaluateSolution(record).sol)
    BY <1>1, <2>1, EvaluationTurns, EvaluationSound DEF Turns
  <2>3. /\ record' = EvaluateSolution(record).sol
        /\ \E s \in {EvaluateSolution(record).sol, bestSol} : bestSol' = EvaluateScore(s)
    BY <1>9 DEF Collect
  <2>4. Apart(bestSol') /\ Apart(record')
    BY <2>1, <2>2, <2>3, EvaluationTurns DEF Turns
  <2> QED BY <1>2, <1>9, <2>4 DEF Collect, TripInv, Descending
<1>10. CASE UNCHANGED <<descentVars, workerVars>>
  BY <1>2, <1>10 DEF descentVars, workerVars, TripInv, Listed, Descending, Joined
<1> QED
  BY <1>3, <1>4, <1>5, <1>6, <1>7, <1>8, <1>9, <1>10
     DEF Next, Step, Construct, Returned, DeadlinePasses, vars

LEMMA TripInvariance == Spec => []TripInv
<1>1. Init => TripInv
  BY NothingBuiltOnce DEF Init, TripInv, NothingBuilt, Descending, Joined
<1>2. WorkerInv /\ TripInv /\ [Next]_vars => TripInv'
  BY TripStep
<1> QED BY <1>1, <1>2, Invariance, PTL DEF Spec

\* No site is visited twice, and the list of unvisited sites stays the complement
\* of the trip, whatever the moves take out of it and put back (markVisited,
\* markUnvisited).
THEOREM UnvisitedIsExact == Spec => []UnvisitedExact
<1>1. WorkerInv /\ TripInv => UnvisitedExact
  <2> SUFFICES ASSUME WorkerInv, TripInv, Descending PROVE UnvisitedExact
    BY DEF UnvisitedExact
  <2>1. sol \in Solutions /\ Apart(sol) /\ Listed
    BY InvParts DEF Trips, TripInv
  <2>2. NoSiteTwice(sol.days)
    BY <2>1, ApartIsOnce
  <2>3. ASSUME stage \in {"inner", "cut"}, k \in {0, 2, 3}
        PROVE  ToSet(list) = Sites \ VisitedIn(sol) /\ Len(list) = Cardinality(ToSet(list))
    <3>1. list \in Seq(Sites) /\ Single(list) /\ {list[i] : i \in 1 .. Len(list)} = Sites \ VisitedIn(sol)
      BY <2>1, <2>3 DEF Listed, Complements
    <3>2. ToSet(list) = {list[i] : i \in 1 .. Len(list)}
      BY <3>1 DEF ToSet
    <3> QED BY <3>1, <3>2, SingleLength
  <2> QED BY <2>2, <2>3 DEF UnvisitedExact
<1> QED BY <1>1, Invariance, TripInvariance, PTL

-----------------------------------------------------------------------------
(* The two evaluators *)

\* Time does not run backwards on a day.
LEMMA DeparturesGrow ==
  ASSUME NEW pts \in Seq(Points), NEW i \in 1 .. Len(pts)
  PROVE  Departures(pts)[i] <= Departures(pts)[Len(pts)]
<1> DEFINE n == Len(pts)
           dep(x) == Departures(pts)[x]
           T == {x \in 1 .. n : \A j \in 1 .. x : dep(j) <= dep(x)}
<1>1. n \in Nat /\ n >= 1 /\ \A x \in 1 .. n : dep(x) \in Nat /\ Leg(pts, x) \in Nat
  BY LegIsNat, Timetable
<1>2. ASSUME NEW x \in 1 .. n, x + 1 <= n PROVE dep(x) <= dep(x + 1)
  <2>1. x \in Nat /\ x + 1 \in 1 .. n /\ x + 1 # 1 /\ (x + 1) - 1 = x
    BY <1>1, <1>2
  <2>2. Arrival(pts, x + 1) = Departures(pts)[x] + Leg(pts, x + 1)
    BY <2>1 DEF Arrival
  <2>3. Arrival(pts, x + 1) <= Departures(pts)[x + 1] /\ Arrival(pts, x + 1) \in Nat
    BY <2>1, TimeBoundsLength, Timetable
  <2> QED BY <1>1, <2>1, <2>2, <2>3
<1> HIDE DEF n, dep
<1>3. 1 <= n => 1 \in T
  BY <1>1
<1>4. ASSUME NEW x \in T, x + 1 <= n PROVE x + 1 \in T
  <2>1. x \in 1 .. n /\ x + 1 \in 1 .. n /\ x \in Nat
    BY <1>1, <1>4
  <2>2. dep(x) <= dep(x + 1) /\ dep(x) \in Nat /\ dep(x + 1) \in Nat
    BY <1>1, <1>2, <1>4, <2>1
  <2>3. ASSUME NEW j \in 1 .. x + 1 PROVE dep(j) <= dep(x + 1)
    <3>1. CASE j = x + 1
      BY <2>2, <3>1
    <3>2. CASE j # x + 1
      <4>1. j \in 1 .. x /\ j \in 1 .. n
        BY <1>1, <2>1, <3>2
      <4>2. dep(j) <= dep(x) /\ dep(j) \in Nat
        BY <1>1, <4>1
      <4> QED BY <2>2, <4>2
    <3> QED BY <3>1, <3>2
  <2> QED BY <2>1, <2>3
<1>5. T = 1 .. n
  <2> 1 \in Nat /\ T \in SUBSET (1 .. n)
    OBVIOUS
  <2> HIDE DEF T
  <2> QED BY <1>1, <1>3, <1>4, Climb
<1>6. n \in T /\ i \in 1 .. n
  BY <1>1, <1>5 DEF n
<1> QED BY <1>6 DEF n, dep

\* On a day in its frame the budget need be compared with the last departure only.
LEMMA DayAgrees ==
  ASSUME NEW pts, Tour(pts), NEW d \in Nat \ {0}, pts[1] \in Hotels, Last(pts) \in Hotels,
         d = 1 => pts[1] = StartHotelID, d = NbDays => Last(pts) = EndHotelID
  PROVE  ValidDay(d, pts) <=> Feasible(d, pts)
<1> DEFINE n == Len(pts)
<1>1. pts \in Seq(Points) /\ n \in Nat /\ n >= 2 /\ DOMAIN pts = 1 .. n /\ n \in 1 .. n /\ Last(pts) = pts[n]
  BY DEF Tour, Last
<1>2. pts[n] \notin Sites /\ DayMaxDist(d) \in Nat
  BY <1>1, PointsAssumption, BudgetIsNat
<1>3. Departures(pts)[n] = Arrival(pts, n)
  BY <1>1, <1>2, Timetable DEF Leave
<1>4. \A i \in 1 .. n : /\ Arrival(pts, i) \in Nat /\ Departures(pts)[i] \in Nat
                        /\ Arrival(pts, i) <= Departures(pts)[i]
                        /\ Departures(pts)[i] <= Departures(pts)[n]
  BY <1>1, Timetable, TimeBoundsLength, DeparturesGrow
<1>5. ASSUME ValidDay(d, pts) PROVE Feasible(d, pts)
  <2>1. Departures(pts)[n] <= DayMaxDist(d)
    BY <1>5 DEF ValidDay
  <2>2. \A i \in 1 .. n : Arrival(pts, i) <= DayMaxDist(d) /\ Departures(pts)[i] <= DayMaxDist(d)
    <3> n \in 1 .. n
      BY <1>1
    <3> HIDE DEF n
    <3> QED BY <1>2, <1>4, <2>1
  <2> QED BY <1>1, <1>5, <2>2 DEF ValidDay, Feasible
<1>6. ASSUME Feasible(d, pts) PROVE ValidDay(d, pts)
  <2>1. Arrival(pts, n) <= DayMaxDist(d)
    <3> n > 1 /\ n \in DOMAIN pts
      BY <1>1
    <3> HIDE DEF n
    <3> QED BY <1>6 DEF Feasible
  <2> QED BY <1>1, <1>3, <1>6, <2>1 DEF ValidDay, Feasible
<1> QED BY <1>5, <1>6

LEMMA ValidIsFeasible ==
  ASSUME NEW s, Framed(s), Apart(s)
  PROVE  Valid(s) <=> AllFeasible(s)
<1>1. s \in Solutions /\ DOMAIN s.days = Days /\ \A d \in Days : d \in Nat \ {0}
  BY ShapeIsTours, PointsAssumption DEF Framed, Days
<1>2. NoSiteTwice(s.days)
  BY <1>1, ApartIsOnce
<1>3. ASSUME NEW d \in Days
      PROVE  /\ PointsOf(s.days[d]) = PointsAt(s, d) /\ s.days[d].steps # <<>>
             /\ ValidDay(d, PointsAt(s, d)) <=> Feasible(d, PointsAt(s, d))
  <2>1. /\ Tour(PointsAt(s, d)) /\ PointsAt(s, d)[1] \in Hotels /\ Last(PointsAt(s, d)) \in Hotels
        /\ d = 1 => PointsAt(s, d)[1] = StartHotelID
        /\ d = NbDays => Last(PointsAt(s, d)) = EndHotelID
    BY <1>1, DayOfFrame DEF Framed, Shape
  <2>2. s.days[d].steps # <<>>
    <3> Len(<<>>) = 0 /\ Len(PointsAt(s, d)) = Len(s.days[d].steps) /\ Len(PointsAt(s, d)) >= 2
      BY <1>1, <2>1, PointsOfSolution DEF Tour
    <3> QED OBVIOUS
  <2> QED BY <1>1, <2>1, <2>2, DayAgrees DEF PointsAt
<1> QED BY <1>1, <1>2, <1>3 DEF Valid, AllFeasible

\* The moves are tested with one evaluator and the candidates judged with the
\* other: they agree on every trip of the search.
THEOREM EvaluatorsAlwaysAgree == Spec => []EvaluatorsAgree
<1>1. WorkerInv /\ TripInv => EvaluatorsAgree
  <2> SUFFICES ASSUME WorkerInv, TripInv, Descending PROVE EvaluateSolution(sol).valid <=> AllFeasible(sol)
    BY DEF EvaluatorsAgree
  <2>1. sol \in Solutions /\ Framed(sol) /\ Apart(sol)
    BY InvParts DEF Trips, SoundTrips, Sound, TripInv
  <2> QED BY <2>1, AnswersByTheRules, ValidIsFeasible
<1> QED BY <1>1, Invariance, TripInvariance, PTL
=============================================================================
