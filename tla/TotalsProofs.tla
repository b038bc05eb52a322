---------------------------- MODULE TotalsProofs ----------------------------
(***************************************************************************)
(* The totals a trip carries, for every instance: the score, which the     *)
(* moves update by what they put in and take out, is that of the sites     *)
(* visited, a descent never lowers it, and each of its steps brings it     *)
(* nearer to its end; a record carries no stale leg or total; and so a     *)
(* worker implements Incumbents.  At the end, what makes a trip invalid:   *)
(* shaking a junction, or the last day of the seed.                        *)
(***************************************************************************)
EXTENDS VisitProofs

-----------------------------------------------------------------------------
(* The score of a set of sites *)

Worth(V) == SumFunction([p \in V |-> Score[p]])

LEMMA WorthGrows ==
  ASSUME NEW V \in SUBSET Sites
  PROVE  /\ Worth(V) \in Nat
         /\ \A p \in Sites \ V : Worth(V \cup {p}) = Worth(V) + Score[p]
<1>1. IsFiniteSet(Sites)
  <2> DEFINE n == Len(SiteIDs)
  <2>1. n \in Nat /\ DOMAIN SiteIDs = 1 .. n
    BY PointsAssumption
  <2>2. IsFiniteSet(1 .. n)
    <3> 1 \in Int /\ n \in Int
      BY <2>1
    <3> QED BY FS_Interval
  <2> HIDE DEF n
  <2>3. SiteIDs \in [1 .. n -> Points]
    BY <2>1, PointsAssumption
  <2>4. SiteIDs \in Surjection(1 .. n, Sites)
    BY <2>1, <2>3 DEF Sites, ToSet, Surjection
  <2> QED BY <2>2, <2>4, FS_Surjection
<1>2. ASSUME NEW W \in SUBSET Sites
      PROVE  [q \in W |-> Score[q]] \in [W -> Nat] /\ IsFiniteSet(W) /\ Worth(W) \in Nat
  <2> DEFINE f == [q \in W |-> Score[q]]
  <2>1. f \in [W -> Nat]
    BY SiteAssumption
  <2>2. IsFiniteSet(W)
    BY <1>1, FS_Subset
  <2> HIDE DEF f
  <2>3. SumFunction(f) \in Nat
    BY <2>1, <2>2, SumIsNat
  <2> QED BY <2>1, <2>2, <2>3 DEF f, Worth
<1>3. ASSUME NEW p \in Sites \ V PROVE Worth(V \cup {p}) = Worth(V) + Score[p]
  <2> DEFINE W == V \cup {p}
             f == [q \in W |-> Score[q]]
             g == [q \in V |-> Score[q]]
  <2>1. W \in SUBSET Sites /\ p \in W /\ f[p] = Score[p] /\ Score[p] \in Nat
    BY SiteAssumption
  <2>2. g = Others(f, p)
    BY DEF Others
  <2>3. f \in [W -> Nat] /\ IsFiniteSet(W) /\ Worth(V) \in Nat
    BY <1>2, <2>1
  <2>4. Worth(W) = SumFunction(f) /\ Worth(V) = SumFunction(g)
    BY DEF Worth
  <2> HIDE DEF W, f, g
  <2>5. SumFunction(f) = f[p] + SumFunction(Others(f, p))
    BY <2>1, <2>3, SumSplit
  <2> QED BY <2>1, <2>2, <2>3, <2>4, <2>5 DEF W
<1> QED BY <1>2, <1>3

\* A tour is worth its sites, if it visits none of them twice.
LEMMA WorthOfTour ==
  ASSUME NEW pts \in Seq(Points), Simple(pts), NEW V \in SUBSET Sites, V \cap SitesOn(pts) = {}
  PROVE  Worth(V \cup SitesOn(pts)) = Worth(V) + ScoreTo(pts, Len(pts))
<1> DEFINE n == Len(pts)
           Good(i) == /\ Worth(V \cup Seen(pts, i)) = Worth(V) + ScoreTo(pts, i)
                      /\ ScoreTo(pts, i) \in Nat
           T == {i \in 0 .. n : Good(i)}
<1>1. n \in Nat /\ Worth(V) \in Nat
  BY WorthGrows
<1>0. T \in SUBSET (0 .. n)
  OBVIOUS
<1>2. 0 \in T
  <2>1. Visits(pts, 0) = {} /\ Seen(pts, 0) = {}
    BY DEF Visits, Seen
  <2>2. [j \in Visits(pts, 0) |-> Score[pts[j]]] \in [{} -> Nat]
    BY <2>1
  <2>3. ScoreTo(pts, 0) = 0
    BY <2>2, SumOfNone DEF ScoreTo
  <2>4. V \cup Seen(pts, 0) = V
    BY <2>1
  <2>5. Worth(V \cup Seen(pts, 0)) = Worth(V)
    BY <2>4, Zenon
  <2>6. Good(0)
    BY <1>1, <2>3, <2>5
  <2> QED BY <1>1, <2>6
<1>3. ASSUME NEW i \in T, i + 1 <= n PROVE i + 1 \in T
  <2> DEFINE m == i + 1
  <2>1. i \in 0 .. n /\ m \in 1 .. n /\ m - 1 = i /\ 1 .. m = (1 .. i) \cup {m} /\ m \notin 1 .. i
    BY <1>1, <1>3
  <2>2. /\ Worth(V \cup Seen(pts, i)) = Worth(V) + ScoreTo(pts, i)
        /\ ScoreTo(pts, i) \in Nat
    OBVIOUS
  <2> HIDE DEF m, T
  <2>3. /\ ScoreTo(pts, m) = ScoreTo(pts, i) + IF pts[m] \in Sites THEN Score[pts[m]] ELSE 0
        /\ ScoreTo(pts, m) \in Nat
    BY <2>1, ScoreGrows
  <2>4. Seen(pts, m) = Seen(pts, i) \cup ({pts[m]} \cap Sites)
    BY <2>1 DEF Seen
  <2>5. V \cup Seen(pts, i) \in SUBSET Sites
    BY DEF Seen
  <2>6. ASSUME pts[m] \in Sites PROVE Good(m)
    <3>1. pts[m] \notin V \cup Seen(pts, i)
      <4>1. pts[m] \in SitesOn(pts)
        BY <2>1, <2>6 DEF SitesOn
      <4>2. \A j \in 1 .. i : j \in 1 .. n /\ j # m
        BY <1>1, <2>1
      <4>3. \A j \in 1 .. i : pts[j] # pts[m]
        BY <2>1, <2>6, <4>2 DEF Simple
      <4> QED BY <4>1, <4>3 DEF Seen
    <3> DEFINE p == pts[m]
               U == V \cup Seen(pts, i)
    <3>2. Worth(U \cup {p}) = Worth(U) + Score[p] /\ Score[p] \in Nat
      BY <2>5, <2>6, <3>1, WorthGrows, SiteAssumption
    <3>3. V \cup Seen(pts, m) = U \cup {p}
      BY <2>4, <2>6
    <3>4. Worth(U) = Worth(V) + ScoreTo(pts, i) /\ ScoreTo(pts, m) = ScoreTo(pts, i) + Score[p]
      BY <2>2, <2>3, <2>6
    <3>5. Worth(V \cup Seen(pts, m)) = Worth(U \cup {p})
      BY <3>3, Zenon
    <3> HIDE DEF p, U
    <3>6. Worth(V \cup Seen(pts, m)) = Worth(V) + ScoreTo(pts, m)
      BY <1>1, <2>2, <3>2, <3>4, <3>5
    <3> QED BY <2>3, <3>6
  <2>7. ASSUME pts[m] \notin Sites PROVE Good(m)
    <3>1. Seen(pts, m) = Seen(pts, i) /\ ScoreTo(pts, m) = ScoreTo(pts, i)
      BY <2>2, <2>3, <2>4, <2>7
    <3> QED BY <2>2, <3>1
  <2>8. Good(m)
    BY <2>6, <2>7
  <2> QED BY <2>1, <2>8 DEF T, m
<1>4. n \in T
  <2> HIDE DEF T
  <2>1. T = 0 .. n
    BY <1>0, <1>1, <1>2, <1>3, Climb
  <2> QED BY <1>1, <2>1
<1>5. Seen(pts, n) = SitesOn(pts)
  BY DEF Seen, SitesOn
<1> QED BY <1>4, <1>5

\* A trip that visits no site twice is worth the sites it visits.
LEMMA WorthOfTrip ==
  ASSUME NEW s \in Solutions, Apart(s)
  PROVE  SumFunction(Scores(s)) = Worth(VisitedIn(s))
<1> DEFINE n == Len(s.days)
           P(d) == PointsAt(s, d)
           T == {d \in 0 .. n : SumTo(Scores(s), d) = Worth(SeenUpTo(s, d))}
<1>1. /\ n \in Nat /\ DOMAIN s.days = 1 .. n /\ T \in SUBSET (0 .. n)
      /\ \A d \in 1 .. n : P(d) \in Seq(Points)
  BY SolutionFields, PointsOfSolution
<1>2. /\ SumTo(Scores(s), 0) = 0
      /\ \A d \in 0 .. n : SumTo(Scores(s), d) \in Nat
      /\ \A d \in 1 .. n : SumTo(Scores(s), d) = SumTo(Scores(s), d - 1) + Scores(s)[d]
      /\ SumTo(Scores(s), n) = SumFunction(Scores(s))
  <2> Scores(s) \in [1 .. n -> Nat]
    BY DayTotals
  <2> QED BY <1>1, SumGrows
<1>3. \A d \in 1 .. n : Seen(P(d), Len(P(d))) = SitesAt(s, d)
  BY DEF Seen, SitesAt, SitesOn
<1>4. 0 \in T
  <2>1. SeenUpTo(s, 0) = {}
    BY DEF SeenUpTo
  <2>2. [p \in {} |-> Score[p]] \in [{} -> Nat]
    OBVIOUS
  <2>3. Worth({}) = 0
    BY <2>2, SumOfNone DEF Worth
  <2>4. SumTo(Scores(s), 0) = Worth(SeenUpTo(s, 0))
    BY <1>2, <2>1, <2>3
  <2> QED BY <1>1, <2>4
<1>5. ASSUME NEW d \in T, d + 1 <= n PROVE d + 1 \in T
  <2> DEFINE e == d + 1
             V == SeenUpTo(s, d)
  <2>1. /\ d \in 0 .. n /\ e \in 1 .. n /\ e \in 0 .. n /\ e - 1 = d
        /\ \A x : x \in 1 .. e <=> x \in 1 .. d \/ x = e
        /\ \A x \in 1 .. d : x \in 1 .. n /\ x # e
    BY <1>1, <1>5
  <2> HIDE DEF e
  <2>2. SeenUpTo(s, e) = V \cup SitesOn(P(e))
    BY <1>3, <2>1 DEF SeenUpTo, SitesAt
  <2>3. V \in SUBSET Sites /\ V \cap SitesOn(P(e)) = {}
    <3>1. \A x \in 1 .. d : SitesAt(s, x) \cap SitesAt(s, e) = {}
      BY <1>1, <2>1 DEF Apart
    <3>2. \A p \in V : \E x \in 1 .. d : p \in SitesAt(s, x)
      BY <1>3, <2>1 DEF SeenUpTo
    <3> QED BY <3>1, <3>2 DEF SitesAt, SitesOn
  <2>4. P(e) \in Seq(Points) /\ Simple(P(e)) /\ Scores(s)[e] = ScoreTo(P(e), Len(P(e)))
    BY <1>1, <2>1 DEF Apart, Scores
  <2>5. SumTo(Scores(s), d) = Worth(V)
    OBVIOUS
  <2> HIDE DEF V, P
  <2>6. Worth(V \cup SitesOn(P(e))) = Worth(V) + ScoreTo(P(e), Len(P(e)))
    BY <2>3, <2>4, WorthOfTour
  <2>7. SumTo(Scores(s), e) = Worth(SeenUpTo(s, e))
    BY <1>2, <2>1, <2>2, <2>4, <2>5, <2>6
  <2> QED BY <2>1, <2>7 DEF e
<1>6. n \in T
  <2> HIDE DEF T
  <2>1. T = 0 .. n
    BY <1>1, <1>4, <1>5, Climb
  <2> QED BY <1>1, <2>1
<1>7. SeenUpTo(s, n) = VisitedIn(s)
  <2>1. \A p : p \in VisitedIn(s) <=> \E d \in 1 .. n : p \in SitesAt(s, d)
    BY <1>1, VisitedBySites
  <2>2. \A p : p \in SeenUpTo(s, n) <=> \E d \in 1 .. n : p \in SitesAt(s, d)
    BY <1>3 DEF SeenUpTo
  <2> QED BY <2>1, <2>2
<1> QED BY <1>2, <1>6, <1>7

-----------------------------------------------------------------------------
(* The score of a trip *)

Scored(s) == s.score = Worth(VisitedIn(s))

\* What EvaluateScore computes from the steps is the score of the points.
LEMMA ScoreOfTrip ==
  ASSUME NEW s \in Solutions
  PROVE  EvaluateScore(s).score = SumFunction(Scores(s))
<1> DEFINE n == Len(s.days)
           scores == [d \in DOMAIN s.days |-> DayScore(s.days[d])]
           legs   == [d \in DOMAIN s.days |-> DayLegs(s.days[d])]
<1>1. DOMAIN s.days = 1 .. n /\ \A d \in 1 .. n : s.days[d] \in DayTours
  BY SolutionFields
<1>2. ASSUME NEW day \in DayTours
      PROVE  DayScore(day) = ScoreTo(PointsOf(day), Len(PointsOf(day)))
  <2> DEFINE pts == PointsOf(day)
  <2>1. /\ day.steps \in Seq(Steps) /\ pts \in Seq(Points) /\ Len(pts) = Len(day.steps)
        /\ \A i \in DOMAIN day.steps : pts[i] = day.steps[i].pt
    BY PointsOfDay DEF DayTours, PointsOf
  <2>2. DOMAIN day.steps = 1 .. Len(pts)
    BY <2>1
  <2> HIDE DEF pts
  <2>3. SitesOfDay(day) = Visits(pts, Len(pts))
    BY <2>1, <2>2 DEF SitesOfDay, Visits
  <2>4. [i \in SitesOfDay(day) |-> Score[day.steps[i].pt]] = [j \in Visits(pts, Len(pts)) |-> Score[pts[j]]]
    BY <2>1, <2>2, <2>3 DEF Visits
  <2> QED BY <2>4 DEF DayScore, ScoreTo, pts
<1>3. scores = Scores(s)
  BY <1>1, <1>2 DEF Scores, PointsAt
<1>4. EvaluateScore(s) = [s EXCEPT !.score = SumFunction(scores), !.dist = SumFunction(legs)]
  BY Zenon DEF EvaluateScore
<1> HIDE DEF scores, legs
<1> DEFINE a == SumFunction(scores)
           b == SumFunction(legs)
<1> HIDE DEF a, b
<1>5. [s EXCEPT !.score = a, !.dist = b].score = a
  BY DEF Solutions
<1> QED BY <1>3, <1>4, <1>5 DEF a, b

LEMMA EvaluatedIsScored ==
  ASSUME NEW s \in Solutions, Apart(s)
  PROVE  EvaluateScore(s).score = Worth(VisitedIn(s)) /\ Scored(EvaluateScore(s))
<1> DEFINE r == EvaluateScore(s)
<1>1. r \in Solutions /\ r.days = s.days
  BY EvaluatedTotals
<1>2. r.score = Worth(VisitedIn(s))
  BY ScoreOfTrip, WorthOfTrip
<1> HIDE DEF r
<1>3. VisitedIn(r) = VisitedIn(s)
  BY <1>1, SameDaysTurn DEF Turns
<1> QED BY <1>2, <1>3 DEF Scored, r

\* After a move the score is right and no lower.
Earns(s, r) == Scored(r) /\ r.score >= s.score

LEMMA SameEarns ==
  ASSUME NEW s \in Solutions, Scored(s), NEW r, r.score = s.score, VisitedIn(r) = VisitedIn(s)
  PROVE  Earns(s, r)
<1> s.score \in Nat
  BY SolutionFields
<1> QED BY DEF Earns, Scored

\* What the running total becomes.
LEMMA InsertScore ==
  ASSUME NEW s, Framed(s), NEW d \in DOMAIN s.days, NEW pos \in Slots(PointsAt(s, d)), NEW u \in Sites
  PROVE  Insert(s, d, pos, u).score = s.score + Score[u]
<1> DEFINE pts == InsertAt(PointsAt(s, d), pos, u)
           r   == Replace(s, d, pts)
           t   == Insert(s, d, pos, u)
<1>1. s \in Solutions
  BY DEF Framed
<1>2. pts \in Seq(Points)
  BY DayOfFrame, InsertKeepsEnds DEF Tour
<1> HIDE DEF pts
<1>3. r \in Solutions /\ r.score = s.score
  BY <1>1, <1>2, ReplacedDay
<1>4. t = [r EXCEPT !.score = r.score + Score[u]]
  BY DEF Insert, pts
<1> HIDE DEF r
<1>5. t.score = s.score + Score[u]
  BY <1>3, <1>4 DEF Solutions
<1> QED BY <1>5

LEMMA InsertEarns ==
  ASSUME NEW s, Framed(s), Apart(s), Scored(s), NEW d \in DOMAIN s.days,
         NEW pos \in Slots(PointsAt(s, d)), NEW u \in Sites \ VisitedIn(s)
  PROVE  Earns(s, Insert(s, d, pos, u))
<1> DEFINE t == Insert(s, d, pos, u)
           V == VisitedIn(s)
<1>1. s \in Solutions /\ s.score \in Nat /\ Score[u] \in Nat
  BY SolutionFields, SiteAssumption DEF Framed
<1>5. t.score = s.score + Score[u]
  BY InsertScore
<1>6. VisitedIn(t) = V \cup {u}
  BY InsertTurns DEF Turns
<1>7. Worth(V \cup {u}) = Worth(V) + Score[u]
  <2> V \in SUBSET Sites
    BY DEF VisitedIn
  <2> QED BY WorthGrows
<1>8. Worth(VisitedIn(t)) = Worth(V \cup {u})
  BY <1>6, Zenon
<1> HIDE DEF t, V
<1>9. s.score = Worth(V)
  BY DEF Scored, V
<1> QED BY <1>1, <1>5, <1>7, <1>8, <1>9 DEF Earns, Scored, t

LEMMA SwapScore ==
  ASSUME NEW s, Framed(s), NEW d \in DOMAIN s.days, NEW pos \in Inner(PointsAt(s, d)), NEW u \in Sites
  PROVE  Swap(s, d, pos, u).score = s.score + Gain(s, d, pos, u)
<1> DEFINE pts == ReplaceAt(PointsAt(s, d), pos, u)
           r   == Replace(s, d, pts)
           t   == Swap(s, d, pos, u)
<1>1. s \in Solutions
  BY DEF Framed
<1>2. pts \in Seq(Points)
  BY DayOfFrame, ReplaceKeepsEnds DEF Tour
<1> HIDE DEF pts
<1>3. r \in Solutions /\ r.score = s.score
  BY <1>1, <1>2, ReplacedDay
<1>4. t = [r EXCEPT !.score = r.score + Gain(s, d, pos, u)]
  BY DEF Swap, pts
<1> HIDE DEF r
<1>5. t.score = s.score + Gain(s, d, pos, u)
  BY <1>3, <1>4 DEF Solutions
<1> QED BY <1>5

LEMMA SwapEarns ==
  ASSUME NEW s, Framed(s), Apart(s), Scored(s), NEW d \in DOMAIN s.days,
         NEW pos \in Inner(PointsAt(s, d)), NEW u \in Sites \ VisitedIn(s), Gain(s, d, pos, u) > 0
  PROVE  Earns(s, Swap(s, d, pos, u))
<1> DEFINE v == PointsAt(s, d)[pos]
           t == Swap(s, d, pos, u)
           V == VisitedIn(s)
           W == V \ {v}
<1>1. s \in Solutions /\ s.score \in Nat /\ Score[u] \in Nat
  BY SolutionFields, SiteAssumption DEF Framed
<1>5. t.score = s.score + Gain(s, d, pos, u)
  BY SwapScore
<1>6. Turns(s, t, {v}, {u}) /\ v \in Sites \cap V
  BY SwapTurns
<1>7. Score[v] \in Nat /\ Gain(s, d, pos, u) = Score[u] - Score[v]
  BY <1>6, SiteAssumption DEF Gain
<1>8. VisitedIn(t) = W \cup {u} /\ V = W \cup {v}
  BY <1>6 DEF Turns
<1> HIDE DEF t, v
<1>9. W \in SUBSET Sites /\ v \in Sites \ W /\ u \in Sites \ W
  BY <1>6 DEF VisitedIn
<1>10. Worth(VisitedIn(t)) = Worth(W \cup {u}) /\ Worth(V) = Worth(W \cup {v})
  BY <1>8, Zenon
<1> HIDE DEF W, V
<1>11. /\ Worth(W) \in Nat /\ Worth(W \cup {u}) = Worth(W) + Score[u]
       /\ Worth(W \cup {v}) = Worth(W) + Score[v]
  BY <1>9, WorthGrows
<1>12. s.score = Worth(V)
  BY DEF Scored, V
<1>13. t.score = Worth(VisitedIn(t)) /\ t.score >= s.score
  BY <1>1, <1>5, <1>7, <1>10, <1>11, <1>12
<1> QED BY <1>13 DEF Earns, Scored, t

LEMMA ReverseEarns ==
  ASSUME NEW s, Framed(s), Apart(s), Scored(s), NEW m \in Reversals(s)
  PROVE  Earns(s, Reverse2Opt(s, m))
<1> DEFINE pts == PointsAt(s, m[1])
           new == Reversed(pts, m[2], m[3])
           t   == Reverse2Opt(s, m)
<1>1. /\ m[1] \in DOMAIN s.days /\ m[2] \in 2 .. Len(SiteIDs) + 1
      /\ m[2] < m[3] /\ m[3] \in Inner(pts)
  BY DEF Reversals
<1>2. m[2] \in 2 .. Len(pts) - 1
  BY <1>1, DayOfFrame DEF Inner
<1>3. Tour(pts) /\ s \in Solutions
  BY <1>1, DayOfFrame DEF Framed
<1> HIDE DEF pts
<1>4. new \in Seq(Points)
  BY <1>1, <1>2, <1>3, ReversedKeepsEnds DEF Tour
<1> HIDE DEF new
<1>5. Replace(s, m[1], new).score = s.score
  BY <1>1, <1>3, <1>4, ReplacedDay
<1>6. t.score = s.score
  BY <1>5 DEF Reverse2Opt, pts, new
<1>7. VisitedIn(t) = VisitedIn(s)
  BY ReverseTurns DEF Turns
<1> HIDE DEF t
<1>8. Earns(s, t)
  BY <1>3, <1>6, <1>7, SameEarns
<1> QED BY <1>8 DEF t

LEMMA RelocateWithinEarns ==
  ASSUME NEW s, Framed(s), Apart(s), Scored(s), NEW l, Complements(l, VisitedIn(s)),
         NEW d \in DOMAIN s.days, NEW p \in Inner(PointsAt(s, d)), NEW q \in Inner(PointsAt(s, d))
  PROVE  Earns(s, RelocateWithin(s, l, d, p, q).sol)
<1> DEFINE new == Moved(PointsAt(s, d), p, q)
           r   == RelocateWithin(s, l, d, p, q)
<1>1. s \in Solutions /\ Tour(PointsAt(s, d))
  BY DayOfFrame DEF Framed
<1>2. new \in Seq(Points)
  BY <1>1, MovedKeepsEnds DEF Tour
<1>3. r = [sol |-> Replace(s, d, new), list |-> l] \/ r = [sol |-> s, list |-> l]
  BY DEF RelocateWithin, Unchanged
<1>4. VisitedIn(r.sol) = VisitedIn(s)
  BY RelocateWithinFollows
<1> HIDE DEF new
<1>5. Replace(s, d, new).score = s.score
  BY <1>1, <1>2, ReplacedDay
<1> HIDE DEF r
<1> DEFINE t == r.sol
<1>6. t.score = s.score /\ VisitedIn(t) = VisitedIn(s)
  BY <1>3, <1>4, <1>5
<1> HIDE DEF t
<1>7. Earns(s, t)
  BY <1>1, <1>6, SameEarns
<1> QED BY <1>7 DEF t, r

LEMMA RelocateAcrossEarns ==
  ASSUME NEW s, Framed(s), Apart(s), Scored(s), NEW l, Complements(l, VisitedIn(s)),
         NEW d \in DOMAIN s.days, NEW e \in DOMAIN s.days,
         NEW p \in Inner(PointsAt(s, d)), NEW r \in RelocateAcross(s, l, d, p, e)
  PROVE  Earns(s, r.sol)
<1> DEFINE u     == PointsAt(s, d)[p]
           rest  == RemoveAt(PointsAt(s, d), p)
           into(q) == InsertAt(PointsAt(s, e), q, u)
           slots == {q \in Slots(PointsAt(s, e)) : CanInsert(s, e, q, u)}
           t     == Replace(s, d, rest)
           o     == r.sol
<1>1. s \in Solutions /\ \A a \in DOMAIN s.days : Tour(PointsAt(s, a))
  BY DayOfFrame DEF Framed
<1>2. VisitedIn(o) = VisitedIn(s)
  BY RelocateAcrossFollows
<1>3. CASE r = [sol |-> s, list |-> l]
  <2> o.score = s.score
    BY <1>3
  <2> HIDE DEF o
  <2> Earns(s, o)
    BY <1>1, <1>2, SameEarns
  <2> QED BY DEF o
<1>4. CASE u \in Sites /\ e # d /\ \E q \in slots : r = [sol |-> Replace(t, e, into(q)), list |-> l]
  <2>1. PICK q \in slots : r = [sol |-> Replace(t, e, into(q)), list |-> l]
    BY <1>4
  <2>2. q \in Slots(PointsAt(s, e)) /\ u \in Sites
    BY <1>4, <2>1
  <2>3. rest \in Seq(Points)
    BY <1>1, RemoveKeepsEnds DEF Tour
  <2> HIDE DEF rest, u
  <2>4. into(q) \in Seq(Points)
    BY <1>1, <2>2, InsertKeepsEnds DEF Tour
  <2> HIDE DEF into
  <2>5. t \in Solutions /\ t.score = s.score /\ DOMAIN t.days = DOMAIN s.days
    BY <1>1, <2>3, ReplacedDay
  <2> HIDE DEF t
  <2>6. Replace(t, e, into(q)).score = t.score
    BY <2>4, <2>5, ReplacedDay
  <2>7. o.score = s.score
    BY <2>1, <2>5, <2>6
  <2> HIDE DEF o
  <2> Earns(s, o)
    BY <1>1, <1>2, <2>7, SameEarns
  <2> QED BY DEF o
<1>5. \A S : Best(S, LAMBDA q : <<TourLength(InsertAt(PointsAt(s, e), q, u)), q>>) \subseteq S
  BY DEF Best
<1> QED BY <1>3, <1>4, <1>5 DEF RelocateAcross, Unchanged

LEMMA RelocateInsertEarns ==
  ASSUME NEW s, Framed(s), Apart(s), Scored(s), NEW l, Complements(l, VisitedIn(s)),
         NEW d \in DOMAIN s.days, NEW pos \in Slots(PointsAt(s, d)), NEW i \in DOMAIN l
  PROVE  Earns(s, RelocateInsert(s, l, d, pos, i).sol)
<1>1. l[i] \in Sites \ VisitedIn(s)
  <2> DOMAIN l = 1 .. Len(l) /\ {l[x] : x \in 1 .. Len(l)} = Sites \ VisitedIn(s)
    BY DEF Complements
  <2> QED OBVIOUS
<1>2. Earns(s, Insert(s, d, pos, l[i]))
  BY <1>1, InsertEarns
<1>3. Earns(s, s)
  BY SameEarns DEF Framed
<1> QED BY <1>2, <1>3 DEF RelocateInsert, Unchanged

LEMMA RelocationEarns ==
  ASSUME NEW s, Framed(s), Apart(s), Scored(s), NEW l, Complements(l, VisitedIn(s)),
         NEW d \in DOMAIN s.days, NEW type, NEW r \in Relocations(s, l, d, type)
  PROVE  Earns(s, r.sol)
<1> DEFINE pts == PointsAt(s, d)
<1>1. CASE r = Unchanged(s, l)
  <2> Earns(s, s)
    BY SameEarns DEF Framed
  <2> QED BY <1>1 DEF Unchanged
<1>2. CASE \E p \in Inner(pts), q \in Inner(pts) : r = RelocateWithin(s, l, d, p, q)
  BY <1>2, RelocateWithinEarns
<1>3. CASE \E p \in Inner(pts), e \in DOMAIN s.days : r \in RelocateAcross(s, l, d, p, e)
  BY <1>3, RelocateAcrossEarns
<1>4. CASE \E pos \in Slots(pts), i \in DOMAIN l : r = RelocateInsert(s, l, d, pos, i)
  BY <1>4, RelocateInsertEarns
<1> HIDE DEF pts
<1> QED BY <1>1, <1>2, <1>3, <1>4 DEF Relocations, pts

\* Neither day of a junction changes the total.
LEMMA SwapHotelScore ==
  ASSUME NEW s \in Solutions, NEW d
  PROVE  SwapHotel(s, d).score = s.score
<1>1. ASSUME NEW t, "score" \in DOMAIN t, NEW e, NEW pts
      PROVE  Replace(t, e, pts).score = t.score /\ "score" \in DOMAIN Replace(t, e, pts)
  BY <1>1 DEF Replace
<1>2. "score" \in DOMAIN s
  BY DEF Solutions
<1>3. \A h : MeetAt(s, d, h).score = s.score
  BY <1>1, <1>2 DEF MeetAt
<1> QED BY <1>3 DEF SwapHotel

LEMMA SwapHotelEarns ==
  ASSUME NEW s, Framed(s), Apart(s), Scored(s), NEW d \in 1 .. NbDays - 1
  PROVE  Earns(s, SwapHotel(s, d))
<1> DEFINE t == SwapHotel(s, d)
<1>1. s \in Solutions /\ DOMAIN s.days = Days /\ NbDays \in Nat
  BY ShapeIsTours, PointsAssumption DEF Framed
<1>2. d \in Days /\ d + 1 \in Days
  BY <1>1 DEF Days
<1>3. VisitedIn(t) = VisitedIn(s)
  BY SwapHotelTurns DEF Turns
<1>4. t.score = s.score
  BY <1>1, <1>2, SwapHotelScore
<1> HIDE DEF t
<1>5. Earns(s, t)
  BY <1>1, <1>3, <1>4, SameEarns
<1> QED BY <1>5 DEF t

LEMMA DescentEarns ==
  ASSUME DescentTypes, Framed(sol), Apart(sol), Listed, Scored(sol), DescentStep
  PROVE  Earns(sol, sol')
<1>1. sol \in Solutions /\ NbDays \in Nat \ {0} /\ Earns(sol, sol)
  BY SameEarns, PointsAssumption DEF Framed
<1>2. ASSUME stage \in {"inner", "cut"}, k \in {0, 2, 3}
      PROVE  /\ Complements(list, VisitedIn(sol))
             /\ \A i \in DOMAIN list : list[i] \in Sites \ VisitedIn(sol)
  <2>1. Complements(list, VisitedIn(sol))
    BY <1>2 DEF Listed
  <2>2. DOMAIN list = 1 .. Len(list) /\ {list[x] : x \in 1 .. Len(list)} = Sites \ VisitedIn(sol)
    BY <2>1 DEF Complements
  <2> QED BY <2>1, <2>2
<1>3. CASE Begin \/ Stop
  BY <1>1, <1>3 DEF Begin, Stop
<1>4. CASE InsertBest
  <2>1. PICK m \in Insertions(sol, list) : sol' = Insert(sol, m[2], m[3], list[m[1]])
    BY <1>4, ChosenMoves DEF InsertBest
  <2>2. m[1] \in DOMAIN list /\ m[2] \in DOMAIN sol.days /\ m[3] \in Slots(PointsAt(sol, m[2]))
    BY DEF Insertions
  <2>3. list[m[1]] \in Sites \ VisitedIn(sol)
    BY <1>2, <1>4, <2>2 DEF InsertBest
  <2> QED BY <2>1, <2>2, <2>3, InsertEarns
<1>5. CASE ReverseFirst
  <2>1. PICK m \in Reversals(sol) : sol' = Reverse2Opt(sol, m)
    BY <1>5, ChosenMoves DEF ReverseFirst
  <2> QED BY <2>1, ReverseEarns
<1>6. CASE SwapBest
  <2>1. PICK m \in Swaps(sol, list) : sol' = Swap(sol, m[1], m[2], list[m[3]])
    BY <1>6, ChosenMoves DEF SwapBest
  <2>2. /\ m[3] \in DOMAIN list /\ m[1] \in DOMAIN sol.days /\ m[2] \in Inner(PointsAt(sol, m[1]))
        /\ Gain(sol, m[1], m[2], list[m[3]]) > 0
    BY DEF Swaps
  <2>3. list[m[3]] \in Sites \ VisitedIn(sol)
    BY <1>2, <1>6, <2>2 DEF SwapBest
  <2> QED BY <2>1, <2>2, <2>3, SwapEarns
<1>7. CASE Relocate
  <2>1. PICK d \in DOMAIN sol.days, type \in 0 .. 2 :
          \E r \in Relocations(sol, list, d, type) : sol' = r.sol /\ list' = r.list
    BY <1>7 DEF Relocate
  <2>2. PICK r \in Relocations(sol, list, d, type) : sol' = r.sol
    BY <2>1
  <2>3. Complements(list, VisitedIn(sol))
    BY <1>2, <1>7 DEF Relocate
  <2>4. Earns(sol, r.sol)
    BY <2>3, RelocationEarns
  <2> QED BY <2>2, <2>4
<1>8. CASE SwapHotelNext
  <2>1. Len(sol.days) = NbDays
    BY DEF Framed, Shape
  <2>2. iter + 1 \in 1 .. NbDays - 1
    BY <1>1, <1>8, <2>1 DEF SwapHotelNext, Junctions, DescentTypes
  <2>3. sol' = SwapHotel(sol, iter + 1)
    BY <1>8 DEF SwapHotelNext
  <2> QED BY <2>2, <2>3, SwapHotelEarns
<1>9. CASE Finish
  <2> DEFINE t == EvaluateScore(sol)
  <2>1. sol' = sol \/ sol' = t
    BY <1>9 DEF Finish, Rescored
  <2>2. t.score = Worth(VisitedIn(sol)) /\ Scored(t)
    BY <1>1, EvaluatedIsScored
  <2> HIDE DEF t
  <2>3. t.score = sol.score /\ sol.score \in Nat
    BY <1>1, <2>2, SolutionFields DEF Scored
  <2>4. Earns(sol, t)
    BY <2>2, <2>3 DEF Earns
  <2> QED BY <1>1, <2>1, <2>4
<1> QED BY <1>3, <1>4, <1>5, <1>6, <1>7, <1>8, <1>9 DEF DescentStep

-----------------------------------------------------------------------------
(* The rounds *)

ScoreInv == Descending => Scored(sol)

\* A trip that EvaluateScore returned, from whatever trip.
LEMMA RescoredIsScored ==
  ASSUME NEW t \in Solutions, Apart(EvaluateScore(t))
  PROVE  Scored(EvaluateScore(t))
<1>1. EvaluateScore(t) \in Solutions /\ EvaluateScore(t).days = t.days
  BY EvaluatedTotals
<1>2. Apart(t)
  BY <1>1, SameDaysTurn DEF Turns
<1> QED BY <1>2, EvaluatedIsScored

LEMMA ScoreStep ==
  ASSUME WorkerInv, TripInv, TripInv', ScoreInv, [Next]_vars
  PROVE  /\ ScoreInv'
         /\ Descending /\ Descending' => sol'.score >= sol.score
<1>1. /\ GreedyInv /\ DescentTypes /\ WorkerTypes /\ SoundTrips /\ Control
      /\ \A s : Sound(s) => Framed(s) /\ s \in Solutions
  BY InvParts DEF Sound, Framed
<1>2. CASE Constructed
  <2> DEFINE t == [days |-> days, score |-> 0, dist |-> 0]
  <2>1. t \in Solutions
    BY <1>1 DEF GreedyInv, GreedyTypeOK, Solutions
  <2>2. sol' = EvaluateScore(t) /\ Descending' /\ ~Descending
    BY <1>2 DEF Constructed, StartDescent, GreedySolution, Descending
  <2> HIDE DEF t
  <2>3. Apart(sol')
    BY <2>2 DEF TripInv
  <2>4. Scored(EvaluateScore(t))
    BY <2>1, <2>2, <2>3, RescoredIsScored
  <2> QED BY <2>2, <2>4 DEF ScoreInv
<1>3. CASE Descend
  <2>1. Framed(sol) /\ Apart(sol) /\ Listed /\ Scored(sol)
    BY <1>1, <1>3 DEF Descend, SoundTrips, Descending, TripInv, ScoreInv
  <2>2. Earns(sol, sol')
    BY <1>1, <1>3, <2>1, DescentEarns DEF Descend
  <2> QED BY <2>2 DEF Earns, ScoreInv, Scored
<1>4. CASE Shake
  <2>1. PICK s \in Shaken(record, force) : StartDescent(s)
    BY <1>4 DEF Shake
  <2>2. PICK t \in Destroyed(record, force) : s = EvaluateScore(t)
    BY DEF Shaken
  <2>3. sol' = s /\ Descending' /\ ~Descending
    BY <1>4, <2>1 DEF Shake, StartDescent, Descending
  <2>4. t \in Solutions
    <3> Framed(record) /\ Apart(record) /\ force \in 1 .. MaxForce
      BY <1>1, <1>4 DEF Shake, SoundTrips, Control, TripInv, WorkerTypes
    <3> QED BY <2>2, DestroyedApart DEF Framed
  <2>5. Apart(EvaluateScore(t))
    BY <2>2, <2>3 DEF TripInv
  <2>6. Scored(sol')
    BY <2>2, <2>3, <2>4, <2>5, RescoredIsScored
  <2> QED BY <2>3, <2>6 DEF ScoreInv
<1>5. CASE Seeded \/ ReturnSeed \/ Start \/ Restart \/ Exit \/ Refuse \/ Accept \/ Collect
  BY <1>5 DEF Seeded, ReturnSeed, Start, Restart, Exit, Refuse, Accept, Collect, ScoreInv, Descending
<1>6. CASE UNCHANGED <<descentVars, workerVars>>
  <2> sol \in Solutions /\ sol.score \in Nat
    BY InvParts, SolutionFields DEF Trips
  <2> QED BY <1>6 DEF descentVars, workerVars, ScoreInv, Descending, Scored
<1> QED
  BY <1>2, <1>3, <1>4, <1>5, <1>6 DEF Next, Step, Construct, Returned, DeadlinePasses, vars

LEMMA ScoreInvariance == Spec => []ScoreInv
<1>1. Init => ScoreInv
  BY DEF Init, ScoreInv, Descending
<1>2. WorkerInv /\ TripInv /\ TripInv' /\ ScoreInv /\ [Next]_vars => ScoreInv'
  BY ScoreStep
<1> QED BY <1>1, <1>2, Invariance, TripInvariance, PTL DEF Spec

\* TotalScore, which insertions and swaps update by what they put in and take out,
\* is the score EvaluateScore computes from the steps, after any sequence of moves.
THEOREM ScoresExact == Spec => []ScoreExact
<1>1. WorkerInv /\ TripInv /\ ScoreInv => ScoreExact
  <2> SUFFICES ASSUME WorkerInv, TripInv, ScoreInv, Descending
               PROVE  sol.score = EvaluateScore(sol).score
    BY DEF ScoreExact
  <2>1. sol \in Solutions /\ Apart(sol) /\ Scored(sol)
    BY InvParts DEF Trips, TripInv, ScoreInv
  <2> QED BY <2>1, EvaluatedIsScored DEF Scored
<1> QED BY <1>1, Invariance, TripInvariance, ScoreInvariance, PTL

\* No step of a descent lowers the score: what reversals, relocations and hotel
\* swaps shorten keeps its sites, and the EvaluateScore after each neighbourhood
\* finds the score the moves left.
THEOREM ScoreGrowsOnly == Spec => ScoreNeverFalls
<1>1. WorkerInv /\ TripInv /\ TripInv' /\ ScoreInv /\ [Next]_vars
        => [Descending /\ Descending' => sol'.score >= sol.score]_vars
  BY ScoreStep
<1> QED BY <1>1, Invariance, TripInvariance, ScoreInvariance, PTL DEF Spec, ScoreNeverFalls

-----------------------------------------------------------------------------
(* The end of a descent *)

\* No trip is worth more than all sites.
LEMMA WorthIsMost ==
  ASSUME NEW V \in SUBSET Sites
  PROVE  /\ SumFunction(Score) \in Nat /\ Worth(V) \in Nat
         /\ Worth(V) <= SumFunction(Score)
<1> DEFINE n    == Len(SiteIDs)
           W(i) == V \cup {SiteIDs[j] : j \in 1 .. i}
           T    == {i \in 0 .. n : Worth(V) <= Worth(W(i))}
<1>1. n \in Nat /\ Sites = {SiteIDs[j] : j \in 1 .. n} /\ \A j \in 1 .. n : SiteIDs[j] \in Sites
  BY PointsAssumption DEF Sites, ToSet
<1>2. \A X \in SUBSET Sites :
        /\ Worth(X) \in Nat
        /\ \A p \in Sites \ X : Worth(X \cup {p}) = Worth(X) + Score[p] /\ Score[p] \in Nat
  BY WorthGrows, SiteAssumption
<1>3. W(n) = Sites
  BY <1>1
<1>4. W(0) = V
  OBVIOUS
<1>5. ASSUME NEW i \in T, i + 1 <= n
      PROVE  i + 1 \in T
  <2> DEFINE p == SiteIDs[i + 1]
  <2>1. i \in 0 .. n /\ i + 1 \in 0 .. n /\ i + 1 \in 1 .. n /\ Worth(V) <= Worth(W(i))
    BY <1>1, <1>5
  <2>2. 1 .. i + 1 = (1 .. i) \cup {i + 1}
    BY <2>1
  <2>3. W(i + 1) = W(i) \cup {p}
    BY <2>2
  <2>4. W(i) \in SUBSET Sites /\ p \in Sites
    <3> \A j \in 1 .. i : j \in 1 .. n
      BY <1>1, <2>1
    <3> QED BY <1>1, <2>1
  <2> DEFINE X == W(i)
             Y == W(i + 1)
  <2>5. Y = X \cup {p} /\ X \in SUBSET Sites /\ p \in Sites /\ Worth(V) <= Worth(X)
    BY <2>1, <2>3, <2>4
  <2> HIDE DEF X, Y, W, p
  <2>6. Worth(X) \in Nat /\ Worth(V) \in Nat
    BY <1>2, <2>5
  <2>7. CASE p \in X
    <3> Y = X
      BY <2>5, <2>7
    <3> Worth(V) <= Worth(Y)
      BY <2>5
    <3> QED BY <2>1 DEF Y
  <2>8. CASE p \notin X
    <3>1. Worth(X \cup {p}) = Worth(X) + Score[p] /\ Score[p] \in Nat
      BY <1>2, <2>5, <2>8
    <3>2. Worth(Y) = Worth(X \cup {p})
      BY <2>5
    <3>3. Worth(V) <= Worth(Y)
      BY <2>5, <2>6, <3>1, <3>2
    <3> QED BY <2>1, <3>3 DEF Y
  <2> QED BY <2>7, <2>8
<1>6. Worth(V) \in Nat /\ Worth(Sites) \in Nat
  BY <1>2
<1>7. 0 \in T
  <2>1. Worth(V) <= Worth(W(0))
    <3> HIDE DEF W
    <3> QED BY <1>4, <1>6
  <2> QED BY <1>1, <2>1
<1>8. T = 0 .. n
  <2> T \in SUBSET (0 .. n)
    OBVIOUS
  <2> HIDE DEF T, W, n
  <2> QED BY <1>1, <1>5, <1>7, Climb
<1>9. Worth(V) <= Worth(Sites)
  <2>1. n \in T
    <3> HIDE DEF T, n
    <3> QED BY <1>1, <1>8
  <2>2. Worth(V) <= Worth(W(n))
    BY <2>1
  <2> HIDE DEF W, n
  <2> QED BY <1>3, <2>2
<1>10. Worth(Sites) = SumFunction(Score)
  <2> Score = [p \in Sites |-> Score[p]]
    BY SiteAssumption
  <2> QED BY DEF Worth
<1> QED BY <1>6, <1>9, <1>10

\* A sum of which one part becomes smaller.
LEMMA SmallerSum ==
  ASSUME NEW n \in Nat, NEW f \in [1 .. n -> Nat], NEW g \in [1 .. n -> Nat], NEW d \in 1 .. n,
         g[d] < f[d], \A e \in (1 .. n) \ {d} : g[e] = f[e]
  PROVE  /\ SumFunction(f) \in Nat /\ SumFunction(g) \in Nat
         /\ SumFunction(g) < SumFunction(f)
<1> DEFINE D == 1 .. n
           h == Others(f, d)
<1>1. IsFiniteSet(D)
  <2> 1 \in Int /\ n \in Int
    OBVIOUS
  <2> QED BY FS_Interval
<1>2. h = Others(g, d)
  BY DEF Others
<1>3. h \in [D \ {d} -> Nat] /\ IsFiniteSet(D \ {d})
  BY <1>1, FS_Subset DEF Others
<1>4. f \in [D -> Nat] /\ g \in [D -> Nat] /\ d \in D
  OBVIOUS
<1> HIDE DEF D, h
<1>5. SumFunction(f) = f[d] + SumFunction(h)
  BY <1>1, <1>4, SumSplit DEF h
<1>6. SumFunction(g) = g[d] + SumFunction(h)
  BY <1>1, <1>2, <1>4, SumSplit
<1> DEFINE E == D \ {d}
<1>7. SumFunction(h) \in Nat
  <2> HIDE DEF E
  <2>1. h \in [E -> Nat] /\ IsFiniteSet(E)
    BY <1>3 DEF E
  <2> QED BY <2>1, SumIsNat
<1>8. f[d] \in Nat /\ g[d] \in Nat
  BY <1>4
<1> QED BY <1>5, <1>6, <1>7, <1>8

\* Six numbers compared one after the other.
Falls(a1, a2, a3, a4, a5, a6, b1, b2, b3, b4, b5, b6) ==
  \/ a1 < b1
  \/ a1 = b1 /\ a2 < b2
  \/ a1 = b1 /\ a2 = b2 /\ a3 < b3
  \/ a1 = b1 /\ a2 = b2 /\ a3 = b3 /\ a4 < b4
  \/ a1 = b1 /\ a2 = b2 /\ a3 = b3 /\ a4 = b4 /\ a5 < b5
  \/ a1 = b1 /\ a2 = b2 /\ a3 = b3 /\ a4 = b4 /\ a5 = b5 /\ a6 < b6

LEMMA LexSix ==
  ASSUME NEW a1 \in Int, NEW a2 \in Int, NEW a3 \in Int, NEW a4 \in Int, NEW a5 \in Int, NEW a6 \in Int,
         NEW b1 \in Int, NEW b2 \in Int, NEW b3 \in Int, NEW b4 \in Int, NEW b5 \in Int, NEW b6 \in Int,
         Falls(a1, a2, a3, a4, a5, a6, b1, b2, b3, b4, b5, b6)
  PROVE  LexLess(<<a1, a2, a3, a4, a5, a6>>, <<b1, b2, b3, b4, b5, b6>>)
<1> DEFINE a == <<a1, a2, a3, a4, a5, a6>>
           b == <<b1, b2, b3, b4, b5, b6>>
<1>1. /\ DOMAIN a = 1 .. 6
      /\ a[1] = a1 /\ a[2] = a2 /\ a[3] = a3 /\ a[4] = a4 /\ a[5] = a5 /\ a[6] = a6
      /\ b[1] = b1 /\ b[2] = b2 /\ b[3] = b3 /\ b[4] = b4 /\ b[5] = b5 /\ b[6] = b6
  OBVIOUS
<1> HIDE DEF a, b
<1>2. SUFFICES \E i \in 1 .. 6 : a[i] < b[i] /\ \A j \in 1 .. i - 1 : a[j] = b[j]
  BY <1>1 DEF LexLess, a, b
<1>3. CASE a1 < b1
  BY <1>1, <1>3
<1>4. CASE a1 = b1 /\ a2 < b2
  <2> a[2] < b[2] /\ \A j \in 1 .. 2 - 1 : a[j] = b[j]
    BY <1>1, <1>4
  <2> QED OBVIOUS
<1>5. CASE a1 = b1 /\ a2 = b2 /\ a3 < b3
  <2> a[3] < b[3] /\ \A j \in 1 .. 3 - 1 : a[j] = b[j]
    <3> \A j \in 1 .. 3 - 1 : j = 1 \/ j = 2
      OBVIOUS
    <3> QED BY <1>1, <1>5
  <2> QED OBVIOUS
<1>6. CASE a1 = b1 /\ a2 = b2 /\ a3 = b3 /\ a4 < b4
  <2> a[4] < b[4] /\ \A j \in 1 .. 4 - 1 : a[j] = b[j]
    <3> \A j \in 1 .. 4 - 1 : j = 1 \/ j = 2 \/ j = 3
      OBVIOUS
    <3> QED BY <1>1, <1>6
  <2> QED OBVIOUS
<1>7. CASE a1 = b1 /\ a2 = b2 /\ a3 = b3 /\ a4 = b4 /\ a5 < b5
  <2> a[5] < b[5] /\ \A j \in 1 .. 5 - 1 : a[j] = b[j]
    <3> \A j \in 1 .. 5 - 1 : j = 1 \/ j = 2 \/ j = 3 \/ j = 4
      OBVIOUS
    <3> QED BY <1>1, <1>7
  <2> QED OBVIOUS
<1>8. CASE a1 = b1 /\ a2 = b2 /\ a3 = b3 /\ a4 = b4 /\ a5 = b5 /\ a6 < b6
  <2> a[6] < b[6] /\ \A j \in 1 .. 6 - 1 : a[j] = b[j]
    <3> \A j \in 1 .. 6 - 1 : j = 1 \/ j = 2 \/ j = 3 \/ j = 4 \/ j = 5
      OBVIOUS
    <3> QED BY <1>1, <1>8
  <2> QED OBVIOUS
<1> QED BY <1>3, <1>4, <1>5, <1>6, <1>7, <1>8 DEF Falls

\* Six natural numbers do not fall for ever: the first settles at its least value,
\* then the second, and so on.
LEMMA NoEndlessFall ==
  ASSUME NEW f, \A m \in Nat : DOMAIN f[m] = 1 .. 6 /\ \A i \in 1 .. 6 : f[m][i] \in Nat
  PROVE  \E n \in Nat : ~LexLess(f[n + 1], f[n])
<1> SUFFICES ASSUME \A n \in Nat : LexLess(f[n + 1], f[n]) PROVE FALSE
  OBVIOUS
<1> DEFINE Settled(j, n) == \A m \in Nat : m >= n => \A i \in 1 .. j : f[m][i] = f[n][i]
           T == {j \in 0 .. 6 : \E n \in Nat : Settled(j, n)}
<1>0. \A m \in Nat : DOMAIN f[m] = 1 .. 6 /\ \A i \in 1 .. 6 : f[m][i] \in Nat
  OBVIOUS
<1>1. \A n \in Nat : \E i \in 1 .. 6 : f[n + 1][i] < f[n][i] /\ \A j \in 1 .. i - 1 : f[n + 1][j] = f[n][j]
  <2> SUFFICES ASSUME NEW n \in Nat
               PROVE  \E i \in 1 .. 6 : f[n + 1][i] < f[n][i] /\ \A j \in 1 .. i - 1 : f[n + 1][j] = f[n][j]
    OBVIOUS
  <2>1. DOMAIN f[n + 1] = 1 .. 6
    <3> n + 1 \in Nat
      OBVIOUS
    <3> QED BY <1>0
  <2> QED BY <2>1 DEF LexLess
<1>2. 0 \in T
  <2> Settled(0, 0)
    OBVIOUS
  <2> QED OBVIOUS
<1>3. ASSUME NEW j \in T, j + 1 <= 6
      PROVE  j + 1 \in T
  <2>1. PICK n \in Nat : Settled(j, n)
    OBVIOUS
  <2> DEFINE c    == j + 1
             V    == {f[m][c] : m \in {q \in Nat : q >= n}}
  <2>2. j \in 0 .. 5 /\ c \in 1 .. 6 /\ c = j + 1
    BY <1>3
  <2>3. \A m \in Nat : f[m][c] \in Nat
    BY <1>0, <2>2
  <2>4. PICK v \in V : \A w \in V : v <= w
    <3> V \in SUBSET Nat
      BY <2>3
    <3> V # {}
      <4> f[n][c] \in V
        OBVIOUS
      <4> QED OBVIOUS
    <3> HIDE DEF V
    <3> QED BY LeastNat
  <2>5. PICK p \in Nat : p >= n /\ v = f[p][c]
    OBVIOUS
  <2>6. ASSUME NEW m \in Nat, m >= p PROVE f[p][c] <= f[m][c]
    <3> f[m][c] \in V
      <4>1. m >= n
        BY <2>5, <2>6
      <4> HIDE DEF c
      <4> QED BY <4>1
    <3> HIDE DEF V, c
    <3> QED BY <2>4, <2>5
  <2> HIDE DEF c
  <2>7. ASSUME NEW m \in Nat, m >= n
        PROVE  f[m + 1][c] <= f[m][c]
    <3>1. PICK i \in 1 .. 6 : f[m + 1][i] < f[m][i] /\ \A e \in 1 .. i - 1 : f[m + 1][e] = f[m][e]
      BY <1>1
    <3>2. \A e \in 1 .. j : f[m + 1][e] = f[m][e]
      <4> m + 1 \in Nat /\ m + 1 >= n
        BY <2>7
      <4> QED BY <2>1, <2>7
    <3>3. f[m][i] \in Nat /\ f[m + 1][i] \in Nat
      <4> m + 1 \in Nat
        OBVIOUS
      <4> QED BY <1>0
    <3>4. i \notin 1 .. j
      BY <3>1, <3>2, <3>3
    <3>5. i = c \/ c \in 1 .. i - 1
      BY <2>2, <3>4
    <3>6. f[m][c] \in Nat /\ f[m + 1][c] \in Nat
      <4> m + 1 \in Nat
        OBVIOUS
      <4> QED BY <2>3
    <3> QED BY <3>1, <3>5, <3>6
  <2> DEFINE g(m) == f[m][c]
  <2>8. ASSUME NEW q \in Nat, q >= p
        PROVE  g(q) <= g(p)
    <3> DEFINE U == {m \in p .. q : g(m) <= g(p)}
    <3>1. g(p) \in Nat
      BY <2>3
    <3>2. p <= q => p \in U
      <4> HIDE DEF g
      <4> QED BY <3>1
    <3>3. ASSUME NEW m \in U, m + 1 <= q PROVE m + 1 \in U
      <4>1. m \in Nat /\ m >= n /\ m + 1 \in p .. q /\ g(m) <= g(p)
        BY <2>5, <3>3
      <4>2. g(m + 1) <= g(m)
        BY <2>7, <4>1
      <4>3. g(m) \in Nat /\ g(m + 1) \in Nat
        BY <2>3, <4>1
      <4> HIDE DEF g
      <4> QED BY <3>1, <4>1, <4>2, <4>3
    <3>4. U = p .. q
      <4> U \in SUBSET (p .. q)
        OBVIOUS
      <4> HIDE DEF U, g
      <4> QED BY <3>2, <3>3, Climb
    <3>5. q \in p .. q
      BY <2>8
    <3>6. q \in U
      BY <3>4, <3>5
    <3> QED BY <3>6
  <2>9. ASSUME NEW m \in Nat, m >= p, NEW i \in 1 .. c
        PROVE  f[m][i] = f[p][i]
    <3>1. CASE i = c
      <4>1. g(m) <= g(p) /\ g(p) <= g(m)
        BY <2>6, <2>8, <2>9
      <4>2. g(m) \in Nat /\ g(p) \in Nat
        BY <2>3
      <4>3. g(m) = g(p)
        <5> DEFINE x == g(m)
                   y == g(p)
        <5>1. x <= y /\ y <= x /\ x \in Nat /\ y \in Nat
          BY <4>1, <4>2
        <5> HIDE DEF x, y
        <5>2. x = y
          BY <5>1
        <5> QED BY <5>2 DEF x, y
      <4> QED BY <3>1, <4>3
    <3>2. CASE i # c
      <4>1. i \in 1 .. j /\ m >= n
        BY <2>2, <2>5, <2>9, <3>2
      <4>2. f[m][i] = f[n][i] /\ f[p][i] = f[n][i]
        BY <2>1, <2>5, <4>1
      <4> QED BY <4>2
    <3> QED BY <3>1, <3>2
  <2>10. Settled(c, p)
    BY <2>9
  <2> HIDE DEF Settled
  <2>11. c \in 0 .. 6 /\ \E q \in Nat : Settled(c, q)
    BY <2>2, <2>10
  <2> QED BY <2>2, <2>11
<1>4. T = 0 .. 6
  <2> T \in SUBSET (0 .. 6)
    OBVIOUS
  <2> HIDE DEF T
  <2> QED BY <1>2, <1>3, Climb
<1>5. PICK n \in Nat : Settled(6, n)
  <2> 6 \in T
    <3> HIDE DEF T
    <3> QED BY <1>4
  <2> QED OBVIOUS
<1>6. n + 1 \in Nat /\ n + 1 >= n
  OBVIOUS
<1>7. \A i \in 1 .. 6 : f[n + 1][i] = f[n][i]
  BY <1>5, <1>6
<1>8. \A i \in 1 .. 6 : f[n][i] \in Nat
  BY <1>0
<1>9. PICK i \in 1 .. 6 : f[n + 1][i] < f[n][i]
  BY <1>1
<1> QED BY <1>7, <1>8, <1>9

\* What is left is never less than nothing.
Measured ==
  /\ SumFunction(Score) - sol.score \in Nat
  /\ 5 - k \in Nat
  /\ Max({MaxIter, NbDays}) - iter \in Nat
  /\ SumFunction([d \in DOMAIN sol.days |-> sol.days[d].dist]) \in Nat
  /\ Remaining \in Seq(Nat)

LEMMA RemainingIsNat ==
  ASSUME DescentTypes, Framed(sol), Scored(sol)
  PROVE  Measured
<1> DEFINE W == SumFunction(Score)
           m == Max({MaxIter, NbDays})
           f == [d \in DOMAIN sol.days |-> sol.days[d].dist]
<1>1. /\ sol \in Solutions /\ sol.score \in Nat
      /\ DOMAIN sol.days = 1 .. Len(sol.days) /\ Len(sol.days) \in Nat
      /\ \A d \in DOMAIN sol.days : sol.days[d] \in DayTours
  BY SolutionFields DEF Framed
<1>2. W \in Nat /\ sol.score <= W
  <2>1. VisitedIn(sol) \in SUBSET Sites
    BY DEF VisitedIn
  <2>2. sol.score = Worth(VisitedIn(sol))
    BY DEF Scored
  <2> HIDE DEF W
  <2> QED BY <2>1, <2>2, WorthIsMost DEF W
<1>3. W - sol.score \in Nat
  <2> HIDE DEF W
  <2> QED BY <1>1, <1>2
<1>4. 5 - k \in Nat
  BY DEF DescentTypes
<1>5. m - iter \in Nat
  <2>1. MaxIter \in Nat /\ NbDays \in Nat
    BY IterationsAssumption, PointsAssumption
  <2>2. m \in Nat /\ m = IF MaxIter >= NbDays THEN MaxIter ELSE NbDays
    <3> HIDE DEF m
    <3> QED BY <2>1, MaxOfTwo DEF m
  <2>3. iter \in Nat /\ (iter <= MaxIter \/ iter < NbDays)
    BY DEF DescentTypes
  <2> HIDE DEF m
  <2> QED BY <2>1, <2>2, <2>3
<1>6. SumFunction(f) \in Nat
  <2> DEFINE n == Len(sol.days)
  <2>1. f \in [1 .. n -> Nat] /\ n \in Nat
    <3> \A d \in 1 .. n : sol.days[d].dist \in Nat
      BY <1>1 DEF DayTours
    <3> QED BY <1>1
  <2> HIDE DEF f, n
  <2> QED BY <2>1, SumOfSeq
<1> DEFINE x1 == W - sol.score
           x2 == IF stage \in {"inner", "cut"} /\ sol.score > oldScore THEN 1 ELSE 0
           x3 == 5 - k
           x4 == CASE stage = "head" -> 3 [] stage = "inner" -> 2 [] stage = "cut" -> 1
                   [] stage = "done" -> 0
           x5 == m - iter
           x6 == SumFunction(f)
<1>7. x4 \in Nat
  BY DEF DescentTypes
<1>8. x2 \in Nat
  OBVIOUS
<1>9. Remaining = <<x1, x2, x3, x4, x5, x6>>
  BY DEF Remaining
<1> HIDE DEF x1, x2, x3, x4, x5, x6
<1>10. x1 \in Nat /\ x2 \in Nat /\ x3 \in Nat /\ x4 \in Nat /\ x5 \in Nat /\ x6 \in Nat
  BY <1>3, <1>4, <1>5, <1>6, <1>7, <1>8 DEF x1, x3, x5, x6
<1>11. Remaining \in Seq(Nat)
  BY <1>9, <1>10
<1> QED BY <1>3, <1>4, <1>5, <1>6, <1>11 DEF Measured, x1, x2, x3, x4, x5, x6

\* A reversal makes its day shorter and leaves the others.
LEMMA ReversalShortens ==
  ASSUME NEW s, Framed(s), NEW m \in Reversals(s), NEW t, t = Reverse2Opt(s, m)
  PROVE  /\ t.score = s.score
         /\ SumFunction([d \in DOMAIN t.days |-> t.days[d].dist])
              < SumFunction([d \in DOMAIN s.days |-> s.days[d].dist])
<1> DEFINE d   == m[1]
           pts == Reversed(PointsAt(s, d), m[2], m[3])
           f   == [e \in DOMAIN s.days |-> s.days[e].dist]
           g   == [e \in DOMAIN t.days |-> t.days[e].dist]
           n   == Len(s.days)
<1>1. /\ s \in Solutions /\ DOMAIN s.days = 1 .. n /\ n \in Nat
      /\ \A e \in DOMAIN s.days : s.days[e] \in DayTours
  BY SolutionFields DEF Framed
<1>2. /\ d \in DOMAIN s.days /\ m[2] \in 2 .. Len(SiteIDs) + 1 /\ m[2] < m[3]
      /\ m[3] \in Inner(PointsAt(s, d)) /\ TourLength(pts) < s.days[d].dist
  BY DEF Reversals
<1>3. pts \in Seq(Points)
  <2>1. Tour(PointsAt(s, d)) /\ Len(PointsAt(s, d)) \in Nat
    BY <1>2, DayOfFrame
  <2>2. m[2] \in 2 .. Len(PointsAt(s, d)) - 1
    BY <1>2, <2>1, PointsAssumption DEF Inner
  <2>3. Tour(pts)
    BY <1>2, <2>1, <2>2, ReversedKeepsEnds
  <2> QED BY <2>3 DEF Tour
<1>4. t = Replace(s, d, pts)
  BY DEF Reverse2Opt
<1> HIDE DEF pts, d
<1>5. /\ t \in Solutions /\ t.score = s.score /\ DOMAIN t.days = DOMAIN s.days
      /\ t.days[d].dist = TourLength(pts)
      /\ \A e \in DOMAIN s.days \ {d} : t.days[e] = s.days[e]
  BY <1>1, <1>2, <1>3, <1>4, ReplacedDay
<1>6. \A e \in DOMAIN s.days : s.days[e].dist \in Nat
  BY <1>1 DEF DayTours
<1>7. \A e \in DOMAIN t.days : t.days[e].dist \in Nat
  <2> \A e \in DOMAIN t.days : t.days[e] \in DayTours
    BY <1>5, SolutionFields
  <2> QED BY DEF DayTours
<1>8. /\ f \in [1 .. n -> Nat] /\ g \in [1 .. n -> Nat] /\ d \in 1 .. n
      /\ g[d] < f[d] /\ \A e \in (1 .. n) \ {d} : g[e] = f[e]
  BY <1>1, <1>2, <1>5, <1>6, <1>7
<1> HIDE DEF f, g, n
<1>9. SumFunction(g) < SumFunction(f)
  BY <1>1, <1>8, SmallerSum
<1> QED BY <1>5, <1>9 DEF f, g

\* Each step of a descent leaves less.
LEMMA DescentNearer ==
  ASSUME DescentTypes, DescentTypes', Framed(sol), Apart(sol), Listed, Scored(sol), Measured, Measured',
         DescentStep
  PROVE  LexLess(Remaining', Remaining)
<1> DEFINE W  == SumFunction(Score)
           m  == Max({MaxIter, NbDays})
           b1 == W - sol.score
           b2 == IF stage \in {"inner", "cut"} /\ sol.score > oldScore THEN 1 ELSE 0
           b3 == 5 - k
           b4 == CASE stage = "head" -> 3 [] stage = "inner" -> 2 [] stage = "cut" -> 1
                   [] stage = "done" -> 0
           b5 == m - iter
           b6 == SumFunction([d \in DOMAIN sol.days |-> sol.days[d].dist])
           a1 == W - sol'.score
           a2 == IF stage' \in {"inner", "cut"} /\ sol'.score > oldScore' THEN 1 ELSE 0
           a3 == 5 - k'
           a4 == CASE stage' = "head" -> 3 [] stage' = "inner" -> 2 [] stage' = "cut" -> 1
                   [] stage' = "done" -> 0
           a5 == m - iter'
           a6 == SumFunction([d \in DOMAIN sol'.days |-> sol'.days[d].dist])
           B == <<b1, b2, b3, b4, b5, b6>>
           A == <<a1, a2, a3, a4, a5, a6>>
<1>1. Remaining = B /\ Remaining' = A
  BY DEF Remaining
<1>2. /\ b1 \in Nat /\ b3 \in Nat /\ b5 \in Nat /\ b6 \in Nat
      /\ a1 \in Nat /\ a3 \in Nat /\ a5 \in Nat /\ a6 \in Nat
  BY DEF Measured
<1>3. /\ b2 \in {0, 1} /\ (stage \in {"head", "done"} => b2 = 0)
      /\ (stage \in {"inner", "cut"} => (b2 = 1 <=> sol.score > oldScore))
  OBVIOUS
<1>4. /\ a2 \in {0, 1} /\ (stage' \in {"head", "done"} => a2 = 0)
      /\ (stage' \in {"inner", "cut"} => (a2 = 1 <=> sol'.score > oldScore'))
  OBVIOUS
<1>5. /\ b4 \in Nat /\ (stage = "head" => b4 = 3) /\ (stage = "inner" => b4 = 2)
      /\ (stage = "cut" => b4 = 1) /\ (stage = "done" => b4 = 0)
  BY DEF DescentTypes
<1>6. /\ a4 \in Nat /\ (stage' = "head" => a4 = 3) /\ (stage' = "inner" => a4 = 2)
      /\ (stage' = "cut" => a4 = 1) /\ (stage' = "done" => a4 = 0)
  BY DEF DescentTypes
<1>7. /\ W \in Nat /\ m \in Nat /\ k \in Int /\ k' \in Int /\ iter \in Int /\ iter' \in Int
      /\ sol.score \in Int /\ sol'.score \in Int /\ oldScore \in Int /\ oldScore' \in Int
  <2>1. W \in Nat
    <3> {} \in SUBSET Sites
      OBVIOUS
    <3> QED BY WorthIsMost
  <2>2. m \in Nat
    <3> MaxIter \in Nat /\ NbDays \in Nat
      BY IterationsAssumption, PointsAssumption
    <3> HIDE DEF m
    <3> QED BY MaxOfTwo DEF m
  <2>3. Earns(sol, sol')
    BY DescentEarns
  <2>4. sol.score \in Nat
    BY SolutionFields DEF Framed
  <2>5. sol'.score \in Nat
    <3> VisitedIn(sol') \in SUBSET Sites
      BY DEF VisitedIn
    <3> QED BY <2>3, WorthIsMost DEF Earns, Scored
  <2> QED BY <2>1, <2>2, <2>4, <2>5 DEF DescentTypes
<1>8. b1 = W - sol.score /\ a1 = W - sol'.score /\ b5 = m - iter /\ a5 = m - iter'
      /\ b3 = 5 - k /\ a3 = 5 - k'
  OBVIOUS
<1>9. sol' = sol => a6 = b6
  OBVIOUS
<1>10. sol'.score >= sol.score
  BY DescentEarns DEF Earns
<1>11. Reversals(sol) # {} => \A r \in Reversals(sol) : sol' = Reverse2Opt(sol, r) =>
         sol'.score = sol.score /\ a6 < b6
  <2> SUFFICES ASSUME NEW r \in Reversals(sol), sol' = Reverse2Opt(sol, r)
               PROVE  sol'.score = sol.score /\ a6 < b6
    OBVIOUS
  <2> DEFINE t == Reverse2Opt(sol, r)
  <2>1. sol' = t
    OBVIOUS
  <2>2. /\ t.score = sol.score
        /\ SumFunction([d \in DOMAIN t.days |-> t.days[d].dist])
             < SumFunction([d \in DOMAIN sol.days |-> sol.days[d].dist])
    BY ReversalShortens
  <2> HIDE DEF t
  <2> QED BY <2>1, <2>2
<1> HIDE DEF W, m, a1, a2, a3, a4, a5, a6, b1, b2, b3, b4, b5, b6
<1> SUFFICES Falls(a1, a2, a3, a4, a5, a6, b1, b2, b3, b4, b5, b6)
  <2>1. /\ a1 \in Int /\ a2 \in Int /\ a3 \in Int /\ a4 \in Int /\ a5 \in Int /\ a6 \in Int
        /\ b1 \in Int /\ b2 \in Int /\ b3 \in Int /\ b4 \in Int /\ b5 \in Int /\ b6 \in Int
    BY <1>2, <1>3, <1>4, <1>5, <1>6
  <2>2. Falls(a1, a2, a3, a4, a5, a6, b1, b2, b3, b4, b5, b6) => LexLess(A, B)
    BY <2>1, LexSix
  <2> HIDE DEF A, B
  <2> QED BY <1>1, <2>2
<1>12. CASE Begin
  <2>1. sol' = sol /\ k' = k /\ iter' = iter /\ stage = "head" /\ stage' = "inner" /\ oldScore' = sol.score
    BY <1>12 DEF Begin
  <2>2. ~(sol'.score > oldScore')
    BY <1>7, <2>1
  <2>3. a1 = b1 /\ a2 = b2 /\ a3 = b3 /\ a4 < b4
    BY <1>3, <1>4, <1>5, <1>6, <1>8, <2>1, <2>2
  <2> QED BY <2>3 DEF Falls
<1>13. CASE Stop
  <2>1. sol' = sol /\ k' = k /\ stage = "head" /\ stage' = "done"
    BY <1>13 DEF Stop
  <2>2. a1 = b1 /\ a2 = b2 /\ a3 = b3 /\ a4 < b4
    BY <1>3, <1>4, <1>5, <1>6, <1>8, <2>1
  <2> QED BY <2>2 DEF Falls
<1>14. CASE InsertBest
  <2>1. PICK r \in Insertions(sol, list) : sol' = Insert(sol, r[2], r[3], list[r[1]])
    BY <1>14, ChosenMoves DEF InsertBest
  <2> DEFINE u == list[r[1]]
  <2>2. /\ r[1] \in DOMAIN list /\ r[2] \in DOMAIN sol.days /\ r[3] \in Slots(PointsAt(sol, r[2]))
        /\ Score[u] > 0
    BY DEF Insertions
  <2>3. u \in Sites /\ Score[u] \in Nat
    <3>1. list \in Seq(Sites)
      BY DEF DescentTypes
    <3>2. u \in Sites
      BY <2>2, <3>1
    <3> QED BY <3>2, SiteAssumption
  <2>4. sol'.score = sol.score + Score[u]
    BY <2>1, <2>2, <2>3, InsertScore
  <2> HIDE DEF u
  <2>5. a1 < b1
    BY <1>7, <1>8, <2>2, <2>3, <2>4
  <2> QED BY <2>5 DEF Falls
<1>15. CASE ReverseFirst
  <2>1. PICK r \in Reversals(sol) : sol' = Reverse2Opt(sol, r)
    BY <1>15, ChosenMoves DEF ReverseFirst
  <2>2. sol'.score = sol.score /\ a6 < b6
    BY <1>11, <2>1
  <2>3. k' = k /\ oldScore' = oldScore /\ iter' = iter /\ stage' = "inner" /\ stage = "inner"
    BY <1>15 DEF ReverseFirst
  <2>4. a1 = b1 /\ a2 = b2 /\ a3 = b3 /\ a4 = b4 /\ a5 = b5
    BY <1>3, <1>4, <1>5, <1>6, <1>8, <2>2, <2>3
  <2> QED BY <2>2, <2>4 DEF Falls
<1>16. CASE SwapBest
  <2>1. PICK r \in Swaps(sol, list) : sol' = Swap(sol, r[1], r[2], list[r[3]])
    BY <1>16, ChosenMoves DEF SwapBest
  <2> DEFINE u == list[r[3]]
             g == Gain(sol, r[1], r[2], u)
  <2>2. r[3] \in DOMAIN list /\ r[1] \in DOMAIN sol.days /\ r[2] \in Inner(PointsAt(sol, r[1])) /\ g > 0
    BY DEF Swaps
  <2>3. u \in Sites
    BY <2>2 DEF DescentTypes
  <2>4. sol'.score = sol.score + g
    BY <2>1, <2>2, <2>3, SwapScore
  <2>5. g \in Int
    <3>1. PointsAt(sol, r[1])[r[2]] \in Sites
      BY <2>2, DayOfFrame
    <3> QED BY <2>3, <3>1, SiteAssumption DEF Gain
  <2> HIDE DEF u, g
  <2>6. a1 < b1
    BY <1>7, <1>8, <2>2, <2>4, <2>5
  <2> QED BY <2>6 DEF Falls
<1>17. CASE Relocate \/ SwapHotelNext
  <2>1. k' = k /\ oldScore' = oldScore /\ iter' = iter + 1 /\ stage' = "inner" /\ stage = "inner"
    BY <1>17 DEF Relocate, SwapHotelNext
  <2>2. CASE sol'.score > sol.score
    <3> a1 < b1
      BY <1>7, <1>8, <2>2
    <3> QED BY DEF Falls
  <2>3. CASE sol'.score = sol.score
    <3>1. a1 = b1 /\ a2 = b2 /\ a3 = b3 /\ a4 = b4
      BY <1>3, <1>4, <1>5, <1>6, <1>8, <2>1, <2>3
    <3>2. a5 < b5
      BY <1>7, <1>8, <2>1
    <3> QED BY <3>1, <3>2 DEF Falls
  <2> QED BY <1>7, <1>10, <2>2, <2>3
<1>18. CASE Finish
  <2>1. /\ stage \in {"inner", "cut"} /\ stage' = "head"
        /\ k' = IF sol'.score > oldScore THEN 0 ELSE k + 1
    BY <1>18 DEF Finish, Exhausted
  <2>2. sol'.score = sol.score
    <3> DEFINE t == EvaluateScore(sol)
    <3>1. sol' = sol \/ sol' = t
      BY <1>18 DEF Finish, Rescored
    <3>2. t.score = Worth(VisitedIn(sol))
      BY EvaluatedIsScored DEF Framed
    <3> HIDE DEF t
    <3> QED BY <3>1, <3>2 DEF Scored
  <2>3. a1 = b1 /\ a2 = 0
    BY <1>4, <1>8, <2>1, <2>2
  <2>4. CASE sol.score > oldScore
    <3> b2 = 1
      BY <1>3, <2>1, <2>4
    <3> QED BY <2>3 DEF Falls
  <2>5. CASE ~(sol.score > oldScore)
    <3>1. b2 = 0
      BY <1>3, <2>1, <2>5
    <3>2. k' = k + 1
      BY <2>1, <2>2, <2>5
    <3>3. a3 < b3
      BY <1>7, <1>8, <3>2
    <3> QED BY <2>3, <3>1, <3>3 DEF Falls
  <2> QED BY <2>4, <2>5
<1> QED BY <1>12, <1>13, <1>14, <1>15, <1>16, <1>17, <1>18 DEF DescentStep

\* Every step of a descent but the clock's is a step towards its end, so that
\* nothing keeps a descent that is given the time: the fairness of DescentEnds only
\* has to make the steps happen.
THEOREM EndIsNearer == Spec => EndNearer
<1> DEFINE M == Descending => Measured
<1>1. WorkerInv /\ TripInv /\ ScoreInv => M
  <2> SUFFICES ASSUME WorkerInv, TripInv, ScoreInv, Descending PROVE Measured
    OBVIOUS
  <2>1. DescentTypes /\ Framed(sol) /\ Scored(sol)
    BY InvParts DEF SoundTrips, Sound, Descending, ScoreInv
  <2> QED BY <2>1, RemainingIsNat
<1>2. WorkerInv /\ WorkerInv' /\ TripInv /\ ScoreInv /\ M /\ M' /\ [Next]_vars =>
        [Descending /\ Descending' /\ UNCHANGED expired =>
           Remaining \in Seq(Nat) /\ Remaining' \in Seq(Nat) /\ LexLess(Remaining', Remaining)]_vars
  <2> SUFFICES ASSUME WorkerInv, WorkerInv', TripInv, ScoreInv, M, M', Next,
                      Descending, Descending', UNCHANGED expired
               PROVE  Remaining \in Seq(Nat) /\ Remaining' \in Seq(Nat) /\ LexLess(Remaining', Remaining)
    OBVIOUS
  <2>1. Descend
    BY DEF Next, Step, Descending, Construct, Constructed, Descend, Seeded, ReturnSeed, Start,
      Restart, Shake, Refuse, Judging, Accept, Exit, Collect, Returned, DeadlinePasses, Expire,
      workerVars, vars
  <2>2. DescentTypes /\ Framed(sol) /\ Apart(sol) /\ Listed /\ Scored(sol)
    BY InvParts DEF SoundTrips, Sound, Descending, TripInv, ScoreInv
  <2>3. DescentTypes'
    BY <2>1, <2>2, DescentStepKeeps DEF Descend
  <2>4. Measured /\ Measured'
    OBVIOUS
  <2>5. LexLess(Remaining', Remaining)
    BY <2>1, <2>2, <2>3, <2>4, DescentNearer DEF Descend
  <2> QED BY <2>4, <2>5 DEF Measured
<1> QED BY <1>1, <1>2, Invariance, TripInvariance, ScoreInvariance, PTL DEF Spec, EndNearer

-----------------------------------------------------------------------------
(* Days whose every leg was recomputed *)

NewDay(day)   == \E pts : day = FreshDay(pts)
NewDays(days_) == \A d \in DOMAIN days_ : NewDay(days_[d])
Renewed(s)    == "days" \in DOMAIN s /\ NewDays(s.days)

LEMMA NewDayOfPoints ==
  ASSUME NEW day \in DayTours, NewDay(day)
  PROVE  day = FreshDay(PointsOf(day))
<1> DEFINE qts == PointsOf(day)
<1>1. PICK pts : day = FreshDay(pts)
  BY DEF NewDay
<1>2. day.steps = FreshSteps(pts) /\ day.dist = TourLength(pts)
  BY <1>1 DEF FreshDay
<1>3. DOMAIN day.steps = DOMAIN pts /\ \A i \in DOMAIN pts : day.steps[i].pt = pts[i]
  BY <1>2 DEF FreshSteps
<1>4. DOMAIN qts = DOMAIN pts /\ \A i \in DOMAIN pts : qts[i] = pts[i]
  BY <1>3 DEF PointsOf
<1>5. DOMAIN pts = 1 .. Len(day.steps) /\ Len(day.steps) \in Nat
  BY <1>3 DEF DayTours
<1> HIDE DEF qts
<1>6. \A i \in DOMAIN pts : Leg(qts, i) = Leg(pts, i)
  <2> SUFFICES ASSUME NEW i \in DOMAIN pts PROVE Leg(qts, i) = Leg(pts, i)
    OBVIOUS
  <2> i # 1 => i - 1 \in DOMAIN pts
    BY <1>5
  <2> QED BY <1>4 DEF Leg
<1>7. FreshSteps(qts) = FreshSteps(pts)
  BY <1>4, <1>6 DEF FreshSteps
<1>8. [i \in DOMAIN qts |-> Leg(qts, i)] = [i \in DOMAIN pts |-> Leg(pts, i)]
  BY <1>4, <1>6
<1>9. TourLength(qts) = TourLength(pts)
  BY <1>8, Zenon DEF TourLength
<1> QED BY <1>1, <1>7, <1>9 DEF FreshDay, qts

LEMMA ReplaceRenews ==
  ASSUME NEW s, Renewed(s), NEW d, NEW pts
  PROVE  Renewed(Replace(s, d, pts))
<1> DEFINE day == FreshDay(pts)
           r   == Replace(s, d, pts)
<1>1. NewDay(day)
  BY DEF NewDay
<1> HIDE DEF day
<1>2. r = [s EXCEPT !.days[d] = day]
  BY DEF Replace, day
<1>3. "days" \in DOMAIN r /\ r.days = [s.days EXCEPT ![d] = day]
  BY <1>2 DEF Renewed
<1>4. \A e \in DOMAIN s.days : r.days[e] = day \/ r.days[e] = s.days[e]
  BY <1>3
<1>5. DOMAIN r.days = DOMAIN s.days
  BY <1>3
<1> HIDE DEF r
<1>6. Renewed(r)
  BY <1>1, <1>3, <1>4, <1>5 DEF Renewed, NewDays
<1> QED BY <1>6 DEF r

LEMMA ScoringRenews ==
  ASSUME NEW s, Renewed(s)
  PROVE  Renewed(EvaluateScore(s)) /\ EvaluateScore(s).days = s.days
<1> DEFINE a == SumFunction([d \in DOMAIN s.days |-> DayScore(s.days[d])])
           b == SumFunction([d \in DOMAIN s.days |-> DayLegs(s.days[d])])
           r == EvaluateScore(s)
<1>1. r = [s EXCEPT !.score = a, !.dist = b]
  BY Zenon DEF EvaluateScore
<1> HIDE DEF a, b, r
<1>2. "days" \in DOMAIN r /\ r.days = s.days
  BY <1>1 DEF Renewed
<1> QED BY <1>2 DEF Renewed, r

LEMMA InsertRenews ==
  ASSUME NEW s, Renewed(s), NEW d, NEW pos, NEW u
  PROVE  Renewed(Insert(s, d, pos, u)) /\ Renewed(Swap(s, d, pos, u))
<1> DEFINE q == Replace(s, d, InsertAt(PointsAt(s, d), pos, u))
           r == Replace(s, d, ReplaceAt(PointsAt(s, d), pos, u))
<1>1. Renewed(q) /\ Renewed(r)
  BY ReplaceRenews
<1>2. /\ Insert(s, d, pos, u) = [q EXCEPT !.score = q.score + Score[u]]
      /\ Swap(s, d, pos, u) = [r EXCEPT !.score = r.score + Gain(s, d, pos, u)]
  BY DEF Insert, Swap
<1> HIDE DEF q, r
<1>3. ASSUME NEW t, Renewed(t), NEW x PROVE Renewed([t EXCEPT !.score = x])
  <2> "days" \in DOMAIN [t EXCEPT !.score = x] /\ [t EXCEPT !.score = x].days = t.days
    BY <1>3 DEF Renewed
  <2> QED BY <1>3 DEF Renewed
<1> DEFINE a == q.score + Score[u]
           b == r.score + Gain(s, d, pos, u)
<1>4. Renewed([q EXCEPT !.score = a]) /\ Renewed([r EXCEPT !.score = b])
  <2> HIDE DEF a, b
  <2> QED BY <1>1, <1>3
<1> QED BY <1>2, <1>4

LEMMA RelocationRenews ==
  ASSUME NEW s, Renewed(s), NEW l, NEW d, NEW type, NEW r \in Relocations(s, l, d, type)
  PROVE  Renewed(r.sol)
<1>1. Renewed(Unchanged(s, l).sol)
  BY DEF Unchanged
<1>2. \A p, q : Renewed(RelocateWithin(s, l, d, p, q).sol)
  <2> SUFFICES ASSUME NEW p, NEW q PROVE Renewed(RelocateWithin(s, l, d, p, q).sol)
    OBVIOUS
  <2> DEFINE t == Replace(s, d, Moved(PointsAt(s, d), p, q))
  <2>1. Renewed(t)
    BY ReplaceRenews
  <2>2. RelocateWithin(s, l, d, p, q) \in {[sol |-> t, list |-> l], Unchanged(s, l)}
    BY DEF RelocateWithin
  <2> HIDE DEF t
  <2> QED BY <1>1, <2>1, <2>2
<1>3. \A p, e : \A x \in RelocateAcross(s, l, d, p, e) : Renewed(x.sol)
  <2> SUFFICES ASSUME NEW p, NEW e, NEW x \in RelocateAcross(s, l, d, p, e) PROVE Renewed(x.sol)
    OBVIOUS
  <2> DEFINE t    == Replace(s, d, RemoveAt(PointsAt(s, d), p))
             v(q) == Replace(t, e, InsertAt(PointsAt(s, e), q, PointsAt(s, d)[p]))
  <2>1. Renewed(t)
    BY ReplaceRenews
  <2>2. x = Unchanged(s, l) \/ \E q : x = [sol |-> v(q), list |-> l]
    BY Zenon DEF RelocateAcross
  <2>3. \A q : Renewed(v(q))
    <3> HIDE DEF t
    <3> QED BY <2>1, ReplaceRenews
  <2> HIDE DEF v
  <2> QED BY <1>1, <2>2, <2>3
<1>4. \A pos, i : Renewed(RelocateInsert(s, l, d, pos, i).sol)
  <2> SUFFICES ASSUME NEW pos, NEW i PROVE Renewed(RelocateInsert(s, l, d, pos, i).sol)
    OBVIOUS
  <2> DEFINE t == Insert(s, d, pos, l[i])
  <2>1. Renewed(t)
    BY InsertRenews
  <2>2. \/ RelocateInsert(s, l, d, pos, i) = Unchanged(s, l)
        \/ RelocateInsert(s, l, d, pos, i) = [sol |-> t, list |-> MarkVisited(l, l[i])]
    BY Zenon DEF RelocateInsert
  <2> HIDE DEF t
  <2> QED BY <1>1, <2>1, <2>2
<1> DEFINE pts == PointsAt(s, d)
<1>5. CASE r = Unchanged(s, l)
  BY <1>1, <1>5
<1>6. CASE \E p \in Inner(pts), q \in Inner(pts) : r = RelocateWithin(s, l, d, p, q)
  BY <1>2, <1>6
<1>7. CASE \E p \in Inner(pts), e \in DOMAIN s.days : r \in RelocateAcross(s, l, d, p, e)
  BY <1>3, <1>7
<1>8. CASE \E pos \in Slots(pts), i \in DOMAIN l : r = RelocateInsert(s, l, d, pos, i)
  BY <1>4, <1>8
<1> HIDE DEF pts
<1> QED BY <1>5, <1>6, <1>7, <1>8 DEF Relocations, pts

LEMMA SwapHotelRenews ==
  ASSUME NEW s, Renewed(s), NEW d
  PROVE  Renewed(SwapHotel(s, d))
<1>1. \A h : Renewed(MeetAt(s, d, h))
  <2> SUFFICES ASSUME NEW h PROVE Renewed(MeetAt(s, d, h))
    OBVIOUS
  <2> DEFINE t == Replace(s, d, EndingAt(s, d, h))
  <2>1. Renewed(t)
    BY ReplaceRenews
  <2> HIDE DEF t
  <2>2. Renewed(Replace(t, d + 1, StartingAt(s, d + 1, h)))
    BY <2>1, ReplaceRenews
  <2> QED BY <2>2 DEF MeetAt, t
<1> QED BY <1>1 DEF SwapHotel

LEMMA DescentRenews ==
  ASSUME Renewed(sol), DescentStep
  PROVE  Renewed(sol')
<1>1. CASE Begin \/ Stop
  BY <1>1 DEF Begin, Stop
<1>2. CASE InsertBest
  <2> PICK m : sol' = Insert(sol, m[2], m[3], list[m[1]])
    BY <1>2 DEF InsertBest
  <2> QED BY InsertRenews
<1>3. CASE ReverseFirst
  <2> PICK m : sol' = Reverse2Opt(sol, m)
    BY <1>3 DEF ReverseFirst
  <2> QED BY ReplaceRenews DEF Reverse2Opt
<1>4. CASE SwapBest
  <2> PICK m : sol' = Swap(sol, m[1], m[2], list[m[3]])
    BY <1>4 DEF SwapBest
  <2> QED BY InsertRenews
<1>5. CASE Relocate
  <2>1. PICK d, type : \E r \in Relocations(sol, list, d, type) : sol' = r.sol
    BY <1>5 DEF Relocate
  <2>2. PICK r \in Relocations(sol, list, d, type) : sol' = r.sol
    BY <2>1
  <2> QED BY <2>2, RelocationRenews
<1>6. CASE SwapHotelNext
  BY <1>6, SwapHotelRenews DEF SwapHotelNext
<1>7. CASE Finish
  <2> sol' = sol \/ sol' = EvaluateScore(sol)
    BY <1>7 DEF Finish, Rescored
  <2> QED BY ScoringRenews
<1> QED BY <1>1, <1>2, <1>3, <1>4, <1>5, <1>6, <1>7 DEF DescentStep

-----------------------------------------------------------------------------
(* Trips that recomputation leaves alone *)

\* Points decide what Refreshed makes of a trip, and it makes nothing of it twice.
LEMMA RefreshedOnce ==
  ASSUME NEW s \in Solutions
  PROVE  /\ Refreshed(s) \in Solutions /\ Renewed(Refreshed(s)) /\ SamePoints(s, Refreshed(s))
         /\ Refreshed(Refreshed(s)) = Refreshed(s)
<1> DEFINE n  == Len(s.days)
           fs == [d \in 1 .. n |-> FreshDay(PointsAt(s, d))]
           a  == SumFunction(Scores(s))
           b  == SumFunction(Lengths(s))
           r  == [days |-> fs, score |-> a, dist |-> b]
<1>1. /\ n \in Nat /\ DOMAIN s.days = 1 .. n
      /\ \A d \in 1 .. n : PointsAt(s, d) \in Seq(Points)
  BY SolutionFields, PointsOfSolution
<1>2. Refreshed(s) = r
  BY RefreshedTotals
<1>3. fs \in Seq(DayTours) /\ Len(fs) = n /\ DOMAIN fs = 1 .. n
  <2> \A d \in 1 .. n : FreshDay(PointsAt(s, d)) \in DayTours
    BY <1>1, FreshDayOfTour
  <2> QED BY <1>1
<1>4. a \in Nat /\ b \in Nat
  BY <1>1, DayTotals, SumOfSeq
<1>5. \A d \in 1 .. n : PointsOf(fs[d]) = PointsAt(s, d) /\ NewDay(fs[d])
  BY <1>1, FreshDayOfTour DEF NewDay
<1> HIDE DEF fs, a, b
<1>6. r \in Solutions /\ r.days = fs /\ "days" \in DOMAIN r
  BY <1>3, <1>4 DEF Solutions
<1> HIDE DEF r
<1>7. SamePoints(s, r) /\ Renewed(r) /\ Len(r.days) = n /\ \A d \in 1 .. n : PointsAt(r, d) = PointsAt(s, d)
  BY <1>1, <1>3, <1>5, <1>6 DEF SamePoints, PointsAt, Renewed, NewDays
<1>8. Scores(r) = Scores(s) /\ Lengths(r) = Lengths(s)
  BY <1>7 DEF Scores, Lengths
<1>9. [d \in 1 .. Len(r.days) |-> FreshDay(PointsAt(r, d))] = fs
  BY <1>7 DEF fs
<1>10. SumFunction(Scores(r)) = a /\ SumFunction(Lengths(r)) = b
  BY <1>8, Zenon DEF a, b
<1>11. Refreshed(r) = r
  <2> Refreshed(r) = [days |-> [d \in 1 .. Len(r.days) |-> FreshDay(PointsAt(r, d))],
                      score |-> SumFunction(Scores(r)), dist |-> SumFunction(Lengths(r))]
    BY <1>6, RefreshedTotals
  <2> QED BY <1>9, <1>10 DEF r
<1> QED BY <1>2, <1>6, <1>7, <1>11

\* On renewed days EvaluateScore gives what Refreshed does.
LEMMA ScoringRefreshes ==
  ASSUME NEW s \in Solutions, Renewed(s)
  PROVE  EvaluateScore(s) = Refreshed(s) /\ Refreshed(EvaluateScore(s)) = EvaluateScore(s)
<1> DEFINE fs == [d \in DOMAIN s.days |-> FreshDay(PointsOf(s.days[d]))]
           f  == [s EXCEPT !.days = fs]
<1>1. \A d \in DOMAIN s.days : s.days[d] = FreshDay(PointsOf(s.days[d]))
  BY SolutionFields, NewDayOfPoints DEF Renewed, NewDays
<1>2. fs = s.days
  <2> DEFINE days_ == s.days
  <2>1. days_ = [d \in DOMAIN days_ |-> days_[d]]
    <3> days_ \in Seq(DayTours)
      BY SolutionFields
    <3> HIDE DEF days_
    <3> QED OBVIOUS
  <2> QED BY <1>1, <2>1
<1> HIDE DEF fs
<1>3. f = s
  BY <1>2 DEF Solutions
<1>4. Refreshed(s) = EvaluateScore(f)
  BY Zenon DEF Refreshed, fs
<1> HIDE DEF f
<1> QED BY <1>3, <1>4, RefreshedOnce

\* A leg that is there already is rewritten in vain; so is a distance.
LEMMA SameLeg ==
  ASSUME NEW s \in Solutions, NEW d \in DOMAIN s.days, NEW i \in DOMAIN s.days[d].steps,
         NEW leg, s.days[d].steps[i].leg = leg
  PROVE  WithLeg(s, d, i, leg) = s
<1> DEFINE steps == s.days[d].steps
           step  == [steps[i] EXCEPT !.leg = leg]
           new   == [steps EXCEPT ![i] = step]
           day   == [s.days[d] EXCEPT !.steps = new]
           all   == [s.days EXCEPT ![d] = day]
<1>1. /\ s.days \in Seq(DayTours) /\ s.days[d] \in DayTours /\ steps \in Seq(Steps)
      /\ steps[i] \in Steps
  <2>1. s.days \in Seq(DayTours) /\ s.days[d] \in DayTours
    BY SolutionFields
  <2>2. steps \in Seq(Steps)
    BY <2>1 DEF DayTours
  <2> HIDE DEF steps
  <2>3. i \in DOMAIN steps
    BY DEF steps
  <2> QED BY <2>1, <2>2, <2>3
<1>2. step = steps[i]
  BY <1>1 DEF Steps
<1>3. WithLeg(s, d, i, leg) = [s EXCEPT !.days = all]
  BY DEF WithLeg
<1> HIDE DEF step
<1>4. new = steps
  <2> HIDE DEF steps
  <2> QED BY <1>1, <1>2
<1> HIDE DEF new
<1>5. day = s.days[d]
  BY <1>1, <1>4 DEF DayTours
<1> HIDE DEF day
<1>6. all = s.days
  <2> DEFINE ds == s.days
  <2>1. ds \in Seq(DayTours) /\ d \in DOMAIN ds /\ day = ds[d]
    BY <1>1, <1>5
  <2>2. all = [ds EXCEPT ![d] = day]
    OBVIOUS
  <2> HIDE DEF ds
  <2>3. [ds EXCEPT ![d] = day] = ds
    BY <2>1
  <2> QED BY <2>2, <2>3 DEF ds
<1> HIDE DEF all
<1>7. [s EXCEPT !.days = all] = s
  BY <1>6 DEF Solutions
<1> QED BY <1>3, <1>7

LEMMA SameDist ==
  ASSUME NEW s \in Solutions, NEW d \in DOMAIN s.days, NEW x, s.days[d].dist = x
  PROVE  [s EXCEPT !.days[d].dist = x] = s
<1> DEFINE day == [s.days[d] EXCEPT !.dist = x]
           all == [s.days EXCEPT ![d] = day]
<1>1. s.days \in Seq(DayTours) /\ s.days[d] \in DayTours
  BY SolutionFields
<1>2. [s EXCEPT !.days[d].dist = x] = [s EXCEPT !.days = all]
  OBVIOUS
<1>3. day = s.days[d]
  BY <1>1 DEF DayTours
<1> HIDE DEF day
<1>4. all = s.days
  <2> DEFINE ds == s.days
  <2>1. ds \in Seq(DayTours) /\ d \in DOMAIN ds /\ day = ds[d]
    BY <1>1, <1>3
  <2>2. all = [ds EXCEPT ![d] = day]
    OBVIOUS
  <2> HIDE DEF ds
  <2>3. [ds EXCEPT ![d] = day] = ds
    BY <2>1
  <2> QED BY <2>2, <2>3 DEF ds
<1> HIDE DEF all
<1>5. [s EXCEPT !.days = all] = s
  BY <1>4 DEF Solutions
<1> QED BY <1>2, <1>5

\* The legs and distances of renewed days.
LEMMA RenewedDay ==
  ASSUME NEW s \in Solutions, Renewed(s), NEW d \in DOMAIN s.days
  PROVE  /\ s.days[d].dist = TourLength(PointsAt(s, d))
         /\ \A i \in DOMAIN s.days[d].steps : s.days[d].steps[i].leg = Leg(PointsAt(s, d), i)
<1> DEFINE pts == PointsAt(s, d)
           day == s.days[d]
<1>1. day = FreshDay(pts)
  BY SolutionFields, NewDayOfPoints DEF Renewed, NewDays, PointsAt
<1> HIDE DEF day, pts
<1>2. day.dist = TourLength(pts) /\ day.steps = FreshSteps(pts)
  BY <1>1 DEF FreshDay
<1>3. \A i \in DOMAIN day.steps : day.steps[i].leg = Leg(pts, i)
  BY <1>2 DEF FreshSteps
<1> QED BY <1>2, <1>3 DEF day, pts

LEMMA DayStays ==
  ASSUME NEW s \in Solutions, Renewed(s), NEW e \in Calls(s), e.sol = s, NEW d \in DOMAIN s.days,
         Len(PointsAt(s, d)) >= 1
  PROVE  EvaluateDay(e, d).sol = s
<1> DEFINE pts == PointsAt(s, d)
           n   == Len(pts)
<1>1. PICK w : Walks(s, e, d, w)
  BY WalkExists
<1> DEFINE T   == {i \in 1 .. n : w[i].sol = s}
           end == w[n]
<1>2. /\ pts \in Seq(Points) /\ n \in Nat /\ n >= 1 /\ DOMAIN s.days[d].steps = 1 .. n
      /\ s.days[d].dist = TourLength(pts)
      /\ \A i \in 1 .. n : WithLeg(s, d, i, Leg(pts, i)) = s
  <2>1. pts \in Seq(Points) /\ n \in Nat /\ n >= 1 /\ DOMAIN s.days[d].steps = 1 .. n
    BY PointsOfSolution
  <2>2. /\ s.days[d].dist = TourLength(pts)
        /\ \A i \in 1 .. n : s.days[d].steps[i].leg = Leg(pts, i)
    BY <2>1, RenewedDay
  <2> HIDE DEF pts, n
  <2> QED BY <2>1, <2>2, SameLeg
<1>3. /\ w \in [1 .. n -> Calls(s)] /\ w[1] = Began(e, d)
      /\ \A i \in 2 .. n : w[i] = Onwards(w[i - 1], d, i)
  BY <1>1 DEF Walks
<1>4. 1 \in T
  <2>1. Began(e, d).sol = WithLeg(e.sol, d, 1, 0)
    BY BeganDoes
  <2>2. Leg(pts, 1) = 0 /\ 1 \in 1 .. n
    BY <1>2 DEF Leg
  <2>3. WithLeg(s, d, 1, 0) = s
    BY <1>2, <2>2
  <2> QED BY <1>3, <2>1, <2>2, <2>3
<1>5. ASSUME NEW i \in T, i + 1 <= n PROVE i + 1 \in T
  <2> DEFINE m == i + 1
  <2>1. m \in 2 .. n /\ m \in 1 .. n /\ m - 1 = i /\ i \in 1 .. n
    BY <1>2, <1>5
  <2> HIDE DEF m
  <2>2. w[m] = Onwards(w[i], d, m) /\ w[i] \in Calls(s) /\ w[i].sol = s
    BY <1>3, <2>1
  <2>3. w[i].ok => w[m].sol = WithLeg(s, d, m, Leg(pts, m))
    BY <2>1, <2>2, WalkDoes
  <2>4. ~w[i].ok => w[m] = w[i]
    BY <2>2 DEF Onwards
  <2>5. w[m].sol = s
    BY <1>2, <2>1, <2>2, <2>3, <2>4
  <2> QED BY <2>1, <2>5 DEF m
<1>6. T = 1 .. n
  <2> 1 \in Nat /\ T \in SUBSET (1 .. n)
    OBVIOUS
  <2> HIDE DEF T, n
  <2> QED BY <1>2, <1>4, <1>5, Climb
<1>7. end \in Calls(s) /\ end.sol = s /\ (end.ok => end.dist = TourLength(pts))
  <2>1. n \in 1 .. n
    BY <1>2
  <2>2. end \in Calls(s) /\ end.sol = s
    BY <1>3, <1>6, <2>1
  <2>3. end.ok => end.dist = LengthTo(pts, n)
    BY <1>1, <2>1, WalkedDistance
  <2>4. LengthTo(pts, n) = TourLength(pts)
    BY <1>2, LengthGrows
  <2> QED BY <2>2, <2>3, <2>4
<1>8. \A c \in Calls(s) : Refused(c).sol = c.sol
  BY DEF Refused, Calls
<1> HIDE DEF end
<1>9. EvaluateDay(e, d) \in {Refused(e), Refused(end)} \/ (end.ok /\ EvaluateDay(e, d) = Ended(end, d))
  BY <1>1, Zenon DEF Walks, end
<1>10. end.ok => Ended(end, d).sol = s
  <2> DEFINE x == [end.sol EXCEPT !.days[d].dist = end.dist]
             y == end.totalDist + end.dist
  <2>1. Ended(end, d) = [end EXCEPT !.sol = x, !.totalDist = y]
    BY DEF Ended
  <2>2. end.ok => x = s
    BY <1>2, <1>7, SameDist
  <2> HIDE DEF x, y
  <2>3. [end EXCEPT !.sol = x, !.totalDist = y].sol = x
    BY <1>7 DEF Calls
  <2> QED BY <2>1, <2>2, <2>3
<1> QED BY <1>7, <1>8, <1>9, <1>10

\* EvaluateSolution leaves a refreshed trip alone, whatever it answers.
LEMMA RefreshedStays ==
  ASSUME NEW s, Framed(s), s = Refreshed(s)
  PROVE  EvaluateSolution(s).sol = s
<1>1. s \in Solutions /\ Renewed(s) /\ \A d \in DOMAIN s.days : Len(PointsAt(s, d)) >= 1
  <2>1. \A d \in DOMAIN s.days : Len(PointsAt(s, d)) >= 2
    BY DEF Framed, Shape
  <2>2. \A d \in DOMAIN s.days : Len(PointsAt(s, d)) \in Nat
    BY PointsOfSolution DEF Framed
  <2> QED BY <2>1, <2>2, RefreshedOnce DEF Framed
<1>2. PICK u : Passes(s, u)
  BY <1>1, PassExists
<1> DEFINE n == Len(s.days)
           T == {d \in 0 .. n : u[d].sol = s}
<1>3. n \in Nat /\ DOMAIN s.days = 1 .. n
  BY <1>1, SolutionFields
<1>4. /\ u \in [0 .. n -> Calls(s)] /\ u[0] = Entry(s) /\ Evaluated(s) = u[n]
      /\ \A d \in 1 .. n : u[d] = NextDay(s, u[d - 1], d)
  BY <1>2 DEF Passes
<1> HIDE DEF n
<1>5. 0 \in T
  BY <1>3, <1>4 DEF Entry
<1>6. ASSUME NEW d \in T, d + 1 <= n PROVE d + 1 \in T
  <2>1. d + 1 \in 1 .. n /\ d + 1 \in 0 .. n /\ (d + 1) - 1 = d /\ d \in 0 .. n
    BY <1>3, <1>6
  <2>2. u[d] \in Calls(s) /\ u[d + 1] = NextDay(s, u[d], d + 1) /\ u[d].sol = s
    BY <1>4, <2>1
  <2>3. u[d + 1].sol = s
    BY <1>1, <1>3, <2>1, <2>2, DayStays DEF NextDay
  <2> QED BY <2>1, <2>3
<1>7. T = 0 .. n
  <2> 0 \in Nat /\ T \in SUBSET (0 .. n)
    OBVIOUS
  <2> HIDE DEF T
  <2> QED BY <1>3, <1>5, <1>6, Climb
<1>8. Evaluated(s).sol = s
  BY <1>3, <1>4, <1>7
<1>9. CASE EvaluateSolution(s).valid
  <2> \A d \in DOMAIN s.days : PointsAt(s, d) # <<>>
    <3> Len(<<>>) = 0
      OBVIOUS
    <3> QED BY <1>1
  <2> QED BY <1>1, <1>9, AcceptsRecomputed
<1>10. CASE ~EvaluateSolution(s).valid
  BY <1>8, <1>10 DEF EvaluateSolution
<1> QED BY <1>9, <1>10

-----------------------------------------------------------------------------
(* The records *)

\* The seed is made of new days, and is recomputed whenever its descent may end.
RecordInv ==
  /\ NewDays(days)
  /\ seeding /\ Descending => Renewed(sol)
  /\ seeding /\ Descending /\ (stage \in {"head", "done"} \/ (k = 4 /\ NbDays <= 1)) =>
       sol = Refreshed(sol)
  /\ RecordExact

LEMMA GreedyRenews ==
  ASSUME days \in Seq(DayTours), NewDays(days), GreedyStep
  PROVE  NewDays(days')
<1>1. CASE days' = days
  BY <1>1
<1>2. CASE EndDay
  <2>1. PICK h : days' = Append(days, FreshDay(Append(tour, h)))
    BY <1>2 DEF EndDay
  <2> DEFINE day == FreshDay(Append(tour, h))
  <2>2. NewDay(day)
    BY DEF NewDay
  <2> HIDE DEF day
  <2>3. \A d \in DOMAIN Append(days, day) : Append(days, day)[d] = day \/ (d \in DOMAIN days /\ Append(days, day)[d] = days[d])
    OBVIOUS
  <2>4. NewDays(Append(days, day))
    BY <2>2, <2>3 DEF NewDays
  <2> QED BY <2>1, <2>4 DEF day
<1> QED BY <1>1, <1>2 DEF GreedyStep, Visit

\* The descent of the seed.
LEMMA SeedDescends ==
  ASSUME DescentTypes, sol \in Solutions, Renewed(sol), DescentStep,
         stage \in {"head", "done"} \/ (k = 4 /\ NbDays <= 1) => sol = Refreshed(sol)
  PROVE  /\ Renewed(sol')
         /\ stage' \in {"head", "done"} \/ (k' = 4 /\ NbDays <= 1) => sol' = Refreshed(sol')
<1>1. Renewed(sol')
  BY DescentRenews
<1>2. CASE Begin \/ Stop
  BY <1>1, <1>2 DEF Begin, Stop
<1>3. CASE InsertBest \/ ReverseFirst \/ SwapBest \/ Relocate
  BY <1>1, <1>3 DEF InsertBest, ReverseFirst, SwapBest, Relocate, Polled
<1>4. CASE SwapHotelNext
  <2> ~(NbDays <= 1)
    BY <1>4 DEF SwapHotelNext, Junctions, DescentTypes
  <2> QED BY <1>1, <1>4 DEF SwapHotelNext
<1>5. CASE Finish
  <2> DEFINE r == EvaluateScore(sol)
  <2>1. r = Refreshed(r)
    BY ScoringRefreshes
  <2> HIDE DEF r
  <2>2. sol' = r \/ (k = 4 /\ NbDays <= 1 /\ sol' = sol)
    BY <1>5 DEF Finish, Rescored, r
  <2> QED BY <1>1, <2>1, <2>2
<1> QED BY <1>2, <1>3, <1>4, <1>5 DEF DescentStep

\* A candidate that is accepted becomes the record refreshed.
LEMMA Judgement ==
  ASSUME NEW s, Framed(s)
  PROVE  /\ EvaluateSolution(s).valid <=> Valid(s)
         /\ EvaluateSolution(s).valid => EvaluateSolution(s).sol = Refreshed(s)
<1>1. s \in Solutions /\ Shape(s)
  BY DEF Framed
<1>2. \A d \in DOMAIN s.days : PointsAt(s, d) # <<>>
  <2> Len(<<>>) = 0
    OBVIOUS
  <2> QED BY <1>1 DEF Shape
<1> QED BY <1>1, <1>2, AnswersByTheRules, AcceptsRecomputed

\* What the collecting loop makes of a refreshed record and a refreshed seed.
LEMMA CollectedIsSame ==
  ASSUME NEW s, Framed(s), s = Refreshed(s)
  PROVE  EvaluateScore(s) = s
<1>1. s \in Solutions /\ Renewed(s)
  BY RefreshedOnce DEF Framed
<1> QED BY <1>1, ScoringRefreshes

LEMMA Collection ==
  ASSUME WorkerInv, RecordExact, Collect
  PROVE  /\ Framed(record) /\ Framed(bestSol) /\ ~seeding /\ record' = record
         /\ bestSol' = IF Valid(record) /\ Beats(record, bestSol) THEN record ELSE bestSol
<1> DEFINE published == EvaluateSolution(record)
<1>1. Framed(record) /\ Framed(bestSol) /\ ~seeding /\ Joined
  BY InvParts DEF Collect, Control, SoundTrips, Sound
<1>2. record = Refreshed(record) /\ bestSol = Refreshed(bestSol)
  BY <1>1 DEF RecordExact
<1>3. published.sol = record /\ (published.valid <=> Valid(record))
  BY <1>1, <1>2, RefreshedStays, Judgement
<1> HIDE DEF published
<1>4. /\ record' = published.sol
      /\ bestSol' = EvaluateScore(IF published.valid /\ Beats(published.sol, bestSol)
                                    THEN published.sol ELSE bestSol)
  BY DEF Collect, published
<1>5. EvaluateScore(record) = record /\ EvaluateScore(bestSol) = bestSol
  BY <1>1, <1>2, CollectedIsSame
<1>6. CASE Valid(record) /\ Beats(record, bestSol)
  BY <1>1, <1>3, <1>4, <1>5, <1>6
<1>7. CASE ~(Valid(record) /\ Beats(record, bestSol))
  <2> bestSol' = EvaluateScore(bestSol)
    BY <1>3, <1>4, <1>7
  <2> QED BY <1>1, <1>3, <1>4, <1>5, <1>7
<1> QED BY <1>6, <1>7

LEMMA RecordStep ==
  ASSUME WorkerInv, RecordInv, [Next]_vars
  PROVE  RecordInv'
<1>1. GreedyInv /\ DescentTypes /\ WorkerTypes /\ Trips /\ SoundTrips /\ Control /\ days \in Seq(DayTours)
  BY InvParts DEF GreedyInv, GreedyTypeOK
<1>2. CASE Construct
  BY <1>1, <1>2, GreedyRenews DEF Construct, RecordInv, RecordExact, Descending, Joined, descentVars, workerVars
<1>3. CASE Constructed
  <2> DEFINE t == [days |-> days, score |-> 0, dist |-> 0]
  <2>1. t \in Solutions /\ Renewed(t)
    BY <1>1 DEF Solutions, Renewed, RecordInv
  <2>2. sol' = EvaluateScore(t) /\ days' = <<>>
    BY <1>3 DEF Constructed, StartDescent, StartGreedy, GreedySolution
  <2> HIDE DEF t
  <2>3. Renewed(EvaluateScore(t)) /\ EvaluateScore(t) = Refreshed(EvaluateScore(t))
    BY <2>1, ScoringRenews, ScoringRefreshes
  <2>4. NewDays(<<>>)
    BY DEF NewDays
  <2>5. RecordExact'
    BY <1>3 DEF Constructed, RecordInv, RecordExact, Joined
  <2> QED BY <2>2, <2>3, <2>4, <2>5 DEF RecordInv
<1>4. CASE Descend
  <2>1. RecordExact' /\ NewDays(days') /\ seeding' = seeding /\ Descending
    BY <1>4 DEF Descend, RecordInv, RecordExact, Joined, greedyVars, workerVars, Descending
  <2>2. CASE seeding
    <3>1. sol \in Solutions /\ DescentStep
      BY <1>1, <1>4 DEF Trips, Descend
    <3>2. /\ Renewed(sol')
          /\ stage' \in {"head", "done"} \/ (k' = 4 /\ NbDays <= 1) => sol' = Refreshed(sol')
      BY <1>1, <2>1, <2>2, <3>1, SeedDescends DEF RecordInv
    <3> QED BY <2>1, <3>2 DEF RecordInv
  <2> QED BY <2>1, <2>2 DEF RecordInv
<1>5. CASE Seeded
  <2> sol = Refreshed(sol) /\ ~seeding' /\ bestSol' = sol /\ record' = record /\ days' = days
    BY <1>5 DEF Seeded, RecordInv, Descending, greedyVars
  <2> QED BY DEF RecordInv, RecordExact, Joined
<1>6. CASE Start
  <2> ~seeding /\ ~seeding' /\ record' = bestSol /\ bestSol' = bestSol /\ days' = days
    BY <1>1, <1>6 DEF Start, Control, greedyVars
  <2> QED BY DEF RecordInv, RecordExact
<1>7. CASE ReturnSeed \/ Restart \/ Exit \/ Shake
  <2>1. /\ ~seeding /\ seeding' = seeding /\ record' = record /\ bestSol' = bestSol
        /\ days' = days
    BY <1>1, <1>7 DEF ReturnSeed, Restart, Exit, Shake, Control, greedyVars
  <2> QED BY <2>1 DEF RecordInv, RecordExact, Joined
<1>8. CASE Refuse
  <2>1. ~seeding /\ seeding' = seeding /\ record' = record /\ bestSol' = bestSol /\ days' = days
    BY <1>8 DEF Refuse, Judging, greedyVars
  <2> QED BY <2>1 DEF RecordInv, RecordExact, Joined
<1>9. CASE Accept
  <2>1. /\ ~seeding /\ seeding' = seeding /\ bestSol' = bestSol /\ days' = days /\ Descending
        /\ Judged.valid /\ record' = Judged.sol
    BY <1>9 DEF Accept, Judging, Descending, greedyVars
  <2>2. Framed(sol) /\ sol \in Solutions
    BY <1>1, <2>1 DEF SoundTrips, Sound, Framed
  <2>3. record' = Refreshed(sol)
    BY <2>1, <2>2, Judgement DEF Judged
  <2>4. Refreshed(record') = record'
    BY <2>2, <2>3, RefreshedOnce
  <2> QED BY <2>1, <2>4 DEF RecordInv, RecordExact
<1>10. CASE Collect
  <2>1. /\ ~seeding /\ record' = record /\ bestSol' \in {record, bestSol}
        /\ record = Refreshed(record) /\ bestSol = Refreshed(bestSol)
    <3>1. Joined
      BY <1>1, <1>10 DEF Collect, Control
    <3> QED BY <1>10, <3>1, Collection DEF RecordInv, RecordExact
  <2>2. seeding' = seeding /\ days' = days
    BY <1>10 DEF Collect, greedyVars
  <2> QED BY <2>1, <2>2 DEF RecordInv, RecordExact
<1>11. CASE DeadlinePasses \/ UNCHANGED vars
  <2> UNCHANGED <<greedyVars, descentVars, workerVars>>
    BY <1>11 DEF DeadlinePasses, vars
  <2> QED BY DEF greedyVars, descentVars, workerVars, RecordInv, RecordExact, Descending, Joined
<1> QED
  BY <1>2, <1>3, <1>4, <1>5, <1>6, <1>7, <1>8, <1>9, <1>10, <1>11 DEF Next, Step, Returned

LEMMA RecordInvariance == Spec => []RecordInv
<1>1. Init => RecordInv
  BY DEF Init, RecordInv, RecordExact, NewDays, Descending, Joined
<1>2. WorkerInv /\ RecordInv /\ [Next]_vars => RecordInv'
  BY RecordStep
<1> QED BY <1>1, <1>2, Invariance, PTL DEF Spec

\* The seed, every worker's record and what is returned are compared, published
\* and kept with legs, distances and totals that recomputing them does not change.
THEOREM RecordsExact == Spec => []RecordExact
<1>1. RecordInv => RecordExact
  BY DEF RecordInv
<1> QED BY <1>1, RecordInvariance, PTL

-----------------------------------------------------------------------------
(* The refinement of Incumbents *)

\* What there is not yet.
Empty ==
  /\ seeding => bestSol = NoSolution
  /\ seeding \/ phase = "start" => record = NoSolution

LEMMA EmptyStep ==
  ASSUME WorkerInv, Empty, [Next]_vars
  PROVE  Empty'
<1>1. Control
  BY InvParts
<1>2. CASE Construct \/ Constructed \/ Descend \/ DeadlinePasses \/ UNCHANGED vars
  <2> UNCHANGED <<seeding, bestSol, record>> /\ (phase' = "start" => phase = "start")
    BY <1>2 DEF Construct, Constructed, Descend, DeadlinePasses, vars, workerVars
  <2> QED BY DEF Empty
<1>3. CASE Seeded
  BY <1>3 DEF Seeded, Empty
<1>4. CASE ReturnSeed \/ Start \/ Restart \/ Shake \/ Exit \/ Refuse \/ Accept \/ Collect
  <2> ~seeding /\ seeding' = seeding /\ phase' # "start"
    BY <1>1, <1>4 DEF ReturnSeed, Start, Restart, Shake, Exit, Refuse, Accept, Collect, Control, Judging
  <2> QED BY DEF Empty
<1> QED BY <1>2, <1>3, <1>4 DEF Next, Step, Returned

LEMMA EmptyInvariance == Spec => []Empty
<1>1. Init => Empty
  BY DEF Init, Empty
<1>2. WorkerInv /\ Empty /\ [Next]_vars => Empty'
  BY EmptyStep
<1> QED BY <1>1, <1>2, Invariance, PTL DEF Spec

\* The rules of a trip are about its points.
LEMMA ValidByPoints ==
  ASSUME NEW s \in Solutions, NEW r, SamePoints(s, r), Valid(s)
  PROVE  Valid(r)
<1>1. r \in Solutions /\ DOMAIN r.days = DOMAIN s.days /\ DOMAIN s.days = 1 .. Len(s.days)
      /\ s.days \in Seq(DayTours) /\ r.days \in Seq(DayTours)
  BY SolutionFields DEF SamePoints
<1>2. \A d \in DOMAIN s.days : PointsOf(r.days[d]) = PointsOf(s.days[d])
  BY DEF SamePoints, PointsAt
<1>3. Len(r.days) = Len(s.days)
  BY <1>1
<1>4. NoSiteTwice(r.days)
  <2>1. Once(s.days)
    BY <1>1, OnceIsNoSiteTwice DEF Valid
  <2>2. Once(r.days)
    BY <1>1, <1>2, <1>3, <2>1 DEF Once
  <2> QED BY <1>1, <2>2, OnceIsNoSiteTwice
<1>5. ASSUME NEW d \in DOMAIN r.days, r.days[d].steps # <<>>
      PROVE  ValidDay(d, PointsOf(r.days[d]))
  <2>1. s.days[d].steps # <<>>
    <3>1. /\ r.days[d].steps \in Seq(Steps) /\ s.days[d].steps \in Seq(Steps)
          /\ Len(r.days[d].steps) = Len(s.days[d].steps)
      BY <1>1, PointsOfSolution, SMTT(30) DEF SamePoints, DayTours
    <3> QED BY <1>5, <3>1
  <2> QED BY <1>1, <1>2, <2>1 DEF Valid
<1> QED BY <1>4, <1>5 DEF Valid

\* Ranks of trips that exist.
LEMMA RankOfTrip ==
  ASSUME NEW s, Framed(s)
  PROVE  /\ s # NoSolution
         /\ Rank(s) = [score |-> s.score, dist |-> s.dist, valid |-> Valid(s)]
         /\ Rank(s) \in [score : Nat, dist : Nat, valid : BOOLEAN]
         /\ Rank(s) # NoRank
         /\ Rank(s).score = s.score /\ Rank(s).dist = s.dist /\ (Rank(s).valid <=> Valid(s))
<1>1. s \in Solutions /\ s # NoSolution
  BY NoSolutionFacts DEF Framed
<1>2. s.score \in Nat /\ s.dist \in Nat /\ Valid(s) \in BOOLEAN
  <2> Valid(s) \in BOOLEAN
    BY DEF Valid
  <2> QED BY <1>1, SolutionFields
<1> DEFINE v == Valid(s)
<1>3. Rank(s) = [score |-> s.score, dist |-> s.dist, valid |-> v]
  BY <1>1 DEF Rank
<1>4. NoRank.dist = -1
  BY DEF NoRank
<1> HIDE DEF v
<1>5. v \in BOOLEAN
  BY <1>2 DEF v
<1>6. Rank(s).score = s.score /\ Rank(s).dist = s.dist /\ Rank(s).valid = v
  BY <1>3
<1>7. Rank(s).dist # NoRank.dist
  BY <1>2, <1>4, <1>6
<1> QED BY <1>1, <1>2, <1>3, <1>5, <1>6, <1>7 DEF v

LEMMA InitPromise == Init => Promise!Init
BY DEF Init, Promise!Init, Rank

LEMMA StepPromise ==
  ASSUME WorkerInv, RecordInv, RecordInv', Empty, [Next]_vars
  PROVE  [Promise!Next]_(Promise!vars)
<1> USE DEF Promise!vars
<1>1. DescentTypes /\ WorkerTypes /\ Trips /\ SoundTrips /\ Control
  BY InvParts
<1>2. CASE \/ Construct \/ Constructed \/ Descend \/ Restart \/ Shake \/ Exit \/ Refuse
           \/ DeadlinePasses \/ UNCHANGED vars
  <2>1. UNCHANGED <<bestSol, record>>
    BY <1>2 DEF Construct, Constructed, Descend, Restart, Shake, Exit, Refuse, DeadlinePasses,
      vars, workerVars
  <2>2. (phase' = "returned") = (phase = "returned")
    BY <1>2 DEF Construct, Constructed, Descend, Restart, Shake, Exit, Refuse, Judging,
      DeadlinePasses, vars, workerVars
  <2> QED BY <2>1, <2>2
<1>3. CASE Seeded
  <2>1. /\ phase # "returned" /\ phase' # "returned" /\ record' = record
        /\ bestSol = NoSolution /\ bestSol' = sol /\ Framed(sol)
    BY <1>1, <1>3 DEF Seeded, Empty, SoundTrips, Sound, Descending
  <2>2. Rank(bestSol) = NoRank /\ Rank(bestSol') \in [score : Nat, dist : Nat, valid : BOOLEAN]
    BY <2>1, RankOfTrip DEF Rank
  <2>3. Promise!Found
    BY <2>1, <2>2 DEF Promise!Found
  <2> QED BY <2>1, <2>3 DEF Promise!Next
<1>4. CASE ReturnSeed
  <2>1. /\ phase # "returned" /\ phase' = "returned" /\ record' = record /\ bestSol' = bestSol
        /\ record = NoSolution /\ Framed(bestSol)
    BY <1>1, <1>4 DEF ReturnSeed, Empty, SoundTrips, Sound, Control
  <2>2. Rank(record) = NoRank /\ Rank(bestSol) # NoRank
    BY <2>1, RankOfTrip DEF Rank
  <2>3. Promise!Return
    BY <2>1, <2>2 DEF Promise!Return
  <2> QED BY <2>1, <2>3 DEF Promise!Next
<1>5. CASE Start
  <2>1. /\ phase # "returned" /\ phase' # "returned" /\ record' = bestSol /\ bestSol' = bestSol
        /\ record = NoSolution /\ Framed(bestSol)
    BY <1>1, <1>5 DEF Start, Empty, SoundTrips, Sound, Control
  <2>2. Rank(record) = NoRank /\ Rank(bestSol) # NoRank
    BY <2>1, RankOfTrip DEF Rank
  <2>3. Promise!Join(1)
    BY <2>1, <2>2 DEF Promise!Join
  <2> QED BY <2>1, <2>3 DEF Promise!Next
<1>6. CASE Accept
  <2>1. /\ phase # "returned" /\ phase' # "returned" /\ bestSol' = bestSol /\ Descending
        /\ Judged.valid /\ Beats(Judged.sol, record) /\ record' = Judged.sol /\ Joined
    BY <1>1, <1>6 DEF Accept, Judging, Descending, Control
  <2>2. Framed(sol) /\ sol \in Solutions /\ Framed(record) /\ Sound(Judged.sol)
    BY <1>1, <2>1, EvaluationSound DEF SoundTrips, Sound, Framed, Judged
  <2>3. Valid(sol) /\ Judged.sol = Refreshed(sol)
    BY <2>1, <2>2, Judgement DEF Judged
  <2>4. SamePoints(sol, Judged.sol)
    BY <2>2, <2>3, RefreshedOnce
  <2>5. Valid(Judged.sol)
    BY <2>2, <2>3, <2>4, ValidByPoints
  <2>6. Framed(record') /\ Valid(record') /\ Beats(record', record)
    BY <2>1, <2>2, <2>5 DEF Sound
  <2> DEFINE a == Rank(record)
             b == Rank(record')
  <2>7. /\ a # NoRank /\ b \in [score : Nat, dist : Nat, valid : BOOLEAN] /\ b.valid
        /\ a.score = record.score /\ a.dist = record.dist
        /\ b.score = record'.score /\ b.dist = record'.dist
    BY <2>2, <2>6, RankOfTrip
  <2>8. Promise!Surpasses(b, a)
    BY <2>6, <2>7 DEF Promise!Surpasses, Beats
  <2>9. Rank(bestSol') = Rank(bestSol)
    BY <2>1
  <2> HIDE DEF a, b
  <2>10. /\ [w \in {1} |-> Rank(record)] = [w \in {1} |-> a]
         /\ [w \in {1} |-> Rank(record')] = [w \in {1} |-> b]
    BY DEF a, b
  <2>11. Promise!Improve(1)
    BY <2>1, <2>7, <2>8, <2>9, <2>10 DEF Promise!Improve
  <2> QED BY <2>1, <2>11 DEF Promise!Next
<1>7. CASE Collect
  <2>1. phase # "returned" /\ phase' = "returned"
    BY <1>7 DEF Collect
  <2>2. /\ Framed(record) /\ Framed(bestSol) /\ record' = record
        /\ bestSol' = IF Valid(record) /\ Beats(record, bestSol) THEN record ELSE bestSol
    BY <1>7, Collection DEF RecordInv
  <2> DEFINE a == Rank(record)
             b == Rank(bestSol)
             c == Rank(bestSol')
  <2>3. /\ a # NoRank /\ b # NoRank /\ a.score \in Nat /\ a.dist \in Nat
        /\ a.valid <=> Valid(record)
        /\ Promise!Surpasses(a, b) <=> Beats(record, bestSol)
    BY <2>2, RankOfTrip DEF Promise!Surpasses, Beats
  <2>4. c = IF a.valid /\ Promise!Surpasses(a, b) THEN a ELSE b
    BY <2>2, <2>3
  <2>5. ~Promise!Surpasses(a, a)
    BY <2>3 DEF Promise!Surpasses
  <2>6. a.valid => ~Promise!Surpasses(a, c)
    BY <2>3, <2>4, <2>5
  <2>7. Rank(record') = a
    BY <2>2
  <2> HIDE DEF a, b, c
  <2>8. /\ [w \in {1} |-> Rank(record)] = [w \in {1} |-> a]
        /\ [w \in {1} |-> Rank(record')] = [w \in {1} |-> a]
    BY <2>7 DEF a
  <2>9. Promise!Return
    <3>1. CASE a.valid /\ Promise!Surpasses(a, b)
      <4>1. c = a
        BY <2>4, <3>1
      <4>2. Promise!Take(1)
        BY <2>3, <2>8, <3>1, <4>1 DEF Promise!Take, b, c
      <4> QED BY <2>1, <2>3, <2>6, <2>8, <4>2 DEF Promise!Return, b, c
    <3>2. CASE ~(a.valid /\ Promise!Surpasses(a, b))
      <4>1. c = b
        BY <2>4, <3>2
      <4> QED BY <2>1, <2>3, <2>6, <2>8, <4>1 DEF Promise!Return, b, c
    <3> QED BY <3>1, <3>2
  <2> QED BY <2>1, <2>9 DEF Promise!Next
<1> QED
  BY <1>2, <1>3, <1>4, <1>5, <1>6, <1>7 DEF Next, Step, Returned

\* A worker on real tours, with the caller, implements Incumbents: what it shakes,
\* descends and evaluates shows in its record and in the answer only as a valid
\* and better trip.
THEOREM RefinesIncumbents == Spec => KeepsPromise
<1>1. WorkerInv /\ RecordInv /\ RecordInv' /\ Empty /\ [Next]_vars => [Promise!Next]_(Promise!vars)
  BY StepPromise
<1> QED
  BY <1>1, InitPromise, Invariance, RecordInvariance, EmptyInvariance, PTL
  DEF Spec, Promise!Spec, KeepsPromise

-----------------------------------------------------------------------------
(* Fewer stops *)

\* The positions a subsequence takes its elements from, in increasing order.
Rises(s, keep, c) ==
  /\ \A m \in 1 .. Cardinality(keep) : c[m] \in keep /\ At(s, keep)[m] = s[c[m]]
  /\ \A a, b \in 1 .. Cardinality(keep) : a < b => c[a] < c[b]

LEMMA AtRises ==
  ASSUME NEW S, NEW s \in Seq(S), NEW keep \in SUBSET (1 .. Len(s))
  PROVE  \E c : Rises(s, keep, c)
<1> DEFINE n == Len(s)
           N == Cardinality(keep)
           C(m) == CHOOSE i \in keep : Cardinality(UpTo(keep, i)) = m
           c == [m \in 1 .. N |-> C(m)]
<1>1. n \in Nat /\ IsFiniteSet(keep)
  <2>1. n \in Nat /\ 1 \in Int /\ n \in Int
    OBVIOUS
  <2>2. IsFiniteSet(1 .. n)
    BY <2>1, FS_Interval
  <2> QED BY <2>1, <2>2, FS_Subset
<1>2. N \in Nat
  BY <1>1, FS_CardinalityType
<1>3. At(s, keep) = [m \in 1 .. N |-> s[C(m)]]
  BY Zenon DEF At, UpTo
<1>4. ASSUME NEW m \in 1 .. N PROVE C(m) \in keep /\ Cardinality(UpTo(keep, C(m))) = m
  <2> \E i \in keep : Cardinality(UpTo(keep, i)) = m
    BY <1>1, RankExists
  <2> QED OBVIOUS
<1> HIDE DEF C
<1>5. \A m \in 1 .. N : c[m] \in keep /\ c[m] = C(m) /\ Cardinality(UpTo(keep, c[m])) = m
  BY <1>4
<1>6. \A m \in 1 .. N : At(s, keep)[m] = s[c[m]]
  BY <1>3, <1>5
<1>7. \A j \in keep : j \in Nat
  OBVIOUS
<1>8. \A m \in 1 .. N : c[m] \in Nat
  BY <1>5, <1>7
<1> HIDE DEF c, N
<1>9. ASSUME NEW a \in 1 .. N, NEW b \in 1 .. N, a < b PROVE c[a] < c[b]
  <2> SUFFICES ASSUME c[b] <= c[a] PROVE FALSE
    BY <1>8
  <2>1. c[a] \in Nat /\ c[b] \in Nat
    BY <1>8
  <2>2. UpTo(keep, c[b]) \in SUBSET UpTo(keep, c[a])
    <3> \A j \in keep : j <= c[b] => j <= c[a]
      BY <1>7, <2>1
    <3> QED BY DEF UpTo
  <2>3. IsFiniteSet(UpTo(keep, c[a]))
    BY <1>1, FS_Subset DEF UpTo
  <2>4. Cardinality(UpTo(keep, c[b])) <= Cardinality(UpTo(keep, c[a]))
    BY <2>2, <2>3, FS_Subset
  <2>5. b <= a
    BY <1>5, <2>4
  <2> QED BY <1>2, <1>9, <2>5
<1>10. Rises(s, keep, c)
  BY <1>5, <1>6, <1>9 DEF Rises, N
<1> QED BY <1>10

\* Who comes later leaves no earlier.
LEMMA LeaveRises ==
  ASSUME NEW p \in Points, NEW t \in Nat, NEW u \in Nat, t <= u
  PROVE  Leave(p, t) <= Leave(p, u)
<1>1. CASE p \in Sites
  <2>1. OpenTime[p] \in Nat /\ ServiceTime[p] \in Nat
    BY <1>1, SiteAssumption
  <2>2. /\ Max({t, OpenTime[p]}) = IF t >= OpenTime[p] THEN t ELSE OpenTime[p]
        /\ Max({u, OpenTime[p]}) = IF u >= OpenTime[p] THEN u ELSE OpenTime[p]
    BY <2>1, MaxOfTwo
  <2> QED BY <1>1, <2>1, <2>2 DEF Leave
<1>2. CASE p \notin Sites
  BY <1>2 DEF Leave
<1> QED BY <1>1, <1>2

\* No way through other points is shorter than the direct one.
LEMMA NoShortCut ==
  ASSUME NEW pts \in Seq(Points), NEW a \in 1 .. Len(pts), NEW b \in 1 .. Len(pts), a < b
  PROVE  Departures(pts)[a] + DistMatrix[pts[a]][pts[b]] <= Arrival(pts, b)
<1> DEFINE n == Len(pts)
           D(i, j) == DistMatrix[pts[i]][pts[j]]
           Direct(j) == Departures(pts)[a] + D(a, j) <= Arrival(pts, j)
           T == {j \in a + 1 .. n : Direct(j)}
<1>1. n \in Nat /\ a \in 1 .. n /\ b \in a + 1 .. n /\ \A i \in 1 .. n : pts[i] \in Points
  OBVIOUS
<1>2. \A i \in 1 .. n : /\ Arrival(pts, i) \in Nat /\ Departures(pts)[i] \in Nat
                        /\ Arrival(pts, i) <= Departures(pts)[i]
  BY Timetable, TimeBoundsLength
<1>3. \A i \in 2 .. n : Arrival(pts, i) = Departures(pts)[i - 1] + D(i - 1, i)
  BY <1>1 DEF Arrival, Leg
<1>4. \A i, j, l \in 1 .. n : D(i, j) \in Nat /\ D(i, l) <= D(i, j) + D(j, l)
  BY <1>1, MetricAssumption
<1> HIDE DEF D, n
<1>5. a + 1 <= n => a + 1 \in T
  <2> SUFFICES ASSUME a + 1 <= n PROVE a + 1 \in a + 1 .. n /\ Direct(a + 1)
    OBVIOUS
  <2>1. a + 1 \in 2 .. n /\ (a + 1) - 1 = a /\ a + 1 \in 1 .. n
    BY <1>1
  <2>2. Arrival(pts, a + 1) = Departures(pts)[a] + D(a, a + 1)
    BY <1>3, <2>1
  <2> QED BY <1>1, <1>2, <1>4, <2>1, <2>2
<1>6. ASSUME NEW j \in T, j + 1 <= n PROVE j + 1 \in T
  <2>1. /\ j \in 1 .. n /\ j + 1 \in 1 .. n /\ j + 1 \in 2 .. n /\ (j + 1) - 1 = j
        /\ j + 1 \in a + 1 .. n /\ Direct(j)
    BY <1>1, <1>6
  <2>2. Arrival(pts, j + 1) = Departures(pts)[j] + D(j, j + 1)
    BY <1>3, <2>1
  <2>3. D(a, j + 1) <= D(a, j) + D(j, j + 1) /\ D(a, j) \in Nat /\ D(j, j + 1) \in Nat /\ D(a, j + 1) \in Nat
    BY <1>1, <1>4, <2>1
  <2>4. /\ Arrival(pts, j) \in Nat /\ Departures(pts)[j] \in Nat /\ Departures(pts)[a] \in Nat
        /\ Arrival(pts, j) <= Departures(pts)[j]
    BY <1>1, <1>2, <2>1
  <2>5. Direct(j + 1)
    BY <2>1, <2>2, <2>3, <2>4
  <2> QED BY <2>1, <2>5
<1>7. T = a + 1 .. n
  <2> a + 1 \in Nat /\ T \in SUBSET (a + 1 .. n)
    BY <1>1
  <2> HIDE DEF T
  <2> QED BY <1>1, <1>5, <1>6, Climb
<1> QED BY <1>1, <1>7 DEF D

\* A visitor who leaves out stops is nowhere later than she was.
Earlier(pts, qts, c) ==
  \A j \in 1 .. Len(qts) : /\ Arrival(qts, j) <= Arrival(pts, c[j])
                           /\ Departures(qts)[j] <= Departures(pts)[c[j]]

LEMMA FewerStopsEarlier ==
  ASSUME NEW pts \in Seq(Points), NEW qts \in Seq(Points), NEW c,
         \A j \in 1 .. Len(qts) : c[j] \in 1 .. Len(pts) /\ qts[j] = pts[c[j]],
         \A a, b \in 1 .. Len(qts) : a < b => c[a] < c[b]
  PROVE  Earlier(pts, qts, c)
<1> DEFINE n == Len(qts)
           Good(j) == Arrival(qts, j) <= Arrival(pts, c[j])
           T == {j \in 1 .. n : Good(j)}
<1>1. n \in Nat /\ \A i \in 1 .. n : qts[i] \in Points
  OBVIOUS
<1>2. \A i \in 1 .. n : /\ Arrival(qts, i) \in Nat /\ Departures(qts)[i] \in Nat
                        /\ Departures(qts)[i] = Leave(qts[i], Arrival(qts, i))
  BY Timetable
<1>3. \A i \in 1 .. Len(pts) : /\ Arrival(pts, i) \in Nat /\ Departures(pts)[i] \in Nat
                               /\ Departures(pts)[i] = Leave(pts[i], Arrival(pts, i))
  BY Timetable
<1>4. \A i \in 2 .. n : Arrival(qts, i) = Departures(qts)[i - 1] + DistMatrix[qts[i - 1]][qts[i]]
  BY <1>1 DEF Arrival, Leg
<1>5. Arrival(qts, 1) = 0
  BY DEF Arrival
<1> HIDE DEF n
<1>6. ASSUME NEW j \in 1 .. n, Good(j) PROVE Departures(qts)[j] <= Departures(pts)[c[j]]
  <2>1. c[j] \in 1 .. Len(pts) /\ qts[j] = pts[c[j]] /\ qts[j] \in Points
    BY <1>1 DEF n
  <2>2. Leave(qts[j], Arrival(qts, j)) <= Leave(qts[j], Arrival(pts, c[j]))
    BY <1>2, <1>3, <1>6, <2>1, LeaveRises
  <2> QED BY <1>2, <1>3, <2>1, <2>2
<1>7. 1 <= n => 1 \in T
  <2> SUFFICES ASSUME 1 <= n PROVE 1 \in 1 .. n /\ Good(1)
    OBVIOUS
  <2>1. 1 \in 1 .. n
    BY <1>1
  <2>2. c[1] \in 1 .. Len(pts)
    BY <2>1 DEF n
  <2> QED BY <1>3, <1>5, <2>1, <2>2
<1>8. ASSUME NEW j \in T, j + 1 <= n PROVE j + 1 \in T
  <2>1. /\ j \in 1 .. n /\ j + 1 \in 1 .. n /\ j + 1 \in 2 .. n /\ (j + 1) - 1 = j /\ j < j + 1
        /\ Good(j)
    BY <1>1, <1>8
  <2>2. /\ c[j] \in 1 .. Len(pts) /\ c[j + 1] \in 1 .. Len(pts) /\ c[j] < c[j + 1]
        /\ qts[j] = pts[c[j]] /\ qts[j + 1] = pts[c[j + 1]]
    BY <2>1 DEF n
  <2>3. Departures(pts)[c[j]] + DistMatrix[pts[c[j]]][pts[c[j + 1]]] <= Arrival(pts, c[j + 1])
    BY <2>2, NoShortCut
  <2>4. Arrival(qts, j + 1) = Departures(qts)[j] + DistMatrix[qts[j]][qts[j + 1]]
    BY <1>4, <2>1
  <2>5. Departures(qts)[j] <= Departures(pts)[c[j]]
    BY <1>6, <2>1
  <2>6. DistMatrix[qts[j]][qts[j + 1]] \in Nat
    BY <1>1, <2>1, MetricAssumption
  <2>7. Departures(qts)[j] \in Nat /\ Departures(pts)[c[j]] \in Nat /\ Arrival(pts, c[j + 1]) \in Nat
    BY <1>2, <1>3, <2>1, <2>2
  <2>8. Good(j + 1)
    BY <2>2, <2>3, <2>4, <2>5, <2>6, <2>7
  <2> QED BY <2>1, <2>8
<1>9. T = 1 .. n
  <2> 1 \in Nat /\ T \in SUBSET (1 .. n)
    OBVIOUS
  <2> HIDE DEF T
  <2> QED BY <1>1, <1>7, <1>8, Climb
<1> QED BY <1>6, <1>9 DEF Earlier, n

LEMMA FewerStopsFeasible ==
  ASSUME NEW pts \in Seq(Points), NEW qts \in Seq(Points), NEW c, NEW d \in Nat \ {0},
         \A j \in 1 .. Len(qts) : c[j] \in 1 .. Len(pts) /\ qts[j] = pts[c[j]],
         \A a, b \in 1 .. Len(qts) : a < b => c[a] < c[b],
         Feasible(d, pts)
  PROVE  Feasible(d, qts)
<1>1. Earlier(pts, qts, c)
  BY FewerStopsEarlier
<1> DEFINE n == Len(qts)
<1>2. n \in Nat /\ DOMAIN qts = 1 .. n /\ DOMAIN pts = 1 .. Len(pts)
  OBVIOUS
<1>3. ASSUME NEW j \in 1 .. n
      PROVE  /\ j > 1 => Arrival(qts, j) <= DayMaxDist(d)
             /\ qts[j] \in Sites =>
                  /\ Max({Arrival(qts, j), OpenTime[qts[j]]}) <= CloseTime[qts[j]]
                  /\ Departures(qts)[j] <= DayMaxDist(d)
  <2> DEFINE i == c[j]
             p == qts[j]
  <2>1. i \in 1 .. Len(pts) /\ p = pts[i]
    OBVIOUS
  <2>2. j > 1 => i > 1
    <3> SUFFICES ASSUME j > 1 PROVE i > 1
      OBVIOUS
    <3>1. 1 \in 1 .. n /\ 1 < j
      BY <1>2
    <3>2. c[1] < i /\ c[1] \in 1 .. Len(pts)
      BY <3>1
    <3> HIDE DEF i
    <3> QED BY <2>1, <3>2
  <2>3. /\ Arrival(qts, j) \in Nat /\ Departures(qts)[j] \in Nat
        /\ Arrival(pts, i) \in Nat /\ Departures(pts)[i] \in Nat
    BY <2>1, Timetable
  <2>4. Arrival(qts, j) <= Arrival(pts, i) /\ Departures(qts)[j] <= Departures(pts)[i]
    BY <1>1 DEF Earlier
  <2>5. /\ i > 1 => Arrival(pts, i) <= DayMaxDist(d)
        /\ p \in Sites => /\ Max({Arrival(pts, i), OpenTime[p]}) <= CloseTime[p]
                          /\ Departures(pts)[i] <= DayMaxDist(d)
    BY <1>2, <2>1 DEF Feasible
  <2>6. DayMaxDist(d) \in Nat
    BY BudgetIsNat
  <2> HIDE DEF i, p
  <2>7. p \in Sites => Max({Arrival(qts, j), OpenTime[p]}) <= CloseTime[p]
    <3> SUFFICES ASSUME p \in Sites PROVE Max({Arrival(qts, j), OpenTime[p]}) <= CloseTime[p]
      OBVIOUS
    <3>1. OpenTime[p] \in Nat /\ CloseTime[p] \in Nat
      BY SiteAssumption
    <3> DEFINE t == Arrival(qts, j)
               v == Arrival(pts, i)
    <3>2. t \in Nat /\ v \in Nat /\ t <= v
      BY <2>3, <2>4
    <3>3. Max({v, OpenTime[p]}) <= CloseTime[p]
      BY <2>5
    <3> HIDE DEF t, v
    <3>4. /\ Max({t, OpenTime[p]}) = IF t >= OpenTime[p] THEN t ELSE OpenTime[p]
          /\ Max({v, OpenTime[p]}) = IF v >= OpenTime[p] THEN v ELSE OpenTime[p]
      BY <3>1, <3>2, MaxOfTwo
    <3>5. Max({t, OpenTime[p]}) <= CloseTime[p]
      BY <3>1, <3>2, <3>3, <3>4
    <3> QED BY <3>5 DEF t
  <2> QED BY <2>2, <2>3, <2>4, <2>5, <2>6, <2>7 DEF p
<1> QED BY <1>2, <1>3 DEF Feasible

\* A day less some of its steps, in the form Without and ClearDay give it.
LEMMA SomeStepsFeasible ==
  ASSUME NEW day \in DayTours, NEW d \in Nat \ {0}, Feasible(d, PointsOf(day)),
         NEW keep \in SUBSET (DOMAIN day.steps), NEW r, r.steps = At(day.steps, keep)
  PROVE  Feasible(d, PointsOf(r))
<1> DEFINE steps == day.steps
           some  == At(steps, keep)
           pts   == PointsOf(day)
           qts   == PointsOf(r)
           N     == Cardinality(keep)
<1>1. /\ steps \in Seq(Steps) /\ DOMAIN steps = 1 .. Len(steps)
      /\ pts \in Seq(Points) /\ Len(pts) = Len(steps)
      /\ \A i \in 1 .. Len(steps) : pts[i] = steps[i].pt
  BY PointsOfDay DEF DayTours
<1>2. keep \in SUBSET (1 .. Len(steps))
  BY <1>1
<1>3. some \in Seq(Steps) /\ Len(some) = N
  BY <1>1, <1>2, AtPositions
<1>4. PICK c : Rises(steps, keep, c)
  BY <1>1, <1>2, AtRises
<1> HIDE DEF steps
<1>5. \A m \in 1 .. N : c[m] \in keep /\ some[m] = steps[c[m]]
  BY <1>4 DEF Rises
<1>6. \A a, b \in 1 .. N : a < b => c[a] < c[b]
  BY <1>4 DEF Rises
<1>7. r.steps = some
  BY DEF steps
<1> HIDE DEF some
<1>8. N \in Nat /\ DOMAIN some = 1 .. N /\ \A m \in 1 .. N : some[m] \in Steps
  BY <1>3
<1>9. \A m \in 1 .. N : some[m].pt \in Points
  BY <1>8 DEF Steps
<1>10. qts \in Seq(Points) /\ Len(qts) = N /\ \A m \in 1 .. N : qts[m] = some[m].pt
  BY <1>7, <1>8, <1>9 DEF PointsOf
<1> HIDE DEF pts, qts, N
<1>11. \A m \in 1 .. N : c[m] \in 1 .. Len(pts) /\ qts[m] = pts[c[m]]
  BY <1>1, <1>2, <1>5, <1>10
<1>12. Feasible(d, pts)
  BY DEF pts
<1>13. Feasible(d, qts)
  BY <1>1, <1>6, <1>10, <1>11, <1>12, FewerStopsFeasible
<1> QED BY <1>13 DEF qts

LEMMA DestroyedDayFeasible ==
  ASSUME NEW day \in DayTours, NEW d \in Nat \ {0}, Feasible(d, PointsOf(day))
  PROVE  /\ Feasible(d, PointsOf(ClearDay(day)))
         /\ \A gone : Feasible(d, PointsOf(Without(day, gone)))
<1>1. Feasible(d, PointsOf(ClearDay(day)))
  <2> DEFINE r == ClearDay(day)
             keep == {i \in DOMAIN day.steps : day.steps[i].pt \in Hotels}
  <2>1. r.steps = At(day.steps, keep)
    BY DEF ClearDay, HotelSteps
  <2>2. keep \in SUBSET (DOMAIN day.steps)
    OBVIOUS
  <2> HIDE DEF r, keep
  <2>3. Feasible(d, PointsOf(r))
    BY <2>1, <2>2, SomeStepsFeasible
  <2> QED BY <2>3 DEF r
<1>2. ASSUME NEW gone PROVE Feasible(d, PointsOf(Without(day, gone)))
  <2> DEFINE r == Without(day, gone)
             keep == DOMAIN day.steps \ gone
  <2>1. r.steps = At(day.steps, keep)
    BY DEF Without
  <2>2. keep \in SUBSET (DOMAIN day.steps)
    OBVIOUS
  <2> HIDE DEF r, keep
  <2>3. Feasible(d, PointsOf(r))
    BY <2>1, <2>2, SomeStepsFeasible
  <2> QED BY <2>3 DEF r
<1> QED BY <1>1, <1>2

\* No force but the second makes a feasible trip infeasible.
LEMMA DestroyedFeasible ==
  ASSUME NEW s, Framed(s), AllFeasible(s), NEW f \in 1 .. MaxForce, f # 2, NEW x \in Destroyed(s, f)
  PROVE  AllFeasible(x)
<1>1. /\ s \in Solutions /\ DOMAIN s.days = Days /\ f \in Int
      /\ \A d \in Days : d \in Nat \ {0} /\ s.days[d] \in DayTours /\ Feasible(d, PointsOf(s.days[d]))
  <2>1. s \in Solutions /\ DOMAIN s.days = Days /\ f \in Int /\ \A d \in Days : d \in Nat \ {0}
    BY ShapeIsTours, PointsAssumption, ForceAssumption DEF Framed, Days
  <2> QED BY <2>1, PointsOfSolution DEF AllFeasible, PointsAt
<1>2. ASSUME NEW D, DOMAIN D = Days, NEW t, t = [s EXCEPT !.days = D],
             \A d \in Days : \/ D[d] = s.days[d] \/ D[d] = ClearDay(s.days[d])
                             \/ \E gone : D[d] = Without(s.days[d], gone)
      PROVE  AllFeasible(t)
  <2>1. t.days = D
    <3> s \in [days : Seq(DayTours), score : Nat, dist : Nat]
      BY <1>1 DEF Solutions
    <3> QED BY <1>2
  <2>2. \A d \in Days : Feasible(d, PointsOf(D[d]))
    BY <1>1, <1>2, DestroyedDayFeasible
  <2> QED BY <1>2, <2>1, <2>2 DEF AllFeasible, PointsAt
<1>3. ASSUME NEW count, NEW t \in RemoveSites(s, count) PROVE AllFeasible(t)
  <2>1. PICK positions : t = Drop(s, positions)
    BY <1>3 DEF RemoveSites, kSubset
  <2> DEFINE gone(d) == {i \in DOMAIN s.days[d].steps : <<d, i>> \in positions}
             D == [d \in DOMAIN s.days |->
                     IF gone(d) = {} THEN s.days[d] ELSE Without(s.days[d], gone(d))]
  <2>2. t = [s EXCEPT !.days = D]
    BY <2>1, Zenon DEF Drop
  <2>3. \A d \in DOMAIN s.days : D[d] = s.days[d] \/ D[d] = Without(s.days[d], gone(d))
    OBVIOUS
  <2>4. DOMAIN D = Days
    BY <1>1
  <2>5. \A d \in Days : D[d] = s.days[d] \/ \E g : D[d] = Without(s.days[d], g)
    <3> HIDE DEF D, gone
    <3> QED BY <1>1, <2>3
  <2> HIDE DEF D
  <2> QED BY <1>2, <2>2, <2>4, <2>5
<1>4. ASSUME NEW some, NEW t,
             t = [s EXCEPT !.days =
                    [d \in DOMAIN s.days |-> IF d \in some THEN ClearDay(s.days[d]) ELSE s.days[d]]]
      PROVE  AllFeasible(t)
  <2> DEFINE D == [d \in DOMAIN s.days |-> IF d \in some THEN ClearDay(s.days[d]) ELSE s.days[d]]
  <2>1. /\ DOMAIN D = Days
        /\ \A d \in Days : D[d] = s.days[d] \/ D[d] = ClearDay(s.days[d])
    BY <1>1
  <2>2. t = [s EXCEPT !.days = D]
    BY <1>4
  <2> HIDE DEF D
  <2> QED BY <1>2, <2>1, <2>2
<1>5. CASE f <= 1
  BY <1>3, <1>5 DEF Destroyed
<1>6. CASE f = 3
  <2>1. CASE x = s
    BY <2>1
  <2>2. CASE \E d \in Days : x = [s EXCEPT !.days[d] = ClearDay(@)]
    <3>1. PICK d \in Days : x = [s EXCEPT !.days[d] = ClearDay(@)]
      BY <2>2
    <3> DEFINE some == {d}
    <3>2. [s.days EXCEPT ![d] = ClearDay(@)] =
            [e \in DOMAIN s.days |-> IF e \in some THEN ClearDay(s.days[e]) ELSE s.days[e]]
      <4> s.days \in Seq(DayTours)
        BY <1>1, SolutionFields
      <4> QED OBVIOUS
    <3> HIDE DEF some
    <3> QED BY <1>4, <3>1, <3>2
  <2> QED BY <1>1, <1>6, <2>1, <2>2 DEF Destroyed
<1>7. CASE f > 3
  <2>1. x = [s EXCEPT !.days = [d \in DOMAIN s.days |-> ClearDay(s.days[d])]]
    BY <1>7 DEF Destroyed
  <2>2. x = [s EXCEPT !.days =
               [d \in DOMAIN s.days |-> IF d \in Days THEN ClearDay(s.days[d]) ELSE s.days[d]]]
    BY <1>1, <2>1
  <2> QED BY <1>4, <2>2
<1> QED BY <1>1, <1>5, <1>6, <1>7

LEMMA ShakenFeasible ==
  ASSUME NEW s, Framed(s), Apart(s), AllFeasible(s), NEW f \in 1 .. MaxForce, f # 2, NEW x \in Shaken(s, f)
  PROVE  AllFeasible(x)
<1>1. PICK t \in Destroyed(s, f) : x = EvaluateScore(t)
  BY DEF Shaken
<1>2. AllFeasible(t)
  BY DestroyedFeasible
<1>3. Framed(t)
  BY DestroyedApart
<1>4. x.days = t.days
  BY <1>1, <1>3, EvaluatedTotals DEF Framed
<1> QED BY <1>2, <1>4 DEF AllFeasible, PointsAt

-----------------------------------------------------------------------------
(* What makes a trip invalid *)

\* A VNS worker starts from its record, and does not construct.
BreakInv ==
  /\ phase = "construct" /\ ~seeding => kind = "GRASP"
  /\ Descending /\ ~seeding /\ kind = "VNS" /\ Valid(record) /\ force # 2 => AllFeasible(sol)

LEMMA BreakStep ==
  ASSUME WorkerInv, TripInv, BreakInv, [Next]_vars
  PROVE  BreakInv'
<1>1. DescentTypes /\ WorkerTypes /\ SoundTrips /\ Control
  BY InvParts
<1>2. CASE Constructed
  BY <1>2 DEF Constructed, BreakInv
<1>3. CASE Descend
  <2>1. Framed(sol)
    BY <1>1, <1>3 DEF Descend, SoundTrips, Sound, Descending
  <2>2. FeasibleChange(sol, sol')
    BY <1>1, <1>3, <2>1, DescentStepKeeps DEF Descend, Keeps
  <2>3. AllFeasible(sol) => AllFeasible(sol')
    BY <2>2 DEF FeasibleChange, AllFeasible
  <2> QED BY <1>3, <2>3 DEF Descend, BreakInv, Descending, workerVars
<1>4. CASE Shake
  <2>1. PICK s \in Shaken(record, force) : StartDescent(s)
    BY <1>4 DEF Shake
  <2>2. /\ Framed(record) /\ Apart(record) /\ force \in 1 .. MaxForce
        /\ record' = record /\ force' = force /\ sol' = s /\ phase' = "descend"
    BY <1>1, <1>4, <2>1 DEF Shake, SoundTrips, Sound, Control, TripInv, WorkerTypes, StartDescent
  <2>3. Valid(record) /\ force # 2 => AllFeasible(s)
    BY <2>2, ValidIsFeasible, ShakenFeasible
  <2> QED BY <2>2, <2>3 DEF BreakInv
<1>5. CASE Seeded \/ ReturnSeed \/ Start \/ Exit \/ Refuse \/ Accept \/ Collect
  BY <1>5 DEF Seeded, ReturnSeed, Start, Exit, Refuse, Accept, Collect, BreakInv, Descending
<1>6. CASE Restart
  BY <1>6 DEF Restart, BreakInv, Descending
<1>7. CASE UNCHANGED <<descentVars, workerVars>>
  BY <1>7 DEF descentVars, workerVars, BreakInv, Descending
<1> QED
  BY <1>2, <1>3, <1>4, <1>5, <1>6, <1>7
     DEF Next, Step, Construct, Returned, DeadlinePasses, vars

LEMMA BreakInvariance == Spec => []BreakInv
<1>1. Init => BreakInv
  BY DEF Init, BreakInv, Descending
<1>2. WorkerInv /\ TripInv /\ BreakInv /\ [Next]_vars => BreakInv'
  BY BreakStep
<1> QED BY <1>1, <1>2, Invariance, TripInvariance, PTL DEF Spec

\* Of the shakes only the one that moves a junction makes a valid record invalid:
\* who leaves out sites, or all of a day, is nowhere later than before, since no
\* way is a short cut, and a descent spoils no day.
THEOREM ShakesKeepValid == Spec => []OnlyJunctionsBreak
<1>1. WorkerInv /\ TripInv /\ BreakInv => OnlyJunctionsBreak
  <2> SUFFICES ASSUME WorkerInv, TripInv, BreakInv,
                      Descending /\ ~seeding /\ kind = "VNS" /\ Valid(record) /\ force # 2
               PROVE  Valid(sol)
    BY DEF OnlyJunctionsBreak
  <2>1. Framed(sol) /\ Apart(sol)
    BY InvParts DEF SoundTrips, Sound, TripInv
  <2> QED BY <2>1, ValidIsFeasible DEF BreakInv
<1> QED BY <1>1, BreakInvariance, Invariance, TripInvariance, PTL

-----------------------------------------------------------------------------
(* What an invalid record is like *)

\* Every day is feasible, but for a last one that visits nothing and is too long.
FallsShort(d, pts) == d = NbDays /\ Len(pts) = 2 /\ TourLength(pts) > DayMaxDist(d)

FeasibleButLast(s) ==
  \A d \in DOMAIN s.days : Feasible(d, PointsAt(s, d)) \/ FallsShort(d, PointsAt(s, d))

LEMMA ChangeKeepsLast ==
  ASSUME NEW s, NEW r, FeasibleButLast(s), FeasibleChange(s, r)
  PROVE  FeasibleButLast(r)
BY DEF FeasibleButLast, FeasibleChange

LEMMA ValidButLast ==
  ASSUME NEW s, Framed(s), Apart(s), Valid(s)
  PROVE  FeasibleButLast(s)
BY ValidIsFeasible DEF AllFeasible, FeasibleButLast

LEMMA ConstructedButLast ==
  ASSUME GreedyInv, BuiltOnce, Built, OnlyLastDayFails
  PROVE  FeasibleButLast(GreedySolution)
<1> DEFINE s == GreedySolution
<1>1. Sound(s) /\ Framed(s) /\ Apart(s)
  BY GreedySolutionSound, GreedySolutionApart DEF Sound
<1>2. s.days = days
  <2> DEFINE t == [days |-> days, score |-> 0, dist |-> 0]
  <2>1. t \in Solutions /\ t.days = days
    BY DEF GreedyInv, GreedyTypeOK, Solutions
  <2> HIDE DEF t
  <2> QED BY <2>1, EvaluatedTotals DEF GreedySolution, t
<1> HIDE DEF s
<1>3. s \in Solutions /\ DOMAIN s.days = Days /\ NbDays \in Nat \ {0}
  BY <1>1, ShapeIsTours, PointsAssumption DEF Framed
<1>4. CASE Valid(s)
  BY <1>1, <1>4, ValidButLast DEF s
<1>5. CASE /\ Len(days[NbDays].steps) = 2
           /\ days[NbDays].dist > DayMaxDist(NbDays)
           /\ \A d \in 1 .. NbDays - 1 : ValidDay(d, PointsOf(days[d]))
  <2>1. ASSUME NEW d \in Days, d # NbDays PROVE Feasible(d, PointsAt(s, d))
    <3>1. d \in 1 .. NbDays - 1 /\ d \in Nat \ {0}
      BY <1>3, <2>1 DEF Days
    <3>2. ValidDay(d, PointsAt(s, d))
      BY <1>2, <1>5, <3>1 DEF PointsAt
    <3>3. /\ Tour(PointsAt(s, d)) /\ PointsAt(s, d)[1] \in Hotels /\ Last(PointsAt(s, d)) \in Hotels
          /\ d = 1 => PointsAt(s, d)[1] = StartHotelID
      BY <1>1, <1>3, DayOfFrame DEF Framed, Shape
    <3> DEFINE pts == PointsAt(s, d)
    <3> HIDE DEF pts
    <3>4. Feasible(d, pts)
      BY <2>1, <3>1, <3>2, <3>3, DayAgrees DEF pts
    <3> QED BY <3>4 DEF pts
  <2>2. FallsShort(NbDays, PointsAt(s, NbDays))
    <3>1. NbDays \in Days
      BY <1>3 DEF Days
    <3>2. Len(PointsAt(s, NbDays)) = Len(days[NbDays].steps)
      BY <1>2, <1>3, <3>1, PointsOfSolution
    <3>3. days[NbDays].dist = TourLength(PointsAt(s, NbDays))
      BY <1>1, <1>2, <1>3, <3>1 DEF Sound, ExactDistances
    <3> QED BY <1>5, <3>2, <3>3 DEF FallsShort
  <2>3. FeasibleButLast(s)
    BY <1>3, <2>1, <2>2 DEF FeasibleButLast
  <2> QED BY <2>3 DEF s
<1> QED BY <1>4, <1>5 DEF OnlyLastDayFails, s

RefusedInv ==
  /\ seeding /\ Descending => FeasibleButLast(sol)
  /\ ~seeding => FeasibleButLast(bestSol)
  /\ Joined => FeasibleButLast(record)

LEMMA RefusedStep ==
  ASSUME WorkerInv, TripInv, RecordExact, OnlyLastDayFails, RefusedInv, [Next]_vars
  PROVE  RefusedInv'
<1>1. GreedyInv /\ DescentTypes /\ WorkerTypes /\ SoundTrips /\ Control
  BY InvParts
<1>2. CASE Constructed
  <2>1. sol' = GreedySolution /\ Built
    BY <1>2 DEF Constructed, StartDescent
  <2>2. FeasibleButLast(sol')
    BY <1>1, <2>1, ConstructedButLast DEF TripInv
  <2> QED BY <1>2, <2>2 DEF Constructed, RefusedInv, Joined
<1>3. CASE Descend
  <2>1. Framed(sol)
    BY <1>1, <1>3 DEF Descend, SoundTrips, Sound, Descending
  <2>2. FeasibleChange(sol, sol')
    BY <1>1, <1>3, <2>1, DescentStepKeeps DEF Descend, Keeps
  <2> QED BY <1>3, <2>2, ChangeKeepsLast DEF Descend, RefusedInv, Descending, Joined, workerVars
<1>4. CASE Seeded
  BY <1>4 DEF Seeded, RefusedInv, Descending, Joined
<1>5. CASE Start
  BY <1>1, <1>5 DEF Start, RefusedInv, Descending, Joined, Control
<1>6. CASE ReturnSeed \/ Restart \/ Exit \/ Refuse \/ Shake
  BY <1>1, <1>6 DEF ReturnSeed, Restart, Exit, Refuse, Judging, Shake, RefusedInv, Descending, Joined, Control
<1>7. CASE Accept
  <2>1. /\ ~seeding /\ ~seeding' /\ bestSol' = bestSol /\ Judged.valid /\ record' = Judged.sol
        /\ Framed(sol) /\ Apart(sol)
    BY <1>1, <1>7 DEF Accept, Judging, SoundTrips, Sound, Descending, TripInv
  <2>2. FeasibleButLast(sol)
    BY <2>1, Judgement, ValidButLast DEF Judged
  <2>3. SamePoints(sol, record')
    BY <2>1, EvaluationKeepsPoints DEF Judged, Framed
  <2>4. FeasibleButLast(record')
    BY <2>2, <2>3 DEF FeasibleButLast, SamePoints
  <2> QED BY <2>1, <2>4 DEF RefusedInv
<1>8. CASE Collect
  <2>1. ~seeding /\ record' = record /\ bestSol' \in {record, bestSol} /\ Joined /\ seeding' = seeding
    BY <1>1, <1>8, Collection DEF Collect, Control
  <2> QED BY <2>1 DEF RefusedInv
<1>9. CASE UNCHANGED <<descentVars, workerVars>>
  BY <1>9 DEF descentVars, workerVars, RefusedInv, Descending, Joined
<1> QED
  BY <1>2, <1>3, <1>4, <1>5, <1>6, <1>7, <1>8, <1>9
     DEF Next, Step, Construct, Returned, DeadlinePasses, vars

LEMMA RefusedInvariance ==
  ASSUME OpensFirst
  PROVE  Spec => []RefusedInv
<1>1. Init => RefusedInv
  BY DEF Init, RefusedInv, Descending, Joined
<1>2. WorkerInv /\ TripInv /\ RecordExact /\ OnlyLastDayFails /\ RefusedInv /\ [Next]_vars => RefusedInv'
  BY RefusedStep
<1> QED BY <1>1, <1>2, Invariance, TripInvariance, RecordsExact, ConstructionIsValid, PTL DEF Spec

\* The seed, which nobody validates, is a worker's first record.  When that is
\* refused, it is for the last day of the construction, which visits nothing and
\* cannot reach EndHotelID: the descent changes days to feasible ones only, and
\* later records are valid.
THEOREM RefusedForLastDay ==
  ASSUME OpensFirst
  PROVE  Spec => []RefusedRecord
<1>1. WorkerInv /\ TripInv /\ RefusedInv => RefusedRecord
  <2> SUFFICES ASSUME WorkerInv, TripInv, RefusedInv, Joined, ~Valid(record)
               PROVE  /\ Len(record.days[NbDays].steps) = 2
                      /\ record.days[NbDays].dist > DayMaxDist(NbDays)
                      /\ \A d \in 1 .. NbDays - 1 : Feasible(d, PointsAt(record, d))
    BY DEF RefusedRecord
  <2>1. Framed(record) /\ ExactDistances(record) /\ Apart(record) /\ FeasibleButLast(record)
    BY InvParts DEF SoundTrips, Sound, TripInv, RefusedInv
  <2>2. record \in Solutions /\ DOMAIN record.days = Days /\ NbDays \in Nat \ {0}
    BY <2>1, ShapeIsTours, PointsAssumption DEF Framed
  <2>3. PICK d \in Days : ~Feasible(d, PointsAt(record, d))
    BY <2>1, <2>2, ValidIsFeasible DEF AllFeasible
  <2>4. FallsShort(d, PointsAt(record, d))
    BY <2>1, <2>2, <2>3 DEF FeasibleButLast
  <2>5. d = NbDays /\ Len(record.days[d].steps) = 2 /\ record.days[d].dist > DayMaxDist(d)
    BY <2>1, <2>2, <2>4, PointsOfSolution DEF FallsShort, ExactDistances
  <2>6. \A e \in 1 .. NbDays - 1 : e \in Days /\ e # NbDays
    BY <2>2 DEF Days
  <2> QED BY <2>1, <2>2, <2>5, <2>6 DEF FeasibleButLast, FallsShort
<1> QED BY <1>1, RefusedInvariance, Invariance, TripInvariance, PTL
=============================================================================
