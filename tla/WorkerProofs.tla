---------------------------- MODULE WorkerProofs ----------------------------
(***************************************************************************)
(* Theorems about a worker on real tours, for every instance (any hotels,  *)
(* sites, opening hours, budgets and metric), any number of days and any   *)
(* parameters of the search: the shape of a trip, and then time: what the  *)
(* evaluators compute of a tour, the clock of the construction, and the    *)
(* distance test that spares evaluations.                                  *)
(***************************************************************************)
EXTENDS TourLemmas

\* The construction: the days closed are tours that join up, the open one starts
\* where the last one ended.
DaysJoin ==
  \A d \in 1 .. Len(days) :
    /\ Orderly(days[d])
    /\ PointsOf(days[d])[1] \in Hotels /\ Last(PointsOf(days[d])) \in Hotels
    /\ d = 1 => PointsOf(days[d])[1] = StartHotelID
    /\ d = NbDays => Last(PointsOf(days[d])) = EndHotelID
    /\ d < Len(days) => Last(PointsOf(days[d])) = PointsOf(days[d + 1])[1]

TourJoins ==
  /\ tour[1] \in Hotels
  /\ \A i \in 2 .. Len(tour) : tour[i] \in Sites
  /\ Len(tour) = 1 => clock = 0
  /\ Len(days) = 0 => tour[1] = StartHotelID
  /\ Len(days) # 0 => tour[1] = Last(PointsOf(days[Len(days)]))

GreedyInv == GreedyTypeOK /\ DaysJoin /\ TourJoins /\ HotelInReach

\* A trip in its frame whose days have exact distances.
Sound(s) == Framed(s) /\ ExactDistances(s)

SoundTrips ==
  /\ Descending => Sound(sol)
  /\ ~seeding => Sound(bestSol)
  /\ Joined => Sound(record)

\* Who has what when.
Control ==
  /\ seeding => phase \in {"construct", "descend"}
  /\ phase \in {"head", "exited"} => Joined
  /\ ~seeding /\ phase \in {"construct", "descend"} => Joined
  /\ stage \in {"inner", "cut"} => k < 5

WorkerInv == TypeOK /\ GreedyInv /\ SoundTrips /\ Control

-----------------------------------------------------------------------------
(* The construction *)

NothingBuilt == days = <<>> /\ tour = <<StartHotelID>> /\ clock = 0

LEMMA NothingBuiltInv == NothingBuilt => GreedyInv
<1> SUFFICES ASSUME NothingBuilt PROVE GreedyInv
  OBVIOUS
<1>1. /\ days = <<>> /\ tour = <<StartHotelID>> /\ clock = 0
      /\ Len(days) = 0 /\ Len(tour) = 1 /\ tour[1] = StartHotelID
  BY DEF NothingBuilt
<1>2. NbDays \in Nat \ {0} /\ StartHotelID \in Hotels /\ StartHotelID \in Points
  BY PointsAssumption DEF Points
<1>3. GreedyTypeOK
  BY <1>1, <1>2 DEF GreedyTypeOK
<1>4. DaysJoin
  BY <1>1 DEF DaysJoin
<1>5. TourJoins
  BY <1>1, <1>2 DEF TourJoins
<1>6. HotelInReach
  <2>1. DayMaxDist(1) \in Nat
    BY BudgetAssumption DEF DayMaxDist
  <2>2. Day = 1 /\ Reach(StartHotelID) = 0 + DistMatrix[StartHotelID][StartHotelID]
    BY <1>1 DEF Day, Reach, Last
  <2>3. Reach(StartHotelID) = 0
    BY <1>2, <2>2, MetricAssumption
  <2> QED BY <1>1, <1>2, <2>1, <2>2, <2>3 DEF HotelInReach
<1> QED BY <1>3, <1>4, <1>5, <1>6 DEF GreedyInv

LEMMA StartGreedyInv ==
  ASSUME NEW rcl, NEW mode, StartGreedy(rcl, mode)
  PROVE  GreedyInv'
<1>1. NothingBuilt'
  BY DEF StartGreedy, NothingBuilt
<1> QED BY <1>1, NothingBuiltInv, PTL

LEMMA VisitInv ==
  ASSUME GreedyInv, ~Built, NEW i \in DOMAIN SiteIDs, Visit(i)
  PROVE  GreedyInv'
<1> DEFINE p == SiteIDs[i]
<1>1. p \in Sites /\ p \in Points /\ CanReturn(p)
  BY DEF Visit, Candidates, Admissible, Points
<1>2. /\ tour \in Seq(Points) /\ tour # <<>> /\ clock \in Nat
      /\ days \in Seq(DayTours) /\ Len(days) <= NbDays
  BY DEF GreedyInv, GreedyTypeOK
<1>3. /\ tour' = Append(tour, p) /\ clock' = Leave(p, Reach(p)) /\ days' = days
  BY DEF Visit
<1> HIDE DEF p
<1>4. /\ tour' \in Seq(Points) /\ Len(tour') = Len(tour) + 1 /\ Len(tour) \in Nat /\ Len(tour) >= 1
      /\ tour'[Len(tour) + 1] = p /\ \A j \in 1 .. Len(tour) : tour'[j] = tour[j]
  BY <1>1, <1>2, <1>3
<1>5. Last(tour') = p /\ Last(tour) \in Points
  BY <1>2, <1>4 DEF Last
<1>6. Reach(p) \in Nat
  <2> DistMatrix[Last(tour)][p] \in Nat
    BY <1>1, <1>5, MetricAssumption
  <2> QED BY <1>2 DEF Reach
<1>7. clock' \in Nat
  <2>1. OpenTime[p] \in Nat /\ ServiceTime[p] \in Nat
    BY <1>1, SiteAssumption
  <2>2. Max({Reach(p), OpenTime[p]}) \in Nat
    BY <1>6, <2>1, MaxOfTwo
  <2> QED BY <1>1, <1>3, <2>1, <2>2 DEF Leave
<1>8. GreedyTypeOK'
  BY <1>2, <1>3, <1>4, <1>7 DEF GreedyTypeOK
<1>9. DaysJoin'
  BY <1>3 DEF GreedyInv, DaysJoin
<1>10. TourJoins'
  <2>1. tour'[1] = tour[1] /\ Len(tour') # 1
    BY <1>4
  <2>2. \A j \in 2 .. Len(tour') : tour'[j] \in Sites
    <3> SUFFICES ASSUME NEW j \in 2 .. Len(tour') PROVE tour'[j] \in Sites
      OBVIOUS
    <3> j = Len(tour) + 1 \/ (j \in 2 .. Len(tour) /\ j \in 1 .. Len(tour))
      BY <1>4
    <3> QED BY <1>1, <1>4 DEF GreedyInv, TourJoins
  <2> QED BY <1>3, <2>1, <2>2 DEF GreedyInv, TourJoins
<1>11. HotelInReach'
  <2>1. PICK h \in Hotels : /\ Day = NbDays => h = EndHotelID
                            /\ Leave(p, Reach(p)) + DistMatrix[p][h] <= DayMaxDist(Day)
    BY <1>1 DEF CanReturn
  <2>2. Day' = Day /\ Reach(h)' = Leave(p, Reach(p)) + DistMatrix[p][h]
    BY <1>3, <1>5 DEF Day, Reach
  <2> QED BY <2>1, <2>2 DEF HotelInReach
<1> QED BY <1>8, <1>9, <1>10, <1>11 DEF GreedyInv

\* A day ends at a hotel, the last one at EndHotelID.
LEMMA EndHotelIsHotel ==
  /\ EndHotel \subseteq Hotels
  /\ Day = NbDays => EndHotel = {EndHotelID}
<1>1. \A S, h : h \in {HotelIDs[i] : i \in S} /\ S \subseteq DOMAIN HotelIDs => h \in Hotels
  BY DEF Hotels, ToSet
<1> DEFINE best == Best(WithinReach, LAMBDA i : <<Reach(HotelIDs[i]), i>>)
<1>2. best \subseteq WithinReach
  BY Zenon DEF Best
<1>3. EndHotel = IF Day = NbDays \/ WithinReach = {} THEN {EndHotelID} ELSE {HotelIDs[i] : i \in best}
  BY Zenon DEF EndHotel
<1> HIDE DEF best
<1>4. WithinReach \subseteq DOMAIN HotelIDs
  BY DEF WithinReach
<1> QED BY <1>1, <1>2, <1>3, <1>4, PointsAssumption

LEMMA EndDayInv ==
  ASSUME GreedyInv, ~Built, EndDay
  PROVE  GreedyInv'
<1>1. PICK h \in EndHotel : /\ days' = Append(days, FreshDay(Append(tour, h)))
                            /\ tour' = <<h>>
  BY DEF EndDay
<1> DEFINE pts == Append(tour, h)
           day == FreshDay(pts)
           n   == Len(days)
<1>2. /\ tour \in Seq(Points) /\ tour # <<>> /\ clock \in Nat
      /\ days \in Seq(DayTours) /\ n <= NbDays /\ n # NbDays
  BY DEF GreedyInv, GreedyTypeOK, Built
<1>3. h \in Hotels /\ h \in Points /\ (n + 1 = NbDays => h = EndHotelID)
  BY EndHotelIsHotel DEF Points, Day
<1>4. NbDays \in Nat /\ n \in Nat /\ n + 1 <= NbDays
  BY <1>2, PointsAssumption
<1>5. /\ pts \in Seq(Points) /\ Len(pts) = Len(tour) + 1 /\ Len(tour) \in Nat /\ Len(tour) >= 1
      /\ pts[Len(pts)] = h /\ \A j \in 1 .. Len(tour) : pts[j] = tour[j]
  BY <1>2, <1>3
<1> HIDE DEF pts
<1>6. Tour(pts) /\ pts[1] = tour[1] /\ Last(pts) = h
  <2>1. \A i \in Inner(pts) : i \in 2 .. Len(tour) /\ i \in 1 .. Len(tour)
    BY <1>5 DEF Inner
  <2>2. \A i \in Inner(pts) : pts[i] \in Sites
    BY <1>5, <2>1 DEF GreedyInv, TourJoins
  <2> QED BY <1>5, <2>2 DEF Tour, Last
<1>7. day \in DayTours /\ PointsOf(day) = pts /\ Orderly(day)
  BY <1>5, <1>6, FreshDayOfTour DEF Orderly
<1>8. /\ days' \in Seq(DayTours) /\ Len(days') = n + 1
      /\ days'[n + 1] = day /\ \A d \in 1 .. n : days'[d] = days[d]
  <2> HIDE DEF day
  <2> days' = Append(days, day)
    BY <1>1 DEF day, pts
  <2> QED BY <1>2, <1>7
<1> HIDE DEF day
<1>9. /\ clock' = 0 /\ tour' \in Seq(Points) /\ tour' # <<>> /\ Len(tour') = 1 /\ tour'[1] = h
      /\ Last(tour') = h
  BY <1>1, <1>3 DEF EndDay, Last
<1> HIDE DEF n
<1>10. GreedyTypeOK'
  BY <1>4, <1>8, <1>9 DEF GreedyTypeOK
<1>11. DaysJoin'
  <2> SUFFICES ASSUME NEW d \in 1 .. n + 1
               PROVE  /\ Orderly(days'[d])
                      /\ PointsOf(days'[d])[1] \in Hotels /\ Last(PointsOf(days'[d])) \in Hotels
                      /\ d = 1 => PointsOf(days'[d])[1] = StartHotelID
                      /\ d = NbDays => Last(PointsOf(days'[d])) = EndHotelID
                      /\ d < n + 1 => Last(PointsOf(days'[d])) = PointsOf(days'[d + 1])[1]
    BY <1>8 DEF DaysJoin
  <2>1. CASE d = n + 1
    <3>1. PointsOf(days'[d]) = pts /\ Orderly(days'[d])
      BY <1>7, <1>8, <2>1
    <3>2. n + 1 = 1 => tour[1] = StartHotelID
      BY <1>4 DEF GreedyInv, TourJoins, n
    <3> QED BY <1>3, <1>6, <2>1, <3>1, <3>2 DEF GreedyInv, TourJoins
  <2>2. CASE d \in 1 .. n
    <3>1. /\ days'[d] = days[d] /\ DaysJoin /\ d < n + 1
      BY <1>4, <1>8, <2>2 DEF GreedyInv
    <3>2. CASE d = n
      <4> PointsOf(days'[d + 1])[1] = tour[1] /\ Len(days) # 0
        BY <1>4, <1>6, <1>7, <1>8, <3>2, <2>2 DEF n
      <4> QED BY <2>2, <3>1, <3>2 DEF DaysJoin, GreedyInv, TourJoins, n
    <3>3. CASE d # n
      <4> days'[d + 1] = days[d + 1] /\ d < n
        BY <1>4, <1>8, <2>2, <3>3
      <4> QED BY <2>2, <3>1 DEF DaysJoin, n
    <3> QED BY <3>2, <3>3
  <2> QED BY <1>4, <2>1, <2>2
<1>12. TourJoins'
  <2>1. Len(days') # 0 /\ PointsOf(days'[Len(days')]) = pts
    BY <1>4, <1>7, <1>8
  <2>2. \A i \in 2 .. Len(tour') : FALSE
    BY <1>9
  <2> QED BY <1>3, <1>6, <1>9, <2>1, <2>2 DEF TourJoins
<1>13. HotelInReach'
  <2>1. DayMaxDist(Day') \in Nat
    BY <1>4, <1>8, BudgetAssumption DEF DayMaxDist, Day
  <2>2. Reach(h)' = 0
    BY <1>3, <1>9, MetricAssumption DEF Reach
  <2>3. Day' < NbDays \/ Len(tour') > 1 => Day' # NbDays
    BY <1>4, <1>8, <1>9 DEF Day
  <2>4. DayMaxDist(Day)' = DayMaxDist(Day')
    BY DEF DayMaxDist
  <2> QED BY <1>3, <2>1, <2>2, <2>3, <2>4 DEF HotelInReach
<1> QED BY <1>10, <1>11, <1>12, <1>13 DEF GreedyInv

LEMMA GreedyStepInv ==
  ASSUME GreedyInv, GreedyStep
  PROVE  GreedyInv'
BY VisitInv, EndDayInv DEF GreedyStep

\* What the construction returns is in its frame.
LEMMA GreedySolutionSound ==
  ASSUME GreedyInv, Built
  PROVE  Sound(GreedySolution)
<1> DEFINE s == [days |-> days, score |-> 0, dist |-> 0]
<1>1. days \in Seq(DayTours) /\ Len(days) = NbDays /\ DaysJoin
  BY DEF GreedyInv, GreedyTypeOK, Built
<1>2. s \in Solutions /\ s.days = days
  BY <1>1 DEF Solutions
<1> HIDE DEF s
<1>3. \A d \in 1 .. NbDays : Len(PointsOf(days[d])) >= 2 /\ days[d].dist = TourLength(PointsOf(days[d]))
        /\ \A i \in Inner(PointsOf(days[d])) : PointsOf(days[d])[i] \in Sites
  BY <1>1 DEF DaysJoin, Orderly, Tour
<1>4. Shape(s)
  BY <1>1, <1>2, <1>3 DEF Shape, DaysJoin, PointsAt
<1>5. ExactDistances(s)
  BY <1>1, <1>2, <1>3 DEF ExactDistances, PointsAt
<1>6. Framed(s)
  BY <1>2, <1>4 DEF Framed
<1> QED BY <1>5, <1>6, EvaluateScoreKeeps DEF Keeps, Sound, GreedySolution, s

-----------------------------------------------------------------------------
(* The descent *)

LEMMA ChosenMoves ==
  ASSUME NEW s, NEW l
  PROVE  /\ BestInsertion(s, l) \subseteq Insertions(s, l)
         /\ FirstReversal(s) \subseteq Reversals(s)
         /\ BestSwap(s, l) \subseteq Swaps(s, l)
<1>1. BestInsertion(s, l) \subseteq Insertions(s, l)
  BY Zenon DEF BestInsertion, Best
<1>2. FirstReversal(s) \subseteq Reversals(s)
  BY Zenon DEF FirstReversal, Best
<1>3. BestSwap(s, l) \subseteq Swaps(s, l)
  BY Zenon DEF BestSwap, Best
<1> QED BY <1>1, <1>2, <1>3

\* The variables of a descent other than the solution.
DescentTypes ==
  /\ k \in 0 .. 5 /\ oldScore \in Nat /\ iter \in Nat /\ (iter <= MaxIter \/ iter < NbDays)
  /\ list \in Seq(Sites)
  /\ stage \in {"head", "inner", "cut", "done"}
  /\ stage \in {"inner", "cut"} => k < 5

LEMMA StartDescentTypes ==
  ASSUME NEW s, StartDescent(s)
  PROVE  DescentTypes' /\ sol' = s
BY IterationsAssumption DEF StartDescent, DescentTypes

LEMMA DescentStepKeeps ==
  ASSUME DescentTypes, Framed(sol), DescentStep
  PROVE  DescentTypes' /\ Keeps(sol, sol')
<1>1. /\ MaxIter \in Nat /\ NbDays \in Nat \ {0}
      /\ sol \in Solutions /\ sol.score \in Nat /\ DOMAIN sol.days = Days
  BY IterationsAssumption, PointsAssumption, SolutionFields, ShapeIsTours DEF Framed
<1>2. Keeps(sol, sol)
  BY DEF Keeps, FeasibleChange
<1>3. CASE Begin
  <2> list' \in Seq(Sites)
    BY <1>3, ListsOfSites DEF Begin
  <2> QED BY <1>1, <1>2, <1>3 DEF Begin, DescentTypes
<1>4. CASE Stop
  BY <1>2, <1>4 DEF Stop, DescentTypes
<1>5. CASE InsertBest
  <2>1. PICK m \in Insertions(sol, list) :
          /\ sol' = Insert(sol, m[2], m[3], list[m[1]])
          /\ list' = MarkVisited(list, list[m[1]])
    BY <1>5, ChosenMoves DEF InsertBest
  <2>2. /\ m[1] \in DOMAIN list /\ m[2] \in DOMAIN sol.days /\ m[3] \in Slots(PointsAt(sol, m[2]))
        /\ Feasible(m[2], InsertAt(PointsAt(sol, m[2]), m[3], list[m[1]]))
    BY DEF Insertions, CanInsert
  <2>3. list[m[1]] \in Sites
    BY <2>2 DEF DescentTypes
  <2>4. Keeps(sol, sol')
    BY <2>1, <2>2, <2>3, InsertKeeps
  <2>5. list' \in Seq(Sites)
    BY <2>1, <2>2, ListsOfSites DEF DescentTypes
  <2> QED BY <1>5, <2>4, <2>5 DEF InsertBest, Polled, DescentTypes
<1>6. CASE ReverseFirst
  <2>1. PICK m \in Reversals(sol) : sol' = Reverse2Opt(sol, m)
    BY <1>6, ChosenMoves DEF ReverseFirst
  <2> QED BY <1>6, <2>1, ReverseKeeps DEF ReverseFirst, DescentTypes
<1>7. CASE SwapBest
  <2>1. PICK m \in Swaps(sol, list) :
          /\ sol' = Swap(sol, m[1], m[2], list[m[3]])
          /\ list' = MarkUnvisited(MarkVisited(list, list[m[3]]), PointsAt(sol, m[1])[m[2]])
    BY <1>7, ChosenMoves DEF SwapBest
  <2>2. /\ m[3] \in DOMAIN list /\ m[1] \in DOMAIN sol.days /\ m[2] \in Inner(PointsAt(sol, m[1]))
        /\ Feasible(m[1], ReplaceAt(PointsAt(sol, m[1]), m[2], list[m[3]]))
        /\ PointsAt(sol, m[1])[m[2]] \in Sites
        /\ Gain(sol, m[1], m[2], list[m[3]]) > 0
    BY DEF Swaps, CanSwap
  <2>3. list[m[3]] \in Sites
    BY <2>2 DEF DescentTypes
  <2>4. Keeps(sol, sol')
    BY <2>1, <2>2, <2>3, SwapKeeps
  <2>5. list' \in Seq(Sites)
    <3> MarkVisited(list, list[m[3]]) \in Seq(Sites)
      BY <2>2, ListsOfSites DEF DescentTypes
    <3> QED BY <2>1, <2>2, ListsOfSites
  <2> QED BY <1>7, <2>4, <2>5 DEF SwapBest, Polled, DescentTypes
<1>8. CASE Relocate
  <2>1. PICK d \in DOMAIN sol.days, type \in 0 .. 2 :
          \E r \in Relocations(sol, list, d, type) : sol' = r.sol /\ list' = r.list
    BY <1>8 DEF Relocate
  <2>3. PICK r \in Relocations(sol, list, d, type) : sol' = r.sol /\ list' = r.list
    BY <2>1
  <2>2. Keeps(sol, r.sol) /\ r.list \in Seq(Sites)
    BY RelocationKeeps DEF DescentTypes
  <2> QED BY <1>1, <1>8, <2>2, <2>3 DEF Relocate, DescentTypes
<1>9. CASE SwapHotelNext
  <2>1. Len(sol.days) = NbDays
    BY DEF Framed, Shape
  <2>2. iter + 1 \in 1 .. NbDays - 1
    BY <1>1, <1>9, <2>1 DEF SwapHotelNext, Junctions, DescentTypes
  <2>3. Keeps(sol, sol')
    BY <1>9, <2>2, SwapHotelKeeps DEF SwapHotelNext
  <2> QED BY <1>1, <1>9, <2>2, <2>3 DEF SwapHotelNext, DescentTypes
<1>10. CASE Finish
  <2>1. Keeps(sol, Rescored)
    BY <1>2, EvaluateScoreKeeps DEF Rescored
  <2>2. stage \in {"inner", "cut"} /\ k < 5
    BY <1>10 DEF Finish, Exhausted, DescentTypes
  <2>3. sol' = Rescored /\ k' \in {0, k + 1} /\ list' = <<>> /\ iter' = 0 /\ stage' = "head"
        /\ oldScore' = oldScore
    BY <1>10 DEF Finish
  <2>4. k' \in 0 .. 5
    BY <2>2, <2>3 DEF DescentTypes
  <2> QED BY <1>1, <2>1, <2>3, <2>4 DEF DescentTypes
<1> QED BY <1>3, <1>4, <1>5, <1>6, <1>7, <1>8, <1>9, <1>10 DEF DescentStep

-----------------------------------------------------------------------------
(* The rounds *)

LEMMA NoSolutionFacts ==
  /\ NoSolution \in Solutions /\ ~Framed(NoSolution)
BY PointsAssumption DEF NoSolution, Solutions, Framed, Shape

LEMMA KeepsSound ==
  ASSUME NEW s, NEW r, Sound(s), Keeps(s, r)
  PROVE  Sound(r)
BY DEF Sound, Keeps

\* EvaluateSolution leaves a trip in its frame, and its distances exact.
LEMMA EvaluationSound ==
  ASSUME NEW s, Sound(s)
  PROVE  Sound(EvaluateSolution(s).sol)
<1> DEFINE r == EvaluateSolution(s).sol
<1>1. s \in Solutions /\ Shape(s) /\ ExactDistances(s)
  BY DEF Sound, Framed
<1>2. SamePoints(s, r) /\ ExactDistances(r)
  BY <1>1, EvaluationKeepsPoints, EvaluationKeepsExact
<1> HIDE DEF r
<1>3. Len(r.days) = Len(s.days)
  BY <1>1, <1>2, SolutionFields DEF SamePoints
<1>4. DOMAIN s.days = Days /\ \A d \in Days : d < NbDays => d + 1 \in Days
  BY <1>1, ShapeIsTours, PointsAssumption DEF Days
<1>5. Shape(r)
  BY <1>1, <1>2, <1>3, <1>4 DEF Shape, SamePoints
<1> QED BY <1>2, <1>5 DEF Sound, Framed, SamePoints, r

LEMMA SoundIsSolution ==
  ASSUME NEW s, Sound(s)
  PROVE  s \in Solutions /\ s # NoSolution /\ Framed(s)
BY NoSolutionFacts DEF Sound, Framed

\* Types of the variables of the worker itself.
WorkerTypes ==
  /\ expired \in BOOLEAN /\ seeding \in BOOLEAN
  /\ kind \in {"GRASP", "VNS"}
  /\ phase \in {"construct", "descend", "start", "head", "exited", "returned"}
  /\ force \in 1 .. MaxForce
  /\ noImprove \in 0 .. Patience

Trips == sol \in Solutions /\ bestSol \in Solutions /\ record \in Solutions

LEMMA InvParts ==
  WorkerInv <=> /\ GreedyInv /\ DescentTypes /\ WorkerTypes /\ Trips
                /\ SoundTrips /\ Control
BY DEF WorkerInv, TypeOK, GreedyInv, DescentTypes, WorkerTypes, Trips, Control

LEMMA InitInv == Init => WorkerInv
<1> SUFFICES ASSUME Init PROVE WorkerInv
  OBVIOUS
<1>1. GreedyInv
  BY NothingBuiltInv DEF Init, NothingBuilt
<1>2. DescentTypes
  BY IterationsAssumption DEF Init, DescentTypes
<1>3. WorkerTypes
  <2>1. 1 \in 1 .. MaxForce /\ 0 \in 0 .. Patience
    BY ForceAssumption
  <2>2. expired \in BOOLEAN /\ seeding \in BOOLEAN
    BY Zenon DEF Init
  <2> QED BY <2>1, <2>2 DEF Init, WorkerTypes
<1>4. Trips /\ SoundTrips /\ Control
  BY NoSolutionFacts DEF Init, Trips, SoundTrips, Control, Descending, Joined
<1> QED BY <1>1, <1>2, <1>3, <1>4, InvParts

LEMMA EscalateTypes ==
  ASSUME WorkerTypes, Escalate
  PROVE  force' \in 1 .. MaxForce /\ noImprove' \in 0 .. Patience
BY ForceAssumption DEF WorkerTypes, Escalate

\* The invariant depends on the construction through GreedyInv only.
LEMMA GreedyUnchanged ==
  ASSUME GreedyInv, UNCHANGED greedyVars
  PROVE  GreedyInv'
BY DEF GreedyInv, greedyVars, GreedyTypeOK, DaysJoin, TourJoins, HotelInReach, Built, Day, Reach

LEMMA StutterInv ==
  ASSUME WorkerInv, UNCHANGED vars
  PROVE  WorkerInv'
<1>1. GreedyInv /\ DescentTypes /\ WorkerTypes /\ Trips /\ SoundTrips /\ Control
  BY InvParts
<1>2. GreedyInv' /\ DescentTypes' /\ sol' = sol
  BY <1>1, GreedyUnchanged DEF vars, descentVars, DescentTypes
<1>3. WorkerTypes' /\ Trips' /\ SoundTrips' /\ Control'
  BY <1>1, <1>2 DEF vars, workerVars, descentVars, WorkerTypes, Trips, SoundTrips, Control,
    Descending, Joined
<1> QED BY <1>2, <1>3, InvParts, PTL

LEMMA StepInv ==
  ASSUME WorkerInv, Next
  PROVE  WorkerInv'
<1>1. /\ GreedyInv /\ DescentTypes /\ WorkerTypes /\ Trips /\ SoundTrips /\ Control
  BY InvParts
<1>2. ASSUME GreedyInv', DescentTypes', WorkerTypes', Trips', SoundTrips', Control'
      PROVE  WorkerInv'
  BY <1>2, InvParts, PTL
<1>3. CASE Construct
  <2>1. GreedyInv'
    BY <1>1, <1>3, GreedyStepInv DEF Construct
  <2>2. /\ DescentTypes' /\ WorkerTypes' /\ Trips' /\ SoundTrips' /\ Control'
    BY <1>1, <1>3 DEF Construct, descentVars, workerVars, DescentTypes, WorkerTypes, Trips,
      SoundTrips, Control, Descending, Joined
  <2> QED BY <1>2, <2>1, <2>2
<1>4. CASE Constructed
  <2>1. GreedyInv'
    BY <1>4, StartGreedyInv DEF Constructed
  <2>2. DescentTypes' /\ sol' = GreedySolution
    BY <1>4, StartDescentTypes DEF Constructed
  <2>3. Sound(sol')
    BY <1>1, <1>4, <2>2, GreedySolutionSound DEF Constructed
  <2>4. /\ WorkerTypes' /\ Trips' /\ SoundTrips' /\ Control'
    BY <1>1, <1>4, <2>2, <2>3, SoundIsSolution DEF Constructed, WorkerTypes, Trips,
      SoundTrips, Control, Descending, Joined, DescentTypes
  <2> QED BY <1>2, <2>1, <2>2, <2>4
<1>5. CASE Descend
  <2>1. Sound(sol) /\ Framed(sol)
    BY <1>1, <1>5 DEF Descend, SoundTrips, Descending, Sound
  <2>2. DescentTypes' /\ Keeps(sol, sol')
    BY <1>1, <1>5, <2>1, DescentStepKeeps DEF Descend
  <2>3. Sound(sol')
    BY <2>1, <2>2, KeepsSound
  <2>4. GreedyInv'
    BY <1>1, <1>5, GreedyUnchanged DEF Descend
  <2>5. /\ WorkerTypes' /\ Trips' /\ SoundTrips' /\ Control'
    BY <1>1, <1>5, <2>2, <2>3, SoundIsSolution DEF Descend, workerVars, WorkerTypes, Trips,
      SoundTrips, Control, Descending, Joined, DescentTypes
  <2> QED BY <1>2, <2>2, <2>4, <2>5
<1>6. ASSUME UNCHANGED <<greedyVars, descentVars>> PROVE GreedyInv' /\ DescentTypes' /\ sol' = sol
  BY <1>1, <1>6, GreedyUnchanged DEF descentVars, DescentTypes
<1>7. CASE Seeded
  <2>1. /\ WorkerTypes' /\ Trips' /\ SoundTrips' /\ Control'
    BY <1>1, <1>6, <1>7 DEF Seeded, WorkerTypes, Trips, SoundTrips, Control, Descending, Joined,
      descentVars
  <2> QED BY <1>2, <1>6, <1>7, <2>1 DEF Seeded
<1>8. CASE ReturnSeed \/ Start \/ Restart \/ Exit
  <2>1. /\ WorkerTypes' /\ Trips' /\ SoundTrips' /\ Control'
    BY <1>1, <1>6, <1>8, SoundIsSolution DEF ReturnSeed, Start, Restart, Exit, WorkerTypes, Trips,
      SoundTrips, Control, Descending, Joined, descentVars
  <2> QED BY <1>2, <1>6, <1>8, <2>1 DEF ReturnSeed, Start, Restart, Exit
<1>9. CASE Shake
  <2>1. PICK s \in Shaken(record, force) : StartDescent(s)
    BY <1>9 DEF Shake
  <2>2. Sound(record)
    BY <1>1, <1>9 DEF Shake, SoundTrips, Control
  <2>3. Sound(s)
    BY <1>1, <2>2, ShakenKeepsShape DEF WorkerTypes, Sound
  <2>4. DescentTypes' /\ sol' = s
    BY <2>1, StartDescentTypes
  <2>5. GreedyInv'
    BY <1>1, <1>9, GreedyUnchanged DEF Shake
  <2>6. /\ WorkerTypes' /\ Trips' /\ SoundTrips' /\ Control'
    BY <1>1, <1>9, <2>2, <2>3, <2>4, SoundIsSolution DEF Shake, WorkerTypes, Trips,
      SoundTrips, Control, Descending, Joined, DescentTypes
  <2> QED BY <1>2, <2>4, <2>5, <2>6
<1>10. ASSUME Judging PROVE Sound(Judged.sol)
  BY <1>1, <1>10, EvaluationSound DEF Judging, Judged, SoundTrips, Descending
<1>11. CASE Refuse
  <2>1. DescentTypes' /\ GreedyInv'
    BY <1>1, <1>11, GreedyUnchanged DEF Refuse, DescentTypes
  <2>2. Sound(sol')
    BY <1>10, <1>11 DEF Refuse
  <2>3. /\ WorkerTypes' /\ Trips' /\ SoundTrips' /\ Control'
    BY <1>1, <1>11, <2>1, <2>2, SoundIsSolution, EscalateTypes DEF Refuse, Judging, WorkerTypes, Trips,
      SoundTrips, Control, Descending, Joined, DescentTypes
  <2> QED BY <1>2, <2>1, <2>3
<1>12. CASE Accept
  <2>1. DescentTypes' /\ GreedyInv'
    BY <1>1, <1>12, GreedyUnchanged DEF Accept, DescentTypes
  <2>2. Sound(sol') /\ Sound(record')
    BY <1>10, <1>12 DEF Accept
  <2>3. /\ WorkerTypes' /\ Trips' /\ SoundTrips' /\ Control'
    BY <1>1, <1>12, <2>1, <2>2, SoundIsSolution, ForceAssumption DEF Accept, Judging, WorkerTypes, Trips,
      SoundTrips, Control, Descending, Joined, DescentTypes
  <2> QED BY <1>2, <2>1, <2>3
<1>13. CASE Collect
  <2>1. Sound(record) /\ Sound(bestSol)
    BY <1>1, <1>13 DEF Collect, Control, SoundTrips
  <2>2. Sound(EvaluateSolution(record).sol)
    BY <2>1, EvaluationSound
  <2>3. /\ record' = EvaluateSolution(record).sol
        /\ \E s \in {EvaluateSolution(record).sol, bestSol} : bestSol' = EvaluateScore(s)
    BY <1>13 DEF Collect
  <2>4. Sound(bestSol') /\ Sound(record')
    <3> \A s : Sound(s) => Sound(EvaluateScore(s))
      BY EvaluateScoreKeeps, KeepsSound DEF Sound
    <3> QED BY <2>1, <2>2, <2>3
  <2>5. GreedyInv' /\ DescentTypes' /\ sol' = sol
    BY <1>6, <1>13 DEF Collect
  <2>6. /\ WorkerTypes' /\ Trips' /\ SoundTrips' /\ Control'
    BY <1>1, <1>13, <2>4, <2>5, SoundIsSolution DEF Collect, WorkerTypes, Trips,
      SoundTrips, Control, Descending, Joined, DescentTypes
  <2> QED BY <1>2, <2>5, <2>6
<1>14. CASE DeadlinePasses
  <2>1. GreedyInv' /\ DescentTypes' /\ sol' = sol
    BY <1>6, <1>14 DEF DeadlinePasses
  <2>2. /\ WorkerTypes' /\ Trips' /\ SoundTrips' /\ Control'
    BY <1>1, <1>14, <2>1 DEF DeadlinePasses, Expire, workerVars, descentVars, WorkerTypes, Trips,
      SoundTrips, Control, Descending, Joined
  <2> QED BY <1>2, <2>1, <2>2
<1>15. CASE Returned
  BY <1>15, StutterInv DEF Returned
<1> QED
  BY <1>3, <1>4, <1>5, <1>7, <1>8, <1>9, <1>11, <1>12, <1>13, <1>14, <1>15
     DEF Next, Step

-----------------------------------------------------------------------------
(* The theorems *)

THEOREM Invariance == Spec => []WorkerInv
<1>1. WorkerInv /\ [Next]_vars => WorkerInv'
  <2> SUFFICES ASSUME WorkerInv, UNCHANGED vars PROVE WorkerInv'
    BY StepInv
  <2> QED BY StutterInv
<1> QED BY <1>1, InitInv, PTL DEF Spec

\* The types of the worker's variables: trips, lists of sites, the neighbourhood,
\* the force and the rounds without improvement stay in their ranges.
THEOREM TypeCorrect == Spec => []TypeOK
<1>1. WorkerInv => TypeOK
  BY DEF WorkerInv
<1> QED BY <1>1, Invariance, PTL

\* Neither a move of the descent, nor a shake, nor EvaluateSolution breaks the
\* frame of a trip.
THEOREM FrameKept == Spec => []TourShape
<1>1. WorkerInv => TourShape
  BY DEF WorkerInv, SoundTrips, Sound, Framed, TourShape
<1> QED BY <1>1, Invariance, PTL

\* DistTotal is the length of the day's tour: after every move of the descent, the
\* three formulas of the shakes and the rewriting by EvaluateSolution, also when
\* it refuses the trip.
THEOREM DistancesExact == Spec => []DistExact
<1>1. WorkerInv => DistExact
  BY DEF WorkerInv, SoundTrips, Sound, DistExact
<1> QED BY <1>1, Invariance, PTL

\* The construction never finds itself, on a day with a site or before the last
\* one, without a hotel to end the day at.
THEOREM NeverStranded == Spec => []HotelInReach
<1>1. WorkerInv => HotelInReach
  BY DEF WorkerInv, GreedyInv
<1> QED BY <1>1, Invariance, PTL

\* No move of the descent makes a feasible trip infeasible.
THEOREM FeasibilityKept == Spec => FeasibleStays
<1>1. WorkerInv /\ [Next]_vars =>
        [Descending /\ Descending' /\ AllFeasible(sol) => AllFeasible(sol')]_vars
  <2> SUFFICES ASSUME WorkerInv, Next, Descending, Descending', AllFeasible(sol)
               PROVE  AllFeasible(sol')
    OBVIOUS
  <2>1. Descend \/ DeadlinePasses
    BY DEF Next, Step, Descending, Construct, Constructed, Descend, Seeded, ReturnSeed, Start,
      Restart, Shake, Refuse, Judging, Accept, Exit, Collect, Returned, DeadlinePasses,
      workerVars, vars
  <2>2. CASE Descend
    <3>1. Framed(sol) /\ DescentTypes
      BY InvParts DEF SoundTrips, Sound
    <3>2. Keeps(sol, sol')
      BY <2>2, <3>1, DescentStepKeeps DEF Descend
    <3> QED BY <3>2 DEF Keeps, FeasibleChange, AllFeasible
  <2>3. CASE DeadlinePasses
    BY <2>3 DEF DeadlinePasses, descentVars
  <2> QED BY <2>1, <2>2, <2>3
<1> QED BY <1>1, Invariance, PTL DEF Spec, FeasibleStays

-----------------------------------------------------------------------------
(* Arrivals and departures *)

\* A visitor leaves no earlier than she comes.
LEMMA LeaveIsLater ==
  ASSUME NEW p \in Points, NEW t \in Nat
  PROVE  Leave(p, t) \in Nat /\ Leave(p, t) >= t
<1>1. CASE p \in Sites
  <2>1. OpenTime[p] \in Nat /\ ServiceTime[p] \in Nat
    BY <1>1, SiteAssumption
  <2>2. Max({t, OpenTime[p]}) \in Nat /\ Max({t, OpenTime[p]}) >= t
    BY <2>1, MaxOfTwo
  <2> QED BY <1>1, <2>1, <2>2 DEF Leave
<1>2. CASE p \notin Sites
  BY <1>2 DEF Leave
<1> QED BY <1>1, <1>2

\* The recursive definition of Departures has the function it describes.
LEMMA Timetable ==
  ASSUME NEW pts \in Seq(Points)
  PROVE  /\ Departures(pts) \in [1 .. Len(pts) -> Nat]
         /\ \A i \in 1 .. Len(pts) : /\ Arrival(pts, i) \in Nat
                                     /\ Departures(pts)[i] = Leave(pts[i], Arrival(pts, i))
<1> DEFINE n == Len(pts)
           At1(dep, i) == Leave(pts[i], IF i = 1 THEN 0 ELSE dep[i - 1] + Leg(pts, i))
           dep  == CHOOSE dep : dep = [i \in DOMAIN pts |-> At1(dep, i)]
           base == Leave(pts[1], 0)
           step == [p \in Nat \X (1 + 1 .. n) |-> Leave(pts[p[2]], p[1] + Leg(pts, p[2]))]
<1>1. n \in Nat /\ DOMAIN pts = 1 .. n /\ \A i \in 1 .. n : pts[i] \in Points /\ Leg(pts, i) \in Nat
  BY LegIsNat
<1>2. Departures(pts) = dep
  BY Zenon DEF Departures
<1> HIDE DEF n
<1>3. CASE n >= 1
  <2>1. base \in Nat
    BY <1>1, <1>3, LeaveIsLater
  <2>2. step \in [Nat \X (1 + 1 .. n) -> Nat]
    <3> SUFFICES ASSUME NEW t \in Nat, NEW i \in 1 + 1 .. n
                 PROVE  Leave(pts[i], t + Leg(pts, i)) \in Nat
      OBVIOUS
    <3> i \in 1 .. n
      BY <1>1
    <3> pts[i] \in Points /\ t + Leg(pts, i) \in Nat
      BY <1>1
    <3> QED BY LeaveIsLater
  <2>3. \E f : f \in [1 .. n -> Nat] /\ \A i \in 1 .. n : f[i] = At1(f, i)
    <3>1. 1 \in Nat
      OBVIOUS
    <3>2. \A t \in Nat, i \in 1 + 1 .. n : step[<<t, i>>] = Leave(pts[i], t + Leg(pts, i))
      OBVIOUS
    <3> HIDE DEF base, step
    <3>3. PICK f : Recursive(f, 1, n, Nat, base, step)
      BY <1>1, <2>1, <2>2, <3>1, RecursionExists
    <3>4. \A i \in 1 .. n : i # 1 => f[i - 1] \in Nat /\ i \in 1 + 1 .. n
      BY <1>1, <3>3 DEF Recursive
    <3>5. \A i \in 1 .. n : f[i] = At1(f, i)
      BY <3>2, <3>3, <3>4 DEF Recursive, base
    <3> QED BY <3>3, <3>5 DEF Recursive
  <2>4. dep = [i \in 1 .. n |-> At1(dep, i)]
    <3> \E f : f = [i \in DOMAIN pts |-> At1(f, i)]
      <4> HIDE DEF At1
      <4> PICK f : f \in [1 .. n -> Nat] /\ \A i \in 1 .. n : f[i] = At1(f, i)
        BY <2>3
      <4> f = [i \in DOMAIN pts |-> At1(f, i)]
        BY <1>1
      <4> QED OBVIOUS
    <3> QED BY <1>1
  <2> HIDE DEF dep, base, step
  <2>5. \A i \in 1 .. n : dep[i] = At1(dep, i)
    BY <2>4
  <2>6. \A i \in 1 .. n : dep[i] \in Nat
    <3> DEFINE T == {i \in 1 .. n : dep[i] \in Nat}
    <3>1. 1 \in T
      <4> 1 \in 1 .. n
        BY <1>1, <1>3
      <4> dep[1] = base
        BY <2>5 DEF base
      <4> QED BY <2>1
    <3>2. ASSUME NEW i \in T, i + 1 <= n PROVE i + 1 \in T
      <4>1. i + 1 \in 1 .. n /\ i + 1 # 1 /\ (i + 1) - 1 = i /\ dep[i] \in Nat
        BY <1>1, <3>2
      <4>2. dep[i + 1] = Leave(pts[i + 1], dep[i] + Leg(pts, i + 1))
        BY <2>5, <4>1
      <4>3. pts[i + 1] \in Points /\ dep[i] + Leg(pts, i + 1) \in Nat
        BY <1>1, <4>1
      <4> QED BY <4>1, <4>2, <4>3, LeaveIsLater
    <3>3. T = 1 .. n
      <4> 1 \in Nat /\ T \in SUBSET (1 .. n)
        OBVIOUS
      <4> HIDE DEF T
      <4> QED BY <1>1, <3>1, <3>2, Climb
    <3> QED BY <3>3
  <2>7. dep \in [1 .. n -> Nat]
    <3> DOMAIN dep = 1 .. n /\ dep = [i \in 1 .. n |-> dep[i]]
      BY <2>4
    <3> QED BY <2>6
  <2>8. \A i \in 1 .. n : /\ Arrival(pts, i) = (IF i = 1 THEN 0 ELSE dep[i - 1] + Leg(pts, i))
                          /\ Arrival(pts, i) \in Nat
    <3> \A i \in 1 .. n : i # 1 => i - 1 \in 1 .. n
      BY <1>1
    <3> QED BY <1>1, <1>2, <2>6 DEF Arrival
  <2> QED BY <1>2, <2>5, <2>7, <2>8 DEF n
<1>4. CASE n = 0
  <2>1. dep = [i \in {} |-> At1(dep, i)]
    <3> DEFINE f == [i \in {} |-> At1({}, i)]
    <3> f = [i \in DOMAIN pts |-> At1(f, i)] /\ DOMAIN pts = {}
      BY <1>1, <1>4
    <3> HIDE DEF f
    <3> QED OBVIOUS
  <2> HIDE DEF dep
  <2>2. dep \in [1 .. n -> Nat] /\ 1 .. n = {}
    BY <1>4, <2>1
  <2> QED BY <1>2, <2>2 DEF n
<1> QED BY <1>1, <1>3, <1>4

\* A day takes at least as long as it is: waiting and visiting only add to it.
LEMMA TimeBoundsLength ==
  ASSUME NEW pts \in Seq(Points)
  PROVE  \A i \in 1 .. Len(pts) : /\ LengthTo(pts, i) \in Nat
                                  /\ LengthTo(pts, i) <= Arrival(pts, i)
                                  /\ Arrival(pts, i) <= Departures(pts)[i]
<1> DEFINE n == Len(pts)
           T == {i \in 1 .. n : LengthTo(pts, i) \in Nat /\ LengthTo(pts, i) <= Arrival(pts, i)}
<1>1. n \in Nat /\ \A i \in 1 .. n : pts[i] \in Points /\ Leg(pts, i) \in Nat
  BY LegIsNat
<1>2. /\ n >= 1 => LengthTo(pts, 1) = 0
      /\ \A i \in 2 .. n : LengthTo(pts, i) = LengthTo(pts, i - 1) + Leg(pts, i)
  BY LengthGrows
<1>3. \A i \in 1 .. n : /\ Arrival(pts, i) \in Nat /\ Departures(pts)[i] \in Nat
                        /\ Arrival(pts, i) <= Departures(pts)[i]
  <2> SUFFICES ASSUME NEW i \in 1 .. n
               PROVE  /\ Arrival(pts, i) \in Nat /\ Departures(pts)[i] \in Nat
                      /\ Arrival(pts, i) <= Departures(pts)[i]
    OBVIOUS
  <2> /\ Arrival(pts, i) \in Nat /\ Departures(pts)[i] \in Nat
      /\ Departures(pts)[i] = Leave(pts[i], Arrival(pts, i))
    BY Timetable
  <2> QED BY <1>1, LeaveIsLater
<1>4. \A i \in 2 .. n : Arrival(pts, i) = Departures(pts)[i - 1] + Leg(pts, i)
  BY <1>1 DEF Arrival
<1> HIDE DEF n
<1>5. 1 <= n => 1 \in T
  BY <1>1, <1>2, <1>3
<1>6. ASSUME NEW i \in T, i + 1 <= n PROVE i + 1 \in T
  <2>1. i + 1 \in 2 .. n /\ i + 1 \in 1 .. n /\ i \in 1 .. n /\ (i + 1) - 1 = i
    BY <1>1, <1>6
  <2>2. LengthTo(pts, i + 1) = LengthTo(pts, i) + Leg(pts, i + 1)
    BY <1>2, <2>1
  <2>3. Arrival(pts, i + 1) = Departures(pts)[i] + Leg(pts, i + 1)
    BY <1>4, <2>1
  <2>4. Leg(pts, i + 1) \in Nat /\ Departures(pts)[i] \in Nat /\ Arrival(pts, i) <= Departures(pts)[i]
        /\ Arrival(pts, i) \in Nat
    BY <1>1, <1>3, <2>1
  <2> QED BY <2>1, <2>2, <2>3, <2>4
<1>7. T = 1 .. n
  <2> 1 \in Nat /\ T \in SUBSET (1 .. n)
    OBVIOUS
  <2> HIDE DEF T
  <2> QED BY <1>1, <1>5, <1>6, Climb
<1> QED BY <1>3, <1>7 DEF n

-----------------------------------------------------------------------------
(* The distance test before an evaluation *)

LEMMA BudgetIsNat ==
  ASSUME NEW d \in Nat \ {0}
  PROVE  DayMaxDist(d) \in Nat
BY BudgetAssumption DEF DayMaxDist

LEMMA FeasibleBounds ==
  ASSUME NEW d \in Nat \ {0}, NEW pts \in Seq(Points), Len(pts) >= 2, Feasible(d, pts)
  PROVE  TourLength(pts) <= DayMaxDist(d)
<1> DEFINE n == Len(pts)
<1>1. n \in 1 .. n /\ n > 1 /\ DOMAIN pts = 1 .. n
  OBVIOUS
<1>2. Arrival(pts, n) <= DayMaxDist(d)
  BY <1>1 DEF Feasible
<1>3. LengthTo(pts, n) \in Nat /\ LengthTo(pts, n) <= Arrival(pts, n) /\ Arrival(pts, n) \in Nat
  BY <1>1, TimeBoundsLength, Timetable
<1>4. LengthTo(pts, n) = TourLength(pts)
  BY LengthGrows
<1> QED BY <1>2, <1>3, <1>4, BudgetIsNat

\* Detour is by how much the tour grows.
LEMMA InsertedLength ==
  ASSUME NEW pts, Tour(pts), NEW pos \in Slots(pts), NEW u \in Sites
  PROVE  TourLength(InsertAt(pts, pos, u)) = TourLength(pts) + Detour(pts, pos, u)
<1> DEFINE n    == Len(pts)
           qts  == InsertAt(pts, pos, u)
           more == Detour(pts, pos, u)
<1>1. pts \in Seq(Points) /\ n \in Nat /\ n >= 2 /\ pos \in 2 .. n /\ u \in Points
  BY DEF Tour, Slots, Points
<1>2. qts \in Seq(Points) /\ Len(qts) = n + 1
  BY <1>1 DEF InsertAt
<1>3. \A i \in 1 .. n + 1 : qts[i] = IF i < pos THEN pts[i] ELSE IF i = pos THEN u ELSE pts[i - 1]
  BY <1>1 DEF InsertAt
<1>4. /\ LengthTo(pts, 1) = 0
      /\ \A i \in 2 .. n : LengthTo(pts, i) = LengthTo(pts, i - 1) + DistMatrix[pts[i - 1]][pts[i]]
      /\ LengthTo(pts, n) = TourLength(pts)
  BY <1>1, LengthGrows DEF Leg
<1> HIDE DEF n, qts
<1>5. /\ LengthTo(qts, 1) = 0
      /\ \A i \in 2 .. n + 1 : LengthTo(qts, i) = LengthTo(qts, i - 1) + DistMatrix[qts[i - 1]][qts[i]]
      /\ LengthTo(qts, n + 1) = TourLength(qts)
  BY <1>1, <1>2, LengthGrows DEF Leg
<1>6. \A i \in 1 .. n : LengthTo(pts, i) \in Nat
  BY <1>1, TimeBoundsLength DEF n
<1>7. more \in Int
  <2>1. pts[pos - 1] \in Points /\ pts[pos] \in Points
    BY <1>1 DEF n
  <2>2. \A x, y \in Points : DistMatrix[x][y] \in Nat
    BY MetricAssumption
  <2>3. /\ DistMatrix[pts[pos - 1]][u] \in Nat /\ DistMatrix[u][pts[pos]] \in Nat
        /\ DistMatrix[pts[pos - 1]][pts[pos]] \in Nat
    BY <1>1, <2>1, <2>2
  <2> QED BY <2>3 DEF Detour
<1>8. \A i \in 1 .. pos - 1 : LengthTo(qts, i) = LengthTo(pts, i)
  <2> DEFINE T == {i \in 1 .. pos - 1 : LengthTo(qts, i) = LengthTo(pts, i)}
  <2>1. 1 \in T
    BY <1>1, <1>4, <1>5
  <2>2. ASSUME NEW i \in T, i + 1 <= pos - 1 PROVE i + 1 \in T
    <3>1. /\ i + 1 \in 2 .. n /\ i + 1 \in 2 .. n + 1 /\ i + 1 \in 1 .. pos - 1
          /\ i \in 1 .. n + 1 /\ i + 1 \in 1 .. n + 1 /\ (i + 1) - 1 = i /\ i < pos /\ i + 1 < pos
      BY <1>1, <2>2
    <3>2. qts[i] = pts[i] /\ qts[i + 1] = pts[i + 1]
      BY <1>3, <3>1
    <3>3. /\ LengthTo(qts, i + 1) = LengthTo(qts, i) + DistMatrix[qts[i]][qts[i + 1]]
          /\ LengthTo(pts, i + 1) = LengthTo(pts, i) + DistMatrix[pts[i]][pts[i + 1]]
      BY <1>4, <1>5, <3>1
    <3> QED BY <3>1, <3>2, <3>3
  <2>3. T = 1 .. pos - 1
    <3> 1 \in Nat /\ pos - 1 \in Nat /\ T \in SUBSET (1 .. pos - 1)
      BY <1>1
    <3> HIDE DEF T
    <3> QED BY <2>1, <2>2, Climb
  <2> QED BY <2>3
<1>9. LengthTo(qts, pos + 1) = LengthTo(pts, pos) + more
  <2>1. /\ pos - 1 \in 1 .. pos - 1 /\ pos \in 2 .. n /\ pos \in 2 .. n + 1 /\ pos + 1 \in 2 .. n + 1
        /\ pos - 1 \in 1 .. n + 1 /\ pos \in 1 .. n + 1 /\ pos + 1 \in 1 .. n + 1 /\ (pos + 1) - 1 = pos
        /\ pos - 1 < pos /\ ~(pos < pos) /\ ~(pos + 1 < pos) /\ pos + 1 # pos
    BY <1>1
  <2>2. qts[pos - 1] = pts[pos - 1] /\ qts[pos] = u /\ qts[pos + 1] = pts[pos]
    BY <1>3, <2>1
  <2>3. LengthTo(qts, pos) = LengthTo(pts, pos - 1) + DistMatrix[pts[pos - 1]][u]
    BY <1>5, <1>8, <2>1, <2>2
  <2>4. LengthTo(qts, pos + 1) = LengthTo(qts, pos) + DistMatrix[u][pts[pos]]
    BY <1>5, <2>1, <2>2
  <2>5. LengthTo(pts, pos) = LengthTo(pts, pos - 1) + DistMatrix[pts[pos - 1]][pts[pos]]
    BY <1>4, <2>1
  <2>6. /\ pts[pos - 1] \in Points /\ pts[pos] \in Points
        /\ LengthTo(pts, pos - 1) \in Nat
    BY <1>1, <1>6 DEF n
  <2>7. /\ DistMatrix[pts[pos - 1]][u] \in Nat /\ DistMatrix[u][pts[pos]] \in Nat
        /\ DistMatrix[pts[pos - 1]][pts[pos]] \in Nat
    BY <1>1, <2>6, MetricAssumption
  <2> QED BY <2>3, <2>4, <2>5, <2>6, <2>7 DEF Detour
<1> HIDE DEF more
<1>10. \A i \in pos .. n : LengthTo(qts, i + 1) = LengthTo(pts, i) + more
  <2> DEFINE T == {i \in pos .. n : LengthTo(qts, i + 1) = LengthTo(pts, i) + more}
  <2>1. pos \in T
    BY <1>1, <1>9
  <2>2. ASSUME NEW i \in T, i + 1 <= n PROVE i + 1 \in T
    <3>1. /\ i + 1 \in 2 .. n /\ (i + 1) + 1 \in 2 .. n + 1 /\ i + 1 \in pos .. n /\ i \in 1 .. n
          /\ i + 1 \in 1 .. n + 1 /\ (i + 1) + 1 \in 1 .. n + 1 /\ (i + 1) - 1 = i
          /\ ((i + 1) + 1) - 1 = i + 1 /\ ~(i + 1 < pos) /\ i + 1 # pos
          /\ ~((i + 1) + 1 < pos) /\ (i + 1) + 1 # pos
      BY <1>1, <2>2
    <3>2. qts[i + 1] = pts[i] /\ qts[(i + 1) + 1] = pts[i + 1]
      BY <1>3, <3>1
    <3>3. /\ LengthTo(qts, (i + 1) + 1) = LengthTo(qts, i + 1) + DistMatrix[pts[i]][pts[i + 1]]
          /\ LengthTo(pts, i + 1) = LengthTo(pts, i) + DistMatrix[pts[i]][pts[i + 1]]
      BY <1>4, <1>5, <3>1, <3>2
    <3>4. /\ pts[i] \in Points /\ pts[i + 1] \in Points
      BY <1>1, <3>1 DEF n
    <3>5. DistMatrix[pts[i]][pts[i + 1]] \in Nat /\ LengthTo(pts, i) \in Nat
      BY <1>6, <3>1, <3>4, MetricAssumption
    <3> QED BY <1>7, <3>1, <3>3, <3>5
  <2>3. T = pos .. n
    <3> pos \in Nat /\ T \in SUBSET (pos .. n)
      BY <1>1
    <3> HIDE DEF T
    <3> QED BY <1>1, <2>1, <2>2, Climb
  <2> QED BY <2>3
<1> QED BY <1>1, <1>4, <1>5, <1>10 DEF qts, more

\* Exchange is by how much it grows with another site in the place of one.
LEMMA ReplacedLength ==
  ASSUME NEW pts, Tour(pts), NEW pos \in Inner(pts), NEW u \in Sites
  PROVE  TourLength(ReplaceAt(pts, pos, u)) = TourLength(pts) + Exchange(pts, pos, u)
<1> DEFINE n    == Len(pts)
           qts  == ReplaceAt(pts, pos, u)
           more == Exchange(pts, pos, u)
<1>1. pts \in Seq(Points) /\ n \in Nat /\ pos \in 2 .. n - 1 /\ u \in Points
  BY DEF Tour, Inner, Points
<1>2. qts \in Seq(Points) /\ Len(qts) = n /\ \A i \in 1 .. n : qts[i] = IF i = pos THEN u ELSE pts[i]
  BY <1>1 DEF ReplaceAt
<1>3. /\ LengthTo(pts, 1) = 0
      /\ \A i \in 2 .. n : LengthTo(pts, i) = LengthTo(pts, i - 1) + DistMatrix[pts[i - 1]][pts[i]]
      /\ LengthTo(pts, n) = TourLength(pts)
  BY <1>1, LengthGrows DEF Leg
<1> HIDE DEF n, qts
<1>4. /\ LengthTo(qts, 1) = 0
      /\ \A i \in 2 .. n : LengthTo(qts, i) = LengthTo(qts, i - 1) + DistMatrix[qts[i - 1]][qts[i]]
      /\ LengthTo(qts, n) = TourLength(qts)
  <2>1. /\ Len(qts) >= 1 => LengthTo(qts, 1) = 0
        /\ \A i \in 2 .. Len(qts) : LengthTo(qts, i) = LengthTo(qts, i - 1) + Leg(qts, i)
        /\ LengthTo(qts, Len(qts)) = TourLength(qts)
    BY <1>2, LengthGrows
  <2>2. Len(qts) = n
    BY <1>2
  <2>3. \A i \in 2 .. n : Leg(qts, i) = DistMatrix[qts[i - 1]][qts[i]]
    BY DEF Leg
  <2> QED BY <1>1, <2>1, <2>2, <2>3
<1>5. \A i \in 1 .. n : LengthTo(pts, i) \in Nat /\ pts[i] \in Points
  BY <1>1, TimeBoundsLength DEF n
<1>6. \A x, y \in Points : DistMatrix[x][y] \in Nat
  BY MetricAssumption
<1>7. \A i \in 1 .. pos - 1 : LengthTo(qts, i) = LengthTo(pts, i)
  <2> DEFINE T == {i \in 1 .. pos - 1 : LengthTo(qts, i) = LengthTo(pts, i)}
  <2>1. 1 \in T
    BY <1>1, <1>3, <1>4
  <2>2. ASSUME NEW i \in T, i + 1 <= pos - 1 PROVE i + 1 \in T
    <3>1. /\ i + 1 \in 2 .. n /\ i + 1 \in 1 .. pos - 1 /\ i \in 1 .. n /\ i + 1 \in 1 .. n
          /\ (i + 1) - 1 = i /\ i # pos /\ i + 1 # pos
      BY <1>1, <2>2
    <3>2. qts[i] = pts[i] /\ qts[i + 1] = pts[i + 1]
      BY <1>2, <3>1
    <3> QED BY <1>3, <1>4, <3>1, <3>2
  <2>3. T = 1 .. pos - 1
    <3> 1 \in Nat /\ pos - 1 \in Nat /\ T \in SUBSET (1 .. pos - 1)
      BY <1>1
    <3> HIDE DEF T
    <3> QED BY <2>1, <2>2, Climb
  <2> QED BY <2>3
<1>8. more \in Int /\ LengthTo(qts, pos + 1) = LengthTo(pts, pos + 1) + more
  <2>1. /\ pos - 1 \in 1 .. pos - 1 /\ pos \in 2 .. n /\ pos + 1 \in 2 .. n /\ pos - 1 \in 1 .. n
        /\ pos \in 1 .. n /\ pos + 1 \in 1 .. n /\ (pos + 1) - 1 = pos /\ pos - 1 # pos /\ pos + 1 # pos
    BY <1>1
  <2>2. qts[pos - 1] = pts[pos - 1] /\ qts[pos] = u /\ qts[pos + 1] = pts[pos + 1]
    BY <1>2, <2>1
  <2>3. LengthTo(qts, pos) = LengthTo(pts, pos - 1) + DistMatrix[pts[pos - 1]][u]
    BY <1>4, <1>7, <2>1, <2>2
  <2>4. LengthTo(qts, pos + 1) = LengthTo(qts, pos) + DistMatrix[u][pts[pos + 1]]
    BY <1>4, <2>1, <2>2
  <2>5. /\ LengthTo(pts, pos) = LengthTo(pts, pos - 1) + DistMatrix[pts[pos - 1]][pts[pos]]
        /\ LengthTo(pts, pos + 1) = LengthTo(pts, pos) + DistMatrix[pts[pos]][pts[pos + 1]]
    BY <1>3, <2>1
  <2>6. /\ DistMatrix[pts[pos - 1]][u] \in Nat /\ DistMatrix[u][pts[pos + 1]] \in Nat
        /\ DistMatrix[pts[pos - 1]][pts[pos]] \in Nat /\ DistMatrix[pts[pos]][pts[pos + 1]] \in Nat
        /\ LengthTo(pts, pos - 1) \in Nat
    BY <1>1, <1>5, <1>6, <2>1
  <2> QED BY <2>3, <2>4, <2>5, <2>6 DEF Exchange
<1> HIDE DEF more
<1>9. \A i \in pos + 1 .. n : LengthTo(qts, i) = LengthTo(pts, i) + more
  <2> DEFINE T == {i \in pos + 1 .. n : LengthTo(qts, i) = LengthTo(pts, i) + more}
  <2>1. pos + 1 \in T
    BY <1>1, <1>8
  <2>2. ASSUME NEW i \in T, i + 1 <= n PROVE i + 1 \in T
    <3>1. /\ i + 1 \in 2 .. n /\ i + 1 \in pos + 1 .. n /\ i \in 1 .. n /\ i + 1 \in 1 .. n
          /\ (i + 1) - 1 = i /\ i # pos /\ i + 1 # pos
      BY <1>1, <2>2
    <3>2. qts[i] = pts[i] /\ qts[i + 1] = pts[i + 1]
      BY <1>2, <3>1
    <3>3. /\ LengthTo(qts, i + 1) = LengthTo(qts, i) + DistMatrix[pts[i]][pts[i + 1]]
          /\ LengthTo(pts, i + 1) = LengthTo(pts, i) + DistMatrix[pts[i]][pts[i + 1]]
      BY <1>3, <1>4, <3>1, <3>2
    <3>4. DistMatrix[pts[i]][pts[i + 1]] \in Nat /\ LengthTo(pts, i) \in Nat
      BY <1>5, <1>6, <3>1
    <3> QED BY <1>8, <3>1, <3>3, <3>4
  <2>3. T = pos + 1 .. n
    <3> pos + 1 \in Nat /\ T \in SUBSET (pos + 1 .. n)
      BY <1>1
    <3> HIDE DEF T
    <3> QED BY <1>1, <2>1, <2>2, Climb
  <2> QED BY <2>3
<1> QED BY <1>1, <1>3, <1>4, <1>9 DEF qts, more

\* The distance test before an evaluation cuts off no feasible insertion or swap
\* of any unvisited site, on any instance and after any sequence of moves.
THEOREM PruningIsSound == Spec => []PruningSound
<1>1. WorkerInv => PruningSound
  <2> SUFFICES ASSUME WorkerInv, Descending, NEW u \in Sites, NEW d \in DOMAIN sol.days
               PROVE  LET pts == PointsAt(sol, d)
                      IN  /\ \A pos \in Slots(pts) :
                               Feasible(d, InsertAt(pts, pos, u)) => ~Pruned(sol, d, Detour(pts, pos, u))
                          /\ \A pos \in Inner(pts) :
                               Feasible(d, ReplaceAt(pts, pos, u)) => ~Pruned(sol, d, Exchange(pts, pos, u))
    BY DEF PruningSound
  <2> DEFINE pts == PointsAt(sol, d)
  <2>1. Framed(sol) /\ ExactDistances(sol)
    BY DEF WorkerInv, SoundTrips, Sound
  <2>2. Tour(pts) /\ d \in Nat \ {0}
    <3> DOMAIN sol.days = 1 .. NbDays /\ Tour(pts)
      BY <2>1, ShapeIsTours DEF Framed, Days
    <3> QED BY PointsAssumption
  <2>3. sol.days[d].dist = TourLength(pts)
    BY <2>1 DEF ExactDistances
  <2>4. DayMaxDist(d) \in Nat /\ TourLength(pts) \in Nat
    BY <2>2, BudgetIsNat, TourLengthIsNat DEF Tour
  <2> HIDE DEF pts
  <2>5. ASSUME NEW pos \in Slots(pts), Feasible(d, InsertAt(pts, pos, u))
        PROVE  ~Pruned(sol, d, Detour(pts, pos, u))
    <3>1. InsertAt(pts, pos, u) \in Seq(Points) /\ Len(InsertAt(pts, pos, u)) >= 2
      BY <2>2, InsertKeepsEnds DEF Tour
    <3>2. TourLength(InsertAt(pts, pos, u)) <= DayMaxDist(d)
      BY <2>2, <2>5, <3>1, FeasibleBounds
    <3>3. TourLength(InsertAt(pts, pos, u)) = TourLength(pts) + Detour(pts, pos, u)
      BY <2>2, InsertedLength
    <3>4. TourLength(InsertAt(pts, pos, u)) \in Nat
      BY <3>1, TourLengthIsNat
    <3> QED BY <2>3, <2>4, <3>2, <3>3, <3>4 DEF Pruned
  <2>6. ASSUME NEW pos \in Inner(pts), Feasible(d, ReplaceAt(pts, pos, u))
        PROVE  ~Pruned(sol, d, Exchange(pts, pos, u))
    <3>1. ReplaceAt(pts, pos, u) \in Seq(Points) /\ Len(ReplaceAt(pts, pos, u)) >= 2
      BY <2>2, ReplaceKeepsEnds DEF Tour
    <3>2. TourLength(ReplaceAt(pts, pos, u)) <= DayMaxDist(d)
      BY <2>2, <2>6, <3>1, FeasibleBounds
    <3>3. TourLength(ReplaceAt(pts, pos, u)) = TourLength(pts) + Exchange(pts, pos, u)
      BY <2>2, ReplacedLength
    <3>4. TourLength(ReplaceAt(pts, pos, u)) \in Nat
      BY <3>1, TourLengthIsNat
    <3> QED BY <2>3, <2>4, <3>2, <3>3, <3>4 DEF Pruned
  <2> QED BY <2>5, <2>6 DEF pts
<1> QED BY <1>1, Invariance, PTL

-----------------------------------------------------------------------------
(* The clock of the construction *)

\* No site closes before it opens.  The parser does not test it.
OpensFirst == \A p \in Sites : OpenTime[p] <= CloseTime[p]

\* One more point does not change the times before it.
LEMMA Extended ==
  ASSUME NEW pts \in Seq(Points), pts # <<>>, NEW p \in Points
  PROVE  LET qts == Append(pts, p)
             n   == Len(pts)
         IN  /\ \A i \in 1 .. n : /\ Departures(qts)[i] = Departures(pts)[i]
                                  /\ Arrival(qts, i) = Arrival(pts, i)
             /\ Arrival(qts, n + 1) = Departures(pts)[n] + DistMatrix[Last(pts)][p]
             /\ Departures(qts)[n + 1] = Leave(p, Arrival(qts, n + 1))
<1> DEFINE qts == Append(pts, p)
           n   == Len(pts)
           T   == {i \in 1 .. n : /\ Departures(qts)[i] = Departures(pts)[i]
                                  /\ Arrival(qts, i) = Arrival(pts, i)}
<1>1. /\ n \in Nat /\ n >= 1 /\ qts \in Seq(Points) /\ Len(qts) = n + 1
      /\ qts[n + 1] = p /\ \A i \in 1 .. n : qts[i] = pts[i]
  OBVIOUS
<1>2. /\ \A i \in 1 .. n : Departures(pts)[i] = Leave(pts[i], Arrival(pts, i))
      /\ \A i \in 2 .. n : Arrival(pts, i) = Departures(pts)[i - 1] + DistMatrix[pts[i - 1]][pts[i]]
      /\ Arrival(pts, 1) = 0
  BY Timetable DEF Arrival, Leg
<1> HIDE DEF n, qts
<1>3. /\ \A i \in 1 .. n + 1 : Departures(qts)[i] = Leave(qts[i], Arrival(qts, i))
      /\ \A i \in 2 .. n + 1 : Arrival(qts, i) = Departures(qts)[i - 1] + DistMatrix[qts[i - 1]][qts[i]]
      /\ Arrival(qts, 1) = 0
  <2>1. \A i \in 1 .. n + 1 : Departures(qts)[i] = Leave(qts[i], Arrival(qts, i))
    BY <1>1, Timetable
  <2>2. \A i \in 2 .. n + 1 : i # 1
    BY <1>1
  <2>3. \A i \in 2 .. n + 1 : Arrival(qts, i) = Departures(qts)[i - 1] + DistMatrix[qts[i - 1]][qts[i]]
    BY <2>2 DEF Arrival, Leg
  <2>4. Arrival(qts, 1) = 0
    BY DEF Arrival
  <2> QED BY <2>1, <2>3, <2>4
<1>4. 1 \in T
  BY <1>1, <1>2, <1>3
<1>5. ASSUME NEW i \in T, i + 1 <= n PROVE i + 1 \in T
  <2>1. /\ i \in 1 .. n /\ i + 1 \in 2 .. n /\ i + 1 \in 1 .. n /\ i + 1 \in 2 .. n + 1
        /\ i + 1 \in 1 .. n + 1 /\ (i + 1) - 1 = i
    BY <1>1, <1>5
  <2>2. Arrival(qts, i + 1) = Arrival(pts, i + 1)
    BY <1>1, <1>2, <1>3, <2>1
  <2>3. Departures(qts)[i + 1] = Departures(pts)[i + 1]
    BY <1>1, <1>2, <1>3, <2>1, <2>2
  <2> QED BY <2>1, <2>2, <2>3
<1>6. T = 1 .. n
  <2> 1 \in Nat /\ T \in SUBSET (1 .. n)
    OBVIOUS
  <2> HIDE DEF T
  <2> QED BY <1>1, <1>4, <1>5, Climb
<1>7. \A i \in 1 .. n : Departures(qts)[i] = Departures(pts)[i] /\ Arrival(qts, i) = Arrival(pts, i)
  BY <1>6
<1>8. Last(pts) = pts[n]
  BY DEF Last, n
<1>9. n \in 1 .. n /\ n + 1 \in 2 .. n + 1 /\ n + 1 \in 1 .. n + 1 /\ (n + 1) - 1 = n
  BY <1>1
<1>10. Arrival(qts, n + 1) = Departures(pts)[n] + DistMatrix[Last(pts)][p]
  BY <1>1, <1>3, <1>7, <1>8, <1>9
<1>11. Departures(qts)[n + 1] = Leave(p, Arrival(qts, n + 1))
  BY <1>1, <1>3, <1>9
<1> QED BY <1>7, <1>10, <1>11 DEF qts, n

\* A day begins at a hotel, at time 0.
LEMMA DayBegins ==
  ASSUME NEW h \in Hotels, NEW d
  PROVE  Departures(<<h>>)[1] = 0 /\ Feasible(d, <<h>>)
<1> DEFINE pts == <<h>>
<1>1. h \in Points /\ h \notin Sites
  BY PointsAssumption DEF Points
<1>2. pts \in Seq(Points) /\ DOMAIN pts = {1} /\ Len(pts) = 1 /\ pts[1] = h
  BY <1>1
<1> HIDE DEF pts
<1>3. 1 \in 1 .. Len(pts)
  BY <1>2
<1>4. Departures(pts)[1] = Leave(h, 0)
  BY <1>2, <1>3, Timetable DEF Arrival
<1>5. \A i \in DOMAIN pts : ~(i > 1) /\ pts[i] \notin Sites
  BY <1>1, <1>2
<1> QED BY <1>1, <1>4, <1>5 DEF Leave, Feasible, pts

\* The same site is visited once, in terms of points.
Once(ds) ==
  \A d, e \in DOMAIN ds : \A i \in 1 .. Len(PointsOf(ds[d])), j \in 1 .. Len(PointsOf(ds[e])) :
    PointsOf(ds[d])[i] \in Sites /\ PointsOf(ds[d])[i] = PointsOf(ds[e])[j] => d = e /\ i = j

LEMMA OnceIsNoSiteTwice ==
  ASSUME NEW ds \in Seq(DayTours)
  PROVE  NoSiteTwice(ds) <=> Once(ds)
<1>1. \A d \in DOMAIN ds :
        /\ Len(PointsOf(ds[d])) = Len(ds[d].steps)
        /\ DOMAIN ds[d].steps = 1 .. Len(ds[d].steps)
        /\ \A i \in 1 .. Len(ds[d].steps) : PointsOf(ds[d])[i] = ds[d].steps[i].pt
  <2> \A d \in DOMAIN ds : ds[d] \in DayTours
    OBVIOUS
  <2> QED BY PointsOfDay
<1>2. ASSUME NoSiteTwice(ds) PROVE Once(ds)
  <2> SUFFICES ASSUME NEW d \in DOMAIN ds, NEW e \in DOMAIN ds,
                      NEW i \in 1 .. Len(PointsOf(ds[d])), NEW j \in 1 .. Len(PointsOf(ds[e])),
                      PointsOf(ds[d])[i] \in Sites, PointsOf(ds[d])[i] = PointsOf(ds[e])[j]
               PROVE  d = e /\ i = j
    BY DEF Once
  <2>1. i \in DOMAIN ds[d].steps /\ j \in DOMAIN ds[e].steps
    BY <1>1
  <2>2. ds[d].steps[i].pt = ds[e].steps[j].pt /\ ds[d].steps[i].pt \in Sites
    BY <1>1
  <2>3. i \in SitesOfDay(ds[d]) /\ j \in SitesOfDay(ds[e])
    BY <2>1, <2>2 DEF SitesOfDay
  <2> QED BY <1>2, <2>2, <2>3 DEF NoSiteTwice
<1>3. ASSUME Once(ds) PROVE NoSiteTwice(ds)
  <2> SUFFICES ASSUME NEW d \in DOMAIN ds, NEW e \in DOMAIN ds,
                      NEW i \in SitesOfDay(ds[d]), NEW j \in SitesOfDay(ds[e]),
                      ds[d].steps[i].pt = ds[e].steps[j].pt
               PROVE  d = e /\ i = j
    BY DEF NoSiteTwice
  <2>1. /\ i \in 1 .. Len(ds[d].steps) /\ j \in 1 .. Len(ds[e].steps)
        /\ ds[d].steps[i].pt \in Sites
    BY <1>1 DEF SitesOfDay
  <2>2. PointsOf(ds[d])[i] = PointsOf(ds[e])[j] /\ PointsOf(ds[d])[i] \in Sites
    BY <1>1, <2>1
  <2>3. i \in 1 .. Len(PointsOf(ds[d])) /\ j \in 1 .. Len(PointsOf(ds[e]))
    BY <1>1, <2>1
  <2> QED BY <1>3, <2>2, <2>3 DEF Once
<1> QED BY <1>2, <1>3

\* The sites of the open day are visited once, and on no day before.
OpenOnce ==
  /\ \A i, j \in 1 .. Len(tour) : tour[i] \in Sites /\ tour[i] = tour[j] => i = j
  /\ \A d \in DOMAIN days : \A i \in 1 .. Len(tour), j \in 1 .. Len(PointsOf(days[d])) :
       tour[i] \in Sites => tour[i] # PointsOf(days[d])[j]

\* No site is visited twice by the days built so far and the open one.
BuiltOnce == Once(days) /\ OpenOnce

LEMMA VisitKeepsOnce ==
  ASSUME GreedyInv, BuiltOnce, ~Built, NEW x \in DOMAIN SiteIDs, Visit(x)
  PROVE  BuiltOnce'
<1> DEFINE p == SiteIDs[x]
           n == Len(tour)
<1>1. p \in Points /\ p \notin Visited /\ p \in Sites
  BY DEF Visit, Candidates, Admissible, Points
<1>2. tour \in Seq(Points) /\ days \in Seq(DayTours)
  BY DEF GreedyInv, GreedyTypeOK
<1>3. tour' = Append(tour, p) /\ days' = days
  BY DEF Visit
<1> HIDE DEF p
<1>4. /\ Len(tour') = n + 1 /\ n \in Nat
      /\ tour'[n + 1] = p /\ \A j \in 1 .. n : tour'[j] = tour[j]
  BY <1>1, <1>2, <1>3
<1>5. /\ \A i \in 1 .. n : tour[i] # p
      /\ \A d \in DOMAIN days : \A j \in 1 .. Len(PointsOf(days[d])) : PointsOf(days[d])[j] # p
  <2>1. \A i \in 1 .. n : tour[i] \in ToSet(tour)
    BY <1>2 DEF ToSet
  <2>2. \A d \in DOMAIN days : \A j \in 1 .. Len(PointsOf(days[d])) :
          PointsOf(days[d])[j] \in ToSet(PointsOf(days[d]))
    <3> \A d \in DOMAIN days : PointsOf(days[d]) \in Seq(Points)
      BY <1>2, PointsOfDay
    <3> QED BY DEF ToSet
  <2> QED BY <1>1, <2>1, <2>2 DEF Visited
<1>6. \A i \in 1 .. Len(tour') : i = n + 1 \/ i \in 1 .. n
  BY <1>4
<1>7. OpenOnce'
  BY <1>3, <1>4, <1>5, <1>6 DEF BuiltOnce, OpenOnce
<1> QED BY <1>3, <1>7 DEF BuiltOnce

LEMMA EndDayKeepsOnce ==
  ASSUME GreedyInv, BuiltOnce, ~Built, EndDay
  PROVE  BuiltOnce'
<1>1. PICK h \in EndHotel : /\ days' = Append(days, FreshDay(Append(tour, h)))
                            /\ tour' = <<h>>
  BY DEF EndDay
<1> DEFINE pts == Append(tour, h)
           day == FreshDay(pts)
           m   == Len(tour)
           n   == Len(days)
<1>2. tour \in Seq(Points) /\ tour # <<>> /\ days \in Seq(DayTours) /\ n \in Nat
  BY DEF GreedyInv, GreedyTypeOK
<1>3. h \in Hotels /\ h \in Points /\ h \notin Sites
  BY EndHotelIsHotel, PointsAssumption DEF Points
<1>4. /\ pts \in Seq(Points) /\ Len(pts) = m + 1 /\ m \in Nat /\ m >= 1
      /\ pts[m + 1] = h /\ \A j \in 1 .. m : pts[j] = tour[j]
  BY <1>2, <1>3
<1> HIDE DEF pts
<1>5. Tour(pts)
  <2>1. \A i \in Inner(pts) : i \in 2 .. m /\ i \in 1 .. m
    BY <1>4 DEF Inner
  <2>2. \A i \in Inner(pts) : pts[i] \in Sites
    BY <1>4, <2>1 DEF GreedyInv, TourJoins
  <2> QED BY <1>4, <2>2 DEF Tour
<1>6. day \in DayTours /\ PointsOf(day) = pts
  BY <1>4, <1>5, FreshDayOfTour
<1>7. /\ days' \in Seq(DayTours) /\ Len(days') = n + 1
      /\ days'[n + 1] = day /\ \A d \in 1 .. n : days'[d] = days[d]
  <2> HIDE DEF day
  <2> days' = Append(days, day)
    BY <1>1 DEF day, pts
  <2> QED BY <1>2, <1>6
<1> HIDE DEF day
<1>8. Len(tour') = 1 /\ tour'[1] = h
  BY <1>1
<1>9. DOMAIN days = 1 .. n /\ DOMAIN days' = 1 .. n + 1
  BY <1>2, <1>7
<1> HIDE DEF n, m
<1>10. OpenOnce'
  <2> \A i \in 1 .. Len(tour') : tour'[i] \notin Sites
    BY <1>3, <1>8
  <2> QED BY DEF OpenOnce
<1>11. Once(days')
  <2> SUFFICES ASSUME NEW d \in 1 .. n + 1, NEW e \in 1 .. n + 1,
                      NEW i \in 1 .. Len(PointsOf(days'[d])), NEW j \in 1 .. Len(PointsOf(days'[e])),
                      PointsOf(days'[d])[i] \in Sites, PointsOf(days'[d])[i] = PointsOf(days'[e])[j]
               PROVE  d = e /\ i = j
    BY <1>9 DEF Once
  <2>1. /\ \A a \in 1 .. m + 1 : pts[a] \in Sites => a \in 1 .. m /\ pts[a] = tour[a]
        /\ \A a \in 1 .. n + 1 : a = n + 1 \/ a \in 1 .. n
    BY <1>2, <1>3, <1>4 DEF n
  <2>2. /\ \A a, b \in 1 .. m : tour[a] \in Sites /\ tour[a] = tour[b] => a = b
        /\ \A a \in 1 .. n : \A b \in 1 .. m, c \in 1 .. Len(PointsOf(days[a])) :
             tour[b] \in Sites => tour[b] # PointsOf(days[a])[c]
    BY <1>9 DEF BuiltOnce, OpenOnce, m
  <2>3. CASE d \in 1 .. n /\ e \in 1 .. n
    BY <1>7, <1>9, <2>3 DEF BuiltOnce, Once
  <2>4. CASE d = n + 1 /\ e = n + 1
    BY <1>4, <1>6, <1>7, <2>1, <2>2, <2>4
  <2>5. CASE d = n + 1 /\ e \in 1 .. n
    BY <1>4, <1>6, <1>7, <2>1, <2>2, <2>5
  <2>6. CASE d \in 1 .. n /\ e = n + 1
    BY <1>4, <1>6, <1>7, <2>1, <2>2, <2>6
  <2> QED BY <2>1, <2>3, <2>4, <2>5, <2>6
<1> QED BY <1>10, <1>11 DEF BuiltOnce

\* What EvaluateSolution will say of a closed day.
Unreached(d) ==
  Len(days[d].steps) = 2 /\ days[d].dist > DayMaxDist(d)

DaysValid ==
  \A d \in DOMAIN days :
    ValidDay(d, PointsOf(days[d])) \/ (d = NbDays /\ Unreached(d))

BuildInv == ClockAgrees /\ BuiltOnce /\ DaysValid

LEMMA BuildBegins ==
  ASSUME NothingBuilt
  PROVE  BuildInv
<1>1. days = <<>> /\ tour = <<StartHotelID>> /\ clock = 0 /\ StartHotelID \in Hotels
  BY PointsAssumption DEF NothingBuilt
<1>2. DOMAIN days = {} /\ Len(tour) = 1
  BY <1>1
<1>3. ClockAgrees
  BY <1>1, <1>2, DayBegins DEF ClockAgrees
<1>4. StartHotelID \notin Sites
  BY PointsAssumption
<1> QED BY <1>1, <1>2, <1>3, <1>4 DEF BuildInv, BuiltOnce, Once, OpenOnce, DaysValid

\* A visit.  Here the hypothesis is needed: the construction compares the arrival
\* with the closing time, the evaluators the start of the visit.
LEMMA VisitBuilds ==
  ASSUME OpensFirst, GreedyInv, BuildInv, ~Built, NEW x \in DOMAIN SiteIDs, Visit(x)
  PROVE  BuildInv'
<1> DEFINE p == SiteIDs[x]
           n == Len(tour)
<1>1. /\ p \in Sites /\ p \in Points /\ p \notin Visited
      /\ Reach(p) <= CloseTime[p] /\ CanReturn(p)
  BY DEF Visit, Candidates, Admissible, Points
<1>2. /\ tour \in Seq(Points) /\ tour # <<>> /\ clock \in Nat
      /\ days \in Seq(DayTours) /\ Len(days) <= NbDays
  BY DEF GreedyInv, GreedyTypeOK
<1>3. /\ tour' = Append(tour, p) /\ clock' = Leave(p, Reach(p)) /\ days' = days
  BY DEF Visit
<1> HIDE DEF p
<1>4. /\ tour' \in Seq(Points) /\ Len(tour') = n + 1 /\ n \in Nat /\ n >= 1
      /\ tour'[n + 1] = p /\ \A j \in 1 .. n : tour'[j] = tour[j]
  BY <1>1, <1>2, <1>3
<1>5. clock = Departures(tour)[n] /\ Feasible(Day, tour)
  BY DEF BuildInv, ClockAgrees
<1> HIDE DEF n
<1>6. /\ \A i \in 1 .. n : /\ Departures(tour')[i] = Departures(tour)[i]
                           /\ Arrival(tour', i) = Arrival(tour, i)
      /\ Arrival(tour', n + 1) = Reach(p)
      /\ Departures(tour')[n + 1] = clock'
  BY <1>1, <1>2, <1>3, <1>5, Extended DEF Reach, n
<1>7. Day' = Day /\ Day \in Nat \ {0}
  BY <1>2, <1>3 DEF Day
<1>8. Feasible(Day, tour')
  <2>1. PICK h \in Hotels : Leave(p, Reach(p)) + DistMatrix[p][h] <= DayMaxDist(Day)
    BY <1>1 DEF CanReturn
  <2>2. Reach(p) \in Nat
    BY <1>4, <1>6, Timetable
  <2>3. /\ DistMatrix[p][h] \in Nat /\ OpenTime[p] \in Nat /\ CloseTime[p] \in Nat
    BY <1>1, SiteAssumption, MetricAssumption DEF Points
  <2>4. Leave(p, Reach(p)) \in Nat /\ Leave(p, Reach(p)) >= Reach(p) /\ DayMaxDist(Day) \in Nat
    BY <1>1, <1>7, <2>2, LeaveIsLater, BudgetIsNat
  <2>5. /\ Reach(p) <= DayMaxDist(Day) /\ Leave(p, Reach(p)) <= DayMaxDist(Day)
    BY <2>1, <2>2, <2>3, <2>4
  <2>6. Max({Reach(p), OpenTime[p]}) <= CloseTime[p]
    BY <1>1, <2>2, <2>3, MaxOfTwo DEF OpensFirst
  <2>7. ASSUME NEW i \in DOMAIN tour'
        PROVE  /\ i > 1 => Arrival(tour', i) <= DayMaxDist(Day)
               /\ tour'[i] \in Sites =>
                    /\ Max({Arrival(tour', i), OpenTime[tour'[i]]}) <= CloseTime[tour'[i]]
                    /\ Departures(tour')[i] <= DayMaxDist(Day)
    <3>1. CASE i = n + 1
      BY <1>3, <1>4, <1>6, <2>5, <2>6, <3>1
    <3>2. CASE i # n + 1
      <4> i \in 1 .. n /\ i \in DOMAIN tour
        BY <1>2, <1>4, <2>7, <3>2 DEF n
      <4> QED BY <1>4, <1>5, <1>6 DEF Feasible
    <3> QED BY <3>1, <3>2
  <2> QED BY <2>7 DEF Feasible
<1>9. ClockAgrees'
  BY <1>4, <1>6, <1>7, <1>8 DEF ClockAgrees
<1>10. BuiltOnce'
  BY VisitKeepsOnce DEF BuildInv
<1>11. DaysValid'
  BY <1>3 DEF BuildInv, DaysValid, Unreached
<1> QED BY <1>9, <1>10, <1>11 DEF BuildInv

\* The end of a day, which is beyond its budget only if EndHotelID is.
LEMMA EndHotelReached ==
  ASSUME GreedyInv, ~Built, NEW h \in EndHotel
  PROVE  Reach(h) <= DayMaxDist(Day) \/ (Day = NbDays /\ Len(tour) = 1)
<1> DEFINE best == Best(WithinReach, LAMBDA i : <<Reach(HotelIDs[i]), i>>)
<1>1. best \subseteq WithinReach
  BY Zenon DEF Best
<1>2. EndHotel = IF Day = NbDays \/ WithinReach = {} THEN {EndHotelID} ELSE {HotelIDs[i] : i \in best}
  BY Zenon DEF EndHotel
<1> HIDE DEF best
<1>3. \A i \in WithinReach : Reach(HotelIDs[i]) <= DayMaxDist(Day)
  BY DEF WithinReach
<1>4. /\ Len(days) \in Nat /\ NbDays \in Nat /\ Len(days) <= NbDays /\ Len(days) # NbDays
      /\ Len(tour) \in Nat /\ Len(tour) >= 1
  BY PointsAssumption DEF GreedyInv, GreedyTypeOK, Built
<1>5. CASE Day < NbDays
  <2>1. PICK g \in Hotels : Reach(g) <= DayMaxDist(Day)
    BY <1>5 DEF GreedyInv, HotelInReach
  <2>2. PICK i \in DOMAIN HotelIDs : HotelIDs[i] = g
    BY DEF Hotels, ToSet
  <2>3. WithinReach # {}
    BY <2>1, <2>2 DEF WithinReach
  <2>4. Day # NbDays
    BY <1>4, <1>5 DEF Day
  <2> QED BY <1>1, <1>2, <1>3, <2>3, <2>4
<1>6. CASE Day = NbDays /\ Len(tour) > 1
  <2>1. h = EndHotelID
    BY <1>2, <1>6
  <2> QED BY <1>6, <2>1 DEF GreedyInv, HotelInReach
<1> QED BY <1>4, <1>5, <1>6 DEF Day

\* The end of a day closes it: it is a valid day, unless it is the last one, has
\* no site and leads to a hotel out of reach.
LEMMA EndDayBuilds ==
  ASSUME GreedyInv, BuildInv, ~Built, EndDay
  PROVE  BuildInv'
<1>1. PICK h \in EndHotel : /\ days' = Append(days, FreshDay(Append(tour, h)))
                            /\ tour' = <<h>>
  BY DEF EndDay
<1> DEFINE pts == Append(tour, h)
           day == FreshDay(pts)
           m   == Len(tour)
           n   == Len(days)
<1>2. /\ tour \in Seq(Points) /\ tour # <<>> /\ clock \in Nat
      /\ days \in Seq(DayTours) /\ n <= NbDays /\ n # NbDays
  BY DEF GreedyInv, GreedyTypeOK, Built
<1>3. h \in Hotels /\ h \in Points /\ h \notin Sites /\ (n + 1 = NbDays => h = EndHotelID)
  BY EndHotelIsHotel, PointsAssumption DEF Points, Day
<1>4. NbDays \in Nat /\ n \in Nat /\ n + 1 <= NbDays /\ n + 1 = Day /\ Day \in Nat \ {0}
  BY <1>2, PointsAssumption DEF Day
<1>5. /\ pts \in Seq(Points) /\ Len(pts) = m + 1 /\ m \in Nat /\ m >= 1
      /\ pts[m + 1] = h /\ \A j \in 1 .. m : pts[j] = tour[j]
  BY <1>2, <1>3
<1>6. clock = Departures(tour)[m] /\ Feasible(Day, tour)
  BY DEF BuildInv, ClockAgrees
<1>7. /\ \A i \in 1 .. m : Arrival(pts, i) = Arrival(tour, i)
      /\ Arrival(pts, m + 1) = Reach(h)
      /\ Departures(pts)[m + 1] = Reach(h)
  <2>1. /\ \A i \in 1 .. m : Arrival(pts, i) = Arrival(tour, i)
        /\ Arrival(pts, m + 1) = Departures(tour)[m] + DistMatrix[Last(tour)][h]
        /\ Departures(pts)[m + 1] = Leave(h, Arrival(pts, m + 1))
    BY <1>2, <1>3, Extended
  <2> QED BY <1>3, <1>6, <2>1 DEF Reach, Leave
<1> HIDE DEF pts
<1>8. Tour(pts) /\ pts[1] = tour[1] /\ Last(pts) = h
  <2>1. \A i \in Inner(pts) : i \in 2 .. m /\ i \in 1 .. m
    BY <1>5 DEF Inner
  <2>2. \A i \in Inner(pts) : pts[i] \in Sites
    BY <1>5, <2>1 DEF GreedyInv, TourJoins
  <2> QED BY <1>5, <2>2 DEF Tour, Last
<1>9. day \in DayTours /\ PointsOf(day) = pts /\ day.dist = TourLength(pts) /\ Len(day.steps) = m + 1
  <2>1. day \in DayTours /\ PointsOf(day) = pts /\ day.dist = TourLength(pts)
    BY <1>5, <1>8, FreshDayOfTour
  <2>2. Len(PointsOf(day)) = Len(day.steps)
    <3> HIDE DEF day
    <3> QED BY <2>1, PointsOfDay
  <2> QED BY <1>5, <2>1, <2>2
<1>10. /\ days' \in Seq(DayTours) /\ Len(days') = n + 1
       /\ days'[n + 1] = day /\ \A d \in 1 .. n : days'[d] = days[d]
  <2> HIDE DEF day
  <2> days' = Append(days, day)
    BY <1>1 DEF day, pts
  <2> QED BY <1>2, <1>9
<1> HIDE DEF day
<1>11. clock' = 0 /\ Len(tour') = 1 /\ tour'[1] = h /\ tour' = <<h>>
  BY <1>1 DEF EndDay
<1>12. DOMAIN days = 1 .. n /\ DOMAIN days' = 1 .. n + 1 /\ DOMAIN tour = 1 .. m /\ DOMAIN pts = 1 .. m + 1
  BY <1>2, <1>5, <1>10
<1> HIDE DEF n, m
<1>13. ClockAgrees'
  <2> Feasible(Day', tour') /\ Departures(tour')[Len(tour')] = 0
    BY <1>3, <1>11, DayBegins
  <2> QED BY <1>11 DEF ClockAgrees
<1>14. BuiltOnce'
  BY EndDayKeepsOnce DEF BuildInv
<1>16. ValidDay(n + 1, pts) \/ (n + 1 = NbDays /\ m = 1 /\ Reach(h) > DayMaxDist(n + 1))
  <2>1. pts[1] \in Hotels /\ (n + 1 = 1 => pts[1] = StartHotelID)
    BY <1>4, <1>8 DEF GreedyInv, TourJoins, n
  <2>2. \A i \in 1 .. m + 1 : pts[i] \in Sites =>
          Max({Arrival(pts, i), OpenTime[pts[i]]}) <= CloseTime[pts[i]]
    <3> \A i \in 1 .. m + 1 : pts[i] \in Sites => i \in 1 .. m
      BY <1>3, <1>5
    <3> QED BY <1>5, <1>6, <1>7, <1>12 DEF Feasible
  <2>3. /\ Last(pts) \in Hotels /\ (n + 1 = NbDays => Last(pts) = EndHotelID)
        /\ Departures(pts)[Len(pts)] = Reach(h)
    BY <1>3, <1>5, <1>7, <1>8
  <2>4. \/ Reach(h) <= DayMaxDist(n + 1)
        \/ (n + 1 = NbDays /\ m = 1 /\ Reach(h) > DayMaxDist(n + 1))
    <3> Reach(h) \in Nat /\ DayMaxDist(n + 1) \in Nat
      <4> m + 1 \in 1 .. Len(pts)
        BY <1>5
      <4> QED BY <1>4, <1>5, <1>7, Timetable, BudgetIsNat
    <3> QED BY <1>4, EndHotelReached DEF m
  <2> QED BY <1>12, <2>1, <2>2, <2>3, <2>4 DEF ValidDay
<1>17. ASSUME m = 1 PROVE Len(day.steps) = 2 /\ day.dist = Reach(h)
  <2>1. Len(pts) = 2 /\ pts[1] = tour[1] /\ pts[2] = h /\ Last(tour) = tour[1]
    BY <1>5, <1>8, <1>17 DEF Last, m
  <2>2. TourLength(pts) = DistMatrix[pts[1]][pts[2]]
    BY <1>5, <2>1, LengthOfTwo
  <2>3. clock = 0
    BY <1>17 DEF GreedyInv, TourJoins, m
  <2>4. DistMatrix[tour[1]][h] \in Nat
    <3> tour[1] \in Points
      BY <1>2
    <3> QED BY <1>3, MetricAssumption
  <2> QED BY <1>9, <1>17, <2>1, <2>2, <2>3, <2>4 DEF Reach
<1>18. DaysValid'
  <2>1. \A d : Unreached(d)' <=> Len(days'[d].steps) = 2 /\ days'[d].dist > DayMaxDist(d)
    BY DEF Unreached, DayMaxDist
  <2>2. ASSUME NEW d \in 1 .. n + 1
        PROVE  \/ ValidDay(d, PointsOf(days'[d]))
               \/ d = NbDays /\ Len(days'[d].steps) = 2 /\ days'[d].dist > DayMaxDist(d)
    <3>1. CASE d = n + 1
      BY <1>9, <1>10, <1>16, <1>17, <3>1
    <3>2. CASE d # n + 1
      <4> d \in 1 .. n /\ d # NbDays
        BY <1>4, <3>2
      <4> QED BY <1>10, <1>12 DEF BuildInv, DaysValid
    <3> QED BY <3>1, <3>2
  <2> QED BY <1>12, <2>1, <2>2 DEF DaysValid
<1> QED BY <1>13, <1>14, <1>18 DEF BuildInv


LEMMA StepBuilds ==
  ASSUME OpensFirst, WorkerInv, BuildInv, [Next]_vars
  PROVE  BuildInv'
<1>1. GreedyInv
  BY InvParts
<1>2. CASE Construct
  <2>1. ~Built /\ (EndDay \/ \E x \in DOMAIN SiteIDs : Visit(x))
    BY <1>2 DEF Construct, GreedyStep
  <2> QED BY <1>1, <2>1, VisitBuilds, EndDayBuilds
<1>3. CASE Constructed
  <2>1. NothingBuilt'
    BY <1>3 DEF Constructed, StartGreedy, NothingBuilt
  <2> QED BY <2>1, BuildBegins, PTL
<1>4. CASE UNCHANGED greedyVars
  BY <1>4 DEF greedyVars, BuildInv, ClockAgrees, BuiltOnce, OpenOnce, DaysValid, Unreached, Built, Day, DayMaxDist
<1>5. Construct \/ Constructed \/ UNCHANGED greedyVars
  BY DEF Next, Step, Descend, Seeded, ReturnSeed, Start, Restart, Shake, Refuse, Accept, Exit,
    Collect, Returned, DeadlinePasses, vars
<1> QED BY <1>2, <1>3, <1>4, <1>5

LEMMA BuildInvariance ==
  ASSUME OpensFirst
  PROVE  Spec => []BuildInv
<1>1. Init => BuildInv
  BY BuildBegins DEF Init, NothingBuilt
<1>2. WorkerInv /\ BuildInv /\ [Next]_vars => BuildInv'
  BY StepBuilds
<1> QED BY <1>1, <1>2, Invariance, PTL DEF Spec

\* The departure time the construction carries along is the one the evaluators
\* compute, and its arrival test is as good as theirs, where no site closes
\* before it opens.
THEOREM ClockIsRight ==
  ASSUME OpensFirst
  PROVE  Spec => []ClockAgrees
<1>1. BuildInv => ClockAgrees
  BY DEF BuildInv
<1> QED BY <1>1, BuildInvariance, PTL

\* The construction returns a trip EvaluateSolution accepts, unless the last day
\* visits nothing and leads to an EndHotelID out of reach.
THEOREM ConstructionIsValid ==
  ASSUME OpensFirst
  PROVE  Spec => []OnlyLastDayFails
<1>1. WorkerInv /\ BuildInv => OnlyLastDayFails
  <2> SUFFICES ASSUME WorkerInv, BuildInv, Built PROVE OnlyLastDayFails
    BY DEF OnlyLastDayFails
  <2>1. GreedyInv
    BY InvParts
  <2>2. days \in Seq(DayTours) /\ Len(days) = NbDays /\ NbDays \in Nat \ {0} /\ DOMAIN days = 1 .. NbDays
    BY <2>1, PointsAssumption DEF GreedyInv, GreedyTypeOK, Built
  <2>3. NoSiteTwice(days)
    BY <2>2, OnceIsNoSiteTwice DEF BuildInv, BuiltOnce
  <2>4. GreedySolution.days = days
    <3> DEFINE s == [days |-> days, score |-> 0, dist |-> 0]
    <3>1. s \in Solutions /\ s.days = days
      BY <2>2 DEF Solutions
    <3> HIDE DEF s
    <3> QED BY <3>1, EvaluatedTotals DEF GreedySolution, s
  <2>5. \A d \in 1 .. NbDays : d # NbDays => ValidDay(d, PointsOf(days[d]))
    BY <2>2 DEF BuildInv, DaysValid
  <2>6. CASE ValidDay(NbDays, PointsOf(days[NbDays]))
    BY <2>2, <2>3, <2>4, <2>5, <2>6 DEF OnlyLastDayFails, Valid
  <2>7. CASE Unreached(NbDays)
    <3> \A d \in 1 .. NbDays - 1 : d \in 1 .. NbDays /\ d # NbDays
      BY <2>2
    <3> QED BY <2>3, <2>5, <2>7 DEF OnlyLastDayFails, Unreached
  <2>8. NbDays \in DOMAIN days
    BY <2>2
  <2> QED BY <2>6, <2>7, <2>8 DEF BuildInv, DaysValid
<1> QED BY <1>1, Invariance, BuildInvariance, PTL

-----------------------------------------------------------------------------
(* EvaluateSolution *)

\* When the visit of the i-th point would begin.
Opening(pts, i) == Max({Arrival(pts, i), OpenTime[pts[i]]})

\* The call goes on from point i, reached at time t: to what, and when it does not.
Refuses(e, p, t) ==
  p \in Sites /\ (p \in e.visitedSites \/ Max({t, OpenTime[p]}) > CloseTime[p])

LEMMA WalkDoes ==
  ASSUME NEW s \in Solutions, NEW e \in Calls(s), e.ok, NEW d \in DOMAIN s.days,
         NEW i \in 2 .. Len(PointsAt(s, d))
  PROVE  LET p == PointsAt(s, d)[i]
             t == e.time + Leg(PointsAt(s, d), i)
             r == Onwards(e, d, i)
         IN  /\ r.ok <=> ~Refuses(e, p, t)
             /\ r.sol = WithLeg(e.sol, d, i, Leg(PointsAt(s, d), i))
             /\ r.totalDist = e.totalDist
             /\ r.ok => /\ r.time = Leave(p, t)
                        /\ r.visitedSites = e.visitedSites \cup ({p} \cap Sites)
                        /\ r.totalScore = e.totalScore + IF p \in Sites THEN Score[p] ELSE 0
<1> DEFINE steps == e.sol.days[d].steps
           pt    == steps[i].pt
           leg   == DistMatrix[steps[i - 1].pt][pt]
           visit == Max({e.time + leg, OpenTime[pt]})
           new   == WithLeg(e.sol, d, i, leg)
           there == [e EXCEPT !.sol = WithLeg(@, d, i, leg),
                              !.dist = @ + leg, !.time = @ + leg]
           visited == [there EXCEPT !.visitedSites = @ \cup {pt}, !.totalScore = @ + Score[pt],
                                    !.time = visit + ServiceTime[pt]]
           p == PointsAt(s, d)[i]
           t == e.time + Leg(PointsAt(s, d), i)
           r == Onwards(e, d, i)
<1>1. /\ e.sol \in Solutions /\ d \in DOMAIN e.sol.days /\ PointsAt(e.sol, d) = PointsAt(s, d)
      /\ SamePoints(s, e.sol)
  BY CallFields DEF SamePoints
<1>2. /\ Len(steps) = Len(PointsAt(s, d)) /\ DOMAIN steps = 1 .. Len(PointsAt(s, d))
      /\ PointsAt(s, d) \in Seq(Points)
      /\ \A j \in 1 .. Len(PointsAt(s, d)) : steps[j].pt = PointsAt(s, d)[j]
  BY <1>1, PointsOfSolution
<1>3. i \in DOMAIN steps /\ i - 1 \in DOMAIN steps /\ i # 1
  BY <1>2
<1>4. pt = p /\ leg = Leg(PointsAt(s, d), i) /\ p \in Points
  <2>1. pt = p /\ steps[i - 1].pt = PointsAt(s, d)[i - 1] /\ p \in Points
    BY <1>2, <1>3
  <2> HIDE DEF steps, pt
  <2> QED BY <1>3, <2>1 DEF Leg
<1>5. t = e.time + leg
  BY <1>4
<1>6. r = IF pt \notin Sites THEN there
          ELSE IF pt \in e.visitedSites \/ visit > CloseTime[pt] THEN Refused(there)
          ELSE visited
  BY Zenon DEF Onwards, Walk
<1>7. /\ there.ok = e.ok /\ there.sol = new /\ there.time = t /\ there.visitedSites = e.visitedSites
      /\ there.totalScore = e.totalScore /\ there.totalDist = e.totalDist
      /\ there \in [ok : BOOLEAN, sol : {there.sol}, dist : {there.dist}, time : {t},
                    visitedSites : SUBSET Sites, totalScore : Nat, totalDist : Nat]
  <2> HIDE DEF leg, new
  <2> QED BY <1>5 DEF Calls, new
<1> HIDE DEF there, new, leg, pt, steps, t, p
<1>8. /\ ~Refused(there).ok /\ Refused(there).sol = there.sol
      /\ Refused(there).totalDist = there.totalDist
  BY <1>7 DEF Refused
<1>9. /\ visited.ok = there.ok /\ visited.sol = there.sol /\ visited.totalDist = there.totalDist
      /\ visited.visitedSites = there.visitedSites \cup {pt}
      /\ visited.totalScore = there.totalScore + Score[pt]
      /\ visited.time = visit + ServiceTime[pt]
  <2> HIDE DEF visit
  <2> QED BY <1>7
<1>10. visit = Max({t, OpenTime[p]})
  BY <1>4, <1>5
<1> HIDE DEF visited, visit
<1>11. CASE p \notin Sites
  <2>1. r = there
    BY <1>4, <1>6, <1>11
  <2>2. Leave(p, t) = t /\ {p} \cap Sites = {} /\ ~Refuses(e, p, t)
    BY <1>11 DEF Leave, Refuses
  <2>3. e.totalScore = e.totalScore + 0
    BY CallFields
  <2>4. /\ r.ok /\ r.sol = WithLeg(e.sol, d, i, leg) /\ r.totalDist = e.totalDist
        /\ r.time = t /\ r.visitedSites = e.visitedSites \cup {} /\ r.totalScore = e.totalScore
    BY <1>7, <2>1 DEF new
  <2>5. r.totalScore = e.totalScore + IF p \in Sites THEN Score[p] ELSE 0
    BY <1>11, <2>3, <2>4
  <2> QED BY <1>4, <2>2, <2>4, <2>5 DEF t, p
<1>12. CASE p \in Sites /\ (p \in e.visitedSites \/ visit > CloseTime[p])
  <2>1. r = Refused(there)
    BY <1>4, <1>6, <1>12
  <2>2. Refuses(e, p, t)
    BY <1>10, <1>12 DEF Refuses
  <2> QED BY <1>4, <1>7, <1>8, <2>1, <2>2 DEF t, p, new
<1>13. CASE p \in Sites /\ ~(p \in e.visitedSites \/ visit > CloseTime[p])
  <2>1. r = visited
    BY <1>4, <1>6, <1>13
  <2>2. Leave(p, t) = visit + ServiceTime[p] /\ {p} \cap Sites = {p} /\ ~Refuses(e, p, t)
    BY <1>10, <1>13 DEF Leave, Refuses
  <2> QED BY <1>4, <1>7, <1>9, <1>13, <2>1, <2>2 DEF t, p, new
<1> QED BY <1>11, <1>12, <1>13

\* The legs of a trip written so far, and the days left alone.
LEMMA WithLegDoes ==
  ASSUME NEW s \in Solutions, NEW t, SamePoints(s, t), NEW d \in DOMAIN s.days,
         NEW i \in 1 .. Len(PointsAt(s, d)), NEW leg \in Nat
  PROVE  LET r == WithLeg(t, d, i, leg)
         IN  /\ r.days[d].steps[i].leg = leg
             /\ \A j \in 1 .. Len(PointsAt(s, d)) \ {i} :
                  r.days[d].steps[j].leg = t.days[d].steps[j].leg
             /\ \A x \in DOMAIN s.days \ {d} : r.days[x] = t.days[x]
<1> DEFINE steps == t.days[d].steps
           new   == [steps EXCEPT ![i].leg = leg]
           r     == WithLeg(t, d, i, leg)
<1>1. t \in Solutions /\ d \in DOMAIN t.days /\ PointsAt(t, d) = PointsAt(s, d)
      /\ DOMAIN t.days = DOMAIN s.days
  BY DEF SamePoints
<1>2. /\ t.days \in Seq(DayTours) /\ t.days[d] \in DayTours
      /\ DOMAIN steps = 1 .. Len(PointsAt(s, d))
      /\ \A j \in DOMAIN steps : steps[j] \in Steps
  <2>1. t.days \in Seq(DayTours) /\ t.days[d] \in DayTours
    BY <1>1, SolutionFields
  <2>2. DOMAIN steps = 1 .. Len(PointsAt(s, d)) /\ steps \in Seq(Steps)
    BY <1>1, <2>1, PointsOfSolution DEF DayTours
  <2> QED BY <2>1, <2>2
<1>3. /\ new[i].leg = leg
      /\ \A j \in 1 .. Len(PointsAt(s, d)) \ {i} : new[j].leg = steps[j].leg
  <2> new[i] = [steps[i] EXCEPT !.leg = leg] /\ steps[i] \in Steps
    BY <1>2
  <2> QED BY <1>2 DEF Steps
<1>4. r.days[d].steps = new
  <2>1. r = [t EXCEPT !.days[d].steps = new]
    BY DEF WithLeg
  <2> HIDE DEF new, r
  <2>2. [t EXCEPT !.days[d].steps = new].days = [t.days EXCEPT ![d].steps = new]
    BY <1>1 DEF Solutions
  <2>3. [t.days EXCEPT ![d].steps = new][d] = [t.days[d] EXCEPT !.steps = new]
    BY <1>1
  <2>4. [t.days[d] EXCEPT !.steps = new].steps = new
    BY <1>2 DEF DayTours
  <2> QED BY <2>1, <2>2, <2>3, <2>4
<1>5. \A x \in DOMAIN s.days \ {d} : r.days[x] = t.days[x]
  <2>1. r = [t EXCEPT !.days = [@ EXCEPT ![d].steps = new]]
    BY DEF WithLeg
  <2> HIDE DEF new, r
  <2>2. r.days = [t.days EXCEPT ![d].steps = new]
    BY <1>1, <2>1 DEF Solutions
  <2> QED BY <1>1, <2>2
<1> HIDE DEF r, new
<1> QED BY <1>3, <1>4, <1>5 DEF r

LEMMA BeganDoes ==
  ASSUME NEW s, NEW e \in Calls(s), NEW d
  PROVE  /\ Began(e, d).sol = WithLeg(e.sol, d, 1, 0)
         /\ Began(e, d).visitedSites = e.visitedSites
         /\ Began(e, d).totalScore = e.totalScore
         /\ Began(e, d).totalDist = e.totalDist
<1> DEFINE new == WithLeg(e.sol, d, 1, 0)
<1>1. Began(e, d) = [e EXCEPT !.sol = new, !.dist = 0, !.time = 0]
  BY DEF Began
<1> HIDE DEF new
<1> QED BY <1>1 DEF Calls, new

\* The sites of a tour up to position i, and their scores.
Seen(pts, i) == {pts[j] : j \in 1 .. i} \cap Sites

Visits(pts, i)  == {j \in 1 .. i : pts[j] \in Sites}
ScoreTo(pts, i) == SumFunction([j \in Visits(pts, i) |-> Score[pts[j]]])

LEMMA ScoreGrows ==
  ASSUME NEW pts \in Seq(Points), NEW i \in 1 .. Len(pts)
  PROVE  /\ ScoreTo(pts, i) = ScoreTo(pts, i - 1) + IF pts[i] \in Sites THEN Score[pts[i]] ELSE 0
         /\ ScoreTo(pts, i) \in Nat
<1> DEFINE D == Visits(pts, i)
           E == Visits(pts, i - 1)
           f == [j \in D |-> Score[pts[j]]]
           g == [j \in E |-> Score[pts[j]]]
<1>1. i \in Nat /\ \A j \in 1 .. i : j = i \/ j \in 1 .. i - 1
  OBVIOUS
<1>2. /\ D = E \cup IF pts[i] \in Sites THEN {i} ELSE {}
      /\ i \notin E /\ D \subseteq 1 .. i
  BY <1>1 DEF Visits
<1>3. IsFiniteSet(D) /\ IsFiniteSet(E)
  <2>1. 1 \in Int /\ i \in Int
    BY <1>1
  <2>2. IsFiniteSet(1 .. i)
    BY <2>1, FS_Interval
  <2> HIDE DEF D, E
  <2> QED BY <1>2, <2>2, FS_Subset
<1>4. f \in [D -> Nat] /\ g \in [E -> Nat]
  BY SiteAssumption DEF Visits
<1>5. /\ pts[i] \in Sites => i \in D /\ f[i] = Score[pts[i]] /\ g = Others(f, i)
      /\ pts[i] \notin Sites => g = f
  <2> HIDE DEF D, E
  <2> QED BY <1>2 DEF Others
<1>6. pts[i] \in Sites => Score[pts[i]] \in Nat
  BY SiteAssumption
<1> HIDE DEF f, g, D, E
<1>7. SumFunction(f) \in Nat /\ SumFunction(g) \in Nat
  BY <1>3, <1>4, SumIsNat
<1>8. CASE pts[i] \in Sites
  <2> SumFunction(f) = f[i] + SumFunction(g)
    BY <1>3, <1>4, <1>5, <1>8, SumSplit
  <2> QED BY <1>5, <1>6, <1>7, <1>8 DEF ScoreTo, f, g, D, E
<1>9. CASE pts[i] \notin Sites
  <2> SumFunction(f) = SumFunction(g)
    BY <1>5, <1>9
  <2> QED BY <1>7, <1>9 DEF ScoreTo, f, g, D, E
<1> QED BY <1>8, <1>9

\* No visit up to position i begins late, repeats one of the same day or of V.
Clear(V, pts, i) ==
  \A j \in 1 .. i : pts[j] \in Sites =>
    /\ Opening(pts, j) <= CloseTime[pts[j]]
    /\ pts[j] \notin V
    /\ \A a \in 1 .. j - 1 : pts[a] # pts[j]

LegsWritten(r, d, pts, i) == \A j \in 1 .. i : r.days[d].steps[j].leg = Leg(pts, j)

SameDaysBut(r, t, d) == \A x \in DOMAIN t.days \ {d} : r.days[x] = t.days[x]

\* What the walk knows at position i.
WalkedTo(s, e, d, c, i) ==
  LET pts == PointsAt(s, d)
  IN  /\ c.ok <=> Clear(e.visitedSites, pts, i)
      /\ c.ok => /\ c.time = Departures(pts)[i]
                 /\ c.visitedSites = e.visitedSites \cup Seen(pts, i)
                 /\ c.totalScore = e.totalScore + ScoreTo(pts, i)
                 /\ c.totalDist = e.totalDist
                 /\ LegsWritten(c.sol, d, pts, i)
                 /\ SameDaysBut(c.sol, e.sol, d)

LEMMA WalkedBegins ==
  ASSUME NEW s \in Solutions, NEW e \in Calls(s), e.ok, NEW d \in DOMAIN s.days,
         Len(PointsAt(s, d)) >= 1, PointsAt(s, d)[1] \notin Sites
  PROVE  WalkedTo(s, e, d, Began(e, d), 1)
<1> DEFINE pts == PointsAt(s, d)
           c   == Began(e, d)
<1>1. pts \in Seq(Points) /\ 1 \in 1 .. Len(pts)
  BY PointsOfSolution
<1>2. /\ c.ok /\ c.time = 0 /\ c.sol = WithLeg(e.sol, d, 1, 0)
      /\ c.visitedSites = e.visitedSites /\ c.totalScore = e.totalScore /\ c.totalDist = e.totalDist
  BY BeganKeepsPoints, BeganDoes
<1>3. Departures(pts)[1] = 0
  <2> Departures(pts)[1] = Leave(pts[1], 0)
    BY <1>1, Timetable DEF Arrival
  <2> QED BY DEF Leave
<1>4. \A j \in 1 .. 1 : j = 1
  OBVIOUS
<1>5. Clear(e.visitedSites, pts, 1) /\ Seen(pts, 1) = {} /\ Visits(pts, 1) = {}
  BY <1>4 DEF Clear, Seen, Visits
<1>6. ScoreTo(pts, 1) = 0
  <2> [j \in Visits(pts, 1) |-> Score[pts[j]]] \in [{} -> Nat]
    BY <1>5
  <2> QED BY SumOfNone DEF ScoreTo
<1>7. LegsWritten(c.sol, d, pts, 1) /\ SameDaysBut(c.sol, e.sol, d)
  <2>1. SamePoints(s, e.sol) /\ DOMAIN e.sol.days = DOMAIN s.days
    BY CallFields DEF SamePoints
  <2>2. /\ WithLeg(e.sol, d, 1, 0).days[d].steps[1].leg = 0
        /\ \A x \in DOMAIN s.days \ {d} : WithLeg(e.sol, d, 1, 0).days[x] = e.sol.days[x]
    BY <1>1, <2>1, WithLegDoes
  <2> QED BY <1>2, <1>4, <2>1, <2>2 DEF LegsWritten, SameDaysBut, Leg
<1>8. e.totalScore = e.totalScore + 0
  BY CallFields
<1> HIDE DEF pts, c
<1> QED BY <1>2, <1>3, <1>5, <1>6, <1>7, <1>8 DEF WalkedTo, pts, c

LEMMA WalkedOn ==
  ASSUME NEW s \in Solutions, NEW e \in Calls(s), NEW d \in DOMAIN s.days,
         NEW i \in 2 .. Len(PointsAt(s, d)), NEW c \in Calls(s), WalkedTo(s, e, d, c, i - 1)
  PROVE  WalkedTo(s, e, d, Onwards(c, d, i), i)
<1> DEFINE pts == PointsAt(s, d)
           V   == e.visitedSites
           r   == Onwards(c, d, i)
           n   == Len(pts)
<1>1. /\ pts \in Seq(Points) /\ n \in Nat /\ i \in 1 .. n /\ i - 1 \in 1 .. n /\ i # 1
      /\ \A j \in 1 .. i : j = i \/ j \in 1 .. i - 1
      /\ \A j \in 1 .. i - 1 : j \in 1 .. i
  BY PointsOfSolution
<1>2. Clear(V, pts, i) <=> Clear(V, pts, i - 1) /\
        (pts[i] \in Sites => /\ Opening(pts, i) <= CloseTime[pts[i]]
                             /\ pts[i] \notin V \cup Seen(pts, i - 1))
  <2>1. pts[i] \in Sites => (pts[i] \notin Seen(pts, i - 1) <=> \A a \in 1 .. i - 1 : pts[a] # pts[i])
    BY DEF Seen
  <2> HIDE DEF pts, V
  <2> QED BY <1>1, <2>1 DEF Clear
<1>3. CASE ~c.ok
  <2>1. r = c
    BY <1>3 DEF Onwards
  <2>2. ~Clear(V, pts, i)
    BY <1>2, <1>3 DEF WalkedTo
  <2> QED BY <1>3, <2>1, <2>2 DEF WalkedTo
<1>4. CASE c.ok
  <2> DEFINE t == c.time + Leg(pts, i)
             p == pts[i]
  <2>1. /\ Clear(V, pts, i - 1) /\ c.time = Departures(pts)[i - 1]
        /\ c.visitedSites = V \cup Seen(pts, i - 1)
        /\ c.totalScore = e.totalScore + ScoreTo(pts, i - 1)
        /\ c.totalDist = e.totalDist
        /\ LegsWritten(c.sol, d, pts, i - 1)
        /\ SameDaysBut(c.sol, e.sol, d)
    BY <1>4 DEF WalkedTo
  <2>2. /\ r.ok <=> ~Refuses(c, p, t)
        /\ r.sol = WithLeg(c.sol, d, i, Leg(pts, i)) /\ r.totalDist = c.totalDist
        /\ r.ok => /\ r.time = Leave(p, t)
                   /\ r.visitedSites = c.visitedSites \cup ({p} \cap Sites)
                   /\ r.totalScore = c.totalScore + IF p \in Sites THEN Score[p] ELSE 0
    BY <1>4, WalkDoes
  <2>3. t = Arrival(pts, i) /\ t \in Nat /\ Departures(pts)[i] = Leave(p, t)
    <3> t = Arrival(pts, i)
      BY <1>1, <2>1 DEF Arrival
    <3> QED BY <1>1, Timetable
  <2>4. p \in Sites => Opening(pts, i) \in Nat /\ CloseTime[p] \in Nat /\ Opening(pts, i) = Max({t, OpenTime[p]})
    <3> SUFFICES ASSUME p \in Sites
                 PROVE  Opening(pts, i) \in Nat /\ CloseTime[p] \in Nat
                        /\ Opening(pts, i) = Max({t, OpenTime[p]})
      OBVIOUS
    <3>1. OpenTime[p] \in Nat /\ CloseTime[p] \in Nat
      BY SiteAssumption
    <3> HIDE DEF t
    <3> QED BY <2>3, <3>1, MaxOfTwo DEF Opening
  <2> HIDE DEF r, t
  <2>5. r.ok <=> Clear(V, pts, i)
    <3>1. r.ok <=> (p \in Sites => /\ p \notin c.visitedSites
                                   /\ Opening(pts, i) <= CloseTime[p])
      BY <2>2, <2>4 DEF Refuses
    <3> QED BY <1>2, <2>1, <3>1
  <2>6. Seen(pts, i) = Seen(pts, i - 1) \cup ({p} \cap Sites)
    <3> HIDE DEF pts
    <3> QED BY <1>1 DEF Seen
  <2>7. r.ok => r.totalScore = e.totalScore + ScoreTo(pts, i)
    <3>1. ScoreTo(pts, i) = ScoreTo(pts, i - 1) + IF p \in Sites THEN Score[p] ELSE 0
      BY <1>1, ScoreGrows
    <3>2. ScoreTo(pts, i - 1) \in Nat
      <4>1. CASE i - 1 \in 2 .. n
        BY <1>1, <4>1, ScoreGrows
      <4>2. CASE i - 1 \notin 2 .. n
        <5>1. i - 1 = 1
          BY <1>1, <4>2
        <5> [j \in Visits(pts, i - 1) |-> Score[pts[j]]] \in [Visits(pts, i - 1) -> Nat]
          BY SiteAssumption DEF Visits
        <5> IsFiniteSet(Visits(pts, i - 1))
          <6> Visits(pts, i - 1) \subseteq {1}
            BY <5>1 DEF Visits
          <6> QED BY FS_Singleton, FS_Subset
        <5> QED BY SumIsNat DEF ScoreTo
      <4> QED BY <4>1, <4>2
    <3>3. e.totalScore \in Nat /\ (p \in Sites => Score[p] \in Nat)
      BY CallFields, SiteAssumption
    <3> HIDE DEF p, pts
    <3> QED BY <2>1, <2>2, <3>1, <3>2, <3>3
  <2>8. LegsWritten(r.sol, d, pts, i) /\ SameDaysBut(r.sol, e.sol, d)
    <3>1. SamePoints(s, c.sol) /\ DOMAIN e.sol.days = DOMAIN s.days /\ Leg(pts, i) \in Nat
      BY <1>1, CallFields, LegIsNat DEF SamePoints
    <3>2. /\ r.sol.days[d].steps[i].leg = Leg(pts, i)
          /\ \A j \in 1 .. n \ {i} : r.sol.days[d].steps[j].leg = c.sol.days[d].steps[j].leg
          /\ \A x \in DOMAIN s.days \ {d} : r.sol.days[x] = c.sol.days[x]
      <4> DEFINE leg == Leg(pts, i)
                 x   == WithLeg(c.sol, d, i, leg)
                 b   == c.sol
      <4>1. leg \in Nat /\ SamePoints(s, b) /\ i \in 1 .. Len(PointsAt(s, d))
        BY <1>1, <3>1
      <4>2. r.sol = x
        BY <2>2
      <4> HIDE DEF leg, b
      <4>3. /\ WithLeg(b, d, i, leg).days[d].steps[i].leg = leg
            /\ \A j \in 1 .. Len(PointsAt(s, d)) \ {i} :
                 WithLeg(b, d, i, leg).days[d].steps[j].leg = b.days[d].steps[j].leg
            /\ \A y \in DOMAIN s.days \ {d} : WithLeg(b, d, i, leg).days[y] = b.days[y]
        BY <4>1, WithLegDoes
      <4> QED BY <4>2, <4>3 DEF leg, b
    <3>3. \A j \in 1 .. i - 1 : j \in 1 .. n \ {i}
      BY <1>1
    <3> HIDE DEF pts, n
    <3> QED BY <1>1, <2>1, <3>1, <3>2, <3>3 DEF LegsWritten, SameDaysBut
  <2> QED BY <2>1, <2>2, <2>3, <2>5, <2>6, <2>7, <2>8 DEF WalkedTo, r
<1> QED BY <1>3, <1>4

LEMMA WalkedEverywhere ==
  ASSUME NEW s \in Solutions, NEW e \in Calls(s), e.ok, NEW d \in DOMAIN s.days,
         Len(PointsAt(s, d)) >= 1, PointsAt(s, d)[1] \notin Sites, NEW w, Walks(s, e, d, w)
  PROVE  \A i \in 1 .. Len(PointsAt(s, d)) : WalkedTo(s, e, d, w[i], i)
<1> DEFINE n == Len(PointsAt(s, d))
           T == {i \in 1 .. n : WalkedTo(s, e, d, w[i], i)}
<1>1. n \in Nat /\ n >= 1
  BY PointsOfSolution
<1>2. /\ w \in [1 .. n -> Calls(s)] /\ w[1] = Began(e, d)
      /\ \A i \in 2 .. n : w[i] = Onwards(w[i - 1], d, i)
  BY DEF Walks
<1>3. 1 \in T
  BY <1>1, <1>2, WalkedBegins
<1>4. ASSUME NEW i \in T, i + 1 <= n PROVE i + 1 \in T
  <2>1. i + 1 \in 2 .. n /\ i + 1 \in 1 .. n /\ (i + 1) - 1 = i /\ i \in 1 .. n
    BY <1>1, <1>4
  <2>2. w[i + 1] = Onwards(w[i], d, i + 1) /\ w[i] \in Calls(s) /\ WalkedTo(s, e, d, w[i], i)
    BY <1>2, <2>1
  <2>3. WalkedTo(s, e, d, w[i + 1], i + 1)
    BY <2>1, <2>2, WalkedOn
  <2> QED BY <2>1, <2>3
<1>5. T = 1 .. n
  <2> 1 \in Nat /\ T \in SUBSET (1 .. n)
    OBVIOUS
  <2> HIDE DEF T, n
  <2> QED BY <1>1, <1>3, <1>4, Climb
<1> QED BY <1>5

\* What the end of an accepted day writes.
LEMMA EndedDoes ==
  ASSUME NEW s \in Solutions, NEW e \in Calls(s), NEW d \in DOMAIN s.days
  PROVE  /\ Ended(e, d).visitedSites = e.visitedSites
         /\ Ended(e, d).totalScore = e.totalScore
         /\ Ended(e, d).totalDist = e.totalDist + e.dist
         /\ Ended(e, d).sol.days[d].steps = e.sol.days[d].steps
<1> DEFINE new   == [e.sol EXCEPT !.days[d].dist = e.dist]
           total == e.totalDist + e.dist
           x     == e.dist
<1>1. e.sol \in Solutions /\ d \in DOMAIN e.sol.days /\ e.sol.days[d] \in DayTours
  BY CallFields, SolutionFields DEF SamePoints
<1>2. Ended(e, d) = [e EXCEPT !.sol = new, !.totalDist = total]
  BY DEF Ended
<1>3. new.days[d].steps = e.sol.days[d].steps
  <2>1. new = [e.sol EXCEPT !.days[d].dist = x]
    OBVIOUS
  <2> HIDE DEF x, new
  <2>2. [e.sol EXCEPT !.days[d].dist = x].days = [e.sol.days EXCEPT ![d].dist = x]
    BY <1>1 DEF Solutions
  <2>3. [e.sol.days EXCEPT ![d].dist = x][d] = [e.sol.days[d] EXCEPT !.dist = x]
    BY <1>1
  <2>4. [e.sol.days[d] EXCEPT !.dist = x].steps = e.sol.days[d].steps
    BY <1>1 DEF DayTours
  <2> QED BY <2>1, <2>2, <2>3, <2>4
<1> HIDE DEF new, total, x
<1>4. /\ Ended(e, d).sol = new /\ Ended(e, d).totalDist = total
      /\ Ended(e, d).visitedSites = e.visitedSites /\ Ended(e, d).totalScore = e.totalScore
  BY <1>2 DEF Calls
<1> QED BY <1>3, <1>4 DEF total

\* No site of the tour is one of V or repeated.
Fresh(V, pts) ==
  \A j \in 1 .. Len(pts) : pts[j] \in Sites =>
    pts[j] \notin V /\ \A a \in 1 .. j - 1 : pts[a] # pts[j]

\* The day d of r is recomputed.
Recomputed(r, d, pts) == LegsWritten(r, d, pts, Len(pts)) /\ r.days[d].dist = TourLength(pts)

\* What a day's evaluation answers and adds.
DayDone(s, e, d, r) ==
  LET pts == PointsAt(s, d)
  IN  /\ r.ok <=> ValidDay(d, pts) /\ Fresh(e.visitedSites, pts)
      /\ r.ok => /\ r.visitedSites = e.visitedSites \cup Seen(pts, Len(pts))
                 /\ r.totalScore = e.totalScore + ScoreTo(pts, Len(pts))
                 /\ r.totalDist = e.totalDist + TourLength(pts)
                 /\ Recomputed(r.sol, d, pts)
                 /\ SameDaysBut(r.sol, e.sol, d)

LEMMA DayAnswers ==
  ASSUME NEW s \in Solutions, NEW e \in Calls(s), e.ok, NEW d \in DOMAIN s.days,
         Len(PointsAt(s, d)) >= 1
  PROVE  DayDone(s, e, d, EvaluateDay(e, d))
<1> DEFINE pts == PointsAt(s, d)
           n   == Len(pts)
           V   == e.visitedSites
           r   == EvaluateDay(e, d)
<1>1. PICK w : Walks(s, e, d, w)
  BY WalkExists
<1>2. /\ pts \in Seq(Points) /\ n \in Nat /\ n >= 1 /\ n \in 1 .. n /\ DOMAIN pts = 1 .. n
      /\ Last(pts) = pts[n]
  BY PointsOfSolution DEF Last
<1> DEFINE end == w[n]
<1>3. end \in Calls(s) /\ (end.ok => end.dist = TourLength(pts))
  <2>1. end \in Calls(s)
    BY <1>1, <1>2 DEF Walks
  <2>2. end.ok => end.dist = LengthTo(pts, n)
    BY <1>1, <1>2, WalkedDistance
  <2>3. LengthTo(pts, n) = TourLength(pts)
    BY <1>2, LengthGrows
  <2> QED BY <2>1, <2>2, <2>3
<1>4. r = IF ~StartsAt(d, pts[1]) THEN Refused(e)
          ELSE IF end.ok /\ EndsAt(d, Last(pts)) /\ end.time <= DayMaxDist(d)
            THEN Ended(end, d) ELSE Refused(end)
  BY <1>1, Zenon DEF Walks
<1>5. \A c \in Calls(s) : ~Refused(c).ok
  BY DEF Refused, Calls
<1> HIDE DEF r, end, n
<1>6. CASE ~StartsAt(d, pts[1])
  <2>1. ~r.ok
    BY <1>4, <1>5, <1>6
  <2>2. ~ValidDay(d, pts)
    BY <1>6 DEF StartsAt, ValidDay
  <2> QED BY <2>1, <2>2 DEF DayDone, r
<1>7. CASE StartsAt(d, pts[1])
  <2>1. pts[1] \notin Sites
    BY <1>7, PointsAssumption DEF StartsAt
  <2>2. WalkedTo(s, e, d, end, n)
    BY <1>1, <1>2, <2>1, WalkedEverywhere DEF end, n
  <2>3. end.ok /\ end.time <= DayMaxDist(d) /\ EndsAt(d, Last(pts)) <=>
          ValidDay(d, pts) /\ Fresh(V, pts)
    <3>1. end.ok <=> Clear(V, pts, n)
      BY <2>2 DEF WalkedTo
    <3>2. end.ok => end.time = Departures(pts)[n]
      BY <2>2 DEF WalkedTo
    <3>3. Clear(V, pts, n) <=> Fresh(V, pts) /\
            \A j \in 1 .. n : pts[j] \in Sites => Opening(pts, j) <= CloseTime[pts[j]]
      <4> HIDE DEF pts, V
      <4> QED BY DEF Clear, Fresh, n
    <3>4. ValidDay(d, pts) <=>
            /\ \A j \in 1 .. n : pts[j] \in Sites => Opening(pts, j) <= CloseTime[pts[j]]
            /\ EndsAt(d, Last(pts)) /\ Departures(pts)[n] <= DayMaxDist(d)
      <4> HIDE DEF pts
      <4> QED BY <1>2, <1>7 DEF StartsAt, EndsAt, ValidDay, Opening, n
    <3> QED BY <3>1, <3>2, <3>3, <3>4
  <2>4. CASE ~(end.ok /\ end.time <= DayMaxDist(d) /\ EndsAt(d, Last(pts)))
    <3> ~r.ok
      BY <1>3, <1>4, <1>5, <1>7, <2>4
    <3> QED BY <2>3, <2>4 DEF DayDone, r
  <2>5. CASE end.ok /\ end.time <= DayMaxDist(d) /\ EndsAt(d, Last(pts))
    <3>1. r = Ended(end, d)
      BY <1>4, <1>7, <2>5
    <3>2. /\ r.ok /\ r.sol.days[d].dist = TourLength(pts)
          /\ \A x \in DOMAIN s.days \ {d} : r.sol.days[x] = end.sol.days[x]
      BY <1>3, <2>5, <3>1, EndedKeepsPoints
    <3>3. /\ r.visitedSites = end.visitedSites /\ r.totalScore = end.totalScore
          /\ r.totalDist = end.totalDist + end.dist
          /\ r.sol.days[d].steps = end.sol.days[d].steps
      BY <1>3, <3>1, EndedDoes
    <3>4. /\ end.visitedSites = V \cup Seen(pts, n)
          /\ end.totalScore = e.totalScore + ScoreTo(pts, n)
          /\ end.totalDist = e.totalDist
          /\ LegsWritten(end.sol, d, pts, n)
          /\ SameDaysBut(end.sol, e.sol, d)
      BY <2>2, <2>5 DEF WalkedTo
    <3>5. Recomputed(r.sol, d, pts)
      BY <3>2, <3>3, <3>4 DEF Recomputed, LegsWritten, n
    <3>6. SameDaysBut(r.sol, e.sol, d)
      <4> DOMAIN e.sol.days = DOMAIN s.days
        BY CallFields DEF SamePoints
      <4> QED BY <3>2, <3>4 DEF SameDaysBut
    <3> QED BY <1>3, <2>3, <2>5, <3>2, <3>3, <3>4, <3>5, <3>6 DEF DayDone, r, n
  <2> QED BY <2>4, <2>5
<1> QED BY <1>6, <1>7

\* A sum over an interval grows value by value.
SumTo(f, i) == SumFunction([j \in 1 .. i |-> f[j]])

LEMMA SumGrows ==
  ASSUME NEW n \in Nat, NEW f \in [1 .. n -> Nat]
  PROVE  /\ SumTo(f, 0) = 0
         /\ \A i \in 0 .. n : SumTo(f, i) \in Nat
         /\ \A i \in 1 .. n : SumTo(f, i) = SumTo(f, i - 1) + f[i]
         /\ SumTo(f, n) = SumFunction(f)
<1> DEFINE g(i) == [j \in 1 .. i |-> f[j]]
<1>1. ASSUME NEW i \in 0 .. n PROVE g(i) \in [1 .. i -> Nat] /\ IsFiniteSet(1 .. i)
  <2>1. \A j \in 1 .. i : j \in 1 .. n
    OBVIOUS
  <2>2. 1 \in Int /\ i \in Int
    OBVIOUS
  <2> QED BY <2>1, <2>2, FS_Interval
<1>2. ASSUME NEW i \in 0 .. n PROVE SumFunction(g(i)) \in Nat
  <2> HIDE DEF g
  <2> QED BY <1>1, SumIsNat
<1>3. ASSUME NEW i \in 1 .. n PROVE SumFunction(g(i)) = SumFunction(g(i - 1)) + f[i]
  <2>1. i \in 0 .. n /\ i - 1 \in 0 .. n /\ i \in 1 .. i /\ (1 .. i) \ {i} = 1 .. i - 1
    OBVIOUS
  <2>2. g(i)[i] = f[i] /\ f[i] \in Nat /\ g(i - 1) = Others(g(i), i)
    BY <2>1 DEF Others
  <2>3. SumFunction(g(i - 1)) \in Nat
    BY <1>2, <2>1
  <2>4. g(i) \in [1 .. i -> Nat] /\ IsFiniteSet(1 .. i)
    BY <1>1, <2>1
  <2> HIDE DEF g
  <2>5. SumFunction(g(i)) = g(i)[i] + SumFunction(Others(g(i), i))
    BY <2>1, <2>4, SumSplit
  <2> QED BY <2>2, <2>3, <2>5
<1>4. SumFunction(g(0)) = 0
  <2> g(0) \in [{} -> Nat]
    OBVIOUS
  <2> HIDE DEF g
  <2> QED BY SumOfNone
<1>5. g(n) = f
  OBVIOUS
<1>6. \A i : SumTo(f, i) = SumFunction(g(i))
  BY Zenon DEF SumTo
<1> HIDE DEF g
<1> QED BY <1>2, <1>3, <1>4, <1>5, <1>6

\* The pass over the days: the sites of the days up to d, their scores and lengths.
SeenUpTo(s, d) == UNION {Seen(PointsAt(s, x), Len(PointsAt(s, x))) : x \in 1 .. d}

Scores(s)  == [x \in 1 .. Len(s.days) |-> ScoreTo(PointsAt(s, x), Len(PointsAt(s, x)))]
Lengths(s) == [x \in 1 .. Len(s.days) |-> TourLength(PointsAt(s, x))]

Right(s, d) ==
  \A x \in 1 .. d : PointsAt(s, x) # <<>> =>
    ValidDay(x, PointsAt(s, x)) /\ Fresh(SeenUpTo(s, x - 1), PointsAt(s, x))

PassedTo(s, c, d) ==
  /\ c.ok <=> Right(s, d)
  /\ c.ok => /\ c.visitedSites = SeenUpTo(s, d)
             /\ c.totalScore = SumTo(Scores(s), d)
             /\ c.totalDist = SumTo(Lengths(s), d)
             /\ \A x \in 1 .. d : PointsAt(s, x) # <<>> => Recomputed(c.sol, x, PointsAt(s, x))

LEMMA DayTotals ==
  ASSUME NEW s \in Solutions
  PROVE  /\ Scores(s) \in [1 .. Len(s.days) -> Nat] /\ Lengths(s) \in [1 .. Len(s.days) -> Nat]
         /\ \A x \in 1 .. Len(s.days) :
              PointsAt(s, x) = <<>> => Scores(s)[x] = 0 /\ Lengths(s)[x] = 0
<1>1. DOMAIN s.days = 1 .. Len(s.days)
  BY SolutionFields
<1>2. ASSUME NEW pts \in Seq(Points), NEW i \in 0 .. Len(pts)
      PROVE  /\ [j \in Visits(pts, i) |-> Score[pts[j]]] \in [Visits(pts, i) -> Nat]
             /\ ScoreTo(pts, i) \in Nat
  <2> DEFINE f == [j \in Visits(pts, i) |-> Score[pts[j]]]
  <2>1. f \in [Visits(pts, i) -> Nat]
    BY SiteAssumption DEF Visits
  <2>2. IsFiniteSet(Visits(pts, i))
    <3>1. 1 \in Int /\ i \in Int
      OBVIOUS
    <3>2. Visits(pts, i) \subseteq 1 .. i
      BY DEF Visits
    <3> QED BY <3>1, <3>2, FS_Interval, FS_Subset
  <2> HIDE DEF f
  <2>3. SumFunction(f) \in Nat
    BY <2>1, <2>2, SumIsNat
  <2> QED BY <2>1, <2>3 DEF ScoreTo, f
<1>3. \A x \in 1 .. Len(s.days) : ScoreTo(PointsAt(s, x), Len(PointsAt(s, x))) \in Nat
  <2> SUFFICES ASSUME NEW x \in 1 .. Len(s.days)
               PROVE  ScoreTo(PointsAt(s, x), Len(PointsAt(s, x))) \in Nat
    OBVIOUS
  <2> PointsAt(s, x) \in Seq(Points) /\ Len(PointsAt(s, x)) \in 0 .. Len(PointsAt(s, x))
    BY <1>1, PointsOfSolution
  <2> QED BY <1>2
<1>4. \A x \in 1 .. Len(s.days) : TourLength(PointsAt(s, x)) \in Nat
  BY <1>1, PointsOfSolution, TourLengthIsNat
<1>5. ScoreTo(<<>>, 0) = 0
  <2> Visits(<<>>, 0) = {}
    BY DEF Visits
  <2> [j \in Visits(<<>>, 0) |-> Score[<<>>[j]]] \in [{} -> Nat]
    OBVIOUS
  <2> QED BY SumOfNone DEF ScoreTo
<1>6. TourLength(<<>>) = 0
  <2> [i \in DOMAIN <<>> |-> Leg(<<>>, i)] \in [{} -> Nat]
    OBVIOUS
  <2> QED BY SumOfNone DEF TourLength
<1>7. Len(<<>>) = 0
  OBVIOUS
<1> QED BY <1>3, <1>4, <1>5, <1>6, <1>7 DEF Scores, Lengths

LEMMA PassedOn ==
  ASSUME NEW s \in Solutions, NEW d \in 1 .. Len(s.days), NEW c \in Calls(s), PassedTo(s, c, d - 1)
  PROVE  PassedTo(s, NextDay(s, c, d), d)
<1> DEFINE pts == PointsAt(s, d)
           n   == Len(s.days)
           r   == NextDay(s, c, d)
           E(x) == Seen(PointsAt(s, x), Len(PointsAt(s, x)))
<1>1. /\ d \in DOMAIN s.days /\ d \in Nat /\ d - 1 \in 0 .. n /\ n \in Nat
      /\ \A x \in 1 .. d : x = d \/ x \in 1 .. d - 1
      /\ \A x \in 1 .. d - 1 : x \in 1 .. d /\ x # d /\ x \in DOMAIN s.days
      /\ d \in 1 .. d
  BY SolutionFields
<1>2. pts \in Seq(Points) /\ (pts # <<>> => Len(pts) >= 1)
  BY <1>1, PointsOfSolution
<1>3. Right(s, d) <=> Right(s, d - 1) /\
        (pts # <<>> => ValidDay(d, pts) /\ Fresh(SeenUpTo(s, d - 1), pts))
  BY <1>1 DEF Right
<1>4. SeenUpTo(s, d) = SeenUpTo(s, d - 1) \cup E(d)
  <2> SeenUpTo(s, d) = UNION {E(x) : x \in 1 .. d} /\ SeenUpTo(s, d - 1) = UNION {E(x) : x \in 1 .. d - 1}
    BY DEF SeenUpTo
  <2> HIDE DEF E
  <2> QED BY <1>1
<1>5. /\ SumTo(Scores(s), d) = SumTo(Scores(s), d - 1) + Scores(s)[d]
      /\ SumTo(Lengths(s), d) = SumTo(Lengths(s), d - 1) + Lengths(s)[d]
      /\ SumTo(Scores(s), d - 1) \in Nat /\ SumTo(Lengths(s), d - 1) \in Nat
      /\ Scores(s)[d] = ScoreTo(pts, Len(pts)) /\ Lengths(s)[d] = TourLength(pts)
  <2>1. Scores(s) \in [1 .. n -> Nat] /\ Lengths(s) \in [1 .. n -> Nat]
    BY DayTotals
  <2>2. Scores(s)[d] = ScoreTo(pts, Len(pts)) /\ Lengths(s)[d] = TourLength(pts)
    BY DEF Scores, Lengths
  <2> QED BY <1>1, <2>1, <2>2, SumGrows
<1>6. CASE ~c.ok
  <2> r = c /\ ~Right(s, d)
    BY <1>3, <1>6 DEF NextDay, PassedTo
  <2> QED BY <1>6 DEF PassedTo
<1>7. CASE c.ok /\ pts = <<>>
  <2>1. r = c
    BY <1>7 DEF NextDay
  <2>2. E(d) = {} /\ Scores(s)[d] = 0 /\ Lengths(s)[d] = 0
    <3> Len(<<>>) = 0
      OBVIOUS
    <3> E(d) = {}
      BY <1>7 DEF Seen
    <3> QED BY <1>7, DayTotals
  <2> HIDE DEF E, r
  <2>3. SumTo(Scores(s), d) = SumTo(Scores(s), d - 1) /\ SumTo(Lengths(s), d) = SumTo(Lengths(s), d - 1)
    BY <1>5, <2>2
  <2>4. \A x \in 1 .. d : PointsAt(s, x) # <<>> => x \in 1 .. d - 1
    BY <1>1, <1>7
  <2> QED BY <1>3, <1>4, <1>7, <2>1, <2>2, <2>3, <2>4 DEF PassedTo, r
<1>8. CASE c.ok /\ pts # <<>>
  <2>1. r = EvaluateDay(c, d)
    BY <1>8 DEF NextDay
  <2>2. DayDone(s, c, d, r)
    BY <1>1, <1>2, <1>8, <2>1, DayAnswers
  <2>3. /\ Right(s, d - 1)
        /\ c.visitedSites = SeenUpTo(s, d - 1)
        /\ c.totalScore = SumTo(Scores(s), d - 1)
        /\ c.totalDist = SumTo(Lengths(s), d - 1)
        /\ \A x \in 1 .. d - 1 : PointsAt(s, x) # <<>> => Recomputed(c.sol, x, PointsAt(s, x))
    BY <1>8 DEF PassedTo
  <2> HIDE DEF r
  <2>4. r.ok <=> Right(s, d)
    BY <1>3, <1>8, <2>2, <2>3 DEF DayDone
  <2>5. ASSUME r.ok
        PROVE  /\ r.visitedSites = SeenUpTo(s, d)
               /\ r.totalScore = SumTo(Scores(s), d)
               /\ r.totalDist = SumTo(Lengths(s), d)
    BY <1>4, <1>5, <2>2, <2>3, <2>5 DEF DayDone
  <2>6. ASSUME r.ok, NEW x \in 1 .. d, PointsAt(s, x) # <<>>
        PROVE  Recomputed(r.sol, x, PointsAt(s, x))
    <3>1. CASE x = d
      BY <2>2, <2>6, <3>1 DEF DayDone
    <3>2. CASE x # d
      <4>1. x \in 1 .. d - 1 /\ x \in DOMAIN c.sol.days \ {d}
        <5> DOMAIN c.sol.days = DOMAIN s.days
          BY CallFields DEF SamePoints
        <5> QED BY <1>1, <3>2
      <4>2. r.sol.days[x] = c.sol.days[x]
        BY <2>2, <2>6, <4>1 DEF DayDone, SameDaysBut
      <4> QED BY <2>3, <2>6, <4>1, <4>2 DEF Recomputed, LegsWritten
    <3> QED BY <3>1, <3>2
  <2> QED BY <2>4, <2>5, <2>6 DEF PassedTo, r
<1> QED BY <1>6, <1>7, <1>8

LEMMA Passed ==
  ASSUME NEW s \in Solutions
  PROVE  Evaluated(s) \in Calls(s) /\ PassedTo(s, Evaluated(s), Len(s.days))
<1>1. PICK u : Passes(s, u)
  BY PassExists
<1> DEFINE n == Len(s.days)
           T == {d \in 0 .. n : PassedTo(s, u[d], d)}
<1>2. n \in Nat /\ n \in 0 .. n
  BY SolutionFields
<1>3. /\ u \in [0 .. n -> Calls(s)] /\ u[0] = Entry(s) /\ Evaluated(s) = u[n]
      /\ \A d \in 1 .. n : u[d] = NextDay(s, u[d - 1], d)
  BY <1>1 DEF Passes
<1> HIDE DEF n
<1>4. 0 \in T
  <2>1. \A x \in 1 .. 0 : FALSE
    OBVIOUS
  <2>2. SumTo(Scores(s), 0) = 0 /\ SumTo(Lengths(s), 0) = 0
    BY <1>2, DayTotals, SumGrows DEF n
  <2>3. SeenUpTo(s, 0) = {} /\ Right(s, 0)
    BY <2>1 DEF SeenUpTo, Right
  <2>4. PassedTo(s, Entry(s), 0)
    BY <2>1, <2>2, <2>3 DEF PassedTo, Entry
  <2> QED BY <1>2, <1>3, <2>4
<1>5. ASSUME NEW d \in T, d + 1 <= n PROVE d + 1 \in T
  <2>1. d + 1 \in 1 .. n /\ d + 1 \in 0 .. n /\ (d + 1) - 1 = d /\ d \in 0 .. n
    BY <1>2, <1>5
  <2>2. u[d + 1] = NextDay(s, u[d], d + 1) /\ u[d] \in Calls(s) /\ PassedTo(s, u[d], d)
    BY <1>3, <2>1
  <2>3. PassedTo(s, u[d + 1], d + 1)
    BY <2>1, <2>2, PassedOn DEF n
  <2> QED BY <2>1, <2>3
<1>6. T = 0 .. n
  <2> 0 \in Nat /\ T \in SUBSET (0 .. n)
    OBVIOUS
  <2> HIDE DEF T
  <2> QED BY <1>2, <1>4, <1>5, Climb
<1> QED BY <1>2, <1>3, <1>6 DEF n

\* The answer of EvaluateSolution is that of the rules, for any trip.
LEMMA AnswersByTheRules ==
  ASSUME NEW s \in Solutions
  PROVE  EvaluateSolution(s).valid <=> Valid(s)
<1> DEFINE n == Len(s.days)
           P(x) == PointsAt(s, x)
<1>1. /\ n \in Nat /\ DOMAIN s.days = 1 .. n /\ s.days \in Seq(DayTours)
      /\ \A x \in 1 .. n : P(x) \in Seq(Points) /\ P(x) = PointsOf(s.days[x])
  BY SolutionFields, PointsOfSolution DEF PointsAt
<1>2. EvaluateSolution(s).valid <=> Right(s, n)
  <2> EvaluateSolution(s).valid = Evaluated(s).ok
    BY DEF EvaluateSolution
  <2> QED BY Passed DEF PassedTo
<1>3. \A x \in 1 .. n : P(x) # <<>> <=> s.days[x].steps # <<>>
  <2> SUFFICES ASSUME NEW x \in 1 .. n PROVE P(x) # <<>> <=> s.days[x].steps # <<>>
    OBVIOUS
  <2> P(x) \in Seq(Points) /\ s.days[x].steps \in Seq(Steps) /\ Len(P(x)) = Len(s.days[x].steps)
    BY <1>1, PointsOfSolution DEF DayTours
  <2> QED OBVIOUS
<1>4. NoSiteTwice(s.days) <=> Once(s.days)
  BY <1>1, OnceIsNoSiteTwice
<1>5. ASSUME Once(s.days), NEW x \in 1 .. n
      PROVE  Fresh(SeenUpTo(s, x - 1), P(x))
  <2> SUFFICES ASSUME NEW j \in 1 .. Len(P(x)), P(x)[j] \in Sites
               PROVE  P(x)[j] \notin SeenUpTo(s, x - 1) /\ \A a \in 1 .. j - 1 : P(x)[a] # P(x)[j]
    BY DEF Fresh
  <2>1. \A y \in 1 .. n : \A i \in 1 .. Len(P(y)) : P(x)[j] = P(y)[i] => x = y /\ j = i
    BY <1>1, <1>5 DEF Once
  <2>2. \A y \in 1 .. x - 1 : y \in 1 .. n /\ y # x
    BY <1>1
  <2>3. \A a \in 1 .. j - 1 : a \in 1 .. Len(P(x)) /\ a # j
    BY <1>1
  <2> QED BY <2>1, <2>2, <2>3 DEF SeenUpTo, Seen
<1>6. ASSUME \A x \in 1 .. n : P(x) # <<>> => Fresh(SeenUpTo(s, x - 1), P(x))
      PROVE  Once(s.days)
  <2>1. ASSUME NEW x \in 1 .. n, NEW y \in 1 .. n, NEW i \in 1 .. Len(P(x)), NEW j \in 1 .. Len(P(y)),
               P(x)[i] \in Sites, P(x)[i] = P(y)[j], x < y
        PROVE  FALSE
    <3>1. P(y) # <<>> /\ Fresh(SeenUpTo(s, y - 1), P(y))
      <4> Len(<<>>) = 0
        OBVIOUS
      <4> P(y) # <<>>
        BY <1>1
      <4> QED BY <1>6
    <3>2. x \in 1 .. y - 1
      BY <1>1, <2>1
    <3>3. P(x)[i] \in SeenUpTo(s, y - 1)
      BY <2>1, <3>2 DEF SeenUpTo, Seen
    <3> QED BY <2>1, <3>1, <3>3 DEF Fresh
  <2>2. ASSUME NEW x \in 1 .. n, NEW i \in 1 .. Len(P(x)), NEW j \in 1 .. Len(P(x)),
               P(x)[i] \in Sites, P(x)[i] = P(x)[j], i < j
        PROVE  FALSE
    <3>1. P(x) # <<>> /\ Fresh(SeenUpTo(s, x - 1), P(x))
      <4> Len(<<>>) = 0
        OBVIOUS
      <4> P(x) # <<>>
        BY <1>1
      <4> QED BY <1>6
    <3>2. i \in 1 .. j - 1
      BY <1>1, <2>2
    <3> QED BY <2>2, <3>1, <3>2 DEF Fresh
  <2> SUFFICES ASSUME NEW x \in 1 .. n, NEW y \in 1 .. n, NEW i \in 1 .. Len(P(x)),
                      NEW j \in 1 .. Len(P(y)), P(x)[i] \in Sites, P(x)[i] = P(y)[j]
               PROVE  x = y /\ i = j
    BY <1>1 DEF Once
  <2>3. x < y \/ y < x \/ x = y
    BY <1>1
  <2>4. ~(x < y) /\ ~(y < x)
    BY <2>1
  <2>5. x = y => (i < j \/ j < i \/ i = j)
    BY <1>1
  <2>6. x = y => ~(i < j) /\ ~(j < i)
    BY <2>2
  <2> QED BY <2>3, <2>4, <2>5, <2>6
<1>7. Right(s, n) <=> Once(s.days) /\ \A x \in 1 .. n : P(x) # <<>> => ValidDay(x, P(x))
  BY <1>5, <1>6 DEF Right
<1>8. Valid(s) <=> Once(s.days) /\ \A x \in 1 .. n : P(x) # <<>> => ValidDay(x, P(x))
  BY <1>1, <1>3, <1>4 DEF Valid
<1> QED BY <1>2, <1>7, <1>8

\* What Refreshed is, by the points of the trip alone.
LEMMA RefreshedTotals ==
  ASSUME NEW s \in Solutions
  PROVE  Refreshed(s) = [days  |-> [d \in 1 .. Len(s.days) |-> FreshDay(PointsAt(s, d))],
                         score |-> SumFunction(Scores(s)), dist |-> SumFunction(Lengths(s))]
<1> DEFINE n  == Len(s.days)
           fs == [d \in 1 .. n |-> FreshDay(PointsAt(s, d))]
           f  == [s EXCEPT !.days = fs]
           scores == [d \in DOMAIN f.days |-> DayScore(f.days[d])]
           legs   == [d \in DOMAIN f.days |-> DayLegs(f.days[d])]
<1>1. DOMAIN s.days = 1 .. n /\ \A d \in 1 .. n : PointsAt(s, d) \in Seq(Points)
  BY SolutionFields, PointsOfSolution
<1>2. ASSUME NEW pts \in Seq(Points)
      PROVE  DayScore(FreshDay(pts)) = ScoreTo(pts, Len(pts)) /\ DayLegs(FreshDay(pts)) = TourLength(pts)
  <2> DEFINE steps == FreshSteps(pts)
  <2>1. DOMAIN pts = 1 .. Len(pts) /\ DOMAIN steps = DOMAIN pts
    BY DEF FreshSteps
  <2>2. \A i \in DOMAIN pts : steps[i].pt = pts[i] /\ steps[i].leg = Leg(pts, i)
    BY DEF FreshSteps
  <2>3. FreshDay(pts).steps = steps
    BY DEF FreshDay
  <2> HIDE DEF steps
  <2>4. SitesOfDay(FreshDay(pts)) = Visits(pts, Len(pts))
    BY <2>1, <2>2, <2>3 DEF SitesOfDay, Visits
  <2>5. [i \in SitesOfDay(FreshDay(pts)) |-> Score[FreshDay(pts).steps[i].pt]]
          = [j \in Visits(pts, Len(pts)) |-> Score[pts[j]]]
    BY <2>1, <2>2, <2>3, <2>4 DEF Visits
  <2>6. [i \in DOMAIN FreshDay(pts).steps |-> FreshDay(pts).steps[i].leg]
          = [i \in DOMAIN pts |-> Leg(pts, i)]
    BY <2>1, <2>2, <2>3
  <2> QED BY <2>5, <2>6 DEF DayScore, DayLegs, ScoreTo, TourLength
<1>3. f.days = fs /\ f = [days |-> fs, score |-> s.score, dist |-> s.dist]
  <2> HIDE DEF fs
  <2> QED BY DEF Solutions
<1>4. scores = Scores(s) /\ legs = Lengths(s)
  <2> HIDE DEF f
  <2> DOMAIN f.days = 1 .. n /\ \A d \in 1 .. n : f.days[d] = FreshDay(PointsAt(s, d))
    BY <1>3
  <2> QED BY <1>1, <1>2 DEF Scores, Lengths
<1>5. Refreshed(s) = EvaluateScore(f)
  <2> fs = [d \in DOMAIN s.days |-> FreshDay(PointsOf(s.days[d]))]
    BY <1>1 DEF PointsAt
  <2> HIDE DEF fs
  <2> QED BY DEF Refreshed
<1> HIDE DEF f, fs
<1>6. EvaluateScore(f) = [f EXCEPT !.score = SumFunction(scores), !.dist = SumFunction(legs)]
  BY Zenon DEF EvaluateScore
<1> HIDE DEF scores, legs
<1>7. [f EXCEPT !.score = SumFunction(scores), !.dist = SumFunction(legs)]
        = [days |-> fs, score |-> SumFunction(scores), dist |-> SumFunction(legs)]
  <2> DEFINE a == SumFunction(scores)
             b == SumFunction(legs)
  <2> HIDE DEF a, b
  <2> DEFINE g == [f EXCEPT !.score = a]
  <2>1. g = [days |-> fs, score |-> a, dist |-> s.dist]
    BY <1>3
  <2>2. [f EXCEPT !.score = a, !.dist = b] = [g EXCEPT !.dist = b]
    OBVIOUS
  <2> HIDE DEF g
  <2>3. [g EXCEPT !.dist = b] = [days |-> fs, score |-> a, dist |-> b]
    BY <2>1
  <2> QED BY <2>2, <2>3 DEF a, b
<1> QED BY <1>4, <1>5, <1>6, <1>7 DEF fs

\* A day that is recomputed is fresh.
LEMMA RecomputedIsFresh ==
  ASSUME NEW day \in DayTours, NEW pts \in Seq(Points), PointsOf(day) = pts,
         \A j \in 1 .. Len(pts) : day.steps[j].leg = Leg(pts, j), day.dist = TourLength(pts)
  PROVE  day = FreshDay(pts)
<1>1. /\ day.steps \in Seq(Steps) /\ day = [steps |-> day.steps, dist |-> day.dist]
      /\ DOMAIN day.steps = 1 .. Len(pts) /\ DOMAIN pts = 1 .. Len(pts)
      /\ \A j \in 1 .. Len(pts) : day.steps[j].pt = pts[j]
  BY PointsOfDay DEF DayTours
<1>2. \A j \in 1 .. Len(pts) : day.steps[j] = [pt |-> pts[j], leg |-> Leg(pts, j)]
  <2> \A j \in 1 .. Len(pts) : day.steps[j] \in Steps
    BY <1>1
  <2> QED BY <1>1 DEF Steps
<1>3. day.steps = FreshSteps(pts)
  <2> DEFINE steps == day.steps
  <2>1. steps = [j \in 1 .. Len(pts) |-> steps[j]]
    <3> steps \in Seq(Steps) /\ DOMAIN steps = 1 .. Len(pts)
      BY <1>1
    <3> HIDE DEF steps
    <3> QED OBVIOUS
  <2>2. \A j \in 1 .. Len(pts) : steps[j] = [pt |-> pts[j], leg |-> Leg(pts, j)]
    BY <1>2
  <2> HIDE DEF steps
  <2>3. steps = FreshSteps(pts)
    BY <1>1, <2>1, <2>2 DEF FreshSteps
  <2> QED BY <2>3 DEF steps
<1> QED BY <1>1, <1>3 DEF FreshDay

\* What EvaluateSolution accepts it has recomputed altogether, if no day is empty.
LEMMA AcceptsRecomputed ==
  ASSUME NEW s \in Solutions, \A d \in DOMAIN s.days : PointsAt(s, d) # <<>>,
         EvaluateSolution(s).valid
  PROVE  EvaluateSolution(s).sol = Refreshed(s)
<1> DEFINE n   == Len(s.days)
           end == Evaluated(s)
           fs  == [d \in 1 .. n |-> FreshDay(PointsAt(s, d))]
<1>1. n \in Nat /\ DOMAIN s.days = 1 .. n /\ \A d \in 1 .. n : PointsAt(s, d) \in Seq(Points)
  BY SolutionFields, PointsOfSolution
<1>2. /\ end \in Calls(s) /\ PassedTo(s, end, n) /\ end.ok
      /\ EvaluateSolution(s).sol = [end.sol EXCEPT !.score = end.totalScore, !.dist = end.totalDist]
  <2>1. EvaluateSolution(s).valid = end.ok
    BY DEF EvaluateSolution
  <2>2. EvaluateSolution(s).sol =
          IF end.ok THEN [end.sol EXCEPT !.score = end.totalScore, !.dist = end.totalDist] ELSE end.sol
    BY DEF EvaluateSolution
  <2> HIDE DEF end
  <2>3. end \in Calls(s) /\ PassedTo(s, end, n)
    BY Passed DEF end
  <2> QED BY <2>1, <2>2, <2>3
<1> HIDE DEF end
<1>3. end.totalScore = SumFunction(Scores(s)) /\ end.totalDist = SumFunction(Lengths(s))
  <2> end.totalScore = SumTo(Scores(s), n) /\ end.totalDist = SumTo(Lengths(s), n)
    BY <1>2 DEF PassedTo
  <2> QED BY <1>1, DayTotals, SumGrows
<1>4. SamePoints(s, end.sol) /\ end.sol \in Solutions /\ end.sol.days \in Seq(DayTours)
  BY <1>2, CallFields, SolutionFields DEF SamePoints
<1>5. \A d \in 1 .. n : end.sol.days[d] = FreshDay(PointsAt(s, d))
  <2> SUFFICES ASSUME NEW d \in 1 .. n PROVE end.sol.days[d] = FreshDay(PointsAt(s, d))
    OBVIOUS
  <2>1. d \in DOMAIN s.days /\ d \in DOMAIN end.sol.days
    BY <1>1, <1>4 DEF SamePoints
  <2>2. end.sol.days[d] \in DayTours /\ PointsOf(end.sol.days[d]) = PointsAt(s, d)
        /\ PointsAt(s, d) \in Seq(Points)
    BY <1>1, <1>4, <2>1 DEF SamePoints, PointsAt
  <2>3. Recomputed(end.sol, d, PointsAt(s, d))
    BY <1>2, <2>1 DEF PassedTo
  <2> QED BY <2>2, <2>3, RecomputedIsFresh DEF Recomputed, LegsWritten
<1>6. end.sol.days = fs
  <2> DEFINE new == end.sol.days
  <2>1. new \in Seq(DayTours) /\ DOMAIN new = 1 .. n
    BY <1>1, <1>4 DEF SamePoints
  <2>2. \A d \in 1 .. n : new[d] = FreshDay(PointsAt(s, d))
    BY <1>5
  <2> HIDE DEF new
  <2>3. new = [d \in 1 .. n |-> new[d]]
    BY <2>1
  <2>4. new = fs
    BY <2>2, <2>3
  <2> QED BY <2>4 DEF new
<1>7. [end.sol EXCEPT !.score = end.totalScore, !.dist = end.totalDist]
        = [days |-> end.sol.days, score |-> end.totalScore, dist |-> end.totalDist]
  <2> DEFINE e == end.sol
             a == end.totalScore
             b == end.totalDist
  <2>1. e = [days |-> e.days, score |-> e.score, dist |-> e.dist]
    <3> e \in Solutions
      BY <1>4
    <3> HIDE DEF e
    <3> QED BY DEF Solutions
  <2> HIDE DEF e, a, b
  <2> DEFINE g == [e EXCEPT !.score = a]
  <2>2. g = [days |-> e.days, score |-> a, dist |-> e.dist]
    BY <2>1
  <2>3. [e EXCEPT !.score = a, !.dist = b] = [g EXCEPT !.dist = b]
    OBVIOUS
  <2> HIDE DEF g
  <2>4. [g EXCEPT !.dist = b] = [days |-> e.days, score |-> a, dist |-> b]
    BY <2>2
  <2> QED BY <2>3, <2>4 DEF e, a, b
<1> QED BY <1>2, <1>3, <1>6, <1>7, RefreshedTotals

\* EvaluateSolution answers what the rules of a trip say, and what it accepts has
\* every leg, distance and total recomputed.
THEOREM EvaluationIsExact == Spec => []EvaluationExact
<1>1. WorkerInv => EvaluationExact
  <2> SUFFICES ASSUME WorkerInv, Descending PROVE
                 LET result == EvaluateSolution(sol)
                 IN  /\ result.valid <=> Valid(sol)
                     /\ result.valid => result.sol = Refreshed(sol)
    BY DEF EvaluationExact
  <2>1. sol \in Solutions /\ Shape(sol)
    BY InvParts DEF SoundTrips, Sound, Framed
  <2>2. \A d \in DOMAIN sol.days : PointsAt(sol, d) # <<>>
    <3> Len(<<>>) = 0
      OBVIOUS
    <3> QED BY <2>1 DEF Shape
  <2> QED BY <2>1, <2>2, AnswersByTheRules, AcceptsRecomputed
<1> QED BY <1>1, Invariance, PTL
=============================================================================
