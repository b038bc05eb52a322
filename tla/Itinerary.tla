----------------------------- MODULE Itinerary -----------------------------
(***************************************************************************)
(* Instances, tours and their evaluation (models.go, evaluator.go,         *)
(* validator.go and the evaluators evalDay/evalDayFast of optimizer.go).   *)
(*                                                                         *)
(* Distances, times and scores are integers (the code has float64).  A     *)
(* step keeps its point and the leg recorded with it (DistFromPrev); its   *)
(* times are not kept, because every reader of Arrival, Wait and Departure *)
(* outside the evaluators is in Greedy, which models them.                 *)
(***************************************************************************)
EXTENDS Integers, Sequences, FiniteSets, SequencesExt, FiniteSetsExt

CONSTANTS
  HotelIDs,      \* sequence of the hotels, in file order
  SiteIDs,       \* sequence of the sites, in file order
  StartHotelID,
  EndHotelID,
  NbDays,
  DistMatrix,    \* [point -> [point -> distance]]
  OpenTime,      \* of each site, as CloseTime, ServiceTime and Score
  CloseTime,
  ServiceTime,
  Score,
  MaxDistPerDay, \* sequence of the daily budgets Td
  MaxDist        \* Tmax

Hotels == ToSet(HotelIDs)
Sites  == ToSet(SiteIDs)
Points == Hotels \cup Sites
Days   == 1 .. NbDays

\* Every point has one entry (LoadInstance appends its index once; module Parser).
ASSUME IdsAssumption == IsInjective(SiteIDs)

ASSUME PointsAssumption ==
  /\ HotelIDs \in Seq(Points) /\ SiteIDs \in Seq(Points)
  /\ Hotels \cap Sites = {}
  /\ StartHotelID \in Hotels /\ EndHotelID \in Hotels
  /\ NbDays \in Nat \ {0}

\* ComputeDistMatrix fills in Euclidean distances: what the code relies on is
\* that they are symmetric and that a detour is never a short cut.
ASSUME MetricAssumption ==
  /\ DistMatrix \in [Points -> [Points -> Nat]]
  /\ \A p \in Points : DistMatrix[p][p] = 0
  /\ \A p, q \in Points : DistMatrix[p][q] = DistMatrix[q][p]
  /\ \A p, q, r \in Points : DistMatrix[p][r] <= DistMatrix[p][q] + DistMatrix[q][r]

ASSUME BudgetAssumption ==
  /\ MaxDistPerDay \in Seq(Nat) /\ MaxDist \in Nat

ASSUME SiteAssumption ==
  /\ OpenTime \in [Sites -> Nat] /\ CloseTime \in [Sites -> Nat]
  /\ ServiceTime \in [Sites -> Nat] /\ Score \in [Sites -> Nat]

\* The budget of a day; Tmax for a day the file gives no budget for.
DayMaxDist(d) == IF d <= Len(MaxDistPerDay) THEN MaxDistPerDay[d] ELSE MaxDist

-----------------------------------------------------------------------------
(* A day as a sequence of points *)

Leg(pts, i) == IF i = 1 THEN 0 ELSE DistMatrix[pts[i - 1]][pts[i]]

TourLength(pts) == SumFunction([i \in DOMAIN pts |-> Leg(pts, i)])

\* When a visitor who reaches p at time t leaves it.
Leave(p, t) == IF p \in Sites THEN Max({t, OpenTime[p]}) + ServiceTime[p] ELSE t

\* Departure time of each step; the tour starts at time 0.
Departures(pts) ==
  LET dep[i \in DOMAIN pts] ==
        Leave(pts[i], IF i = 1 THEN 0 ELSE dep[i - 1] + Leg(pts, i))
  IN  dep

Arrival(pts, i) == IF i = 1 THEN 0 ELSE Departures(pts)[i - 1] + Leg(pts, i)

\* Variant: the way to the last hotel is not held against the budget.
FeasibleAtSites(d, pts) ==
  \A i \in DOMAIN pts :
    pts[i] \in Sites =>
      /\ Arrival(pts, i) <= DayMaxDist(d)
      /\ Max({Arrival(pts, i), OpenTime[pts[i]]}) <= CloseTime[pts[i]]
      /\ Departures(pts)[i] <= DayMaxDist(d)

\* evalDay and evalDayFast: the answer "feasible".
Feasible(d, pts) ==
  \A i \in DOMAIN pts :
    /\ i > 1 => Arrival(pts, i) <= DayMaxDist(d)
    /\ pts[i] \in Sites =>
         /\ Max({Arrival(pts, i), OpenTime[pts[i]]}) <= CloseTime[pts[i]]
         /\ Departures(pts)[i] <= DayMaxDist(d)

-----------------------------------------------------------------------------
(* Solutions *)

Steps     == [pt : Points, leg : Nat]
DayTours  == [steps : Seq(Steps), dist : Nat]
Solutions == [days : Seq(DayTours), score : Nat, dist : Nat]

\* extractDayPoints
PointsOf(day) == [i \in DOMAIN day.steps |-> day.steps[i].pt]

\* The steps evalDay builds: every leg is fresh.
FreshSteps(pts) == [i \in DOMAIN pts |-> [pt |-> pts[i], leg |-> Leg(pts, i)]]

\* day.Steps = newSteps; day.DistTotal = newDist
FreshDay(pts) == [steps |-> FreshSteps(pts), dist |-> TourLength(pts)]

SitesOfDay(day) == {i \in DOMAIN day.steps : day.steps[i].pt \in Sites}

DayScore(day) == SumFunction([i \in SitesOfDay(day) |-> Score[day.steps[i].pt]])
DayLegs(day)  == SumFunction([i \in DOMAIN day.steps |-> day.steps[i].leg])

\* EvaluateScore: scores of the visited sites, and the *recorded* legs.
EvaluateScore(sol) ==
  [sol EXCEPT
    !.score = SumFunction([d \in DOMAIN sol.days |-> DayScore(sol.days[d])]),
    !.dist  = SumFunction([d \in DOMAIN sol.days |-> DayLegs(sol.days[d])])]

\* The rules of a trip, as EvaluateSolution is to apply them (module Validator
\* has what it does).  No site twice:
NoSiteTwice(days) ==
  \A d, e \in DOMAIN days :
    \A i \in SitesOfDay(days[d]), j \in SitesOfDay(days[e]) :
      days[d].steps[i].pt = days[e].steps[j].pt => d = e /\ i = j

\* The first and the last point of a day are hotels, the outermost ones are
\* given; the visits begin before closing time and the day ends within its budget.
ValidDay(d, pts) ==
  /\ pts[1] \in Hotels
  /\ d = 1 => pts[1] = StartHotelID
  /\ \A i \in DOMAIN pts : pts[i] \in Sites =>
       Max({Arrival(pts, i), OpenTime[pts[i]]}) <= CloseTime[pts[i]]
  /\ Last(pts) \in Hotels
  /\ d = NbDays => Last(pts) = EndHotelID
  /\ Departures(pts)[Len(pts)] <= DayMaxDist(d)

Valid(sol) ==
  /\ NoSiteTwice(sol.days)
  /\ \A d \in DOMAIN sol.days :
       sol.days[d].steps # <<>> => ValidDay(d, PointsOf(sol.days[d]))

\* A solution with every leg, every day's distance and both totals recomputed.
Refreshed(sol) ==
  EvaluateScore([sol EXCEPT !.days =
    [d \in DOMAIN sol.days |-> FreshDay(PointsOf(sol.days[d]))]])

\* The acceptance test of the workers.
Beats(s, t) ==
  \/ s.score > t.score
  \/ s.score = t.score /\ s.dist < t.dist

-----------------------------------------------------------------------------
(* Choosing by position and by rank *)

\* The subsequence of s at the positions in keep: its n-th element is the one
\* whose position is the n-th smallest.
At(s, keep) ==
  [n \in 1 .. Cardinality(keep) |->
     s[CHOOSE i \in keep : Cardinality({j \in keep : j <= i}) = n]]

LexLess(a, b) ==
  \E i \in DOMAIN a : a[i] < b[i] /\ \A j \in 1 .. i - 1 : a[j] = b[j]

\* What a loop over S keeps when it replaces its choice on a strictly better rank
\* only.  The position in the loop is the last part of the rank, so that this is
\* one element (none if S is empty).
Best(S, rank(_)) ==
  {x \in S : \A y \in S : ~LexLess(rank(y), rank(x))}
=============================================================================
