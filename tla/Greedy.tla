------------------------------- MODULE Greedy -------------------------------
(***************************************************************************)
(* solveGreedyInternal (solver.go): days are built one after the other,    *)
(* each by visiting an admissible site with a good ratio as long as there  *)
(* is one, then going to a hotel.  SolveGreedy is the case RclSize = 1,    *)
(* ratio mode 0; SolveGreedyRandomized draws among the rclSize best.       *)
(* Module Worker calls it, for the seed and in every round of GRASP.       *)
(***************************************************************************)
EXTENDS Itinerary

CONSTANTS
  RclSizes,   \* the candidate list sizes the GRASP workers use (3 to 7)
  RatioModes  \* and their ratio modes (0 to 3)

ASSUME RclAssumption == RclSizes \subseteq 3 .. 7 /\ RatioModes \subseteq 0 .. 3

VARIABLES
  rclSize, ratioMode,  \* the parameters of the call
  days,                \* sol.Days, the days closed so far
  tour,                \* the points of the day being built (steps)
  clock                \* Departure of its last step

greedyVars == <<rclSize, ratioMode, days, tour, clock>>

Day     == Len(days) + 1
Built   == Len(days) = NbDays
Visited == {p \in Sites :
              \/ p \in ToSet(tour)
              \/ \E d \in DOMAIN days : p \in ToSet(PointsOf(days[d]))}

\* The first day starts at StartHotelID, the next ones where the last one ended.
StartGreedy(rcl, mode) ==
  /\ rclSize' = rcl /\ ratioMode' = mode
  /\ days' = <<>>
  /\ tour' = <<StartHotelID>>
  /\ clock' = 0

-----------------------------------------------------------------------------
(* Candidates *)

Reach(p) == clock + DistMatrix[Last(tour)][p]

\* Variant: the check that a hotel can still be reached is left out.
CanReturnAlways(p) == p \in Sites

\* Variant: the last day may end at any hotel.
CanReturnAnywhere(p) ==
  \E h \in Hotels : Leave(p, Reach(p)) + DistMatrix[p][h] <= DayMaxDist(Day)

\* A hotel is still within the day's budget after visiting p: the final one
\* on the last day, any one before.
CanReturn(p) ==
  \E h \in Hotels :
    /\ Day = NbDays => h = EndHotelID
    /\ Leave(p, Reach(p)) + DistMatrix[p][h] <= DayMaxDist(Day)

Admissible(p) ==
  /\ p \in Sites \ Visited
  /\ Reach(p) <= CloseTime[p]
  /\ CanReturn(p)

\* n / d, where a denominator below 0.001 (here: zero) is replaced by 0.001.
Quotient(n, d) == IF d = 0 THEN <<1000 * n, 1>> ELSE <<n, d>>

\* Mode 1: sites that close soon; 2: score; 3: proximity; 0: score over cost.
Ratio(p) ==
  LET dist == DistMatrix[Last(tour)][p]
      wait == Max({OpenTime[p] - Reach(p), 0})
  IN  CASE ratioMode = 1 -> Quotient(Score[p], CloseTime[p] - Reach(p))
        [] ratioMode = 2 -> <<Score[p], 1>>
        [] ratioMode = 3 -> IF dist = 0 THEN <<10000, 1>> ELSE <<1, dist>>
        [] OTHER         -> Quotient(Score[p], dist + wait)

Higher(r, s) == r[1] * s[2] > s[1] * r[2]

\* The positions in SiteIDs of the candidates, and which of them may be chosen:
\* the first of the best ones, or any that fewer than rclSize candidates
\* precede (the sort is not stable, so equal ratios come in any order).
Candidates == {k \in DOMAIN SiteIDs : Admissible(SiteIDs[k])}

Eligible(k) ==
  LET above == {e \in Candidates : Higher(Ratio(SiteIDs[e]), Ratio(SiteIDs[k]))}
  IN  IF rclSize <= 1
        THEN above = {} /\ \A e \in Candidates :
               e < k => Higher(Ratio(SiteIDs[k]), Ratio(SiteIDs[e]))
        ELSE Cardinality(above) < rclSize

-----------------------------------------------------------------------------
(* Steps *)

\* Variant: the waiting time is not part of the departure.
VisitWithoutWait(k) ==
  /\ k \in Candidates /\ Eligible(k)
  /\ tour' = Append(tour, SiteIDs[k])
  /\ clock' = Reach(SiteIDs[k]) + ServiceTime[SiteIDs[k]]
  /\ UNCHANGED <<rclSize, ratioMode, days>>

Visit(k) ==
  /\ k \in Candidates /\ Eligible(k)
  /\ tour' = Append(tour, SiteIDs[k])
  /\ clock' = Leave(SiteIDs[k], Reach(SiteIDs[k]))
  /\ UNCHANGED <<rclSize, ratioMode, days>>

\* The hotels within the budget, as positions in HotelIDs.
WithinReach == {k \in DOMAIN HotelIDs : Reach(HotelIDs[k]) <= DayMaxDist(Day)}

\* The end of a day: EndHotelID on the last day, whatever its distance; before,
\* the nearest hotel within reach, the first of equals; EndHotelID if none is.
EndHotel ==
  IF Day = NbDays \/ WithinReach = {}
    THEN {EndHotelID}
    ELSE {HotelIDs[k] : k \in Best(WithinReach, LAMBDA k : <<Reach(HotelIDs[k]), k>>)}

EndDay ==
  /\ Candidates = {}
  /\ \E h \in EndHotel : /\ days' = Append(days, FreshDay(Append(tour, h)))
                         /\ tour' = <<h>>
  /\ clock' = 0
  /\ UNCHANGED <<rclSize, ratioMode>>

GreedyStep == ~Built /\ (EndDay \/ \E k \in DOMAIN SiteIDs : Visit(k))

\* EvaluateScore on the days built.
GreedySolution == EvaluateScore([days |-> days, score |-> 0, dist |-> 0])

-----------------------------------------------------------------------------
(* Properties *)

GreedyTypeOK ==
  /\ days \in Seq(DayTours)
  /\ Len(days) <= NbDays
  /\ tour \in Seq(Points) /\ tour # <<>>
  /\ clock \in Nat

\* The departure time the construction carries along is the one the evaluators
\* compute from the whole tour, and the tour so far is feasible for evalDay:
\* the arrival test of the construction (arrival against closing time) agrees
\* with theirs (start of the visit against closing time).
ClockAgrees ==
  ~Built => clock = Departures(tour)[Len(tour)] /\ Feasible(Day, tour)

\* As soon as the day has a site, and on every day but the last in any case,
\* some hotel the day may end at is within its budget: the fallback of a day
\* without reachable hotel (bestH == -1) is never taken.
HotelInReach ==
  ~Built /\ (Day < NbDays \/ Len(tour) > 1) =>
    \E h \in Hotels : /\ Day = NbDays => h = EndHotelID
                      /\ Reach(h) <= DayMaxDist(Day)

\* The only way the construction returns a solution EvaluateSolution refuses:
\* the last day visits nothing, and EndHotelID is beyond its budget.
OnlyLastDayFails ==
  Built => \/ Valid(GreedySolution)
           \/ /\ Len(days[NbDays].steps) = 2
              /\ days[NbDays].dist > DayMaxDist(NbDays)
              /\ NoSiteTwice(days)
              /\ \A d \in 1 .. NbDays - 1 : ValidDay(d, PointsOf(days[d]))
=============================================================================
