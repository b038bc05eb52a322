------------------------------- MODULE Shaking -------------------------------
(***************************************************************************)
(* applyShake, removeSitesRandom and clearDay (optimizer.go): what the VNS *)
(* workers destroy before they descend again.  The draws are nondetermi-   *)
(* nistic.  Steps that stay keep the leg recorded with them, although what *)
(* precedes them has changed; only the day's distance is recomputed.       *)
(***************************************************************************)
EXTENDS Itinerary

SitePositions(sol) ==
  UNION {{<<d, i>> : i \in SitesOfDay(sol.days[d])} : d \in DOMAIN sol.days}

\* Variant: the positions are taken in increasing order, so that each one but
\* the first has shifted.
WithoutShifted(day, gone) ==
  LET shifted == {i + Cardinality({j \in gone : j < i}) : i \in gone}
      steps   == At(day.steps, DOMAIN day.steps \ shifted)
  IN  [steps |-> steps, dist |-> TourLength(PointsOf([steps |-> steps]))]

\* The day without the steps at the positions in gone.
Without(day, gone) ==
  LET steps == At(day.steps, DOMAIN day.steps \ gone)
  IN  [steps |-> steps, dist |-> TourLength(PointsOf([steps |-> steps]))]

Drop(sol, positions) ==
  [sol EXCEPT !.days = [d \in DOMAIN sol.days |->
     LET gone == {i \in DOMAIN sol.days[d].steps : <<d, i>> \in positions}
     IN  IF gone = {} THEN sol.days[d] ELSE Without(sol.days[d], gone)]]

\* removeSitesRandom: count sites, or all there are.
RemoveSites(sol, count) ==
  LET all == SitePositions(sol)
  IN  {Drop(sol, positions) : positions \in kSubset(Min({count, Cardinality(all)}), all)}

HotelSteps(day) == At(day.steps, {i \in DOMAIN day.steps : day.steps[i].pt \in Hotels})

\* Variant: the distance of the emptied day is left as it was.
ClearStepsOnly(day) == [day EXCEPT !.steps = HotelSteps(day)]

\* clearDay: the hotel steps are kept, and the distance is that between the
\* first and the last of them.
ClearDay(day) ==
  LET hotels == HotelSteps(day)
  IN  [steps |-> hotels,
       dist  |-> IF Len(hotels) >= 2
                   THEN DistMatrix[hotels[1].pt][Last(hotels).pt]
                   ELSE 0]

\* The day with its step i at hotel h; the leg stays.
AtHotel(day, i, h) == [day EXCEPT !.steps[i].pt = h]

\* Force 2: the junction of days d and d + 1 moves to hotel h, both days are
\* cleared; nothing if one of them has fewer than two steps.
MoveJunction(sol, d, h) ==
  IF Len(sol.days[d].steps) >= 2 /\ Len(sol.days[d + 1].steps) >= 2
    THEN [sol EXCEPT
           !.days[d]     = ClearDay(AtHotel(@, Len(@.steps), h)),
           !.days[d + 1] = ClearDay(AtHotel(@, 1, h))]
    ELSE sol

JunctionsMoved(sol) ==
  IF NbDays > 1 /\ Len(HotelIDs) > 1
    THEN {MoveJunction(sol, d, h) : d \in 1 .. NbDays - 1, h \in Hotels}
    ELSE {sol}

\* The outcomes of a shake of the given force, each followed by EvaluateScore.
Destroyed(sol, force) ==
  CASE force <= 1 -> RemoveSites(sol, 2) \cup RemoveSites(sol, 3)
    [] force = 2  -> UNION {JunctionsMoved(s) :
                      s \in RemoveSites(sol, Max({3, Cardinality(SitePositions(sol)) \div 8}))}
    [] force = 3  -> IF Len(sol.days) > 1
                       THEN {[sol EXCEPT !.days[d] = ClearDay(@)] : d \in DOMAIN sol.days}
                       ELSE {sol}
    [] force > 3  -> {[sol EXCEPT !.days = [d \in DOMAIN sol.days |-> ClearDay(sol.days[d])]]}

Shaken(sol, force) == {EvaluateScore(s) : s \in Destroyed(sol, force)}
=============================================================================
