----------------------------- MODULE Validator -----------------------------
(***************************************************************************)
(* EvaluateSolution (validator.go): one pass over the days and their       *)
(* steps, which rewrites the legs as it goes and returns at the first      *)
(* defect.  A refused solution is left half rewritten: the legs up to the  *)
(* defect and the distances of the days before it are new, the totals old. *)
(***************************************************************************)
EXTENDS Itinerary

\* The local variables of a call; dist and time are those of the current day.
Entry(sol) ==
  [ok |-> TRUE, sol |-> sol, dist |-> 0, time |-> 0,
   visitedSites |-> {}, totalScore |-> 0, totalDist |-> 0]

\* DistFromPrev of a step.
WithLeg(sol, d, i, leg) == [sol EXCEPT !.days[d].steps[i].leg = leg]

Refused(e) == [e EXCEPT !.ok = FALSE]

\* The day's step i > 1, if no step before it is refused: the leg is written
\* before anything is tested.
Walk(e, d, i) ==
  LET steps == e.sol.days[d].steps
      pt    == steps[i].pt
      leg   == DistMatrix[steps[i - 1].pt][pt]
      visit == Max({e.time + leg, OpenTime[pt]})
      there == [e EXCEPT !.sol = WithLeg(@, d, i, leg),
                         !.dist = @ + leg, !.time = @ + leg]
  IN  IF pt \notin Sites
        THEN there
        ELSE IF pt \in e.visitedSites \/ visit > CloseTime[pt]
               THEN Refused(there)
               ELSE [there EXCEPT !.visitedSites = @ \cup {pt},
                                  !.totalScore = @ + Score[pt],
                                  !.time = visit + ServiceTime[pt]]

Onwards(e, d, i) == IF e.ok THEN Walk(e, d, i) ELSE e

StartsAt(d, pt) == pt \in Hotels /\ (d = 1 => pt = StartHotelID)
EndsAt(d, pt)   == pt \in Hotels /\ (d = NbDays => pt = EndHotelID)

\* Variant: the distance of the day before is carried along.
BeganOnwards(e, d) == [e EXCEPT !.sol = WithLeg(@, d, 1, 0), !.time = 0]

\* The first step of a day, and what an accepted day adds.
Began(e, d) == [e EXCEPT !.sol = WithLeg(@, d, 1, 0), !.dist = 0, !.time = 0]
Ended(e, d) == [e EXCEPT !.sol.days[d].dist = e.dist, !.totalDist = @ + e.dist]

EvaluateDay(e, d) ==
  LET steps == e.sol.days[d].steps
      walked[i \in DOMAIN steps] ==
        IF i = 1 THEN Began(e, d) ELSE Onwards(walked[i - 1], d, i)
      end   == walked[Len(steps)]
  IN  IF ~StartsAt(d, steps[1].pt)
        THEN Refused(e)
      ELSE IF end.ok /\ EndsAt(d, Last(steps).pt) /\ end.time <= DayMaxDist(d)
        THEN Ended(end, d)
        ELSE Refused(end)

\* The days up to d, those without a step being skipped.
Evaluated(sol) ==
  LET upTo[d \in 0 .. Len(sol.days)] ==
        IF d = 0
          THEN Entry(sol)
          ELSE LET e == upTo[d - 1]
               IN  IF e.ok /\ e.sol.days[d].steps # <<>> THEN EvaluateDay(e, d) ELSE e
  IN  upTo[Len(sol.days)]

\* The answer, and what the call leaves of the solution.
EvaluateSolution(sol) ==
  LET end == Evaluated(sol)
  IN  [valid |-> end.ok,
       sol   |-> IF end.ok
                   THEN [end.sol EXCEPT !.score = end.totalScore, !.dist = end.totalDist]
                   ELSE end.sol]
=============================================================================
