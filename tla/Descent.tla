------------------------------- MODULE Descent -------------------------------
(***************************************************************************)
(* applyVND (optimizer.go): the loop over the five neighbourhoods of       *)
(* Moves, one action per move.  The deadline may pass at any time; it is   *)
(* read at the head of the loop and between two insertions or two swaps.   *)
(***************************************************************************)
EXTENDS Moves

CONSTANT MaxIter  \* iterations of applyRelocate (2000)

ASSUME IterationsAssumption == MaxIter \in Nat

VARIABLES
  sol,       \* the solution being improved
  k,         \* the neighbourhood; 5 ends the loop
  oldScore,  \* the score at the head of the loop
  list,      \* unvisited sites (SearchState); <<>> outside a neighbourhood
  iter,      \* iterations of applyRelocate, or junctions of tryHotelSwap, done
  stage,     \* "head", "inner" (in the switch), "cut" (left at the deadline), "done"
  expired    \* whether the deadline has passed

descentVars == <<sol, k, oldScore, list, iter, stage>>

StartDescent(s) ==
  /\ sol' = s
  /\ k' = 0
  /\ oldScore' = 0
  /\ list' = <<>>
  /\ iter' = 0
  /\ stage' = "head"

\* The head of the loop: the neighbourhoods that insert sites list them first.
Begin ==
  /\ stage = "head" /\ k < 5 /\ ~expired
  /\ oldScore' = sol.score
  /\ list' = IF k \in {0, 2, 3} THEN Unvisited(sol) ELSE <<>>
  /\ stage' = "inner"
  /\ UNCHANGED <<sol, k, iter>>

Stop ==
  /\ stage = "head" /\ (k = 5 \/ expired)
  /\ stage' = "done"
  /\ UNCHANGED <<sol, k, oldScore, list, iter>>

\* Where a loop that polls the deadline after each move goes.
Polled == IF expired THEN "cut" ELSE "inner"

InsertBest ==
  /\ stage = "inner" /\ k = 0
  /\ \E m \in BestInsertion(sol, list) :
       /\ sol' = Insert(sol, m[2], m[3], list[m[1]])
       /\ list' = MarkVisited(list, list[m[1]])
  /\ stage' = Polled
  /\ UNCHANGED <<k, oldScore, iter>>

ReverseFirst ==
  /\ stage = "inner" /\ k = 1
  /\ \E m \in FirstReversal(sol) : sol' = Reverse2Opt(sol, m)
  /\ UNCHANGED <<k, oldScore, list, iter, stage>>

SwapBest ==
  /\ stage = "inner" /\ k = 2
  /\ \E m \in BestSwap(sol, list) :
       /\ sol' = Swap(sol, m[1], m[2], list[m[3]])
       /\ list' = MarkUnvisited(MarkVisited(list, list[m[3]]), PointsAt(sol, m[1])[m[2]])
  /\ stage' = Polled
  /\ UNCHANGED <<k, oldScore, iter>>

Relocate ==
  /\ stage = "inner" /\ k = 3 /\ iter < MaxIter
  /\ \E d \in DOMAIN sol.days, type \in 0 .. 2 :
       \E r \in Relocations(sol, list, d, type) : sol' = r.sol /\ list' = r.list
  /\ iter' = iter + 1
  /\ UNCHANGED <<k, oldScore, stage>>

\* One junction of tryHotelSwap after the other.
SwapHotelNext ==
  /\ stage = "inner" /\ k = 4 /\ iter < Junctions(sol)
  /\ sol' = SwapHotel(sol, iter + 1)
  /\ iter' = iter + 1
  /\ UNCHANGED <<k, oldScore, list, stage>>

\* The switch is left when its neighbourhood is exhausted or at the deadline.
Exhausted ==
  \/ stage = "cut"
  \/ stage = "inner" /\ CASE k = 0 -> Insertions(sol, list) = {}
                          [] k = 1 -> Reversals(sol) = {}
                          [] k = 2 -> Swaps(sol, list) = {}
                          [] k = 3 -> iter = MaxIter
                          [] k = 4 -> iter = Junctions(sol)

\* EvaluateScore, which tryHotelSwap does not reach for a trip of a single day.
Rescored == IF k = 4 /\ NbDays <= 1 THEN sol ELSE EvaluateScore(sol)

\* Variant: an unchanged score restarts the descent.
FinishRestarting ==
  /\ Exhausted
  /\ LET s == Rescored
     IN  /\ sol' = s
         /\ k' = IF s.score >= oldScore THEN 0 ELSE k + 1
  /\ list' = <<>> /\ iter' = 0
  /\ stage' = "head"
  /\ UNCHANGED oldScore

\* Then the next neighbourhood, or the first one again if the score has grown.
Finish ==
  /\ Exhausted
  /\ LET s == Rescored
     IN  /\ sol' = s
         /\ k' = IF s.score > oldScore THEN 0 ELSE k + 1
  /\ list' = <<>> /\ iter' = 0
  /\ stage' = "head"
  /\ UNCHANGED oldScore

DescentStep ==
  \/ Begin \/ Stop \/ InsertBest \/ ReverseFirst \/ SwapBest \/ Relocate \/ SwapHotelNext
  \/ Finish

\* The deadline passes.
Expire == ~expired /\ expired' = TRUE
-----------------------------------------------------------------------------
(* Properties of a solution *)

\* The tour keeps its frame: every day leads from a hotel to a hotel through
\* sites only, the first and the last hotel of the trip are the given ones, and
\* a day starts where the day before ended.
Shape(s) ==
  /\ Len(s.days) = NbDays
  /\ \A d \in DOMAIN s.days :
       LET pts == PointsAt(s, d)
       IN  /\ Len(pts) >= 2
           /\ pts[1] \in Hotels /\ Last(pts) \in Hotels
           /\ \A i \in Inner(pts) : pts[i] \in Sites
           /\ d = 1 => pts[1] = StartHotelID
           /\ d = NbDays => Last(pts) = EndHotelID
           /\ d < NbDays => Last(pts) = PointsAt(s, d + 1)[1]

\* Each day's recorded distance is the length of its tour.
ExactDistances(s) ==
  \A d \in DOMAIN s.days : s.days[d].dist = TourLength(PointsAt(s, d))

\* Every day is feasible for evalDay.
AllFeasible(s) == \A d \in DOMAIN s.days : Feasible(d, PointsAt(s, d))

-----------------------------------------------------------------------------
(* What is left of a descent, the weightiest first: the score still to be  *)
(* won, whether a gain sends it back to the first neighbourhood, the       *)
(* neighbourhoods, the turns of the loops, and what reversals may shorten. *)

Remaining ==
  <<SumFunction(Score) - sol.score,
    IF stage \in {"inner", "cut"} /\ sol.score > oldScore THEN 1 ELSE 0,
    5 - k,
    CASE stage = "head" -> 3 [] stage = "inner" -> 2 [] stage = "cut" -> 1 [] stage = "done" -> 0,
    Max({MaxIter, NbDays}) - iter,
    SumFunction([d \in DOMAIN sol.days |-> sol.days[d].dist])>>
=============================================================================
