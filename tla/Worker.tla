------------------------------- MODULE Worker -------------------------------
(***************************************************************************)
(* LocalSearch with one goroutine, on real tours: SolveGreedy and the      *)
(* caller's descent give the seed; then a GRASP worker constructs, a VNS   *)
(* worker shakes its record, and both descend and judge what comes out;    *)
(* the caller compares the worker's record with the seed.  The coordina-   *)
(* tion of several workers is in module LocalSearch; there is no target    *)
(* score here.                                                             *)
(***************************************************************************)
EXTENDS Greedy, Descent, Shaking, Validator

CONSTANTS
  Patience,  \* rounds without improvement that are tolerated (5)
  MaxForce   \* the largest shaking force (4)

ASSUME ForceAssumption == Patience \in Nat /\ MaxForce \in Nat \ {0}

VARIABLES
  kind,      \* "GRASP" or "VNS"
  phase,     \* "construct", "descend", "start", "head", "exited", "returned"
  seeding,   \* whether this is the caller's own construction and descent
  bestSol,   \* the caller's solution
  record,    \* localBest
  force,     \* shakeForce
  noImprove  \* noImproveCount

workerVars == <<kind, phase, seeding, bestSol, record, force, noImprove>>
vars       == <<greedyVars, descentVars, expired, workerVars>>

NoSolution == [days |-> <<>>, score |-> 0, dist |-> 0]

Init ==
  /\ rclSize = 1 /\ ratioMode = 0 /\ days = <<>> /\ tour = <<StartHotelID>> /\ clock = 0
  /\ sol = NoSolution /\ k = 0 /\ oldScore = 0 /\ list = <<>> /\ iter = 0
  /\ stage = "head" /\ expired = FALSE
  /\ kind \in {"GRASP", "VNS"}
  /\ phase = "construct" /\ seeding = TRUE
  /\ bestSol = NoSolution /\ record = NoSolution /\ force = 1 /\ noImprove = 0

-----------------------------------------------------------------------------

Construct ==
  /\ phase = "construct" /\ GreedyStep
  /\ UNCHANGED <<descentVars, expired, workerVars>>

\* The construction returns and the descent begins.  The next construction is
\* a worker's: its parameters are fixed when the worker is created.
Constructed ==
  /\ phase = "construct" /\ Built
  /\ StartDescent(GreedySolution)
  /\ \E rcl \in RclSizes, mode \in RatioModes :
       /\ ~seeding => rcl = rclSize /\ mode = ratioMode
       /\ StartGreedy(rcl, mode)
  /\ phase' = "descend"
  /\ UNCHANGED <<expired, kind, seeding, bestSol, record, force, noImprove>>

Descend ==
  /\ phase = "descend" /\ DescentStep
  /\ UNCHANGED <<greedyVars, expired, workerVars>>

\* The caller's descent gives the seed, whether it is valid or not.
Seeded ==
  /\ phase = "descend" /\ stage = "done" /\ seeding
  /\ bestSol' = sol
  /\ seeding' = FALSE
  /\ phase' = "start"
  /\ UNCHANGED <<greedyVars, descentVars, expired, kind, record, force, noImprove>>

\* When the time is up it is returned as it is ...
ReturnSeed ==
  /\ phase = "start" /\ expired
  /\ phase' = "returned"
  /\ UNCHANGED <<greedyVars, descentVars, expired, kind, seeding, bestSol, record, force, noImprove>>

\* ... otherwise the worker starts from it: localBest := bestSol.Clone().
Start ==
  /\ phase = "start" /\ ~expired
  /\ record' = bestSol
  /\ phase' = "head"
  /\ UNCHANGED <<greedyVars, descentVars, expired, kind, seeding, bestSol, force, noImprove>>

\* A round of a GRASP worker ...
Restart ==
  /\ phase = "head" /\ ~expired /\ kind = "GRASP"
  /\ phase' = "construct"
  /\ UNCHANGED <<greedyVars, descentVars, expired, kind, seeding, bestSol, record, force, noImprove>>

\* ... and of a VNS worker.
Shake ==
  /\ phase = "head" /\ ~expired /\ kind = "VNS"
  /\ \E s \in Shaken(record, force) : StartDescent(s)
  /\ phase' = "descend"
  /\ UNCHANGED <<greedyVars, expired, kind, seeding, bestSol, record, force, noImprove>>

Exit ==
  /\ phase = "head" /\ expired
  /\ phase' = "exited"
  /\ UNCHANGED <<greedyVars, descentVars, expired, kind, seeding, bestSol, record, force, noImprove>>

\* Variant: the force is not brought back to 1.
EscalateCapped ==
  \/ /\ kind = "GRASP"
     /\ UNCHANGED <<force, noImprove>>
  \/ /\ kind = "VNS" /\ noImprove + 1 <= Patience
     /\ noImprove' = noImprove + 1
     /\ UNCHANGED force
  \/ /\ kind = "VNS" /\ noImprove + 1 > Patience
     /\ noImprove' = 0
     /\ force' = IF force + 1 > MaxForce THEN MaxForce ELSE force + 1

\* Variant: the bound is tested before the force is raised.
EscalateBeyond ==
  \/ /\ kind = "GRASP"
     /\ UNCHANGED <<force, noImprove>>
  \/ /\ kind = "VNS" /\ noImprove + 1 <= Patience
     /\ noImprove' = noImprove + 1
     /\ UNCHANGED force
  \/ /\ kind = "VNS" /\ noImprove + 1 > Patience
     /\ noImprove' = 0
     /\ force' = IF force > MaxForce THEN 1 ELSE force + 1

\* A round without improvement: after Patience of them the force grows, and
\* starts again at 1 beyond MaxForce.  Only VNS workers have a force.
Escalate ==
  \/ /\ kind = "GRASP"
     /\ UNCHANGED <<force, noImprove>>
  \/ /\ kind = "VNS" /\ noImprove + 1 <= Patience
     /\ noImprove' = noImprove + 1
     /\ UNCHANGED force
  \/ /\ kind = "VNS" /\ noImprove + 1 > Patience
     /\ noImprove' = 0
     /\ force' = IF force + 1 > MaxForce THEN 1 ELSE force + 1

Judging == phase = "descend" /\ stage = "done" /\ ~seeding

Judged == EvaluateSolution(sol)

\* EvaluateSolution(candidate) refuses the candidate, or it is no better.
Refuse ==
  /\ Judging
  /\ ~Judged.valid \/ ~Beats(Judged.sol, record)
  /\ sol' = Judged.sol
  /\ Escalate
  /\ phase' = "head"
  /\ UNCHANGED <<greedyVars, k, oldScore, list, iter, stage, expired, kind, seeding, bestSol, record>>

\* Variant: what EvaluateSolution recomputes is not written back.
AcceptStale ==
  /\ Judging
  /\ Judged.valid /\ Beats(sol, record)
  /\ record' = sol
  /\ force' = 1 /\ noImprove' = 0
  /\ phase' = "head"
  /\ UNCHANGED <<greedyVars, descentVars, expired, kind, seeding, bestSol>>

\* Variant: the answer of EvaluateSolution is dropped.
AcceptUnchecked ==
  /\ Judging
  /\ Beats(Judged.sol, record)
  /\ sol' = Judged.sol /\ record' = Judged.sol
  /\ force' = 1 /\ noImprove' = 0
  /\ phase' = "head"
  /\ UNCHANGED <<greedyVars, k, oldScore, list, iter, stage, expired, kind, seeding, bestSol>>

\* EvaluateSolution accepts and recomputes it, and it is better.
Accept ==
  /\ Judging
  /\ Judged.valid /\ Beats(Judged.sol, record)
  /\ sol' = Judged.sol /\ record' = Judged.sol
  /\ force' = 1 /\ noImprove' = 0
  /\ phase' = "head"
  /\ UNCHANGED <<greedyVars, k, oldScore, list, iter, stage, expired, kind, seeding, bestSol>>

\* The collecting loop and the return: EvaluateSolution rewrites the published
\* record, EvaluateScore what is returned.
Collect ==
  /\ phase = "exited"
  /\ LET published == EvaluateSolution(record)
         kept == published.valid /\ Beats(published.sol, bestSol)
     IN  /\ record' = published.sol
         /\ bestSol' = EvaluateScore(IF kept THEN published.sol ELSE bestSol)
  /\ phase' = "returned"
  /\ UNCHANGED <<greedyVars, descentVars, expired, kind, seeding, force, noImprove>>

DeadlinePasses ==
  /\ phase \notin {"exited", "returned"} /\ Expire
  /\ UNCHANGED <<greedyVars, descentVars, workerVars>>

Step ==
  \/ Construct \/ Constructed \/ Descend \/ Seeded \/ ReturnSeed \/ Start
  \/ Restart \/ Shake \/ Refuse \/ Accept \/ Exit \/ Collect

Returned == phase = "returned" /\ UNCHANGED vars

Next == Step \/ DeadlinePasses \/ Returned

Spec == Init /\ [][Next]_vars

\* The goroutines are scheduled until the caller returns; the deadline need never
\* pass.  Some step is enabled in every state before the return, so this is weak
\* fairness of Step; it is written without ENABLED, which TLC evaluates slowly here.
FairSpec == Spec /\ (<>(phase = "returned") \/ []<><<Step>>_vars)
-----------------------------------------------------------------------------
(* Properties *)

TypeOK ==
  /\ GreedyTypeOK
  /\ sol \in Solutions /\ bestSol \in Solutions /\ record \in Solutions
  /\ k \in 0 .. 5 /\ oldScore \in Nat /\ iter \in Nat /\ (iter <= MaxIter \/ iter < NbDays)
  /\ list \in Seq(Sites)
  /\ stage \in {"head", "inner", "cut", "done"}
  /\ expired \in BOOLEAN /\ seeding \in BOOLEAN
  /\ kind \in {"GRASP", "VNS"}
  /\ phase \in {"construct", "descend", "start", "head", "exited", "returned"}
  /\ force \in 1 .. MaxForce
  /\ noImprove \in 0 .. Patience

Descending == phase = "descend"

\* The worker has a record.
Joined == record # NoSolution

\* The search never breaks the frame of a trip: hotels at both ends of every
\* day, the given ones at both ends of the trip, each day starting where the day
\* before ended.  EvaluateSolution does not look at the last; it holds because
\* shaking and hotel swaps move both days of a junction ("dernier step du jour d =
\* premier step du jour d+1").
TourShape ==
  /\ Descending => Shape(sol)
  /\ ~seeding => Shape(bestSol)
  /\ Joined => Shape(record)

\* DistTotal, which the code maintains move by move and recomputes by three
\* different formulas when shaking, is always the length of the day's tour:
\* pruning and the comparisons of 2-opt, relocation and hotel swap start from it.
DistExact == Descending => ExactDistances(sol)

\* TotalScore, which insertions and swaps update incrementally, is always the
\* sum over the sites of the tour.
ScoreExact == Descending => sol.score = EvaluateScore(sol).score

\* The list of unvisited sites is the complement of the tour, without repetition,
\* after any sequence of swap-removals, re-insertions and relocations; so no move
\* visits a site twice.
UnvisitedExact ==
  Descending =>
    /\ NoSiteTwice(sol.days)
    /\ stage \in {"inner", "cut"} /\ k \in {0, 2, 3} =>
         /\ ToSet(list) = Sites \ VisitedIn(sol)
         /\ Len(list) = Cardinality(ToSet(list))

\* The distance test that precedes an evaluation cuts off no feasible move, for
\* any unvisited site, day and position: waiting and visiting only add to it.
PruningSound ==
  Descending =>
    \A u \in Sites \ VisitedIn(sol), d \in DOMAIN sol.days :
      LET pts == PointsAt(sol, d)
      IN  /\ \A pos \in Slots(pts) :
               Feasible(d, InsertAt(pts, pos, u)) => ~Pruned(sol, d, Detour(pts, pos, u))
          /\ \A pos \in Inner(pts) :
               Feasible(d, ReplaceAt(pts, pos, u)) => ~Pruned(sol, d, Exchange(pts, pos, u))

\* evalDay, which the moves are tested with, and EvaluateSolution, which decides
\* what is kept, agree on every tour the search produces, although one tests
\* the budget at each step and the other at the end of the day.
EvaluatorsAgree == Descending => (EvaluateSolution(sol).valid <=> AllFeasible(sol))

\* EvaluateSolution, which returns at the first defect and writes while it tests,
\* answers what the rules of a trip say, and what it accepts has every leg,
\* distance and total recomputed: none of a day before, none left by shaking.
EvaluationExact ==
  Descending =>
    LET result == EvaluateSolution(sol)
    IN  /\ result.valid <=> Valid(sol)
        /\ result.valid => result.sol = Refreshed(sol)

\* The record is compared by its true score and distance: no leg of it is one
\* that shaking left behind.
RecordExact ==
  /\ ~seeding => bestSol = Refreshed(bestSol)
  /\ Joined => record = Refreshed(record)

\* With real tours, descents and evaluations in the place of arbitrary candidates,
\* LocalSearch still does what Incumbents says: neither the shakes of the worker,
\* nor the second evaluation of its record in the collecting loop, nor the last
\* EvaluateScore puts another score, distance or validity in its place.
NoRank == [score |-> 0, dist |-> -1, valid |-> FALSE]

Rank(s) ==
  IF s = NoSolution THEN NoRank
                    ELSE [score |-> s.score, dist |-> s.dist, valid |-> Valid(s)]

Promise == INSTANCE Incumbents WITH
  Helpers <- {1}, Solutions <- [score : Nat, dist : Nat, valid : BOOLEAN],
  Nothing <- NoRank,
  own <- Rank(bestSol), held <- [w \in {1} |-> Rank(record)], over <- (phase = "returned")

KeepsPromise == Promise!Spec

\* The seed is not validated before it becomes every worker's record.  If it is
\* refused, then for one reason only, which the descent has not removed: its last
\* day visits nothing and leads to an EndHotelID out of reach.
RefusedRecord ==
  Joined /\ ~Valid(record) =>
    /\ Len(record.days[NbDays].steps) = 2
    /\ record.days[NbDays].dist > DayMaxDist(NbDays)
    /\ \A d \in 1 .. NbDays - 1 : Feasible(d, PointsAt(record, d))

\* From a valid record only the shake that moves a junction (force 2) leads to a
\* trip EvaluateSolution refuses, before or after the descent: taking sites out
\* never makes the rest of a day late, in whatever order they are taken.
OnlyJunctionsBreak ==
  Descending /\ ~seeding /\ kind = "VNS" /\ Valid(record) /\ force # 2 => Valid(sol)

\* A descent never makes a feasible trip infeasible.
FeasibleStays ==
  [][Descending /\ Descending' /\ AllFeasible(sol) => AllFeasible(sol')]_vars

\* A descent never lowers the score: moves that shorten days or change hotels
\* lose no site.
ScoreNeverFalls ==
  [][Descending /\ Descending' => sol'.score >= sol.score]_vars

\* A descent ends by itself, without its deadline: the neighbourhood index only
\* goes back to 0 when the score has grown, and reversals shorten a day.
DescentEnds == Descending ~> ~Descending

\* Nothing but its own steps is needed for that: each of them, in whichever of the
\* nested loops and after whatever draws, leaves less to do, and there are no
\* infinite falls in natural numbers.  A restart at the first neighbourhood is
\* paid for by score, and an unchanged score by one loop or the other.
EndNearer ==
  [][Descending /\ Descending' /\ UNCHANGED expired =>
       Remaining \in Seq(Nat) /\ Remaining' \in Seq(Nat) /\ LexLess(Remaining', Remaining)]_vars

\* A VNS worker that is not stopped uses its whole range of forces again and
\* again: it neither stays with the weakest shake nor with the strongest.
ForcesCycle ==
  kind = "VNS" /\ []~expired => []<>(force = 1) /\ []<>(force = MaxForce)

\* evaluator.go says of a day's distance: "Si le solver a déjà calculé
\* DistTotal, on l'utilise".
TotalFromDays ==
  Descending => sol.dist = SumFunction([d \in DOMAIN sol.days |-> sol.days[d].dist])

\* models.go says of DayMaxDist: "retourne le budget distance pour le jour
\* donné".  A site that is reached in its opening hours, in a day within the
\* budget of distance, can be inserted.
BudgetIsDistance ==
  Descending =>
    \A u \in Sites \ VisitedIn(sol), d \in DOMAIN sol.days :
      \A pos \in Slots(PointsAt(sol, d)) :
        LET pts == InsertAt(PointsAt(sol, d), pos, u)
        IN  /\ TourLength(pts) <= DayMaxDist(d)
            /\ \A i \in DOMAIN pts : pts[i] \in Sites => Arrival(pts, i) <= CloseTime[pts[i]]
            => CanInsert(sol, d, pos, u)
=============================================================================
