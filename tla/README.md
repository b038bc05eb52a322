# Verification of GoTouriste

GoTouriste solves the *orienteering problem with hotel selection and time
windows*: a trip of several days visits sites, each worth a score, within
opening hours; every night is spent in a hotel; each day has a budget.  The
program reads 36 instances, builds a greedy trip for each, improves it by local
search on all cores for at most two minutes, and keeps the best trip ever found
in `solutions/`.

This directory holds TLA+ models of that program, the configurations TLC checks
them with, and proofs for TLAPS.  `PROJECT.json` lists the components, runs,
mutated definitions, source lines of every definition, findings, hazards and
theorems.

## 1. The system

| Part | Source | State | Operations |
|---|---|---|---|
| Main loop, records on disk | `main.go`, `writer.go` | `solutions/Instance<n>.sol` and `.time` | load, solve, validate with fallback, compare with what is on disk, rewrite both files |
| Coordination of the workers | `optimizer.go` 748-919 | the caller's record, a private record per goroutine, the slice `results`, the channel `done`, the clock | seed, spawn, poll, publish, close `done`, wait, collect |
| A worker's rounds | `optimizer.go` 786-897 | record, shaking force, rounds without improvement | construct or shake, descend, judge, accept or escalate |
| Descent | `optimizer.go` 16-602 | a trip, the list of unvisited sites, the neighbourhood index | insertion, 2-opt, swap, relocation, hotel swap |
| Shaking | `optimizer.go` 606-744 | a trip | remove sites, move a hotel, clear a day |
| Greedy construction | `solver.go` | the trip so far, sites visited, clock, hotel of the day | admissible sites, ratio, candidate list, end of a day |
| Instances, solutions, evaluation | `models.go`, `evaluator.go`, `validator.go`, `evalDay*` in `optimizer.go` | none of their own | length, arrival times, feasibility, score |
| Parser | `parser.go` | lines read, counters, points and their two lists of IDs | read header, budgets, points; matrix; errors at any line |
| Instance data, Go distribution | `instances/`, `go/` | | data and third-party code |

**How they interact.**  `main` calls the parser, `SolveGreedy`, `LocalSearch`,
`EvaluateSolution` and `WriteSolution` one after the other, per instance.
`LocalSearch` improves the greedy trip by one descent (the *seed*) and starts as
many goroutines as there are cores (at least four).  The first half (GRASP)
construct randomised greedy trips, the others (VNS) shake their record; all descend from what they
have, and judge the result by `EvaluateSolution` and its score and distance.
They share nothing but the caller's seed (read only), one slot each of
`results`, and `done`, which the first to reach the known optimum closes.

**What is hard about it.**

* *Concurrency*: `done` is tested and closed in two steps; results are written
  without a lock and read after `wg.Wait`; four ways out of a worker must all
  publish.
* *Time*: the deadline is looked at between moves, not between the end of a
  descent and the acceptance of its result.
* *Redundant state*: a trip stores its distance per day, per step and in total,
  its score, and the hotel between two days twice; moves update them
  incrementally, by formulas that differ from the evaluators'; the list of
  unvisited sites is kept beside the trip by swap-removal.
* *Several evaluators*: `evalDayFast` (moves), `EvaluateSolution`
  (acceptance), the reachability tests of the greedy construction.
* *Partial failure*: a seed or greedy trip that `EvaluateSolution` refuses;
  files half written; errors that are dropped; lines of an instance file that are
  skipped, and reading errors in the middle of one.

What makes each part correct is stated in its module under *Properties*;
section 4 summarises it.

## 2. Modules

```
                                  Trips (instances)
                                    │
 Itinerary ──┬─ Moves ── Descent ─┬─ Worker ─────────┬── MCWorker
             ├─ Shaking ──────────┤    │             │
             ├─ Greedy ───────────┤    │ refines   TourLemmas ── WorkerProofs
             └─ Validator ────────┘    v                          │
                                   Incumbents                VisitProofs
                                                                  │
                                                             TotalsProofs
                                       ^ refines
                                       │
                                  LocalSearch ──┬── LocalSearchProofs
                                                └── MCLocalSearch

 BestRecord <── refines ── Records ──┬── RecordsProofs      Parser ──┬── ParserProofs
                                     └── MCRecords                   └── MCParser
```

A line to the right or down is `EXTENDS`; "refines" is `INSTANCE ... WITH` a
refinement mapping, with the abstract specification as a property.  `TourLemmas`
and `ParserProofs` also extend `Induction`, which is about no program: it has
induction over numbers in the form the provers can use (section 5).

* **`LocalSearch`** models the coordination.  A solution is abstracted to what
  the coordination reads of it: score, distance, and what `EvaluateSolution`
  answers.  A candidate is any member of `Candidates`, so the module covers
  whatever the search may find.  One action per statement that another
  goroutine or the clock can get in front of: the poll of `done`, the search, the
  judgement, the write to `results`, the test of `done`, the close.  `Tick`
  advances the clock and brings each worker's own deadline nearer (`left`, which
  a worker computes when it *starts running*, not when it is spawned).
* **`Incumbents`** is what `LocalSearch` promises, whatever it does in parallel: the
  caller has a solution, helpers start from it and only move to valid, strictly
  better ones, and what is returned is one of these that no valid one of a helper
  beats.  It ties the two levels together: `LocalSearch` implements it with
  arbitrary candidates and any number of workers, `Worker` with real tours,
  descents and evaluations.
* **`Itinerary`** has what all tour modules share: points by index, days as steps with
  the recorded leg to the point before, lengths and arrival times, the answer of
  `evalDay`/`evalDayFast` (`Feasible`), `EvaluateScore`, and the rules of a trip
  (`Valid`) and a trip with everything recomputed (`Refreshed`), which are not
  code but what `EvaluateSolution` is held against.
* **`Validator`** is `EvaluateSolution` as a pass over days and steps with the
  accumulators it has: what it writes into the trip, in which order, and what is
  left half rewritten in a trip it refuses.
* **`Greedy`**: one action visits a site or ends a day, over all ratio modes and
  candidate list sizes.  The random choice from the candidate list is
  nondeterministic.
* **`Moves`** holds the five neighbourhoods as operators (all candidates of a
  move, its test, the tie-break, and its effect on trip and list);
  **`Descent`** is the loop of `applyVND` over them, one action per move (per
  attempt in relocation, per junction in hotel swap), with every deadline test.
  A test that finds the deadline passed ends the inner loop (`cut`) or the descent.
* **`Shaking`**: the four forces, as the set of trips they may produce.  The
  steps that stay keep the leg they had, as in the code.
* **`Worker`** composes the tour modules into `LocalSearch` with one goroutine: the
  caller's construction and descent (`seeding`), the return of the seed when the
  time is up (`ReturnSeed`), the rounds of one GRASP or VNS worker (`Restart`,
  `Shake`, `Descend`, `Accept`, `Refuse`), and the collecting loop, which evaluates
  the published record again (`Collect`).  `bestSol` is the caller's solution,
  `record` the worker's `localBest`.  There is no target in it; that is
  `LocalSearch`'s business.
* **`Records`** models `main` and `WriteSolution`: every write to the two files
  of an instance is an action; the process may be killed between any two, a
  write may fail, an existing file may be impossible to open or read (main then takes
  it for an absent one, and goes on to the next instance if it is the instance file),
  and the program is run again.  Solutions are abstracted to score and validity.
* **`BestRecord`** is the abstract specification of `solutions/`: a record per
  instance that only a better one replaces, unless a mishap damages that one
  record.  Each fault of `Records` is at most one mishap; one that cannot be read
  counts as lost when main replaces it.
* **`Parser`** is `LoadInstance` as a state machine: a scanner delivers line after
  line, four loops (header, Tmax, Td, points) consume them, and the file may
  end or reading may fail in front of any line.
* **`Trips`** holds two small instances: *crossed*, whose greedy trip is valid and
  improved by every kind of move, and *tight*, whose greedy trip ends its first
  day at a hotel the last day cannot be completed from.

Definitions carry the names of the functions they model where TLA+ allows it.
Definitions headed *Variant* are plausible wrong versions of the definition
below them.  No specification uses them; they show that each property notices.

### Abstractions

* Distances, times and scores are integers.  The scores of the instances are, but
  coordinates and opening hours have decimals and distances are Euclidean: rounding,
  in particular that of `DistTotal + deltaDist` against a sum in tour order, is not
  modelled.
* Random draws are nondeterministic, so a property holds for every seed of the
  generator.  `applyRelocate`'s number of attempts (2000 in the code) is `MaxIter`.
* In the tour modules the deadline is a flag that may be set at any moment.
* Points are indices, as the distance matrix uses them.  The metric is a
  constant of the modules and Manhattan in the instances.
* Writing a line is atomic in `Records`: it happens or it does not.
  Scores are whole, so writing one with `%.0f` and reading it back changes nothing.
* Console output, the first load of an instance to warm the cache, and the
  formatting of solution lines are left out.
* The times of a step (arrival, wait, departure) are recomputed by every reader
  except the construction, which carries them along as `clock`; they are not kept
  in the steps of the model.
* In `Parser` a line is its fields (`strings.Fields`), a blank one has none.  A
  field is an integer, a number with decimals, a name that begins with H, or
  another word; `Atoi` gives 0 for all but the first, `ParseFloat` 0 for the last
  two, as the dropped errors do.  Numbers are of either sign: several of the files
  (`Inst1.txt`, `Inst28.txt`) have negative coordinates.  The distance of two places is
  a constant of the module, assumed to be a metric.
* What a file *of the format* is, `Parser!OfTheFormat` says, and the repository says two
  things about it: `instances/Format description.txt` (lines 5 and 33) has N - 2 sites
  after the H + 2 hotels, and each of the 36 files has N - 1.  The parser counts
  neither (it reads rows to the end), so files with either number are of the format
  here.  Scores, service times, opening hours and budgets are not negative in any file,
  and the format asks it of them; of coordinates it asks nothing.

## 3. Runs

| Run | Instance and bounds | What it shows |
|---|---|---|
| `instance_file` | files of up to 7 lines of 9 kinds, reading error at any line; negative coordinates and counts | IDs are positions, no partial instance, files of the format (with N - 2 or N - 1 sites) give a usable instance |
| `records` | 3 instances (one not loadable), 2 day lines, 2 faults (kills, unreadable files, failing writes) | refinement of `BestRecord`, agreement of the two files, only valid solutions, lost records regained |
| `stale_time` | 1 instance, 2 durations, 1 kill | **violation** of `WritesIfBetter` |
| `lost_score_line` | 1 instance, 1 failing write | **violation** of `SuccessMeansComplete` |
| `coordination` | 3 workers, 3 seeds, 4 candidates, duration 1 | the safety properties of `LocalSearch`, and that it implements `Incumbents` |
| `termination` | 2 workers, 3 seeds, 4 candidates, duration 2 | `LocalSearch` returns or panics if time passes; closing `done` stops everybody without a deadline |
| `double_close` | 2 workers | **violation** of `NeverPanics` |
| `late_result` | 2 workers, no known optimum, duration 1 | **violation** of `FoundInTime` |
| `crossed_trip` | crossed trip, both worker kinds, patience 1, 1 relocation per neighbourhood | redundant state of the search is exact, evaluators agree, each step of a descent leaves less to do, descents end, the force schedule cycles |
| `tight_trip` | tight trip, both worker kinds, 4 ratio modes, list sizes 3 and 4, 2 relocations | the construction, `EvaluateSolution` on trips it refuses, and that a worker implements `Incumbents` |
| `stale_totals` | tight trip | **violation** of `TotalFromDays` |
| `time_budget` | crossed trip, no service times | **violation** of `BudgetIsDistance` |

**Why the bounds are enough.**

* Candidates of `LocalSearch` are compared only with each other and with the
  target; the sets hold each relation that decides a branch: below and at the target,
  equal score with a longer and a shorter distance, refused and better than
  everything.  Two workers give every race on `done` (the test and close of one
  against those of another); the third is for the collecting loop and for a worker
  that two finishers stop.  (The code starts at least four; a fourth has no role
  of its own, and the proofs are for any number.)  `MinSlice` is one tick, and a duration of two (in
  `termination`) has states in which one worker has time left and another has not.
* The trips have two days because hotels are shared by neighbouring
  days, three hotels so that there is an alternative at the junction, and
  four or five sites so that a day holds up to three: enough for removal of
  several steps, reversal of an inner segment and relocation across days.
  Opening hours make order matter and waiting happen.
  Reachability was looked at: each neighbourhood, each of the four forces and each
  outcome of the judgement occurs.  `Patience` is 0 or 1 where the code has 5;
  only reaching it matters.  `MaxIter` is 2 on the tight trip, so that a relocation
  follows another, and 1 on the crossed one, where each relocation has many
  outcomes; consecutive rounds let relocations follow each other there too.
  The properties proved in `WorkerProofs`, `VisitProofs` and
  `TotalsProofs` hold for any trip and any number of relocations; the bounds matter for the others.
* In `Records` a score is below, at or above the score of another result, and
  two durations order equal scores.  Two day lines distinguish none, some and all
  written.  Two faults allow a kill after an unnoticed failure, a kill while a record
  is replaced that could not be read, and damage to two records.  What main does to one
  instance does not depend on the others; three show the loop, a skipped instance and
  a fault beside an untouched record.
* Seven lines of an instance file are the header, Tmax, Td, the fewest points
  of the format (start and end hotel, and for N = 2 no site or one) and two more
  lines, which may be a site, a row that is skipped, or blank.  The kinds of lines cover each branch of
  each loop.

`LocalSearch` stops when it has returned or the process has panicked, and a
worker when its caller has returned, the parser when it has: all have an explicit
stuttering step there, so that deadlock is checked in every run.

**Fairness.**

* `LocalSearch!Scheduling` is weak fairness of the caller and of every worker:
  the Go scheduler is preemptive and runs every runnable goroutine.  A worker that
  waits for nothing stays runnable; `wg.Wait` is enabled for good once the
  counter is zero.  Nothing is assumed of the clock: `Terminates` has it as a
  hypothesis that time passes (a VNS worker loops until its deadline when it does
  not find the target), and `DoneStopsAll` does without.
* `Worker!FairSpec` says that the goroutines go on until the caller has returned.  It is weak
  fairness of `Step` spelled out: some step is enabled until then, and TLC
  evaluates `ENABLED` of these actions slowly.  It does *not* say that the
  deadline passes: `DescentEnds` holds without it.
* `Records!FairSpec` says that a process that is not killed goes on, and that
  somebody runs the program again: the records only make sense under that
  assumption, since one run cannot repair what killed it.  Faults are
  bounded, not fair.

## 4. What the properties say

**Coordination.**  Every worker that has left has published its last record
(`ResultsComplete`).  `done` is closed only when a valid result at the
target is published (`ClosedForAReason`), and then the returned solution is at the
target (`TargetIsReturned`).  Nothing better is dropped (`NoRecordDropped`).
All of it together, `LocalSearch` implements `Incumbents` (`KeepsPromise`).  The
caller's variables, which goroutines read without a lock as late as their first
statement, do not change meanwhile (`NoSharedWrite`).

**Tours.**  The redundant state is exact: `DistExact`, `ScoreExact`,
`UnvisitedExact`, `RecordExact`; the frame of the trip survives every move and
shake (`TourShape`), including the agreement of neighbouring days on their
hotel, which `EvaluateSolution` does not test.  The distance test before an
evaluation cuts off no feasible move (`PruningSound`); the evaluators agree on
every trip the search produces (`EvaluatorsAgree`); `EvaluateSolution`, which writes
while it tests, answers what the rules of a trip say and recomputes all of what it
accepts (`EvaluationExact`); a descent breaks no
feasible trip and lowers no score (`FeasibleStays`, `ScoreNeverFalls`).  Only
the second force makes a valid trip invalid (`OnlyJunctionsBreak`).  A record that
`EvaluateSolution` refuses, which is possible since the seed is not
validated, has a last day that visits nothing and cannot reach its hotel
(`RefusedRecord`).  Descents end (`DescentEnds`), and why: every step of one, in
whichever of the nested loops, leaves less in the tuple `Remaining` (`EndNearer`): the score
still to be won, then a restart at the first neighbourhood that a gain has earned, the
neighbourhoods to come, the place in the loop, the turns of a counted loop, and
the distance that reversals shorten.  `Remaining` is not a variable of the code.
No force is left out for ever (`ForcesCycle`).

**Construction.**  The clock of the greedy construction is that of the evaluators
(`ClockAgrees`), the day always ends at a hotel within its budget except
the last (`HotelInReach`, `OnlyLastDayFails`).

`ClockAgrees` and `OnlyLastDayFails` depend on `OpenTime <= CloseTime`: the construction tests the *arrival*
against the closing time, the evaluators the *start of the visit*.  The sites of
the instances have it, but the parser does not check it; for a site that closes
before it opens, greedy trips that visit it
would be refused.

**Records.**  Whatever run is killed, file cannot be read or write fails, the files
refine `BestRecord` (`OnlyImproves`): records are only replaced by better ones, but for
one record per fault, damaged or, when it could not be read, replaced by whatever was
found.  The two files of an instance belong together, but for one
instance per fault (`FilesAgree`), and what is written is valid
(`OnlyValidWritten`).  A record whose score line was lost is complete again
once the faults have ended (`LostIsRegained`).

**Parser.**  However rows are skipped, IDs are indices and each is a hotel's or a
site's (`IdsArePositions`), on which everything downstream relies.  A reading
error, in whichever of the four loops, never lets a part of a file pass for an
instance (`WholeFileOrError`), and a file of the format, with the number of sites of the
description or of the files, gives what the tour modules assume of their constants
(`FormatIsUsable`).

**What they leave open.**  `Incumbents` lets a seed stand that `EvaluateSolution`
refuses: valid results of a lower score are dropped for it, by the workers and at the
end, and none of the properties says otherwise (no document says what should happen).
An empty `.time` file, left by a kill between the emptying and the writing of it, reads as
time 0, which no result of the same score can beat; in `BestRecord` that is the
mishap's damage, and `LostIsRegained` is about the score line only.

### Findings

1. **Double close** (`optimizer.go:824-828`, `886-890`).  Two workers that reach
   the target can both find `done` open and both close it; the second close
   panics and ends the program, for all remaining instances.  A
   `sync.Once`, or closing in the caller, would do.
2. **Late results** (`optimizer.go:819`).  A worker begins a round before its
   deadline; time passes while it searches, and its candidate is judged after the
   deadline, accepted and returned, with a time beyond the two minutes.
3. **Stale totals** (`evaluator.go:12`).  `EvaluateScore` sums legs of steps
   whose predecessor a shake has removed, though its comment says it uses
   `DistTotal`.  The record is not affected (`RecordExact`), because
   `EvaluateSolution` recomputes the legs before the comparison.
4. **Budget of time** (`models.go:100`, `validator.go:89`).  `DayMaxDist` is a budget of
   distance by every description, and is compared with the time of the day, waiting
   and service included.
5. **Stale time** (`main.go:134`).  A solution is on disk with its time; a run
   replaces its `.sol` file by a better one and is killed before the `.time` file.
   Later a result with the score of the better one, quicker than it but not than the
   solution that is gone, is thrown away: the time on disk is that of the latter.
6. **Unnoticed loss of the score line** (`writer.go:20`).  `WriteSolution` reports
   success for a file without its first line.

## 5. Proofs

The proofs hold for all values of the constants that satisfy the named
assumptions of the modules; TLC evaluates those assumptions on the instances above.

**`LocalSearchProofs`** proves the type invariant, the four safety invariants,
`NoSharedWrite` and the refinement of `Incumbents`, for any number of workers, any
seeds, candidates, target and duration.  None of the four is inductive.  The inductive
invariant `IInv` adds three conjuncts:

* `Phases`: where the workers may be, given where the caller is.  No worker is
  alive before the spawning loop has come to it, and none after `wg.Wait`; this
  is what makes the caller's variables stable while they are read.
* `Records`: while workers run, the seed is below the target, so a record
  that reaches the target was accepted by `EvaluateSolution`; a worker at
  "won", "check" or "close" has such a record, and at the last two it has
  published it; before that its slot is empty.  `ClosedForAReason` and
  `ResultsComplete` rest on it.
* `Collected`: no slot below `next` beats `bestSol`, from which
  `NoRecordDropped` follows when the loop ends.

One lemma per conjunct, and under it one step per action.  The refinement
(`RefinesIncumbents`) needs the same invariant: a record accepted by a worker is an
`Improve`, the end of the collecting loop a `Return`, everything else stutters.

**`RecordsProofs`** holds for any number of instances, of day lines and of faults of
the three kinds.  `SafeInv` gives `TypeOK` and `OnlyValidWritten`: the solution at hand is
a valid one from its validation on, and a file exists while lines are written to
it.  `RecordInv` gives `FilesAgree` and the refinement of `BestRecord`: what main
writes is better than what it has read, how far
the `.sol` file is written at each place, and `DamageCounted`: the number of
disagreeing instances plus a pending loss of a score line is at most the number of
faults so far.  From the moment it is read until it is written or abandoned, a record
that main is going to replace stands for what main has read of it (`Replacing`).  The
last write of the `.time` file is the abstract `Improve`; a file that cannot be read, a
killed run and a failing write are a `Mishap` (`FaultIsMishap`); every other step leaves
the records as they are.

**`ParserProofs`** proves all four invariants of `Parser`, for lines of any number of
fields, any bound on their number, and a reading error at any of them.  The parser
builds its result line by line, while `Reading` describes it from the file as a
whole; the inductive invariant `Reads` is what connects them:

* `ReadInv`: what each loop has taken is what the text read so far says (`HeaderTaken`,
  `TmaxTaken`, `TdTaken`, `RowsTaken`), however many lines of the text there are at that
  place, and a failure comes before the fifth line that counts or from the scanner.
* `NumberInv`: the numbering of the points (`IdsArePositions` and the types it needs).
* `ValueInv`: what is stored are numbers, of either sign; and `inst` is an `Instance`.

The loops that pass over lines or fields are one operator, `Those`, defined by a
recursive function: what it does to a sequence that grows by one (it grows by the
element or stays) is proved once.  `FormatFilesAreUsable` then needs the format
only: a file of it has five lines that count, its third line has a
budget per day, its first two rows are hotels, and amounts that are not negative are
read as such (`FieldIsRead`).  The assumptions are `LinesAssumption`,
`NoneAssumption` (no result is not a result) and `DistanceAssumption`: the distance of
two places that rows name is symmetric and obeys the triangle inequality, as
the Euclidean one of `models.go` does.  Its zero on the diagonal is not assumed: the
matrix has it by construction.

**`TourLemmas`** and **`WorkerProofs`** prove `TypeOK`, `TourShape`, `DistExact`,
`HotelInReach` and `FeasibleStays` of `Worker`, for every instance that satisfies the
assumptions of `Itinerary` (any points and metric, opening hours, budgets, number of
days), any candidate lists, number of relocations, patience and range of forces,
and the deadline at any moment.  The inductive invariant is `WorkerInv`:

* `SoundTrips`: the trip at hand, the caller's and the worker's record have their
  frame (`Framed`) and exact distances.  Exact distances are part of the frame's
  induction only because `EvaluateSolution` rewrites the record in `Collect` and the
  candidate in `Accept` and `Refuse`.
* `GreedyInv`: closed days join up, the open day starts where the last one ended,
  and a hotel is in reach.  The last is inductive by itself: a site is admissible
  only if a hotel can be reached after it, and a new day has its own hotel.
* `Control`: which of the trips exist in which phase.

`TourLemmas` has one lemma per operation of `Moves`, `Shaking` and `Validator`: the
outcome keeps the ends of each day, has sites in between and recorded distances equal
to tour lengths; moves of the descent moreover leave each day as it is or make it
a feasible one (`Keeps`, `FeasibleChange`).
`FeasibleStays` follows from the latter.

The operators are folds, sums, and functions defined by recursion, and the
induction theorems of the library take an operator as a parameter, which the
provers here cannot instantiate.  **`Induction`** therefore has induction
in a first-order form: a set of numbers has a least element (`LeastNat`), so a
set that contains 0 and successors contains everything below n (`Climb`), and
a recursion along an interval has a function (`RecursionExists`).  Sums go
through `SumUnfolds` (a sum is one member plus the sum of the others), from which
`LengthGrows` (a tour extended by one point) follows; this is what shows that
`EvaluateSolution`'s accumulated `currentDayDist` is the length of the tour.

The second half of `WorkerProofs` compares what the code computes step by step, or
incrementally, with the definitions over whole tours.  Arrival and departure times
are recursive functions; `Timetable` gives their recursion equations once and for all.

* `PruningIsSound`: a visitor arrives at the last point no earlier than after the length
  of the tour (`TimeBoundsLength`), so a tour too long for the budget is not feasible.  The
  recorded distance plus the detour is the length of the tour with the site in it
  (`DistExact`, `InsertedLength`, `ReplacedLength`).
* `ClockIsRight` and `ConstructionIsValid` are for instances with `OpensFirst`, no site
  closing before it opens, and would be wrong without it.  Their invariant `BuildInv`
  has the clock of the open day, that no site is visited twice, and that every day
  but the last is feasible once it is closed.
* `EvaluationIsExact` follows `EvaluateSolution` along the steps of a day (`WalkedTo`:
  the accumulators are the departure time and the length of the tour so far, the steps
  passed have fresh legs, the ones ahead their old ones) and along the days
  (`PassedTo`), up to the first defect.

**`VisitProofs`** has what depends on which sites a trip visits.  `IdsAssumption`, that
no site is listed twice, is used here; the parser establishes it
(`IdsArePositions`).

* `UnvisitedIsExact`: each operation is described by the sites it takes out of
  a day and puts into it (`Visiting`), and so of a trip (`Turns`).  The invariant `TripInv` says that all three
  trips visit every site at most once and that the list in use is the complement of the
  visited ones.  `markVisited`, relocation and swaps keep it.
* `EvaluatorsAlwaysAgree`: for a day with its frame, the rules tested at every
  step and those tested at the end of the day are the same (`DayAgrees`); what
  `EvaluateSolution` tests besides, sites visited twice and hotels at the ends,
  holds of every trip by `TripInv` and `TourShape`.

**`TotalsProofs`** has the totals of a trip.  A set of sites has a score (`Worth`), and
a tour or a trip that visits no site twice is worth its sites (`WorthOfTour`,
`WorthOfTrip`), which is what `EvaluateScore` computes from the steps (`ScoreOfTrip`).

* `ScoresExact` and `ScoreGrowsOnly`: what a move adds to the score is what the set
  of visited sites gains or loses by it (`Earns`).  An insertion gains a score that is
  not negative and a swap more than it loses; the others keep the sites.
* `EndIsNearer` proves `EndNearer`.  No trip is worth more than all sites (`WorthIsMost`) and
  the counters stay in their range, so all of `Remaining` are natural numbers.  Insertions
  and swaps win score; a relocation that wins none uses up an iteration; a reversal
  makes its day shorter and nothing else longer (`ReversalShortens`); the end of a
  neighbourhood either uses up the restart that a gain has earned or goes on to the next
  neighbourhood.  `LexSix` compares the tuples, and `NoEndlessFall` says that six
  natural numbers do not fall for ever.  Both together are the part of `DescentEnds` that
  is about the code; what is left to fairness is that a goroutine goes on.
* `RecordsExact`: a removal leaves a stale leg on the trip, so the claim needs to know
  that no record keeps one.  A trip a round accepts was valid, and `EvaluateSolution` recomputes
  all of what it accepts.  The seed is not validated, but it was never shaken: its days
  are those the construction computed afresh (`NewDays`), every move of its descent
  recomputes the days it changes (`DescentRenews`), and the `EvaluateScore` after each
  neighbourhood recomputes the totals (`ScoringRefreshes`).  The `EvaluateSolution` of the collecting
  loop leaves a recomputed trip alone even when it refuses it (`RefreshedStays`).
* `RefinesIncumbents`: from `RecordsExact`, the record and the answer of a worker
  change only as `Incumbents` lets them: each step of `Worker` is one of `Incumbents` or leaves
  both alone (`StepPromise`).
* `ShakesKeepValid`: a tour with sites left out visits some points of the old one in their
  order (`Rises`).  No way is a short cut (`NoShortCut`, from the triangle inequality), so
  a visitor is nowhere later than before (`FewerStopsEarlier`) and the tour stays feasible.
  This covers the forces that remove sites and the one that clears a day; the descent
  spoils no day (`BreakInv`).
* `RefusedForLastDay` is for instances with `OpensFirst`.  The construction leaves every day
  feasible but perhaps the last, which then visits nothing and is too long
  (`ConstructedButLast`); a move changes days to feasible ones, so this stays
  (`FeasibleButLast`); and the records after the seed are valid.

**Model-checked only**: the liveness properties (`Terminates`, `DoneStopsAll`,
`DescentEnds`, `ForcesCycle`, `LostIsRegained`), which are beyond the prover's
reach.  Every invariant, action property and refinement that a passing run checks is
proved; `ClockAgrees`, `OnlyLastDayFails` and `RefusedRecord` under `OpensFirst`.

## 6. Not modelled

* `NewInstance`, which nothing calls: the parser builds instances itself.
* Floating-point rounding (see *Abstractions*).
* The console output, and the `math/rand` seeds (every draw is considered).
* The vendored Go distribution in `src/go`, several thousand files that the program
  neither contains nor changes, beyond what `optimizer.go` uses of channels, wait
  groups, scheduling and the clock.  The program itself is the eight Go files in the
  root of the repository, some 1700 lines; the map names about 85 % of
  them, the rest being imports, output and declarations.

## 7. Plan

Done, in this order:

1. `LocalSearch` and its proofs.
2. The tours: `Itinerary`, `Greedy`, `Moves`, `Descent`, `Shaking`, composed
   in `Worker`.
3. `Records`, its abstraction `BestRecord`, and the refinement, checked.
4. The refinement proved (`RecordsProofs`).
5. `Parser`, with the proofs about its numbering.
6. `Incumbents`, implemented by `LocalSearch` and by `Worker`, both proved.
7. Faults in `Records` and `BestRecord`, and the refinement proved with them.
8. `Validator`: `EvaluateSolution` with its effect on trips it refuses.
9. Proofs about the tours: `TypeOK`, `TourShape`, `DistExact`, `HotelInReach`,
   `FeasibleStays` (`WorkerProofs`).
10. Proofs about the evaluators: `PruningSound`, `ClockAgrees`, `OnlyLastDayFails`,
    `EvaluationExact`, `EvaluatorsAgree`; about the list, `UnvisitedExact`;
    about the score, `ScoreExact` and `ScoreNeverFalls`; and about the record,
    `RecordExact`, `OnlyJunctionsBreak` and `RefusedRecord`.
11. The parser's `TypeOK`, `WholeFileOrError` and `FormatIsUsable` proved.
12. `EndNearer`, the variant of the descent, checked and proved.

Left: a model of the rounding of sums.
