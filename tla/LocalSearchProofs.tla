-------------------------- MODULE LocalSearchProofs --------------------------
(***************************************************************************)
(* The safety of LocalSearch for any number of workers, any solutions, any *)
(* target and any duration.  The invariants of LocalSearch are not         *)
(* inductive: they rest on where the goroutines may be (Phases), on what   *)
(* is known of a worker's record before the target is reached (Records),   *)
(* and on what the collecting loop has already compared (Collected).  From *)
(* them it follows that LocalSearch implements Incumbents.                 *)
(***************************************************************************)
EXTENDS LocalSearch, TLAPS

-----------------------------------------------------------------------------
(* The inductive invariant *)

\* The phase of the caller bounds where the workers are.
Phases ==
  /\ pc \in {"seed", "seeded"} => \A w \in Workers : wpc[w] = "unborn"
  /\ pc = "spawn" =>
       /\ next \in Workers
       /\ \A w \in Workers : wpc[w] = "unborn" <=> w >= next
  /\ pc = "wait" => \A w \in Workers : wpc[w] # "unborn"
  /\ pc = "collect" =>
       /\ next \in Workers
       /\ \A w \in Workers : wpc[w] = "exited"
  /\ pc = "returned" =>
       \/ \A w \in Workers : wpc[w] = "exited"
       \/ \A w \in Workers : wpc[w] = "unborn"

\* While workers run, the seed is below the target: a record that reaches it
\* has passed EvaluateSolution.  A worker writes its slot once, and what the caller
\* and the workers have not assigned yet is nil.
Records ==
  /\ pc = "seed" => bestSol = NoResult
  /\ pc \in {"spawn", "wait"} => ~ReachesTarget(bestSol)
  /\ \A w \in Workers :
       /\ wpc[w] \in {"unborn", "born"} => localBest[w] = NoResult
       /\ wpc[w] \in WorkerStates \ {"unborn", "born"} =>
            (ReachesTarget(localBest[w]) => localBest[w].valid)
       /\ wpc[w] \in {"won", "check", "close"} => ReachesTarget(localBest[w])
       /\ wpc[w] \in {"check", "close"} =>
            results[w] = [sol |-> localBest[w], at |-> localAt[w]]
       /\ wpc[w] \notin {"check", "close", "exited"} => results[w] = Empty

\* No result compared so far beats bestSol.
Collected ==
  pc = "collect" =>
    \A w \in Workers : w < next => (results[w].sol.valid => ~Better(results[w].sol, bestSol))

IInv ==
  /\ TypeOK
  /\ Phases
  /\ Records
  /\ ResultsComplete
  /\ ClosedForAReason
  /\ Collected
  /\ NoRecordDropped
-----------------------------------------------------------------------------
(* Types *)

\* Nothing is assigned yet at the start.
LEMMA InitType == Init => TypeOK
<1> SUFFICES ASSUME Init PROVE TypeOK
  OBVIOUS
<1> USE WorkersAssumption, DurationAssumption DEF Init, Horizon
<1>1. results \in [Workers -> [sol : Solutions \cup {NoResult}, at : 0 .. Horizon]]
  BY DEF Empty
<1>2. /\ wpc \in [Workers -> WorkerStates]
      /\ \A w \in Workers : wpc[w] = "unborn"
  BY DEF WorkerStates
<1>3. /\ localBest \in [Workers -> Solutions \cup {NoResult}]
      /\ candidate \in [Workers -> Solutions \cup {NoResult}]
      /\ localAt \in [Workers -> 0 .. MaxDuration + 1]
      /\ left \in [Workers -> 0 .. MaxDuration]
  OBVIOUS
<1>4. /\ next \in 0 .. NbWorkers
      /\ remaining \in 0 .. MaxDuration
      /\ bestAt \in 0 .. MaxDuration + 1
      /\ now \in 0 .. MaxDuration + 1
  OBVIOUS
<1>5. QED
  BY <1>1, <1>2, <1>3, <1>4 DEF TypeOK, MainStates

\* A step of the caller keeps the types: next stays within the loops' bounds.
LEMMA MainType == TypeOK /\ Phases /\ Main => TypeOK'
<1> SUFFICES ASSUME TypeOK, Phases, Main PROVE TypeOK'
  OBVIOUS
<1> USE WorkersAssumption, DurationAssumption, SolutionsAssumption
    DEF mainVars, workerVars, sharedVars, Workers, MainStates, WorkerStates, Horizon,
        Solutions
<1>1. CASE Seed
  BY <1>1 DEF TypeOK, Seed
<1>2. CASE ReturnSeed
  BY <1>2 DEF TypeOK, ReturnSeed
<1>3. CASE StartSpawning
  BY <1>3 DEF TypeOK, StartSpawning
<1>4. CASE Spawn
  BY <1>4, SMTT(30) DEF TypeOK, Phases, Spawn
<1>5. CASE Wait
  BY <1>5 DEF TypeOK, Wait
<1>6. CASE Collect
  <2>1. next \in Workers /\ results[next] \in [sol : Solutions \cup {NoResult}, at : 0 .. Horizon]
    BY <1>6 DEF TypeOK, Phases, Collect
  <2>2. bestSol' \in Solutions \cup {NoResult} /\ bestSol' # NoResult
    BY <1>6, <2>1 DEF TypeOK, Collect, Keeps
  <2>3. bestAt' \in 0 .. Horizon
    BY <1>6, <2>1 DEF TypeOK, Collect
  <2>4. next' \in 0 .. NbWorkers /\ pc' \in MainStates
    BY <1>6, <2>1 DEF TypeOK, Collect
  <2>5. QED
    BY <1>6, <2>2, <2>3, <2>4 DEF TypeOK, Collect
<1>7. QED
  BY <1>1, <1>2, <1>3, <1>4, <1>5, <1>6 DEF Main

\* A step of a worker keeps the types: a worker copies the caller's record only
\* once there is one.
LEMMA WorkType == ASSUME TypeOK, Phases, NEW w \in Workers, Work(w) PROVE TypeOK'
<1> USE WorkersAssumption, DurationAssumption, SolutionsAssumption
    DEF mainVars, workerVars, sharedVars, MainStates, WorkerStates, Horizon
<1>1. CASE Start(w)
  <2>1. bestSol # NoResult
    BY <1>1 DEF TypeOK, Phases, Start
  <2>2. QED
    BY <1>1, <2>1 DEF TypeOK, Start
<1>2. CASE Enter(w)
  BY <1>2 DEF TypeOK, Enter
<1>3. CASE TimeOut(w)
  BY <1>3 DEF TypeOK, TimeOut, Publish
<1>4. CASE PollStop(w)
  BY <1>4 DEF TypeOK, PollStop, Publish
<1>5. CASE PollContinue(w)
  BY <1>5 DEF TypeOK, PollContinue
<1>6. CASE Search(w)
  BY <1>6 DEF TypeOK, Search, Solutions
<1>7. CASE Reject(w)
  BY <1>7 DEF TypeOK, Forget, Reject
<1>8. CASE Accept(w)
  BY <1>8 DEF TypeOK, Forget, Accept, AfterJudging
<1>9. CASE Ignore(w)
  BY <1>9 DEF TypeOK, Forget, Ignore, AfterJudging
<1>10. CASE Win(w)
  BY <1>10 DEF TypeOK, Win, Publish
<1>11. CASE CheckDone(w)
  BY <1>11 DEF TypeOK, CheckDone
<1>12. CASE Close(w)
  BY <1>12 DEF TypeOK, Close
<1>13. QED
  BY <1>1, <1>2, <1>3, <1>4, <1>5, <1>6, <1>7, <1>8, <1>9, <1>10, <1>11, <1>12
     DEF Work

\* Time only moves the clock and the deadlines.
LEMMA TickType == TypeOK /\ Tick => TypeOK'
BY WorkersAssumption, DurationAssumption
   DEF TypeOK, Tick, mainVars, workerVars, sharedVars, Horizon

\* A step that changes nothing keeps the types.
LEMMA StutterType == TypeOK /\ UNCHANGED vars => TypeOK'
BY DEF TypeOK, vars, mainVars, workerVars, sharedVars

-----------------------------------------------------------------------------
(* Where the goroutines are *)

\* The caller moves on only when the workers are where the next phase wants them:
\* none before spawning, all born after it, all exited after wg.Wait.
LEMMA MainPhases == TypeOK /\ Phases /\ Main => Phases'
<1> SUFFICES ASSUME TypeOK, Phases, Main PROVE Phases'
  OBVIOUS
<1> USE WorkersAssumption
    DEF mainVars, workerVars, sharedVars, Workers, MainStates, WorkerStates
<1>1. CASE Seed
  BY <1>1 DEF TypeOK, Phases, Seed
<1>2. CASE ReturnSeed
  BY <1>2 DEF TypeOK, Phases, ReturnSeed
<1>3. CASE StartSpawning
  BY <1>3 DEF TypeOK, Phases, StartSpawning
<1>4. CASE Spawn
  BY <1>4 DEF TypeOK, Phases, Spawn
<1>5. CASE Wait
  BY <1>5 DEF TypeOK, Phases, Wait
<1>6. CASE Collect
  BY <1>6 DEF TypeOK, Phases, Collect
<1>7. QED
  BY <1>1, <1>2, <1>3, <1>4, <1>5, <1>6 DEF Main

\* What a worker's step looks like from outside: a worker that moves has been
\* spawned and has not exited, it stays spawned, it touches its own slot only,
\* and it leaves the caller's variables alone.
LEMMA WorkFootprint ==
  ASSUME TypeOK, NEW w \in Workers, Work(w)
  PROVE  /\ wpc[w] \notin {"unborn", "exited"}
         /\ wpc'[w] # "unborn"
         /\ \A v \in Workers \ {w} : /\ wpc'[v] = wpc[v]
                                     /\ results'[v] = results[v]
                                     /\ localBest'[v] = localBest[v]
                                     /\ localAt'[v] = localAt[v]
         /\ UNCHANGED mainVars
BY DEF TypeOK, Work, WorkerStates, Start, Enter, TimeOut, PollStop, PollContinue, Search,
       Reject, Accept, Ignore, Win, CheckDone, Close, AfterJudging, Publish,
       mainVars, sharedVars

\* A worker's step is possible only between its creation and its exit.
LEMMA WorkPhases == ASSUME TypeOK, Phases, NEW w \in Workers, Work(w) PROVE Phases'
BY WorkFootprint, WorkersAssumption DEF TypeOK, Phases, mainVars, Workers, MainStates

-----------------------------------------------------------------------------
(* The workers' records and what they publish *)

\* A result no better than the old best is no better than the new best either.
LEMMA BetterIsStrict ==
  ASSUME NEW s \in Solutions, NEW t \in Solutions, NEW u \in Solutions,
         Better(s, t), ~Better(u, t)
  PROVE  ~Better(u, s)
BY SolutionsAssumption DEF Better

\* The caller leaves the records alone and spawns only below the target.
LEMMA MainRecords == TypeOK /\ Phases /\ Records /\ Main => Records'
<1> SUFFICES ASSUME TypeOK, Phases, Records, Main PROVE Records'
  OBVIOUS
<1> USE WorkersAssumption
    DEF TypeOK, Phases, Records, ReachesTarget, Workers, WorkerStates, MainStates,
        mainVars, workerVars, sharedVars
<1>1. CASE Seed
  BY <1>1 DEF Seed
<1>2. CASE ReturnSeed
  BY <1>2 DEF ReturnSeed
<1>3. CASE StartSpawning
  BY <1>3 DEF StartSpawning
<1>4. CASE Spawn
  <2>1. wpc[next] = "unborn" /\ next \in Workers
    BY <1>4 DEF Spawn
  <2>2. wpc' = [wpc EXCEPT ![next] = "born"]
    BY <1>4 DEF Spawn
  <2>3. UNCHANGED <<bestSol, localBest, localAt, results>>
    BY <1>4 DEF Spawn
  <2>4. \A w \in Workers : w # next => wpc'[w] = wpc[w]
    BY <2>1, <2>2
  <2>5. wpc'[next] = "born"
    BY <2>1, <2>2
  <2>6. pc' \in {"spawn", "wait"} /\ pc = "spawn"
    BY <1>4 DEF Spawn
  <2>7. QED
    BY <2>1, <2>3, <2>4, <2>5, <2>6
<1>5. CASE Wait
  BY <1>5 DEF Wait
<1>6. CASE Collect
  BY <1>6 DEF Collect
<1>7. QED
  BY <1>1, <1>2, <1>3, <1>4, <1>5, <1>6 DEF Main

\* The part of Records and ResultsComplete that is about one worker.
RecordOf(w) ==
  /\ wpc[w] \in {"unborn", "born"} => localBest[w] = NoResult
  /\ wpc[w] \in WorkerStates \ {"unborn", "born"} =>
       (ReachesTarget(localBest[w]) => localBest[w].valid)
  /\ wpc[w] \in {"won", "check", "close"} => ReachesTarget(localBest[w])
  /\ wpc[w] \in {"check", "close", "exited"} =>
       results[w] = [sol |-> localBest[w], at |-> localAt[w]]
  /\ wpc[w] \notin {"check", "close", "exited"} => results[w] = Empty

\* What a worker knows of its record and its slot after its own step.
LEMMA WorkRecordOf ==
  ASSUME TypeOK, Phases, Records, ResultsComplete, NEW w \in Workers, Work(w)
  PROVE  RecordOf(w)'
<1>1. RecordOf(w)
  BY DEF Records, ResultsComplete, RecordOf
<1> USE <1>1 DEF RecordOf, TypeOK, WorkerStates, mainVars, sharedVars
<1>2. CASE Start(w)
  <2>1. ~ReachesTarget(bestSol)
    BY <1>2 DEF Start, Phases, Records, MainStates
  <2>2. QED
    BY <1>2, <2>1 DEF Start, ReachesTarget
<1>3. CASE Enter(w)
  BY <1>3 DEF Enter, ReachesTarget
<1>4. CASE TimeOut(w)
  BY <1>4 DEF TimeOut, Publish, ReachesTarget
<1>5. CASE PollStop(w)
  BY <1>5 DEF PollStop, Publish, ReachesTarget
<1>6. CASE PollContinue(w)
  BY <1>6 DEF PollContinue, ReachesTarget
<1>7. CASE Search(w)
  BY <1>7 DEF Search, ReachesTarget
<1>8. CASE Reject(w)
  BY <1>8 DEF Reject, ReachesTarget
<1>9. CASE Accept(w)
  BY <1>9 DEF Accept, AfterJudging, ReachesTarget
<1>10. CASE Ignore(w)
  BY <1>10 DEF Ignore, AfterJudging, ReachesTarget
<1>11. CASE Win(w)
  BY <1>11 DEF Win, Publish, ReachesTarget
<1>12. CASE CheckDone(w)
  BY <1>12 DEF CheckDone, ReachesTarget
<1>13. CASE Close(w)
  BY <1>13 DEF Close, ReachesTarget
<1>14. QED
  BY <1>2, <1>3, <1>4, <1>5, <1>6, <1>7, <1>8, <1>9, <1>10, <1>11, <1>12, <1>13
     DEF Work

\* A worker's step disturbs no other worker's record.
LEMMA WorkRecords ==
  ASSUME TypeOK, Phases, Records, ResultsComplete, NEW w \in Workers, Work(w)
  PROVE  Records' /\ ResultsComplete'
<1>1. RecordOf(w)'
  BY WorkRecordOf
<1>2. \A v \in Workers \ {w} : RecordOf(v)'
  BY WorkFootprint DEF Records, ResultsComplete, RecordOf, ReachesTarget
<1>3. pc' = pc /\ bestSol' = bestSol
  BY WorkFootprint DEF mainVars
<1>4. \A v \in Workers : RecordOf(v)'
  BY <1>1, <1>2
<1>5. QED
  BY <1>3, <1>4 DEF Records, ResultsComplete, RecordOf, ReachesTarget

\* The caller writes neither results nor done.
LEMMA MainLeavesShared == Main => results' = results /\ closed' = closed
BY DEF Main, Seed, ReturnSeed, StartSpawning, Spawn, Wait, Collect, sharedVars

\* The caller touches no worker's slot, and collects after the last has exited.
LEMMA MainResults == ResultsComplete /\ TypeOK /\ Main => ResultsComplete'
BY DEF TypeOK, Main, ResultsComplete, Seed, ReturnSeed, StartSpawning, Spawn, Wait, Collect,
       workerVars, sharedVars

-----------------------------------------------------------------------------
(* Why done is closed *)

\* A worker closes done only after it has published a valid result at the target.
LEMMA WorkClosed ==
  ASSUME TypeOK, Phases, Records, ResultsComplete, ClosedForAReason,
         NEW w \in Workers, Work(w)
  PROVE  ClosedForAReason'
<1>1. CASE Close(w)
  <2>1. results[w] = [sol |-> localBest[w], at |-> localAt[w]]
    BY <1>1 DEF Close, Records
  <2>2. localBest[w] # NoResult /\ localBest[w].valid /\ ReachesTarget(localBest[w])
    BY <1>1 DEF Close, Records, TypeOK, WorkerStates
  <2>3. results' = results
    BY <1>1 DEF Close
  <2>4. QED
    BY <2>1, <2>2, <2>3 DEF ClosedForAReason, ReachesTarget
<1>2. CASE ~Close(w)
  <2>1. closed' = closed
    BY <1>2 DEF Work, Start, Enter, TimeOut, PollStop, PollContinue, Search, Reject,
                Accept, Ignore, Win, CheckDone, sharedVars
  <2>2. SUFFICES ASSUME closed PROVE ClosedForAReason'
    BY <2>1 DEF ClosedForAReason
  <2>3. PICK v \in Workers : /\ results[v].sol # NoResult
                             /\ results[v].sol.valid
                             /\ ReachesTarget(results[v].sol)
    BY <2>2 DEF ClosedForAReason
  \* A worker whose slot is written does not write it again.
  <2>4. wpc[v] \in {"check", "close", "exited"}
    <3>1. results[v] # Empty
      BY <2>3 DEF Empty
    <3>2. QED
      BY <3>1 DEF Records
  <2>5. results'[v] = results[v]
    <3>1. CASE v # w
      BY <3>1, WorkFootprint
    <3>2. CASE v = w
      BY <2>4, <3>2 DEF Work, Start, Enter, TimeOut, PollStop, PollContinue, Search,
            Reject, Accept, Ignore, Win, CheckDone, Close, sharedVars
    <3>3. QED
      BY <3>1, <3>2
  <2>6. QED
    BY <2>3, <2>5 DEF ClosedForAReason, ReachesTarget
<1>3. QED
  BY <1>1, <1>2

\* The caller neither closes done nor takes a result back.
LEMMA MainClosed == ClosedForAReason /\ Main => ClosedForAReason'
BY DEF Main, ClosedForAReason, ReachesTarget, Seed, ReturnSeed, StartSpawning, Spawn, Wait,
       Collect, sharedVars

-----------------------------------------------------------------------------
(* The collecting loop *)

\* One iteration of the loop: what was compared before stays compared, because
\* bestSol only gets better.
LEMMA CollectCompares ==
  ASSUME TypeOK, Phases, ResultsComplete, Collected, Collect
  PROVE  \A w \in Workers :
           w < next + 1 => (results[w].sol.valid => ~Better(results[w].sol, bestSol'))
<1>1. /\ next \in Workers
      /\ bestSol \in Solutions
      /\ \A w \in Workers : results[w].sol \in Solutions
  BY DEF Collect, Phases, TypeOK, ResultsComplete
<1>2. \A w \in Workers : w < next => (results[w].sol.valid => ~Better(results[w].sol, bestSol))
  BY DEF Collect, Collected
<1>3. CASE Keeps(results[next])
  <2>1. bestSol' = results[next].sol /\ Better(results[next].sol, bestSol)
    BY <1>3 DEF Collect, Keeps
  <2>2. ~Better(results[next].sol, bestSol')
    BY <1>1, <2>1, SolutionsAssumption DEF Better
  <2>3. \A w \in Workers : w < next => (results[w].sol.valid => ~Better(results[w].sol, bestSol'))
    BY <1>1, <1>2, <2>1, BetterIsStrict
  <2>4. QED
    BY <1>1, <2>2, <2>3, WorkersAssumption DEF Workers
<1>4. CASE ~Keeps(results[next])
  <2>1. bestSol' = bestSol
    BY <1>4 DEF Collect
  <2>2. results[next].sol.valid => ~Better(results[next].sol, bestSol)
    BY <1>1, <1>4, SolutionsAssumption DEF Keeps
  <2>3. QED
    BY <1>1, <1>2, <2>1, <2>2, WorkersAssumption DEF Workers
<1>5. QED
  BY <1>3, <1>4

\* Each iteration of the collecting loop extends what has been compared by one.
LEMMA MainCollected ==
  TypeOK /\ Phases /\ ResultsComplete /\ Collected /\ Main => Collected'
<1> SUFFICES ASSUME TypeOK, Phases, ResultsComplete, Collected, Main
             PROVE  Collected'
  OBVIOUS
<1>1. results' = results
  BY MainLeavesShared
<1>2. CASE Collect
  <2>1. next' = next + 1
    BY <1>2 DEF Collect
  <2>2. QED
    BY <1>1, <1>2, <2>1, CollectCompares DEF Collected, Better
<1>3. CASE Wait
  BY <1>3, WorkersAssumption DEF Wait, Collected, Workers
<1>4. QED
  BY <1>2, <1>3 DEF Main, Seed, ReturnSeed, StartSpawning, Spawn, Collected

\* When the collecting loop ends, or is never reached, nothing better is left.
LEMMA MainDropsNone ==
  TypeOK /\ Phases /\ Records /\ ResultsComplete /\ Collected /\ NoRecordDropped /\ Main
    => NoRecordDropped'
<1> SUFFICES ASSUME TypeOK, Phases, Records, ResultsComplete, Collected, Main,
                    pc' = "returned"
             PROVE  NoRecordDropped'
  BY DEF NoRecordDropped
<1>1. results' = results
  BY MainLeavesShared
<1>2. CASE ReturnSeed
  <2>1. \A w \in Workers : results[w] = Empty
    BY <1>2 DEF ReturnSeed, Phases, Records
  <2>2. QED
    BY <1>1, <2>1 DEF NoRecordDropped, Empty
<1>3. CASE Collect
  \* This was the last iteration: every result has been compared.
  <2>1. \A w \in Workers : w < next + 1
    BY <1>3, WorkersAssumption DEF Collect, Workers
  <2>2. \A w \in Workers : results[w].sol.valid => ~Better(results[w].sol, bestSol')
    BY <1>3, <2>1, CollectCompares
  <2>3. QED
    BY <1>1, <2>2 DEF NoRecordDropped, Better
<1>4. QED
  BY <1>2, <1>3, WorkersAssumption DEF Main, Seed, StartSpawning, Spawn, Wait

\* Between spawning and collecting nothing is compared.
LEMMA WorkCollected ==
  ASSUME TypeOK, Phases, Collected, NoRecordDropped, Running, NEW w \in Workers, Work(w)
  PROVE  Collected' /\ NoRecordDropped'
BY WorkFootprint DEF Phases, Collected, NoRecordDropped, Running, mainVars

-----------------------------------------------------------------------------
(* The theorems *)

\* The initial states satisfy the inductive invariant.
LEMMA InitInvariant == Init => IInv
<1> SUFFICES ASSUME Init PROVE IInv
  OBVIOUS
<1>1. TypeOK
  BY InitType
<1>2. \A w \in Workers : /\ wpc[w] = "unborn" /\ results[w] = Empty
                         /\ localBest[w] = NoResult
  BY DEF Init
<1>3. Phases /\ Records
  BY <1>2 DEF Init, Phases, Records
<1>4. ResultsComplete /\ ClosedForAReason /\ Collected /\ NoRecordDropped
  BY <1>2 DEF Init, ResultsComplete, ClosedForAReason, Collected, NoRecordDropped
<1>5. QED
  BY <1>1, <1>3, <1>4 DEF IInv

\* Every step of the caller, of a worker and of the clock preserves it.
LEMMA StepInvariant == IInv /\ [Next]_vars => IInv'
<1> SUFFICES ASSUME IInv, [Next]_vars PROVE IInv'
  OBVIOUS
<1>1. CASE Main
  BY <1>1, MainType, MainPhases, MainRecords, MainResults, MainClosed, MainCollected,
     MainDropsNone DEF IInv
<1>2. ASSUME Running, NEW w \in Workers, Work(w) PROVE IInv'
  BY <1>2, WorkType, WorkPhases, WorkRecords, WorkClosed, WorkCollected DEF IInv
<1>3. CASE Tick
  <2>1. UNCHANGED <<pc, next, bestSol, wpc, localBest, localAt, results, closed>>
    BY <1>3 DEF Tick, mainVars, sharedVars
  <2>2. TypeOK'
    BY <1>3, TickType DEF IInv
  <2>3. QED
    BY <2>1, <2>2 DEF IInv, Phases, Records, ResultsComplete, ClosedForAReason, Collected,
       NoRecordDropped, ReachesTarget, Better
<1>4. CASE UNCHANGED vars
  <2>1. UNCHANGED <<pc, next, bestSol, wpc, localBest, localAt, results, closed>>
    BY <1>4 DEF vars, mainVars, workerVars, sharedVars
  <2>2. TypeOK'
    BY <1>4, StutterType DEF IInv
  <2>3. QED
    BY <2>1, <2>2 DEF IInv, Phases, Records, ResultsComplete, ClosedForAReason, Collected,
       NoRecordDropped, ReachesTarget, Better
<1>5. QED
  BY <1>1, <1>2, <1>3, <1>4 DEF Next, Halted

\* The inductive invariant of the coordination: types, where the goroutines may be
\* in each phase of LocalSearch, what their records and slots hold, why done is
\* closed, and what the collecting loop has compared.
THEOREM Invariance == Spec => []IInv
BY InitInvariant, StepInvariant, PTL DEF Spec

\* Every variable keeps its type, whatever the goroutines do: no worker judges
\* a candidate or publishes a record it has not assigned.
THEOREM TypeCorrect == Spec => []TypeOK
<1>1. IInv => TypeOK
  BY DEF IInv
<1>2. QED
  BY <1>1, Invariance, PTL

\* A worker that has exited has written its last record to its slot.
THEOREM ResultsAreComplete == Spec => []ResultsComplete
<1>1. IInv => ResultsComplete
  BY DEF IInv
<1>2. QED
  BY <1>1, Invariance, PTL

\* When done is closed, a valid result that reaches the target is published.
THEOREM DoneHasAReason == Spec => []ClosedForAReason
<1>1. IInv => ClosedForAReason
  BY DEF IInv
<1>2. QED
  BY <1>1, Invariance, PTL

\* The solution returned is not beaten by any valid published result.
THEOREM NothingIsDropped == Spec => []NoRecordDropped
<1>1. IInv => NoRecordDropped
  BY DEF IInv
<1>2. QED
  BY <1>1, Invariance, PTL

\* If done was closed, the solution returned reaches the target: it follows
\* from the last two, whatever the order of the results.
THEOREM TargetReached == Spec => []TargetIsReturned
<1>1. IInv => TargetIsReturned
  <2>1. SUFFICES ASSUME IInv, pc = "returned", closed PROVE ReachesTarget(bestSol)
    BY DEF TargetIsReturned
  <2>2. PICK w \in Workers : /\ results[w].sol # NoResult
                             /\ results[w].sol.valid
                             /\ ReachesTarget(results[w].sol)
    BY <2>1 DEF IInv, ClosedForAReason
  <2>3. ~Better(results[w].sol, bestSol)
    BY <2>1, <2>2 DEF IInv, NoRecordDropped
  <2>4. results[w].sol \in Solutions /\ bestSol \in Solutions
    BY <2>1, <2>2 DEF IInv, TypeOK
  <2>5. QED
    BY <2>2, <2>3, <2>4, SolutionsAssumption, TargetAssumption DEF Better, ReachesTarget
<1>2. QED
  BY <1>1, Invariance, PTL

\* The goroutines read the caller's variables without a lock, and no step
\* writes one of them while a worker is between its creation and its exit.
THEOREM NoDataRaceOnSeed == Spec => NoSharedWrite
<1>1. IInv /\ [Next]_vars =>
        [ bestSol' # bestSol \/ bestAt' # bestAt \/ remaining' # remaining =>
            \A w \in Workers : wpc[w] \in {"unborn", "exited"} ]_vars
  <2> SUFFICES ASSUME IInv, Next,
                      bestSol' # bestSol \/ bestAt' # bestAt \/ remaining' # remaining
               PROVE  \A w \in Workers : wpc[w] \in {"unborn", "exited"}
    BY DEF vars
  <2>1. CASE Main
    <3>1. pc \in {"seed", "seeded", "collect"}
      BY <2>1 DEF Main, Seed, ReturnSeed, StartSpawning, Spawn, Wait, Collect
    <3>2. QED
      BY <3>1 DEF IInv, Phases
  <2>2. ASSUME NEW w \in Workers, Work(w) PROVE FALSE
    BY <2>2, WorkFootprint DEF IInv, mainVars
  <2>3. QED
    BY <2>1, <2>2 DEF Next, Halted, Tick, vars, mainVars
<1>2. QED
  BY <1>1, Invariance, PTL DEF Spec, NoSharedWrite

-----------------------------------------------------------------------------
(* The refinement of Incumbents *)

\* Nothing has been found at the start.
LEMMA InitPromise == Init => Promise!Init
BY DEF Init, Promise!Init

\* The steps of the caller: the seed is found, results are taken one at a time,
\* and the step that returns leaves none that beats the answer.
LEMMA MainPromise == IInv /\ IInv' /\ Main => [Promise!Next]_(Promise!vars)
<1> SUFFICES ASSUME IInv, IInv', Main PROVE [Promise!Next]_(Promise!vars)
  OBVIOUS
<1> USE DEF workerVars, Promise!vars
<1>1. pc # "returned"
  BY DEF Main, Seed, ReturnSeed, StartSpawning, Spawn, Wait, Collect
<1>2. CASE Seed
  <2>1. bestSol = NoResult /\ bestSol' \in Solutions /\ pc' # "returned"
    BY <1>2 DEF Seed, IInv, Records, TypeOK, Solutions
  <2>2. Promise!Found
    BY <1>1, <1>2, <2>1 DEF Seed, Promise!Found
  <2>3. QED
    BY <1>1, <2>2 DEF Promise!Next
<1>3. CASE ReturnSeed
  <2>1. \A w \in Workers : localBest[w] = NoResult
    BY <1>3 DEF ReturnSeed, IInv, Phases, Records
  <2>2. Promise!Return
    BY <1>1, <1>3, <2>1 DEF ReturnSeed, Promise!Return, IInv, TypeOK
  <2>3. QED
    BY <1>1, <2>2 DEF Promise!Next
<1>4. CASE StartSpawning \/ Spawn \/ Wait
  BY <1>1, <1>4, WorkersAssumption DEF StartSpawning, Spawn, Wait
<1>5. CASE Collect
  <2>1. /\ next \in Workers /\ bestSol # NoResult
        /\ \A w \in Workers : /\ results[w].sol = localBest[w]
                              /\ localBest[w] # NoResult
    BY <1>5 DEF Collect, IInv, Phases, TypeOK, ResultsComplete
  <2>2. localBest' = localBest /\ results' = results
    BY <1>5 DEF Collect, sharedVars
  <2>3. \/ bestSol' = bestSol
        \/ /\ localBest[next].valid /\ Better(localBest[next], bestSol)
           /\ bestSol' = localBest[next]
    BY <1>5, <2>1 DEF Collect, Keeps
  <2>4. \/ UNCHANGED <<bestSol, localBest>>
        \/ \E w \in Workers : Promise!Take(w)
    BY <2>1, <2>2, <2>3 DEF Promise!Take, Promise!Surpasses, Better
  <2>5. CASE pc' = "returned"
    <3>1. \A w \in Workers : localBest[w].valid => ~Better(localBest[w], bestSol')
      BY <2>1, <2>2, <2>5 DEF IInv, NoRecordDropped, Better
    <3>2. Promise!Return
      BY <2>1, <2>4, <2>5, <3>1 DEF Promise!Return, Promise!Surpasses, Better
    <3>3. QED
      BY <1>1, <3>2 DEF Promise!Next
  <2>6. CASE pc' # "returned"
    BY <1>1, <2>4, <2>6 DEF Promise!Next
  <2>7. QED
    BY <2>5, <2>6
<1>6. QED
  BY <1>2, <1>3, <1>4, <1>5 DEF Main

\* The steps of a worker: it starts from the caller's solution, and judging a
\* candidate is the only step that may change its record.
LEMMA WorkPromise ==
  ASSUME IInv, IInv', Running, NEW w \in Workers, Work(w)
  PROVE  [Promise!Next]_(Promise!vars)
<1>1. pc # "returned" /\ UNCHANGED <<pc, bestSol>>
  BY WorkFootprint DEF IInv, Running, mainVars
<1>2. CASE Start(w)
  <2>1. localBest[w] = NoResult /\ bestSol # NoResult
    BY <1>2 DEF Start, IInv, Records, TypeOK, Phases
  <2>2. Promise!Join(w)
    BY <1>1, <1>2, <2>1 DEF Start, Promise!Join
  <2>3. QED
    BY <1>1, <2>2 DEF Promise!Next
<1>3. CASE Accept(w)
  <2>1. /\ localBest[w] # NoResult /\ candidate[w] \in Solutions
        /\ candidate[w].valid /\ Better(candidate[w], localBest[w])
        /\ localBest' = [localBest EXCEPT ![w] = candidate[w]]
        /\ localBest'[w] = candidate[w]
    BY <1>3 DEF Accept, IInv, TypeOK, Solutions
  <2>2. Promise!Improve(w)
    BY <1>1, <2>1 DEF Promise!Improve, Promise!Surpasses, Better
  <2>3. QED
    BY <1>1, <2>2 DEF Promise!Next
<1>4. CASE ~Start(w) /\ ~Accept(w)
  <2>1. UNCHANGED localBest
    BY <1>4 DEF Work, Enter, TimeOut, PollStop, PollContinue, Search, Reject, Ignore, Win,
       CheckDone, Close
  <2>2. QED
    BY <1>1, <2>1 DEF Promise!vars
<1>5. QED
  BY <1>2, <1>3, <1>4

\* LocalSearch implements Incumbents: whatever the goroutines and the clock do,
\* records only improve, and the answer is the best of what was found.
THEOREM RefinesIncumbents == Spec => KeepsPromise
<1>1. IInv /\ IInv' /\ [Next]_vars => [Promise!Next]_(Promise!vars)
  <2> SUFFICES ASSUME IInv, IInv', [Next]_vars PROVE [Promise!Next]_(Promise!vars)
    OBVIOUS
  <2>1. ASSUME Running, NEW w \in Workers, Work(w) PROVE [Promise!Next]_(Promise!vars)
    BY <2>1, WorkPromise
  <2>2. CASE Tick \/ UNCHANGED vars
    BY <2>2 DEF Tick, vars, mainVars, workerVars, Promise!vars
  <2>3. QED
    BY <2>1, <2>2, MainPromise DEF Next, Halted
<1>2. QED
  BY <1>1, InitPromise, Invariance, PTL DEF Spec, Promise!Spec, KeepsPromise
=============================================================================
