----------------------------- MODULE LocalSearch -----------------------------
(***************************************************************************)
(* The coordination of LocalSearch (optimizer.go): the calling goroutine   *)
(* improves a seed, spawns NbWorkers goroutines that each keep a private   *)
(* record (localBest), waits for all of them and keeps the best published  *)
(* result.  Workers stop each other through the channel "done", which the  *)
(* first one to reach the target score closes.                             *)
(*                                                                         *)
(* A solution is abstracted to what the coordination reads of it: its      *)
(* score, its distance and the answer EvaluateSolution gives for it.  How  *)
(* a worker produces a candidate (greedy construction or shaking, then     *)
(* VND) is the subject of module Worker; here a candidate is any member of *)
(* Candidates.                                                             *)
(***************************************************************************)
EXTENDS Integers

CONSTANTS
  NbWorkers,    \* number of goroutines (nbWorkers)
  Seeds,        \* what the caller's own VND may leave in bestSol
  Candidates,   \* what construction or shaking followed by VND may produce
  Target,       \* targetScore; 0 when no optimum is known
  MaxDuration,  \* maxDuration, in clock ticks
  MinSlice,     \* the 500 ms below which no worker is started
  NoResult      \* nil: a solution variable or a result not yet assigned

Solutions == Seeds \cup Candidates
Workers   == 0 .. NbWorkers - 1

\* The clock saturates one tick past the budget: "late" is all that matters.
Horizon == MaxDuration + 1

ASSUME WorkersAssumption == NbWorkers \in Nat \ {0}
ASSUME DurationAssumption == MaxDuration \in Nat /\ MinSlice \in Nat \ {0}
ASSUME TargetAssumption == Target \in Nat
ASSUME SolutionsAssumption ==
  /\ \A s \in Solutions : s.score \in Nat /\ s.dist \in Nat /\ s.valid \in BOOLEAN
  /\ NoResult \notin Solutions

VARIABLES
  pc,         \* where the calling goroutine is
  next,       \* loop variable of the spawning and of the collecting loop
  bestSol,    \* bestSol
  bestAt,     \* bestFoundAt
  remaining,  \* remaining
  wpc,        \* where each worker is
  left,       \* time left before each worker's own deadline
  localBest,  \* localBest of each worker
  localAt,    \* localBestFoundAt of each worker
  candidate,  \* candidate of each worker
  results,    \* the slice of workerResult: [sol, at]
  closed,     \* whether the channel done is closed
  panicked,   \* whether the run-time panicked (close of a closed channel)
  now         \* time.Since(start), saturating at Horizon

mainVars   == <<pc, next, bestSol, bestAt, remaining>>
workerVars == <<wpc, left, localBest, localAt, candidate>>
sharedVars == <<results, closed, panicked>>
vars       == <<mainVars, workerVars, sharedVars, now>>

-----------------------------------------------------------------------------

\* The acceptance test of both worker kinds and of the collecting loop.
Better(s, t) ==
  \/ s.score > t.score
  \/ s.score = t.score /\ s.dist < t.dist

ReachesTarget(s) == Target > 0 /\ s.score >= Target

Empty == [sol |-> NoResult, at |-> 0]

Init ==
  /\ pc = "seed"
  /\ next = 0
  /\ bestSol = NoResult
  /\ bestAt = 0
  /\ remaining = 0
  /\ wpc = [w \in Workers |-> "unborn"]
  /\ left = [w \in Workers |-> 0]
  /\ localBest = [w \in Workers |-> NoResult]
  /\ localAt = [w \in Workers |-> 0]
  /\ candidate = [w \in Workers |-> NoResult]
  /\ results = [w \in Workers |-> Empty]
  /\ closed = FALSE
  /\ panicked = FALSE
  /\ now = 0

-----------------------------------------------------------------------------
(* The calling goroutine *)

\* Clone of the caller's solution, applyVND on it, bestFoundAt.
Seed ==
  /\ pc = "seed"
  /\ bestSol' \in Seeds
  /\ bestAt' = now
  /\ pc' = "seeded"
  /\ UNCHANGED <<next, remaining, workerVars, sharedVars, now>>

\* Early return: the seed reaches the target, or too little time is left.
ReturnSeed ==
  /\ pc = "seeded"
  /\ ReachesTarget(bestSol) \/ MaxDuration - now < MinSlice
  /\ pc' = "returned"
  /\ UNCHANGED <<next, bestSol, bestAt, remaining, workerVars, sharedVars, now>>

\* Variant: the operands of the subtraction swapped.
StartSpawningSwapped ==
  /\ pc = "seeded"
  /\ ~ReachesTarget(bestSol)
  /\ MaxDuration - now >= MinSlice
  /\ remaining' = now - MaxDuration
  /\ next' = 0
  /\ pc' = "spawn"
  /\ UNCHANGED <<bestSol, bestAt, workerVars, sharedVars, now>>

StartSpawning ==
  /\ pc = "seeded"
  /\ ~ReachesTarget(bestSol)
  /\ MaxDuration - now >= MinSlice
  /\ remaining' = MaxDuration - now
  /\ next' = 0
  /\ pc' = "spawn"
  /\ UNCHANGED <<bestSol, bestAt, workerVars, sharedVars, now>>

\* wg.Add(1); go func(workerID int) {...}(w)
Spawn ==
  /\ pc = "spawn"
  /\ wpc' = [wpc EXCEPT ![next] = "born"]
  /\ next' = next + 1
  /\ pc' = IF next + 1 = NbWorkers THEN "wait" ELSE "spawn"
  /\ UNCHANGED <<bestSol, bestAt, remaining, left, localBest, localAt,
                 candidate, sharedVars, now>>

\* Variant: the caller waits for the first worker that is done only.
WaitForOne ==
  /\ pc = "wait"
  /\ \E w \in Workers : wpc[w] = "exited"
  /\ pc' = "collect"
  /\ next' = 0
  /\ UNCHANGED <<bestSol, bestAt, remaining, workerVars, sharedVars, now>>

\* Variant: the collecting loop starts at the second result.
WaitSkipsFirst ==
  /\ pc = "wait"
  /\ \A w \in Workers : wpc[w] = "exited"
  /\ pc' = "collect"
  /\ next' = IF NbWorkers > 1 THEN 1 ELSE 0
  /\ UNCHANGED <<bestSol, bestAt, remaining, workerVars, sharedVars, now>>

\* wg.Wait()
Wait ==
  /\ pc = "wait"
  /\ \A w \in Workers : wpc[w] = "exited"
  /\ pc' = "collect"
  /\ next' = 0
  /\ UNCHANGED <<bestSol, bestAt, remaining, workerVars, sharedVars, now>>

\* Variant: the distance is compared whatever the scores are.
KeepsShorter(r) ==
  r.sol # NoResult /\ r.sol.valid /\ r.sol.dist < bestSol.dist

Keeps(r) == r.sol # NoResult /\ r.sol.valid /\ Better(r.sol, bestSol)

\* One iteration of the loop over results; the last one returns bestSol.
Collect ==
  /\ pc = "collect"
  /\ \/ /\ Keeps(results[next])
        /\ bestSol' = results[next].sol
        /\ bestAt' = results[next].at
     \/ /\ ~Keeps(results[next])
        /\ UNCHANGED <<bestSol, bestAt>>
  /\ next' = next + 1
  /\ pc' = IF next + 1 = NbWorkers THEN "returned" ELSE "collect"
  /\ UNCHANGED <<remaining, workerVars, sharedVars, now>>

-----------------------------------------------------------------------------
(* A worker *)

\* The common ending of every path: results[workerID] = localBest.
Publish(w) ==
  results' = [results EXCEPT ![w] = [sol |-> localBest[w], at |-> localAt[w]]]

\* localBest := bestSol.Clone(); deadline := time.Now().Add(remaining)
Start(w) ==
  /\ wpc[w] = "born"
  /\ localBest' = [localBest EXCEPT ![w] = bestSol]
  /\ localAt' = [localAt EXCEPT ![w] = bestAt]
  /\ left' = [left EXCEPT ![w] = remaining]
  /\ wpc' = [wpc EXCEPT ![w] = "head"]
  /\ UNCHANGED <<candidate, mainVars, sharedVars, now>>

\* for time.Now().Before(deadline): another round ...
Enter(w) ==
  /\ wpc[w] = "head"
  /\ left[w] > 0
  /\ wpc' = [wpc EXCEPT ![w] = "poll"]
  /\ UNCHANGED <<left, localBest, localAt, candidate, mainVars, sharedVars, now>>

\* Variant: the deadline is waited for with the wrong comparison.
TimeOutNever(w) ==
  /\ wpc[w] = "head"
  /\ left[w] < 0
  /\ Publish(w)
  /\ wpc' = [wpc EXCEPT ![w] = "exited"]
  /\ UNCHANGED <<left, localBest, localAt, candidate, closed, panicked,
                 mainVars, now>>

\* ... or the deadline has passed: publish and exit.
TimeOut(w) ==
  /\ wpc[w] = "head"
  /\ left[w] = 0
  /\ Publish(w)
  /\ wpc' = [wpc EXCEPT ![w] = "exited"]
  /\ UNCHANGED <<left, localBest, localAt, candidate, closed, panicked,
                 mainVars, now>>

\* Variant: the early return forgets to write the result.
PollStopSilently(w) ==
  /\ wpc[w] = "poll"
  /\ closed
  /\ wpc' = [wpc EXCEPT ![w] = "exited"]
  /\ UNCHANGED <<left, localBest, localAt, candidate, sharedVars, mainVars, now>>

\* select { case <-done: publish, return; default: } at the head of a round.
PollStop(w) ==
  /\ wpc[w] = "poll"
  /\ closed
  /\ Publish(w)
  /\ wpc' = [wpc EXCEPT ![w] = "exited"]
  /\ UNCHANGED <<left, localBest, localAt, candidate, closed, panicked,
                 mainVars, now>>

\* Variant: a round starts although done is closed.
PollIgnoresDone(w) ==
  /\ wpc[w] = "poll"
  /\ wpc' = [wpc EXCEPT ![w] = "search"]
  /\ UNCHANGED <<left, localBest, localAt, candidate, mainVars, sharedVars, now>>

PollContinue(w) ==
  /\ wpc[w] = "poll"
  /\ ~closed
  /\ wpc' = [wpc EXCEPT ![w] = "search"]
  /\ UNCHANGED <<left, localBest, localAt, candidate, mainVars, sharedVars, now>>

\* SolveGreedyRandomized or Clone + applyShake, then applyVND.
Search(w) ==
  /\ wpc[w] = "search"
  /\ \E c \in Candidates : candidate' = [candidate EXCEPT ![w] = c]
  /\ wpc' = [wpc EXCEPT ![w] = "judge"]
  /\ UNCHANGED <<left, localBest, localAt, mainVars, sharedVars, now>>

\* The candidate is local to a round and not read any more once it is judged.
Forget(w) == candidate' = [candidate EXCEPT ![w] = NoResult]

\* EvaluateSolution(candidate) is false: continue with the next round.
Reject(w) ==
  /\ wpc[w] = "judge"
  /\ ~candidate[w].valid
  /\ wpc' = [wpc EXCEPT ![w] = "head"]
  /\ Forget(w)
  /\ UNCHANGED <<left, localBest, localAt, mainVars, sharedVars, now>>

AfterJudging(s) == IF ReachesTarget(s) THEN "won" ELSE "head"

\* Variant: the answer of EvaluateSolution is dropped.
AcceptUnchecked(w) ==
  /\ wpc[w] = "judge"
  /\ Better(candidate[w], localBest[w])
  /\ localBest' = [localBest EXCEPT ![w] = candidate[w]]
  /\ localAt' = [localAt EXCEPT ![w] = now]
  /\ wpc' = [wpc EXCEPT ![w] = AfterJudging(candidate[w])]
  /\ Forget(w)
  /\ UNCHANGED <<left, mainVars, sharedVars, now>>

\* A valid candidate that beats the worker's record replaces it.
Accept(w) ==
  /\ wpc[w] = "judge"
  /\ candidate[w].valid
  /\ Better(candidate[w], localBest[w])
  /\ localBest' = [localBest EXCEPT ![w] = candidate[w]]
  /\ localAt' = [localAt EXCEPT ![w] = now]
  /\ wpc' = [wpc EXCEPT ![w] = AfterJudging(candidate[w])]
  /\ Forget(w)
  /\ UNCHANGED <<left, mainVars, sharedVars, now>>

\* A valid candidate that does not: the record stays (and is compared with
\* the target all the same).
Ignore(w) ==
  /\ wpc[w] = "judge"
  /\ candidate[w].valid
  /\ ~Better(candidate[w], localBest[w])
  /\ wpc' = [wpc EXCEPT ![w] = AfterJudging(localBest[w])]
  /\ Forget(w)
  /\ UNCHANGED <<left, localBest, localAt, mainVars, sharedVars, now>>

\* Variant: done is closed before the result is written.
WinUnpublished(w) ==
  /\ wpc[w] = "won"
  /\ wpc' = [wpc EXCEPT ![w] = "check"]
  /\ UNCHANGED <<left, localBest, localAt, candidate, sharedVars, mainVars, now>>

\* Target reached: the result is written first ...
Win(w) ==
  /\ wpc[w] = "won"
  /\ Publish(w)
  /\ wpc' = [wpc EXCEPT ![w] = "check"]
  /\ UNCHANGED <<left, localBest, localAt, candidate, closed, panicked,
                 mainVars, now>>

\* ... then select { case <-done: default: close(done) }, which is two steps:
\* the test of done, and the close.
CheckDone(w) ==
  /\ wpc[w] = "check"
  /\ wpc' = [wpc EXCEPT ![w] = IF closed THEN "exited" ELSE "close"]
  /\ UNCHANGED <<left, localBest, localAt, candidate, mainVars, sharedVars, now>>

\* closechan (go/src/runtime/chan.go) panics when the channel is closed already.
Close(w) ==
  /\ wpc[w] = "close"
  /\ IF closed
       THEN panicked' = TRUE /\ UNCHANGED <<closed, wpc>>
       ELSE /\ closed' = TRUE
            /\ wpc' = [wpc EXCEPT ![w] = "exited"]
            /\ UNCHANGED panicked
  /\ UNCHANGED <<left, localBest, localAt, candidate, results, mainVars, now>>

-----------------------------------------------------------------------------

Running == pc # "returned" /\ ~panicked

\* Time passes: the clock advances and the workers' deadlines come nearer.
Tick ==
  /\ now' = IF now < Horizon THEN now + 1 ELSE now
  /\ left' = [w \in Workers |-> IF left[w] > 0 THEN left[w] - 1 ELSE 0]
  /\ UNCHANGED <<mainVars, wpc, localBest, localAt, candidate, sharedVars>>

Main ==
  Seed \/ ReturnSeed \/ StartSpawning \/ Spawn \/ Wait \/ Collect

Work(w) ==
  \/ Start(w) \/ Enter(w) \/ TimeOut(w) \/ PollStop(w) \/ PollContinue(w)
  \/ Search(w) \/ Reject(w) \/ Accept(w) \/ Ignore(w)
  \/ Win(w) \/ CheckDone(w) \/ Close(w)

\* A panic in any goroutine ends the whole process, as does the return.
Halted == ~Running /\ UNCHANGED vars

Next ==
  \/ Running /\ Main
  \/ Running /\ \E w \in Workers : Work(w)
  \/ Running /\ Tick
  \/ Halted

Spec == Init /\ [][Next]_vars

\* The Go scheduler runs every runnable goroutine.  Nothing is assumed of the
\* clock: no deadline need ever pass.
Scheduling ==
  /\ WF_vars(Running /\ Main)
  /\ \A w \in Workers : WF_vars(Running /\ Work(w))

FairSpec == Spec /\ Scheduling
-----------------------------------------------------------------------------
(* Properties *)

MainStates   == {"seed", "seeded", "spawn", "wait", "collect", "returned"}
WorkerStates == {"unborn", "born", "head", "poll", "search", "judge", "won",
                 "check", "close", "exited"}

TypeOK ==
  /\ pc \in MainStates
  /\ next \in 0 .. NbWorkers
  /\ bestSol \in Solutions \cup {NoResult}
  /\ pc # "seed" => bestSol # NoResult
  /\ bestAt \in 0 .. Horizon
  /\ remaining \in 0 .. MaxDuration
  /\ wpc \in [Workers -> WorkerStates]
  /\ left \in [Workers -> 0 .. MaxDuration]
  /\ localBest \in [Workers -> Solutions \cup {NoResult}]
  /\ localAt \in [Workers -> 0 .. Horizon]
  /\ candidate \in [Workers -> Solutions \cup {NoResult}]
  /\ \A w \in Workers :
       /\ wpc[w] \notin {"unborn", "born"} => localBest[w] # NoResult
       /\ wpc[w] = "judge" => candidate[w] # NoResult
  /\ results \in [Workers -> [sol : Solutions \cup {NoResult}, at : 0 .. Horizon]]
  /\ closed \in BOOLEAN
  /\ panicked \in BOOLEAN
  /\ now \in 0 .. Horizon

\* Whatever path a worker leaves by (deadline, done closed, target reached), it
\* has written its slot of results, and the slot holds its last record: the
\* "r.sol == nil" guard of the collecting loop is never needed, and no late
\* improvement is missing from what the loop reads.
ResultsComplete ==
  \A w \in Workers :
    wpc[w] = "exited" => results[w] = [sol |-> localBest[w], at |-> localAt[w]]

\* done is closed only once a valid solution that reaches the target is in
\* results, so that the workers it stops are stopped for a reason the collecting
\* loop can see.
ClosedForAReason ==
  closed => \E w \in Workers : /\ results[w].sol # NoResult
                               /\ results[w].sol.valid
                               /\ ReachesTarget(results[w].sol)

\* What LocalSearch returns is at least as good as every valid result any worker
\* published: the collecting loop drops no result, whatever their order.
NoRecordDropped ==
  pc = "returned" =>
    \A w \in Workers : results[w].sol # NoResult =>
                         (results[w].sol.valid => ~Better(results[w].sol, bestSol))

\* If some worker stopped the others because it reached the target, the
\* returned solution reaches it too.
TargetIsReturned ==
  pc = "returned" /\ closed => ReachesTarget(bestSol)

\* Goroutines, slots of results and the collecting loop together do what
\* Incumbents says: a record is only ever replaced by a solution EvaluateSolution
\* accepts and that is strictly better, and what is returned is the seed or a
\* worker's record, beaten by no valid one.  In particular an infeasible solution
\* is returned only if it is the seed itself.
Promise == INSTANCE Incumbents WITH
  Helpers <- Workers, Solutions <- Solutions, Nothing <- NoResult,
  own <- bestSol, held <- localBest, over <- (pc = "returned")

KeepsPromise == Promise!Spec

\* The goroutines read bestSol, bestFoundAt and remaining of the caller without
\* a lock: the caller writes them only before the first of them is spawned and after the last one
\* has exited (wg.Wait).
NoSharedWrite ==
  [][ bestSol' # bestSol \/ bestAt' # bestAt \/ remaining' # remaining =>
        \A w \in Workers : wpc[w] \in {"unborn", "exited"} ]_vars

\* If time passes, LocalSearch returns (or panics): the deadlines end every
\* worker, whatever the candidates are worth.
Terminates == WF_vars(Running /\ Tick) => <>(~Running)

\* Once done is closed everything stops, without the help of any deadline: a
\* worker in the middle of a round polls done before the next one.
DoneStopsAll == closed ~> ~Running

\* What the run-time asserts of close: "panic(plainError("close of closed
\* channel"))" (go/src/runtime/chan.go, closechan).
NeverPanics == ~panicked

\* The assignment (sujet-3.pdf, section 2.2) gives 120 seconds per instance,
\* which main passes as maxDuration: what LocalSearch returns once its workers have
\* run was found in time, whichever of them found it and however long its last
\* round took.
FoundInTime == pc = "returned" /\ next = NbWorkers => bestAt <= MaxDuration
=============================================================================
