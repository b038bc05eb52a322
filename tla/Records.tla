------------------------------- MODULE Records -------------------------------
(***************************************************************************)
(* The loop of main.go over the instances, and WriteSolution (writer.go):  *)
(* an instance is solved, the result validated and compared with the one   *)
(* on disk, and both files of the instance, Instance<n>.sol and .time, are *)
(* rewritten if it is better.  The program may be killed at any point, a   *)
(* file may be unreadable, a write may fail, and the program may be run    *)
(* again.                                                                  *)
(*                                                                         *)
(* A .sol file is its first line, if it was written, and the number of day *)
(* lines after it; each write of a line happens or does not.  Solutions    *)
(* are abstracted to their score and to what EvaluateSolution answers.     *)
(***************************************************************************)
EXTENDS Integers, FiniteSets

CONSTANTS
  NbInstances,
  Loadable,   \* the instances LoadInstance accepts
  NbDays,     \* day lines of a solution
  Greedies,   \* what SolveGreedy may return
  Results,    \* what LocalSearch may return
  Times,      \* the durations, in microseconds
  Target,     \* optimalScores[...]; 0 if there is none
  Faults,     \* the faults that may happen: "kill", "read", "write"
  MaxFaults,  \* how many of them
  Absent,     \* a file that does not exist
  Nothing     \* no first line; no solution

Instances == 1 .. NbInstances
FarTime   == 999999999
Solutions == Greedies \cup Results

ASSUME CampaignAssumption ==
  /\ NbInstances \in Nat \ {0} /\ Loadable \subseteq Instances
  /\ NbDays \in Nat /\ MaxFaults \in Nat /\ Target \in Nat
  /\ Times \subseteq 0 .. FarTime - 1
  /\ Faults \subseteq {"kill", "read", "write"}
ASSUME OutcomesAssumption ==
  /\ Nothing \notin Solutions
  /\ Solutions \subseteq [score : Nat, valid : BOOLEAN]

\* The first line of a .sol file.  "at" is the time of its solution, which is
\* not part of the file.
Scores     == {s.score : s \in Solutions}
FirstLines == [score : Scores, valid : BOOLEAN, at : Times]

ASSUME FilesAssumption ==
  /\ Absent # Nothing /\ Absent \notin Nat /\ Nothing \notin Nat
  /\ Absent \notin [first : FirstLines \cup {Nothing}, days : 0 .. NbDays]
  /\ Nothing \notin FirstLines \cup [score : Nat, at : Nat]

VARIABLES
  solFile,   \* of each instance: Absent or [first, days]
  timeFile,  \* of each instance: Absent, Nothing (empty) or a duration
  pc,
  inst,      \* the instance at hand
  found,     \* optSolution, once it is valid
  elapsed,
  oldScore,
  oldTime,
  faults     \* the faults that may still happen

disk   == <<solFile, timeFile>>
locals == <<found, elapsed, oldScore, oldTime>>
vars   == <<disk, pc, inst, locals, faults>>

ClearLocals == found' = Nothing /\ elapsed' = 0 /\ oldScore' = -1 /\ oldTime' = FarTime

Init ==
  /\ solFile = [i \in Instances |-> Absent]
  /\ timeFile = [i \in Instances |-> Absent]
  /\ pc = "load" /\ inst = 1
  /\ found = Nothing /\ elapsed = 0 /\ oldScore = -1 /\ oldTime = FarTime
  /\ faults = MaxFaults

\* Variant: the last instance is not recognised.
AdvanceTooFar ==
  /\ inst' = inst + 1
  /\ pc' = IF inst > NbInstances THEN "done" ELSE "load"
  /\ ClearLocals

\* continue, or the end of the loop body.
Advance ==
  /\ inst' = IF inst = NbInstances THEN 1 ELSE inst + 1
  /\ pc' = IF inst = NbInstances THEN "done" ELSE "load"
  /\ ClearLocals

MayFail(kind) == kind \in Faults /\ faults > 0 /\ faults' = faults - 1

-----------------------------------------------------------------------------
(* Solving an instance *)

Load ==
  /\ pc = "load" /\ inst \in Loadable
  /\ pc' = "solve"
  /\ UNCHANGED <<disk, inst, locals, faults>>

\* The instance file is none, or cannot be opened or read this time.
LoadFails ==
  /\ pc = "load"
  /\ \/ inst \notin Loadable /\ UNCHANGED faults
     \/ MayFail("read")
  /\ Advance
  /\ UNCHANGED disk

ReachesTarget(s) == Target > 0 /\ s.score >= Target

\* Variant: the greedy solution that replaces a refused one is taken unseen.
SolveFallbackUnseen ==
  /\ pc = "solve"
  /\ \E greedy \in Greedies, t \in Times :
       \E s \in IF ReachesTarget(greedy) THEN {greedy} ELSE Results :
         /\ found' = (IF s.valid THEN s ELSE greedy)
         /\ elapsed' = t
  /\ pc' = "read"
  /\ UNCHANGED <<disk, inst, oldScore, oldTime, faults>>

\* The greedy solution is taken at once when it reaches the target; a result
\* EvaluateSolution refuses is replaced by the greedy solution, with the time
\* of the result, and the instance is given up if that one is refused too.
Solve ==
  /\ pc = "solve"
  /\ \E greedy \in Greedies, t \in Times :
       \E s \in IF ReachesTarget(greedy) THEN {greedy} ELSE Results :
         LET opt == IF s.valid THEN s ELSE greedy
         IN  \/ /\ opt.valid
                /\ found' = opt /\ elapsed' = t
                /\ pc' = "read"
                /\ UNCHANGED <<inst, oldScore, oldTime>>
             \/ /\ ~opt.valid
                /\ Advance
  /\ UNCHANGED <<disk, faults>>

-----------------------------------------------------------------------------
(* Comparing it with the one on disk *)

\* Variant: a missing score is taken for a very large one, as a missing time is.
ScoreOnDiskFar(f) ==
  IF f = Absent THEN FarTime
  ELSE IF f.first # Nothing THEN f.first.score
  ELSE IF f.days = 0 THEN FarTime ELSE 0

\* strconv.ParseFloat of the first line of the .sol file: a day line is no
\* number, which yields 0; a missing or empty file leaves -1.
ScoreOnDisk(f) ==
  IF f = Absent THEN -1
  ELSE IF f.first # Nothing THEN f.first.score
  ELSE IF f.days = 0 THEN -1 ELSE 0

\* Of the whole .time file: an empty one yields 0.
TimeOnDisk(f) ==
  IF f = Absent THEN FarTime ELSE IF f = Nothing THEN 0 ELSE f

\* A file that cannot be opened or read is taken for one that does not exist.
Read ==
  /\ pc = "read"
  /\ \E sol \in {solFile[inst], Absent}, time \in {timeFile[inst], Absent} :
       /\ oldScore' = ScoreOnDisk(sol) /\ oldTime' = TimeOnDisk(time)
       /\ IF sol = solFile[inst] /\ time = timeFile[inst] THEN UNCHANGED faults ELSE MayFail("read")
  /\ pc' = "compare"
  /\ UNCHANGED <<disk, inst, found, elapsed>>

\* Variant: the times are not compared.
ShouldWriteOnTie == found.score >= oldScore

ShouldWrite ==
  \/ found.score > oldScore
  \/ found.score = oldScore /\ elapsed < oldTime

Keep ==
  /\ pc = "compare" /\ ~ShouldWrite
  /\ Advance
  /\ UNCHANGED <<disk, faults>>

Decide ==
  /\ pc = "compare" /\ ShouldWrite
  /\ pc' = "create"
  /\ UNCHANGED <<disk, inst, locals, faults>>

-----------------------------------------------------------------------------
(* Writing *)

\* os.Create empties the file; if it fails, main goes on to the next instance.
Create ==
  /\ pc = "create"
  /\ \/ /\ solFile' = [solFile EXCEPT ![inst] = [first |-> Nothing, days |-> 0]]
        /\ pc' = "first"
        /\ UNCHANGED <<inst, locals, faults>>
     \/ MayFail("write") /\ Advance /\ UNCHANGED solFile
  /\ UNCHANGED timeFile

\* The line with the score, whose error is not looked at.
FirstLine ==
  /\ pc = "first"
  /\ \/ /\ solFile' = [solFile EXCEPT
             ![inst].first = [score |-> found.score, valid |-> found.valid, at |-> elapsed]]
        /\ UNCHANGED faults
     \/ MayFail("write") /\ UNCHANGED solFile
  /\ pc' = "days"
  /\ UNCHANGED <<timeFile, inst, locals>>

\* A line per day; an error is returned to main, which goes on to the next
\* instance.
DayLine ==
  /\ pc = "days" /\ solFile[inst].days < NbDays
  /\ \/ /\ solFile' = [solFile EXCEPT ![inst].days = @ + 1]
        /\ UNCHANGED <<pc, inst, locals, faults>>
     \/ MayFail("write") /\ Advance /\ UNCHANGED solFile
  /\ UNCHANGED timeFile

\* Variant: the time is only rewritten along with a new score.
WrittenKeepingTime ==
  /\ pc = "days" /\ solFile[inst].days = NbDays
  /\ \/ found.score > oldScore /\ pc' = "time" /\ UNCHANGED <<inst, locals>>
     \/ found.score = oldScore /\ Advance
  /\ UNCHANGED <<disk, faults>>

\* WriteSolution returns nil.
Written ==
  /\ pc = "days" /\ solFile[inst].days = NbDays
  /\ pc' = "time"
  /\ UNCHANGED <<disk, inst, locals, faults>>

\* os.WriteFile empties the .time file and writes it; its error is not looked at.
EmptyTime ==
  /\ pc = "time"
  /\ \/ /\ timeFile' = [timeFile EXCEPT ![inst] = Nothing]
        /\ pc' = "stamp"
        /\ UNCHANGED <<inst, locals, faults>>
     \/ MayFail("write") /\ Advance /\ UNCHANGED timeFile
  /\ UNCHANGED solFile

Stamp ==
  /\ pc = "stamp"
  /\ \/ timeFile' = [timeFile EXCEPT ![inst] = elapsed] /\ UNCHANGED faults
     \/ MayFail("write") /\ UNCHANGED timeFile
  /\ Advance
  /\ UNCHANGED solFile

-----------------------------------------------------------------------------

Kill ==
  /\ pc \notin {"done", "down"} /\ MayFail("kill")
  /\ pc' = "down" /\ inst' = 1 /\ ClearLocals
  /\ UNCHANGED disk

\* The program is run again.
Rerun ==
  /\ pc \in {"done", "down"}
  /\ pc' = "load"
  /\ UNCHANGED <<disk, inst, locals, faults>>

Run ==
  \/ Load \/ LoadFails \/ Solve \/ Read \/ Keep \/ Decide
  \/ Create \/ FirstLine \/ DayLine \/ Written \/ EmptyTime \/ Stamp

Next == Run \/ Kill \/ Rerun

Spec == Init /\ [][Next]_vars

\* A process that is not killed goes on, and somebody runs the program again.
FairSpec == Spec /\ WF_vars(Run) /\ WF_vars(Rerun)
-----------------------------------------------------------------------------
(* Properties *)

TypeOK ==
  /\ solFile \in [Instances -> {Absent} \cup [first : FirstLines \cup {Nothing}, days : 0 .. NbDays]]
  /\ timeFile \in [Instances -> {Absent, Nothing} \cup Times]
  /\ pc \in {"load", "solve", "read", "compare", "create", "first", "days", "time",
              "stamp", "done", "down"}
  /\ inst \in Instances
  /\ found \in Solutions \cup {Nothing}
  /\ elapsed \in Times \cup {0}
  /\ oldScore \in Nat \cup {-1} /\ oldTime \in Nat
  /\ faults \in 0 .. MaxFaults

\* Whether WriteSolution has written all of it.
Complete(f) == f # Absent /\ f.first # Nothing /\ f.days = NbDays

NoScoreLine(f) == f = Absent \/ f.first = Nothing

Rewriting == pc \in {"create", "first", "days", "time", "stamp"}

Writing(i) == Rewriting /\ i = inst

AgreeOn(i) ==
  \/ solFile[i] = Absent /\ timeFile[i] = Absent
  \/ Complete(solFile[i]) /\ timeFile[i] = solFile[i].first.at

Disagreeing == {i \in Instances : ~Writing(i) /\ ~AgreeOn(i)}

\* The two files of an instance belong to the same solution while they are not
\* being rewritten, but for one instance per fault: a fault damages the
\* files of the instance at hand and no others, however main has compared, and
\* without faults nothing is damaged although the files are written one after the
\* other.
FilesAgree == Cardinality(Disagreeing) <= MaxFaults - faults

\* What is on disk was accepted by EvaluateSolution, also when main falls back to
\* the greedy solution.
OnlyValidWritten ==
  \A i \in Instances :
    solFile[i] # Absent => (solFile[i].first # Nothing => solFile[i].first.valid)

Replacing(i) == i = inst /\ (Rewriting \/ (pc = "compare" /\ ShouldWrite))

\* What main would read of instance i; while it replaces the record, what it read.
RecordOf(i) ==
  LET score == IF Replacing(i) THEN oldScore ELSE ScoreOnDisk(solFile[i])
      at    == IF Replacing(i) THEN oldTime  ELSE TimeOnDisk(timeFile[i])
  IN  IF score = -1 THEN Nothing ELSE [score |-> score, at |-> at]

records == [i \in Instances |-> RecordOf(i)]

\* A score line that was lost shows when the file is next read.
Pending ==
  IF pc \in {"days", "time", "stamp"} /\ solFile[inst].first = Nothing THEN 1 ELSE 0

ResultRanks  == [score : Scores, at : Times]
DamagedRanks == [score : Scores \cup {0}, at : Times \cup {0, FarTime}]

Abstract == INSTANCE BestRecord WITH
  Ranks <- ResultRanks, Readable <- DamagedRanks, MaxMishaps <- MaxFaults,
  best <- records, mishaps <- faults + Pending

\* Whatever is killed or fails, all main ever does to solutions/ is to replace a
\* record by a better one ("Écrire si meilleur score, ou même score mais temps
\* plus court"), and each fault damages at most one record: a torn file, an empty
\* one or one without its first line is later replaced by the same rule, and one
\* that could not be read is replaced by whatever was found.
OnlyImproves == Abstract!Spec

\* A record whose first line was lost (the program was killed after os.Create
\* had emptied the file, or a write failed) is replaced by a complete one once
\* the faults have ended, provided the solver goes on delivering valid solutions
\* for the instance: neither a day line read as a score nor a time left from the
\* old file makes main believe there is nothing to write.
LostIsRegained ==
  \A i \in Loadable :
    []<>(pc = "read" /\ inst = i) =>
      (faults = 0 /\ NoScoreLine(solFile[i]) ~> Complete(solFile[i]))

\* main.go says: "Écrire si meilleur score, ou même score mais temps plus court".
\* Whenever both files of an instance are written to the end, no result is thrown
\* away that is better than the solution in the .sol file: the time main compares
\* with is not that of a solution replaced before.
WritesIfBetter ==
  [][LET better == Abstract!BetterRecord([score |-> found.score, at |-> elapsed],
                                         solFile[inst].first)
     IN  Complete(solFile[inst]) /\ timeFile[inst] \in Times /\ Keep => ~better]_vars

\* writer.go says of the file: "Ligne 1 : score total", then "une ligne par
\* jour".  When WriteSolution returns without an error, that is what it wrote.
SuccessMeansComplete == pc = "time" => Complete(solFile[inst])
=============================================================================
