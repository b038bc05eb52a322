---------------------------- MODULE RecordsProofs ----------------------------
(***************************************************************************)
(* The safety of the records on disk, for any number of instances and      *)
(* days, any outcomes of the solver, any target and any faults, be they    *)
(* killed runs, unreadable files or failing writes: types, that only valid *)
(* solutions are written, that a fault damages one record at most, and the *)
(* refinement of BestRecord.                                               *)
(***************************************************************************)
EXTENDS Records, FiniteSetTheorems, TLAPS

Files == [first : FirstLines \cup {Nothing}, days : 0 .. NbDays]

USE DEF disk, locals

-----------------------------------------------------------------------------
(* Types, and what is written *)

\* From its validation until it is written, the solution at hand is valid.
Judged ==
  pc \in {"read", "compare", "create", "first", "days", "time", "stamp"} =>
    found \in Solutions /\ found.valid /\ elapsed \in Times

\* A file that is being written exists.
Opened == pc \in {"first", "days", "time", "stamp"} => solFile[inst] \in Files

SafeInv == TypeOK /\ Judged /\ Opened /\ OnlyValidWritten

\* Durations are natural numbers.
LEMMA TimesAreNumbers == FarTime \in Nat /\ Times \subseteq Nat
<1>1. FarTime \in Nat
  BY SMT DEF FarTime
<1>2. ASSUME NEW t \in Times PROVE t \in Nat
  BY CampaignAssumption, <1>1
<1>3. QED
  BY <1>1, <1>2

\* So are scores.
LEMMA ScoresAreNumbers ==
  /\ Scores \subseteq Nat
  /\ \A s \in Solutions : s.score \in Scores /\ s.score \in Nat
BY OutcomesAssumption DEF Scores

\* What is read of files, whatever is in them, is a number: the score of a
\* solution, 0 or none, and a duration or one of its defaults.
LEMMA ReadIsTyped ==
  /\ \A sol \in {Absent} \cup Files :
       ScoreOnDisk(sol) \in Scores \cup {0, -1} /\ ScoreOnDisk(sol) \in Nat \cup {-1}
  /\ \A time \in {Absent, Nothing} \cup Times :
       TimeOnDisk(time) \in Times \cup {0, FarTime} /\ TimeOnDisk(time) \in Nat
<1>1. ASSUME NEW sol \in {Absent} \cup Files
      PROVE  ScoreOnDisk(sol) \in Scores \cup {0, -1} /\ ScoreOnDisk(sol) \in Nat \cup {-1}
  BY ScoresAreNumbers DEF ScoreOnDisk, Files, FirstLines
<1>2. ASSUME NEW time \in {Absent, Nothing} \cup Times
      PROVE  TimeOnDisk(time) \in Times \cup {0, FarTime} /\ TimeOnDisk(time) \in Nat
  BY TimesAreNumbers DEF TimeOnDisk
<1>3. QED
  BY <1>1, <1>2

\* The files of an instance, read or taken for absent.
LEMMA FilesAreTyped ==
  ASSUME TypeOK
  PROVE  /\ {solFile[inst], Absent} \subseteq {Absent} \cup Files
         /\ {timeFile[inst], Absent} \subseteq {Absent, Nothing} \cup Times
BY DEF TypeOK, Files

\* Going on to the next instance keeps the types of what it sets.
LEMMA AdvanceIsTyped ==
  ASSUME TypeOK, Advance
  PROVE  /\ inst' \in Instances /\ pc' \in {"done", "load"}
         /\ found' = Nothing /\ elapsed' = 0 /\ oldScore' = -1 /\ oldTime' \in Nat
BY CampaignAssumption, TimesAreNumbers DEF TypeOK, Advance, ClearLocals, Instances

\* A fault uses up one of those that are left.
LEMMA FaultIsTyped ==
  ASSUME TypeOK, NEW kind, MayFail(kind)
  PROVE  faults' \in 0 .. MaxFaults
BY CampaignAssumption DEF TypeOK, MayFail

\* Nothing exists at the start.
LEMMA InitSafe == Init => SafeInv
<1> SUFFICES ASSUME Init PROVE SafeInv
  OBVIOUS
<1>1. TypeOK
  BY CampaignAssumption, TimesAreNumbers DEF Init, TypeOK, Instances
<1>2. QED
  BY <1>1 DEF Init, SafeInv, Judged, Opened, OnlyValidWritten

\* The steps that leave the disk alone.
LEMMA QuietSafe ==
  ASSUME SafeInv, Load \/ LoadFails \/ Solve \/ Read \/ Keep \/ Decide \/ Kill \/ Rerun
  PROVE  SafeInv'
<1>1. UNCHANGED disk /\ (OnlyValidWritten => OnlyValidWritten')
  BY DEF Load, LoadFails, Solve, Read, Keep, Decide, Kill, Rerun, OnlyValidWritten
<1>2. CASE Load
  BY <1>1, <1>2 DEF Load, SafeInv, TypeOK, Judged, Opened
<1>3. CASE LoadFails
  BY <1>1, <1>3, AdvanceIsTyped, FaultIsTyped DEF LoadFails, SafeInv, TypeOK, Judged, Opened
<1>4. CASE Solve
  <2>1. PICK greedy \in Greedies, t \in Times, s \in Solutions :
          LET opt == IF s.valid THEN s ELSE greedy
          IN  \/ /\ opt.valid
                 /\ found' = opt /\ elapsed' = t
                 /\ pc' = "read"
                 /\ UNCHANGED <<inst, oldScore, oldTime>>
              \/ /\ ~opt.valid
                 /\ Advance
    BY <1>4 DEF Solve, Solutions
  <2>2. CASE Advance
    BY <1>1, <1>4, <2>2, AdvanceIsTyped DEF Solve, SafeInv, TypeOK, Judged, Opened
  <2>3. CASE ~Advance
    <3>1. found' \in Solutions /\ found'.valid /\ elapsed' \in Times /\ pc' = "read"
      BY <2>1, <2>3 DEF Solutions
    <3>2. UNCHANGED <<inst, oldScore, oldTime, faults>>
      BY <1>4, <2>1, <2>3 DEF Solve
    <3>3. QED
      BY <1>1, <3>1, <3>2 DEF SafeInv, TypeOK, Judged, Opened
  <2>4. QED
    BY <2>2, <2>3
<1>5. CASE Read
  <2>1. oldScore' \in Nat \cup {-1} /\ oldTime' \in Nat
    BY <1>5, ReadIsTyped, FilesAreTyped DEF Read, SafeInv
  <2>2. faults' \in 0 .. MaxFaults
    BY <1>5, FaultIsTyped DEF Read, SafeInv, TypeOK
  <2>3. QED
    BY <1>1, <1>5, <2>1, <2>2 DEF Read, SafeInv, TypeOK, Judged, Opened
<1>6. CASE Keep
  BY <1>1, <1>6, AdvanceIsTyped DEF Keep, SafeInv, TypeOK, Judged, Opened
<1>7. CASE Decide
  BY <1>1, <1>7 DEF Decide, SafeInv, TypeOK, Judged, Opened
<1>8. CASE Kill
  BY <1>1, <1>8, FaultIsTyped, CampaignAssumption, TimesAreNumbers
     DEF Kill, ClearLocals, Instances, SafeInv, TypeOK, Judged, Opened
<1>9. CASE Rerun
  BY <1>1, <1>9 DEF Rerun, SafeInv, TypeOK, Judged, Opened
<1>10. QED
  BY <1>2, <1>3, <1>4, <1>5, <1>6, <1>7, <1>8, <1>9

\* A write that fails, where main goes on to the next instance.
LEMMA AbandonSafe ==
  ASSUME SafeInv, MayFail("write"), Advance, UNCHANGED disk
  PROVE  SafeInv'
BY AdvanceIsTyped, FaultIsTyped DEF SafeInv, TypeOK, Judged, Opened, OnlyValidWritten

\* The steps that write the .sol file: an empty file, then the line of a valid
\* solution, then the day lines.
LEMMA SolFileSafe ==
  ASSUME SafeInv, Create \/ FirstLine \/ DayLine
  PROVE  SafeInv'
<1> DEFINE f == solFile[inst]
<1>1. inst \in Instances /\ solFile \in [Instances -> {Absent} \cup Files]
  BY DEF SafeInv, TypeOK, Files
<1>2. ASSUME NEW g \in Files, solFile' = [solFile EXCEPT ![inst] = g],
             g.first # Nothing => g.first.valid,
             UNCHANGED <<timeFile, inst, locals>>,
             faults' \in 0 .. MaxFaults, pc' \in {"first", "days"}, Judged'
      PROVE  SafeInv'
  <2>1. solFile' \in [Instances -> {Absent} \cup Files] /\ solFile'[inst] = g
    BY <1>1, <1>2
  <2>2. TypeOK'
    BY <1>2, <2>1 DEF SafeInv, TypeOK, Files
  <2>3. OnlyValidWritten'
    BY <1>1, <1>2 DEF SafeInv, OnlyValidWritten
  <2>4. QED
    BY <1>2, <2>1, <2>2, <2>3 DEF SafeInv, Opened
<1>3. CASE Create
  <2>1. CASE solFile' = solFile
    <3>1. CASE Advance
      BY <1>3, <2>1, <3>1, AdvanceIsTyped, FaultIsTyped
         DEF Create, SafeInv, TypeOK, Judged, Opened, OnlyValidWritten
    <3>2. CASE ~Advance
      BY <1>1, <1>2, <1>3, <3>2, CampaignAssumption DEF Create, SafeInv, TypeOK, Judged, Files
    <3>3. QED
      BY <3>1, <3>2
  <2>2. CASE solFile' # solFile
    BY <1>1, <1>2, <1>3, <2>2, CampaignAssumption DEF Create, SafeInv, TypeOK, Judged, Files
  <2>3. QED
    BY <2>1, <2>2
<1>4. CASE FirstLine
  <2>1. f \in Files /\ found \in Solutions /\ found.valid /\ elapsed \in Times
    BY <1>4 DEF FirstLine, SafeInv, Opened, Judged
  <2>2. Judged'
    BY <1>4, <2>1 DEF FirstLine, Judged
  <2>3. [score |-> found.score, valid |-> found.valid, at |-> elapsed] \in FirstLines
    BY <2>1, OutcomesAssumption, ScoresAreNumbers DEF FirstLines
  <2>4. CASE solFile' = solFile
    <3>1. faults' \in 0 .. MaxFaults
      BY <1>4, FaultIsTyped DEF FirstLine, SafeInv, TypeOK
    <3>2. QED
      BY <1>1, <1>4, <2>1, <2>2, <2>4, <3>1
         DEF FirstLine, SafeInv, TypeOK, Opened, OnlyValidWritten
  <2>5. CASE solFile' # solFile
    <3> DEFINE line == [score |-> found.score, valid |-> found.valid, at |-> elapsed]
               g    == [f EXCEPT !.first = line]
    <3>1. g \in Files /\ g.first = line
      BY <2>1, <2>3 DEF Files
    <3>2. solFile' = [solFile EXCEPT ![inst] = g]
      BY <1>4, <2>5 DEF FirstLine
    <3>3. g.first.valid
      BY <2>1, <3>1
    <3>4. faults' \in 0 .. MaxFaults /\ pc' = "days" /\ UNCHANGED <<timeFile, inst, locals>>
      BY <1>4, FaultIsTyped DEF FirstLine, SafeInv, TypeOK
    <3> HIDE DEF g
    <3>5. QED
      BY <1>2, <2>2, <3>1, <3>2, <3>3, <3>4
  <2>6. QED
    BY <2>4, <2>5
<1>5. CASE DayLine
  <2>1. f \in Files
    BY <1>5 DEF DayLine, SafeInv, Opened
  <2>2. CASE Advance /\ MayFail("write") /\ UNCHANGED solFile
    BY <1>5, <2>2, AbandonSafe DEF DayLine
  <2>3. CASE solFile' = [solFile EXCEPT ![inst].days = @ + 1] /\ UNCHANGED <<pc, inst, locals, faults>>
    <3> DEFINE g == [f EXCEPT !.days = @ + 1]
    <3>1. g \in Files /\ g.first = f.first
      BY <1>5, <2>1, CampaignAssumption DEF DayLine, Files
    <3>2. solFile' = [solFile EXCEPT ![inst] = g]
      BY <2>3
    <3>3. g.first # Nothing => g.first.valid
      BY <1>1, <2>1, <3>1, FilesAssumption DEF SafeInv, OnlyValidWritten, Files
    <3>4. /\ faults' \in 0 .. MaxFaults /\ pc' = "days"
          /\ UNCHANGED <<timeFile, inst, locals>> /\ Judged'
      BY <1>5, <2>3 DEF DayLine, SafeInv, TypeOK, Judged
    <3> HIDE DEF g
    <3>5. QED
      BY <1>2, <3>1, <3>2, <3>3, <3>4
  <2>4. QED
    BY <1>5, <2>2, <2>3 DEF DayLine
<1>6. QED
  BY <1>3, <1>4, <1>5

\* The steps after the last line.
LEMMA TimeFileSafe ==
  ASSUME SafeInv, Written \/ EmptyTime \/ Stamp
  PROVE  SafeInv'
<1>1. CASE Written
  BY <1>1 DEF Written, SafeInv, TypeOK, Judged, Opened, OnlyValidWritten
<1>2. CASE EmptyTime
  <2>1. CASE Advance
    <3>1. UNCHANGED solFile /\ timeFile' \in [Instances -> {Absent, Nothing} \cup Times]
      BY <1>2 DEF EmptyTime, SafeInv, TypeOK
    <3>2. faults' \in 0 .. MaxFaults
      BY <1>2, FaultIsTyped DEF EmptyTime, SafeInv, TypeOK
    <3>3. QED
      BY <2>1, <3>1, <3>2, AdvanceIsTyped DEF SafeInv, TypeOK, Judged, Opened, OnlyValidWritten
  <2>2. CASE ~Advance
    BY <1>2, <2>2 DEF EmptyTime, SafeInv, TypeOK, Judged, Opened, OnlyValidWritten
  <2>3. QED
    BY <2>1, <2>2
<1>3. CASE Stamp
  <2>1. elapsed \in Times
    BY <1>3 DEF Stamp, SafeInv, Judged
  <2>2. UNCHANGED solFile /\ timeFile' \in [Instances -> {Absent, Nothing} \cup Times]
    BY <1>3, <2>1 DEF Stamp, SafeInv, TypeOK
  <2>3. faults' \in 0 .. MaxFaults
    BY <1>3, FaultIsTyped DEF Stamp, SafeInv, TypeOK
  <2>4. QED
    BY <1>3, <2>2, <2>3, AdvanceIsTyped
       DEF Stamp, SafeInv, TypeOK, Judged, Opened, OnlyValidWritten
<1>4. QED
  BY <1>1, <1>2, <1>3

\* Every step keeps the types, and a line on disk that of a valid solution.
LEMMA StepSafe == SafeInv /\ [Next]_vars => SafeInv'
<1> SUFFICES ASSUME SafeInv, [Next]_vars PROVE SafeInv'
  OBVIOUS
<1>1. CASE UNCHANGED vars
  BY <1>1 DEF vars, SafeInv, TypeOK, Judged, Opened, OnlyValidWritten
<1>2. CASE Next
  BY <1>2, QuietSafe, SolFileSafe, TimeFileSafe DEF Next, Run
<1>3. QED
  BY <1>1, <1>2

\* Types and local facts hold whatever faults happen.
THEOREM Safety == Spec => []SafeInv
BY InitSafe, StepSafe, PTL DEF Spec

\* The loop of main keeps its types, whatever is killed or fails.
THEOREM RecordsTyped == Spec => []TypeOK
<1>1. SafeInv => TypeOK
  BY DEF SafeInv
<1>2. QED
  BY <1>1, Safety, PTL

\* Only solutions EvaluateSolution accepts are written, also when main falls
\* back to the greedy solution.
THEOREM OnlyValidOnDisk == Spec => []OnlyValidWritten
<1>1. SafeInv => OnlyValidWritten
  BY DEF SafeInv
<1>2. QED
  BY <1>1, Safety, PTL

-----------------------------------------------------------------------------
(* What a fault may damage *)

Line == [score |-> found.score, valid |-> found.valid, at |-> elapsed]

\* What main writes is better than what it has read.
Better == Rewriting => ShouldWrite

\* How far the .sol file is written, but for a first line that was lost.
Content ==
  /\ pc = "first" => solFile[inst].first = Nothing
  /\ pc \in {"days", "time", "stamp"} => solFile[inst].first \in {Line, Nothing}
  /\ pc \in {"time", "stamp"} => solFile[inst].days = NbDays

\* Every damaged record has its fault, and so has the one that is about to be.
DamageCounted == Cardinality(Disagreeing) + Pending <= MaxFaults - faults

RecordInv == SafeInv /\ DamageCounted /\ Better /\ Content

\* What DamageCounted adds up is finite.
LEMMA Countable ==
  /\ IsFiniteSet(Instances)
  /\ \A S \in SUBSET Instances : IsFiniteSet(S) /\ Cardinality(S) \in Nat
<1>1. IsFiniteSet(Instances)
  BY FS_Interval, CampaignAssumption DEF Instances
<1>2. QED
  BY <1>1, FS_Subset, FS_CardinalityType

\* A step that damages at most the files of the instance at hand.
LEMMA AtMostOneMore ==
  ASSUME TypeOK, Disagreeing' \subseteq Disagreeing \cup {inst}
  PROVE  /\ Cardinality(Disagreeing) \in Nat /\ Cardinality(Disagreeing') \in Nat
         /\ Cardinality(Disagreeing') <= Cardinality(Disagreeing) + 1
<1>1. /\ Disagreeing \in SUBSET Instances /\ Disagreeing \cup {inst} \in SUBSET Instances
      /\ Disagreeing' \in SUBSET Instances
  BY DEF Disagreeing, TypeOK
<1>2. Cardinality(Disagreeing') <= Cardinality(Disagreeing \cup {inst})
  BY <1>1, Countable, FS_Subset
<1>3. Cardinality(Disagreeing \cup {inst}) <= Cardinality(Disagreeing) + 1
  BY <1>1, Countable, FS_AddElement
<1>4. QED
  BY <1>1, <1>2, <1>3, Countable

\* A step that damages none.
LEMMA NoMore ==
  ASSUME Disagreeing' \subseteq Disagreeing
  PROVE  /\ Cardinality(Disagreeing) \in Nat /\ Cardinality(Disagreeing') \in Nat
         /\ Cardinality(Disagreeing') <= Cardinality(Disagreeing)
<1>1. Disagreeing \in SUBSET Instances /\ Disagreeing' \in SUBSET Instances
  BY DEF Disagreeing
<1>2. QED
  BY <1>1, Countable, FS_Subset

\* At the start there are no files to disagree.
LEMMA InitRecords == Init => RecordInv
<1> SUFFICES ASSUME Init PROVE RecordInv
  OBVIOUS
<1>1. Disagreeing = {} /\ Pending = 0
  BY DEF Init, Disagreeing, AgreeOn, Pending
<1>2. DamageCounted
  BY <1>1, FS_EmptySet, CampaignAssumption DEF Init, DamageCounted
<1>3. QED
  BY <1>2, InitSafe DEF Init, RecordInv, Better, Content, Rewriting

\* A step that does not touch the files, nor begins or ends to.
LEMMA Aside ==
  ASSUME RecordInv, SafeInv', UNCHANGED disk, ~Rewriting, ~Rewriting',
         faults' <= faults
  PROVE  RecordInv'
<1>1. Disagreeing' = Disagreeing /\ Pending = 0 /\ Pending' = 0
  BY DEF Disagreeing, Writing, AgreeOn, Complete, Pending, Rewriting
<1>2. DamageCounted'
  BY <1>1, NoMore, CampaignAssumption DEF RecordInv, DamageCounted, SafeInv, TypeOK
<1>3. QED
  BY <1>2 DEF RecordInv, Better, Content, Rewriting

\* A step in the middle of writing.
LEMMA GoesOn ==
  ASSUME RecordInv, SafeInv', Rewriting, Rewriting', UNCHANGED <<inst, locals>>,
         \A i \in Instances \ {inst} : solFile'[i] = solFile[i] /\ timeFile'[i] = timeFile[i],
         Content', faults' + Pending' <= faults + Pending
  PROVE  RecordInv'
<1>1. Disagreeing' = Disagreeing
  BY DEF Disagreeing, Writing, AgreeOn, Complete
<1>2. Pending \in {0, 1} /\ Pending' \in {0, 1}
  BY DEF Pending
<1>3. faults \in Nat /\ faults' \in Nat
  BY CampaignAssumption DEF RecordInv, SafeInv, TypeOK
<1>4. DamageCounted'
  <2>1. Cardinality(Disagreeing) \in Nat /\ Cardinality(Disagreeing)' = Cardinality(Disagreeing)
    BY <1>1, NoMore
  <2>2. ASSUME NEW c \in Nat, NEW m \in Nat, NEW f \in Nat, NEW g \in Nat,
               NEW p \in {0, 1}, NEW q \in {0, 1}, c + p <= m - f, g + q <= f + p
        PROVE  c + q <= m - g
    BY <2>2
  <2>3. Cardinality(Disagreeing) + Pending <= MaxFaults - faults /\ MaxFaults \in Nat
    BY CampaignAssumption DEF RecordInv, DamageCounted
  <2>4. Cardinality(Disagreeing) + Pending' <= MaxFaults - faults'
    BY <1>2, <1>3, <2>1, <2>2, <2>3
  <2>5. QED
    BY <2>1, <2>4 DEF DamageCounted
<1>5. QED
  BY <1>4 DEF RecordInv, Better, ShouldWrite, Rewriting

\* A step that ends the writing, as it should or not.
LEMMA Ends ==
  ASSUME RecordInv, SafeInv', Rewriting, pc' \in {"load", "done", "down"},
         \A i \in Instances \ {inst} : solFile'[i] = solFile[i] /\ timeFile'[i] = timeFile[i],
         \/ faults' = faults - 1
         \/ faults' = faults /\ Pending = 1
         \/ faults' = faults /\ inst \notin Disagreeing'
  PROVE  RecordInv'
<1>1. Disagreeing' \subseteq Disagreeing \cup {inst} /\ ~Rewriting' /\ Pending' = 0
  BY DEF Disagreeing, Writing, AgreeOn, Complete, Rewriting, Pending
<1>2. Pending \in {0, 1} /\ faults \in Nat /\ TypeOK
  BY CampaignAssumption DEF Pending, RecordInv, SafeInv, TypeOK
<1>3. DamageCounted'
  <2>1. CASE inst \in Disagreeing'
    BY <1>1, <1>2, <2>1, AtMostOneMore, CampaignAssumption DEF RecordInv, DamageCounted
  <2>2. CASE inst \notin Disagreeing'
    BY <1>1, <1>2, <2>2, NoMore, CampaignAssumption DEF RecordInv, DamageCounted
  <2>3. QED
    BY <2>1, <2>2
<1>4. QED
  BY <1>1, <1>3 DEF RecordInv, Better, Content, Rewriting

\* The line main writes is no missing one.
LEMMA LineIsALine ==
  ASSUME SafeInv, Rewriting
  PROVE  Line \in FirstLines /\ Line # Nothing /\ Line.at = elapsed /\ Line.score = found.score
<1>1. found \in Solutions /\ elapsed \in Times
  BY DEF SafeInv, Judged, Rewriting
<1>2. Line \in FirstLines
  BY <1>1, OutcomesAssumption, ScoresAreNumbers DEF Line, FirstLines
<1>3. QED
  BY <1>2, FilesAssumption DEF Line

\* Each step of main leaves at most the files at hand in disagreement, and then
\* for a fault, or what it is writing as far as it says.
LEMMA StepRecords ==
  ASSUME RecordInv, [Next]_vars
  PROVE  RecordInv'
<1>1. SafeInv'
  BY StepSafe DEF RecordInv
<1>2. inst \in Instances /\ DOMAIN solFile = Instances /\ DOMAIN timeFile = Instances
  BY DEF RecordInv, SafeInv, TypeOK
<1>3. Pending \in {0, 1} /\ faults \in Nat /\ faults' \in Nat
  BY <1>1, CampaignAssumption DEF Pending, RecordInv, SafeInv, TypeOK
<1>4. CASE UNCHANGED vars
  <2>1. Disagreeing' = Disagreeing /\ Pending' = Pending
    BY <1>4 DEF vars, Disagreeing, Writing, Rewriting, AgreeOn, Complete, Pending
  <2>2. QED
    BY <1>1, <1>4, <2>1
       DEF vars, RecordInv, DamageCounted, Better, ShouldWrite, Content, Line, Rewriting
<1>5. CASE Load \/ LoadFails \/ Keep \/ Rerun
  <2>1. UNCHANGED disk /\ faults' <= faults
    BY <1>3, <1>5 DEF Load, LoadFails, Keep, Rerun, MayFail
  <2>2. ~Rewriting /\ ~Rewriting'
    BY <1>5 DEF Load, LoadFails, Keep, Rerun, Advance, Rewriting
  <2>3. QED
    BY <1>1, <2>1, <2>2, Aside
<1>6. CASE Solve
  <2>1. UNCHANGED <<disk, faults>> /\ ~Rewriting /\ pc' \in {"read", "done", "load"}
    BY <1>6 DEF Solve, Advance, Rewriting
  <2>2. QED
    BY <1>1, <1>3, <2>1, Aside DEF Rewriting
<1>7. CASE Read
  BY <1>1, <1>3, <1>7, Aside DEF Read, MayFail, Rewriting
<1>8. CASE Decide
  <2>1. Better' /\ Content'
    BY <1>8 DEF Decide, Better, ShouldWrite, Content
  <2>2. Disagreeing' \subseteq Disagreeing /\ Pending = 0 /\ Pending' = 0 /\ faults' = faults
    BY <1>8 DEF Decide, Disagreeing, AgreeOn, Complete, Writing, Rewriting, Pending
  <2>3. DamageCounted'
    BY <1>3, <2>2, NoMore, CampaignAssumption DEF RecordInv, DamageCounted
  <2>4. QED
    BY <1>1, <2>1, <2>3 DEF RecordInv
<1>9. CASE Create
  <2>1. CASE pc' = "first"
    <3>1. Pending = 0 /\ Pending' = 0 /\ Rewriting /\ Rewriting' /\ Content'
      BY <1>2, <1>9, <2>1 DEF Create, Advance, Pending, Content, Rewriting
    <3>2. UNCHANGED <<inst, locals, faults, timeFile>>
      BY <1>9, <2>1 DEF Create, Advance
    <3>3. QED
      BY <1>1, <1>2, <1>3, <1>9, <3>1, <3>2, GoesOn DEF Create, Advance
  <2>2. CASE pc' # "first"
    BY <1>1, <1>9, <2>2, Ends DEF Create, MayFail, Advance, Rewriting
  <2>3. QED
    BY <2>1, <2>2
<1>10. CASE FirstLine
  <2>1. /\ Line' = Line /\ pc' = "days" /\ pc = "first" /\ Rewriting /\ Rewriting'
        /\ UNCHANGED <<timeFile, inst, locals>>
    BY <1>10 DEF FirstLine, Line, Rewriting
  <2>2. solFile[inst] \in Files /\ Line # Nothing
    BY <1>10, <2>1, LineIsALine DEF FirstLine, RecordInv, SafeInv, Opened
  <2>3. Pending = 0
    BY <2>1 DEF Pending
  <2>4. CASE solFile' = [solFile EXCEPT ![inst].first = Line] /\ UNCHANGED faults
    <3>1. solFile'[inst].first = Line
      BY <1>2, <2>2, <2>4 DEF Files
    <3>2. Content' /\ Pending' = 0
      BY <2>1, <2>2, <3>1 DEF Content, Pending
    <3>3. QED
      BY <1>1, <1>2, <1>3, <2>1, <2>3, <2>4, <3>2, GoesOn
  <2>5. CASE MayFail("write") /\ UNCHANGED solFile
    <3>1. faults' = faults - 1 /\ Pending' \in {0, 1}
      BY <2>5 DEF MayFail, Pending
    <3>2. Content'
      BY <2>1, <2>2, <2>5, <1>10 DEF FirstLine, RecordInv, Content
    <3>3. QED
      BY <1>1, <1>2, <1>3, <2>1, <2>3, <2>5, <3>1, <3>2, GoesOn
  <2>6. QED
    BY <1>10, <2>4, <2>5 DEF FirstLine, Line
<1>11. CASE DayLine
  <2>1. solFile[inst] \in Files /\ Rewriting
    BY <1>11 DEF DayLine, RecordInv, SafeInv, Opened, Rewriting
  <2>2. CASE /\ solFile' = [solFile EXCEPT ![inst].days = @ + 1]
             /\ UNCHANGED <<pc, inst, locals, faults>>
    <3>1. solFile'[inst].first = solFile[inst].first
      BY <1>2, <2>1, <2>2 DEF Files
    <3>2. Content' /\ Pending' = Pending
      BY <1>11, <2>2, <3>1 DEF DayLine, RecordInv, Content, Line, Pending
    <3>3. Rewriting' /\ UNCHANGED timeFile
      BY <1>11, <2>1, <2>2 DEF DayLine, Rewriting
    <3>4. QED
      BY <1>1, <1>2, <1>3, <2>1, <2>2, <3>2, <3>3, GoesOn
  <2>3. CASE MayFail("write") /\ Advance /\ UNCHANGED solFile
    BY <1>1, <1>11, <2>1, <2>3, Ends DEF DayLine, MayFail, Advance
  <2>4. QED
    BY <1>11, <2>2, <2>3 DEF DayLine
<1>12. CASE Written
  <2>1. Pending' = Pending /\ Content' /\ Rewriting /\ Rewriting'
    BY <1>12 DEF Written, RecordInv, Content, Line, Rewriting, Pending
  <2>2. QED
    BY <1>1, <1>3, <1>12, <2>1, GoesOn DEF Written
<1>13. CASE EmptyTime
  <2>1. CASE pc' = "stamp"
    <3>1. UNCHANGED <<inst, locals, faults, solFile>> /\ pc = "time"
      BY <1>13, <2>1 DEF EmptyTime, Advance
    <3>2. Pending' = Pending /\ Content' /\ Rewriting /\ Rewriting'
      BY <1>13, <2>1, <3>1 DEF RecordInv, Content, Line, Rewriting, Pending
    <3>3. QED
      BY <1>1, <1>2, <1>3, <1>13, <2>1, <3>1, <3>2, GoesOn DEF EmptyTime, Advance
  <2>2. CASE pc' # "stamp"
    BY <1>1, <1>13, <2>2, Ends DEF EmptyTime, MayFail, Advance, Rewriting
  <2>3. QED
    BY <2>1, <2>2
<1>14. CASE Stamp
  <2>1. /\ solFile' = solFile /\ pc' \in {"done", "load"} /\ pc = "stamp" /\ Rewriting
        /\ \A i \in Instances \ {inst} : timeFile'[i] = timeFile[i]
    BY <1>2, <1>14 DEF Stamp, Advance, Rewriting
  <2>2. CASE MayFail("write")
    BY <1>1, <2>1, <2>2, Ends DEF MayFail
  <2>3. CASE timeFile' = [timeFile EXCEPT ![inst] = elapsed] /\ UNCHANGED faults
    <3>1. CASE solFile[inst].first = Nothing
      BY <1>1, <2>1, <2>3, <3>1, Ends DEF Pending
    <3>2. CASE solFile[inst].first # Nothing
      <4>1. solFile[inst] \in Files /\ solFile[inst].first = Line /\ solFile[inst].days = NbDays
        BY <2>1, <3>2 DEF RecordInv, SafeInv, Opened, Content
      <4>2. Complete(solFile[inst])
        BY <3>2, <4>1, FilesAssumption DEF Complete, Files
      <4>3. timeFile'[inst] = solFile[inst].first.at
        BY <1>2, <2>1, <2>3, <4>1, LineIsALine DEF RecordInv
      <4>4. inst \notin Disagreeing'
        BY <2>1, <4>2, <4>3 DEF Disagreeing, AgreeOn, Complete
      <4>5. QED
        BY <1>1, <2>1, <2>3, <4>4, Ends
    <3>3. QED
      BY <3>1, <3>2
  <2>4. QED
    BY <1>14, <2>2, <2>3 DEF Stamp
<1>15. CASE Kill
  <2>1. UNCHANGED disk /\ pc' = "down" /\ faults' = faults - 1
    BY <1>15 DEF Kill, MayFail
  <2>2. CASE Rewriting
    BY <1>1, <2>1, <2>2, Ends
  <2>3. CASE ~Rewriting
    BY <1>1, <1>3, <2>1, <2>3, Aside DEF Rewriting
  <2>4. QED
    BY <2>2, <2>3
<1>16. QED
  BY <1>4, <1>5, <1>6, <1>7, <1>8, <1>9, <1>10, <1>11, <1>12, <1>13, <1>14, <1>15 DEF Next, Run

\* The two files of an instance belong to the same solution whenever main is not
\* writing them, but for one instance per fault.
THEOREM FilesAlwaysAgree == Spec => []FilesAgree
<1>1. RecordInv => FilesAgree
  <2> SUFFICES ASSUME RecordInv PROVE FilesAgree
    OBVIOUS
  <2>1. Disagreeing \in SUBSET Instances /\ Pending \in {0, 1} /\ faults \in Nat
    BY CampaignAssumption DEF Disagreeing, Pending, RecordInv, SafeInv, TypeOK
  <2>2. QED
    BY <2>1, Countable, CampaignAssumption DEF RecordInv, DamageCounted, FilesAgree
<1>2. RecordInv /\ [Next]_vars => RecordInv'
  BY StepRecords
<1>3. QED
  BY <1>1, <1>2, InitRecords, PTL DEF Spec

-----------------------------------------------------------------------------
(* The refinement of BestRecord *)

\* At the start there are no records.
LEMMA InitRefines == Init => Abstract!Init
BY CampaignAssumption
   DEF Init, Abstract!Init, records, RecordOf, ScoreOnDisk, Replacing, Rewriting, Pending

\* A record is what is on disk, or what was read of it.
LEMMA SameRecords ==
  ASSUME \A i \in Instances : RecordOf(i)' = RecordOf(i)
  PROVE  UNCHANGED records
BY DEF records

\* A fault whose effect shows in the record of the instance at hand alone is a
\* mishap.
LEMMA FaultIsMishap ==
  ASSUME RecordInv, RecordInv', faults' + Pending' < faults + Pending,
         records'[inst] \in DamagedRanks \cup {Nothing},
         \A i \in Instances \ {inst} : records'[i] = records[i]
  PROVE  Abstract!Mishap
<1>1. /\ Pending \in {0, 1} /\ Pending' \in {0, 1} /\ inst \in Instances
      /\ faults \in Nat /\ faults' \in Nat
  BY CampaignAssumption DEF Pending, RecordInv, SafeInv, TypeOK
<1>2. faults' + Pending' \in 0 .. (faults + Pending) - 1
  <2>1. ASSUME NEW n \in Nat, NEW p \in {0, 1}, NEW m \in Nat, NEW q \in {0, 1}, m + q < n + p
        PROVE  m + q \in 0 .. (n + p) - 1
    BY <2>1
  <2>2. QED
    BY <1>1, <2>1
<1>3. records' = [records EXCEPT ![inst] = records'[inst]]
  BY <1>1 DEF records
<1>4. QED
  BY <1>1, <1>2, <1>3 DEF Abstract!Mishap

\* What a file says, or its absence, is the rank of a result or a damaged one.
LEMMA ReadAsRank ==
  \A sol \in {Absent} \cup Files, time \in {Absent, Nothing} \cup Times :
    (IF ScoreOnDisk(sol) = -1 THEN Nothing
     ELSE [score |-> ScoreOnDisk(sol), at |-> TimeOnDisk(time)]) \in DamagedRanks \cup {Nothing}
BY ReadIsTyped DEF DamagedRanks

\* Writing that a fault ends, or ends without the first line, is a mishap, and so
\* is a fault before it.
LEMMA EndsInMishap ==
  ASSUME RecordInv, RecordInv', pc' \in {"load", "done", "down"},
         \A i \in Instances \ {inst} : solFile'[i] = solFile[i] /\ timeFile'[i] = timeFile[i],
         faults' < faults + Pending
  PROVE  Abstract!Mishap
<1>1. /\ \A i \in Instances : ~Replacing(i)'
      /\ \A i \in Instances \ {inst} : ~Replacing(i)
      /\ inst \in Instances
  BY DEF Replacing, Rewriting, RecordInv, SafeInv, TypeOK
<1>2. ASSUME NEW i \in Instances
      PROVE  records'[i] = IF ScoreOnDisk(solFile'[i]) = -1 THEN Nothing
                           ELSE [score |-> ScoreOnDisk(solFile'[i]), at |-> TimeOnDisk(timeFile'[i])]
  BY <1>1 DEF records, RecordOf, ScoreOnDisk, TimeOnDisk
<1>3. records'[inst] \in DamagedRanks \cup {Nothing}
  <2>1. solFile'[inst] \in {Absent} \cup Files /\ timeFile'[inst] \in {Absent, Nothing} \cup Times
    BY <1>1 DEF RecordInv, SafeInv, TypeOK, Files
  <2>2. QED
    BY <1>1, <1>2, <2>1, ReadAsRank
<1>4. ASSUME NEW i \in Instances \ {inst} PROVE records'[i] = records[i]
  BY <1>1, <1>2 DEF records, RecordOf
<1>5. Pending' = 0 /\ faults' \in Nat
  BY CampaignAssumption DEF Pending, RecordInv, SafeInv, TypeOK
<1>6. faults' + Pending' < faults + Pending
  BY <1>5
<1>7. QED
  BY <1>3, <1>4, <1>6, FaultIsMishap

\* The last write of a solution puts its rank on record; a fault is a mishap; all
\* the other steps leave the records as they are.
LEMMA StepRefines ==
  ASSUME RecordInv, RecordInv', [Next]_vars
  PROVE  [Abstract!Next]_(Abstract!vars)
<1>1. inst \in Instances /\ DOMAIN solFile = Instances /\ DOMAIN timeFile = Instances
  BY DEF RecordInv, SafeInv, TypeOK
<1>2. Pending \in {0, 1} /\ faults \in Nat /\ faults' \in Nat
  BY CampaignAssumption DEF Pending, RecordInv, SafeInv, TypeOK
<1>3. ASSUME UNCHANGED disk, ~Replacing(inst), ~Replacing(inst)'
      PROVE  UNCHANGED records /\ Pending' = 0 /\ Pending = 0
  BY <1>3, SameRecords DEF RecordOf, Replacing, ScoreOnDisk, TimeOnDisk, Pending, Rewriting
<1>4. ASSUME Rewriting, Rewriting', UNCHANGED <<inst, locals>>,
             \A i \in Instances \ {inst} : solFile'[i] = solFile[i] /\ timeFile'[i] = timeFile[i]
      PROVE  UNCHANGED records
  BY <1>4, SameRecords DEF RecordOf, Replacing, ScoreOnDisk, TimeOnDisk
<1>5. CASE UNCHANGED vars
  <2>1. UNCHANGED records
    BY <1>5, SameRecords
       DEF vars, RecordOf, Replacing, Rewriting, ShouldWrite, ScoreOnDisk, TimeOnDisk
  <2>2. QED
    BY <1>5, <2>1 DEF vars, Pending, Abstract!vars
<1>6. CASE Load \/ LoadFails \/ Solve \/ Keep \/ Rerun
  <2>1. /\ UNCHANGED disk /\ ~Replacing(inst) /\ ~Replacing(inst)'
        /\ UNCHANGED faults \/ MayFail("read")
    BY <1>6 DEF Load, LoadFails, Solve, Keep, Rerun, Advance, Replacing, Rewriting
  <2>2. UNCHANGED records /\ Pending' = 0 /\ Pending = 0
    BY <1>3, <2>1
  <2>3. CASE UNCHANGED faults
    BY <2>2, <2>3 DEF Abstract!vars
  <2>4. CASE MayFail("read")
    BY <1>2, <2>2, <2>4 DEF MayFail, Abstract!Next, Abstract!Mishap
  <2>5. QED
    BY <2>1, <2>3, <2>4
<1>7. CASE Read
  <2>1. PICK sol \in {solFile[inst], Absent}, time \in {timeFile[inst], Absent} :
          /\ oldScore' = ScoreOnDisk(sol) /\ oldTime' = TimeOnDisk(time)
          /\ IF sol = solFile[inst] /\ time = timeFile[inst] THEN UNCHANGED faults
             ELSE MayFail("read")
    BY <1>7 DEF Read
  <2>2. /\ UNCHANGED <<disk, inst>> /\ Pending = 0 /\ Pending' = 0
        /\ pc = "read" /\ pc' = "compare"
    BY <1>7 DEF Read, Pending
  <2>3. ASSUME NEW i \in Instances
        PROVE  /\ RecordOf(i) = IF ScoreOnDisk(solFile[i]) = -1 THEN Nothing
                                 ELSE [score |-> ScoreOnDisk(solFile[i]), at |-> TimeOnDisk(timeFile[i])]
               /\ ~Replacing(i)' => RecordOf(i)' = RecordOf(i)
               /\ Replacing(i)' => RecordOf(i)' = IF ScoreOnDisk(sol) = -1 THEN Nothing
                                 ELSE [score |-> ScoreOnDisk(sol), at |-> TimeOnDisk(time)]
    BY <2>1, <2>2 DEF RecordOf, Replacing, Rewriting
  <2>4. \A i \in Instances \ {inst} : ~Replacing(i)'
    BY <2>2 DEF Replacing
  <2>5. CASE sol = solFile[inst] /\ time = timeFile[inst]
    <3>1. \A i \in Instances : RecordOf(i)' = RecordOf(i)
      BY <2>3, <2>4, <2>5
    <3>2. QED
      BY <2>1, <2>2, <2>5, <3>1, SameRecords DEF Abstract!vars
  <2>6. CASE ~(sol = solFile[inst] /\ time = timeFile[inst])
    <3>1. faults' + Pending' < faults + Pending
      <4>1. faults' = faults - 1
        BY <2>1, <2>6 DEF MayFail
      <4>2. QED
        BY <1>2, <2>2, <4>1
    <3>2. \A i \in Instances \ {inst} : records'[i] = records[i]
      BY <2>3, <2>4 DEF records
    <3>3. /\ {solFile[inst], Absent} \subseteq {Absent} \cup Files
          /\ {timeFile[inst], Absent} \subseteq {Absent, Nothing} \cup Times
      BY FilesAreTyped DEF RecordInv, SafeInv
    <3>4. records[inst] \in DamagedRanks \cup {Nothing}
      BY <1>1, <2>3, <3>3, ReadAsRank DEF records
    <3>5. records'[inst] \in DamagedRanks \cup {Nothing}
      BY <1>1, <2>3, <3>3, <3>4, ReadAsRank DEF records
    <3>6. QED
      BY <3>1, <3>2, <3>5, FaultIsMishap DEF Abstract!Next
  <2>7. QED
    BY <2>5, <2>6
<1>8. CASE Decide
  <2>1. UNCHANGED records
    BY <1>8, SameRecords
       DEF Decide, RecordOf, Replacing, Rewriting, ScoreOnDisk, TimeOnDisk
  <2>2. Pending' = Pending /\ faults' = faults
    BY <1>8 DEF Decide, Pending
  <2>3. QED
    BY <2>1, <2>2 DEF Abstract!vars
<1>9. CASE Create
  <2>1. CASE pc' = "first"
    BY <1>1, <1>4, <1>9, <2>1 DEF Create, Advance, Rewriting, Pending, Abstract!vars
  <2>2. CASE pc' # "first"
    BY <1>2, <1>9, <2>2, EndsInMishap DEF Create, MayFail, Advance, Rewriting, Abstract!Next
  <2>3. QED
    BY <2>1, <2>2
<1>10. CASE FirstLine
  <2>1. /\ pc' = "days" /\ pc = "first" /\ Rewriting /\ Rewriting' /\ solFile[inst] \in Files
        /\ UNCHANGED <<timeFile, inst, locals>>
        /\ \A i \in Instances \ {inst} : solFile'[i] = solFile[i]
    BY <1>1, <1>10 DEF FirstLine, Rewriting, RecordInv, SafeInv, Opened
  <2>2. Line # Nothing
    BY <2>1, LineIsALine DEF RecordInv
  <2>3. CASE solFile' = [solFile EXCEPT ![inst].first = Line] /\ UNCHANGED faults
    <3>1. solFile'[inst].first = Line
      BY <1>1, <2>1, <2>3 DEF Files
    <3>2. Pending = 0 /\ Pending' = 0
      BY <2>1, <2>2, <3>1 DEF Pending
    <3>3. QED
      BY <1>4, <2>1, <2>3, <3>2 DEF Abstract!vars
  <2>4. CASE MayFail("write") /\ UNCHANGED solFile
    <3>1. UNCHANGED records
      BY <1>4, <2>1
    <3>2. faults' = faults - 1 /\ Pending = 0 /\ Pending' \in {0, 1}
      BY <2>1, <2>4 DEF MayFail, Pending
    <3>3. CASE Pending' = 1
      BY <1>2, <3>1, <3>2, <3>3 DEF Abstract!vars
    <3>4. CASE Pending' = 0
      BY <1>2, <3>1, <3>2, <3>4 DEF Abstract!Next, Abstract!Mishap
    <3>5. QED
      BY <3>2, <3>3, <3>4
  <2>5. QED
    BY <1>10, <2>3, <2>4 DEF FirstLine, Line
<1>11. CASE DayLine
  <2>1. solFile[inst] \in Files /\ Rewriting
    BY <1>11 DEF DayLine, RecordInv, SafeInv, Opened, Rewriting
  <2>2. CASE /\ solFile' = [solFile EXCEPT ![inst].days = @ + 1]
             /\ UNCHANGED <<pc, inst, locals, faults>>
    <3>1. solFile'[inst].first = solFile[inst].first
      BY <1>1, <2>1, <2>2 DEF Files
    <3>2. Pending' = Pending
      BY <1>11, <2>2, <3>1 DEF DayLine, Pending
    <3>3. Rewriting' /\ UNCHANGED timeFile
      BY <1>11, <2>1, <2>2 DEF DayLine, Rewriting
    <3>4. QED
      BY <1>1, <1>4, <2>1, <2>2, <3>2, <3>3 DEF Abstract!vars
  <2>3. CASE MayFail("write") /\ Advance /\ UNCHANGED solFile
    BY <1>2, <1>11, <2>1, <2>3, EndsInMishap DEF DayLine, MayFail, Advance, Abstract!Next
  <2>4. QED
    BY <1>11, <2>2, <2>3 DEF DayLine
<1>12. CASE Written
  BY <1>4, <1>12 DEF Written, Rewriting, Pending, Abstract!vars
<1>13. CASE EmptyTime
  <2>1. CASE pc' = "stamp"
    <3>1. UNCHANGED <<inst, locals, faults, solFile>> /\ pc = "time"
      BY <1>13, <2>1 DEF EmptyTime, Advance
    <3>2. Pending' = Pending /\ Rewriting /\ Rewriting'
      BY <1>13, <2>1, <3>1 DEF Rewriting, Pending
    <3>3. QED
      BY <1>1, <1>4, <1>13, <2>1, <3>1, <3>2 DEF EmptyTime, Advance, Abstract!vars
  <2>2. CASE pc' # "stamp"
    BY <1>2, <1>13, <2>2, EndsInMishap DEF EmptyTime, MayFail, Advance, Rewriting, Abstract!Next
  <2>3. QED
    BY <2>1, <2>2
<1>14. CASE Stamp /\ (MayFail("write") \/ solFile[inst].first = Nothing)
  <2>1. /\ solFile' = solFile /\ pc' \in {"done", "load"} /\ pc = "stamp" /\ Rewriting
        /\ \A i \in Instances \ {inst} : timeFile'[i] = timeFile[i]
    BY <1>1, <1>14 DEF Stamp, Advance, Rewriting
  <2>2. faults' < faults + Pending
    BY <1>2, <1>14, <2>1 DEF Stamp, MayFail, Pending
  <2>3. QED
    BY <2>1, <2>2, EndsInMishap DEF Abstract!Next
<1>15. CASE Stamp /\ ~MayFail("write") /\ solFile[inst].first # Nothing
  <2> DEFINE r == [score |-> found.score, at |-> elapsed]
  <2>1. /\ solFile' = solFile /\ timeFile' = [timeFile EXCEPT ![inst] = elapsed]
        /\ Rewriting /\ ~Rewriting' /\ pc = "stamp" /\ faults' = faults
        /\ pc' \in {"done", "load"}
    BY <1>15 DEF Stamp, Advance, Rewriting
  <2>2. found \in Solutions /\ elapsed \in Times /\ found.score \in Scores /\ elapsed \in Nat
    BY <2>1, ScoresAreNumbers, TimesAreNumbers DEF RecordInv, SafeInv, Judged
  <2>3. r \in ResultRanks /\ found.score \in Nat
    BY <2>2, ScoresAreNumbers DEF ResultRanks
  <2>4. Abstract!BetterRecord(r, records[inst])
    <3>1. records[inst] = IF oldScore = -1 THEN Nothing
                          ELSE [score |-> oldScore, at |-> oldTime]
      BY <1>1, <2>1 DEF records, RecordOf, Replacing
    <3>2. ShouldWrite
      BY <2>1 DEF RecordInv, Better
    <3>3. QED
      BY <3>1, <3>2 DEF ShouldWrite, Abstract!BetterRecord
  <2>5. ASSUME NEW i \in Instances
        PROVE  RecordOf(i)' = IF i = inst THEN r ELSE RecordOf(i)
    <3>1. CASE i = inst
      <4>1. solFile[i] \in Files /\ solFile[i].first = Line
        BY <1>15, <2>1, <3>1 DEF RecordInv, SafeInv, Opened, Content
      <4>2. ScoreOnDisk(solFile[i]) = found.score
        BY <2>1, <4>1, LineIsALine, FilesAssumption DEF ScoreOnDisk, Files, RecordInv
      <4>3. timeFile'[i] = elapsed /\ TimeOnDisk(timeFile'[i]) = elapsed
        BY <1>1, <2>1, <2>2, <3>1, FilesAssumption DEF TimeOnDisk
      <4>4. QED
        BY <2>1, <2>3, <3>1, <4>2, <4>3 DEF RecordOf, Replacing, Rewriting, ScoreOnDisk, TimeOnDisk
    <3>2. CASE i # inst
      BY <1>1, <2>1, <3>2 DEF RecordOf, Replacing, Rewriting, ScoreOnDisk, TimeOnDisk
    <3>3. QED
      BY <3>1, <3>2
  <2> HIDE DEF r
  <2>6. records' = [records EXCEPT ![inst] = r]
    BY <1>1, <2>5 DEF records
  <2>7. Pending = 0 /\ Pending' = 0
    BY <1>15, <2>1 DEF Pending
  <2>8. Abstract!Improve(inst, r)
    BY <2>1, <2>4, <2>6, <2>7 DEF Abstract!Improve
  <2>9. QED
    BY <1>1, <2>3, <2>8 DEF Abstract!Next
<1>16. CASE Kill
  <2>1. UNCHANGED disk /\ pc' = "down" /\ faults' = faults - 1
    BY <1>16 DEF Kill, MayFail
  <2>2. faults' < faults + Pending
    BY <1>2, <2>1
  <2>3. QED
    BY <2>1, <2>2, EndsInMishap DEF Abstract!Next
<1>17. QED
  BY <1>5, <1>6, <1>7, <1>8, <1>9, <1>10, <1>11, <1>12, <1>13, <1>14, <1>15, <1>16 DEF Next, Run

\* Whatever fails, main only ever replaces a record by a better one, but for one
\* record per fault.
THEOREM RefinesBestRecord == Spec => OnlyImproves
<1>1. RecordInv /\ [Next]_vars => RecordInv' /\ [Abstract!Next]_(Abstract!vars)
  BY StepRecords, StepRefines
<1>2. QED
  BY <1>1, InitRecords, InitRefines, PTL DEF Spec, OnlyImproves, Abstract!Spec
=============================================================================
