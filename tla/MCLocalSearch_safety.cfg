SPECIFICATION Spec
CONSTANTS
  NbWorkers = 3
  Seeds <- MCSeeds
  Candidates <- MCCandidates
  Target = 3
  MaxDuration = 1
  MinSlice = 1
  NoResult = NoResult
INVARIANTS
  TypeOK
  ResultsComplete
  ClosedForAReason
  NoRecordDropped
  TargetIsReturned
PROPERTIES
  KeepsPromise
  NoSharedWrite
