SPECIFICATION Spec
CONSTANTS
  NbWorkers = 2
  Seeds <- MCFewSeeds
  Candidates <- MCFewCandidates
  Target = 0
  MaxDuration = 1
  MinSlice = 1
  NoResult = NoResult
INVARIANTS
  FoundInTime
