SPECIFICATION Spec
CONSTANTS
  NbWorkers = 2
  Seeds <- MCFewSeeds
  Candidates <- MCFewCandidates
  Target = 3
  MaxDuration = 1
  MinSlice = 1
  NoResult = NoResult
INVARIANTS
  NeverPanics
