SPECIFICATION FairSpec
CONSTANTS
  NbWorkers = 2
  Seeds <- MCSeeds
  Candidates <- MCCandidates
  Target = 3
  MaxDuration = 2
  MinSlice = 1
  NoResult = NoResult
PROPERTIES
  Terminates
  DoneStopsAll
