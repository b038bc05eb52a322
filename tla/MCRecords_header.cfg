SPECIFICATION Spec
CONSTANTS
  NbInstances = 1
  Loadable = {1}
  NbDays = 2
  Greedies <- MCValidGreedies
  Results <- MCFewResults
  Times = {1, 2}
  Target = 3
  Faults = {"write"}
  MaxFaults = 1
  Absent = Absent
  Nothing = Nothing
INVARIANTS
  SuccessMeansComplete
