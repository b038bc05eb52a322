SPECIFICATION FairSpec
CONSTANTS
  NbInstances = 3
  Loadable = {1, 3}
  NbDays = 2
  Greedies <- MCGreedies
  Results <- MCResults
  Times = {1, 2}
  Target = 3
  Faults = {"kill", "read", "write"}
  MaxFaults = 2
  Absent = Absent
  Nothing = Nothing
INVARIANTS
  TypeOK
  FilesAgree
  OnlyValidWritten
PROPERTIES
  OnlyImproves
  LostIsRegained
