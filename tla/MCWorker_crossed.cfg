SPECIFICATION FairSpec
CONSTANTS
  HotelIDs <- MCHotels
  SiteIDs <- MCFiveSites
  StartHotelID = 0
  EndHotelID = 1
  NbDays = 2
  DistMatrix <- CrossedDist
  OpenTime <- CrossedOpen
  CloseTime <- CrossedClose
  ServiceTime <- CrossedService
  Score <- CrossedScore
  MaxDistPerDay <- CrossedBudgets
  MaxDist = 14
  RclSizes = {3}
  RatioModes = {0}
  MaxIter = 1
  Patience = 1
  MaxForce = 4
INVARIANTS
  TypeOK
  TourShape
  DistExact
  ScoreExact
  UnvisitedExact
  PruningSound
  EvaluatorsAgree
  EvaluationExact
  RecordExact
  OnlyJunctionsBreak
PROPERTIES
  DescentEnds
  ForcesCycle
  FeasibleStays
  ScoreNeverFalls
  EndNearer
