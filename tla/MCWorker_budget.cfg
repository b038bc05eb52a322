SPECIFICATION Spec
CONSTANTS
  HotelIDs <- MCHotels
  SiteIDs <- MCFiveSites
  StartHotelID = 0
  EndHotelID = 1
  NbDays = 2
  DistMatrix <- CrossedDist
  OpenTime <- CrossedOpen
  CloseTime <- CrossedClose
  ServiceTime <- CrossedNoService
  Score <- CrossedScore
  MaxDistPerDay <- CrossedBudgets
  MaxDist = 14
  RclSizes = {3}
  RatioModes = {0}
  MaxIter = 2
  Patience = 0
  MaxForce = 4
INVARIANTS
  BudgetIsDistance
