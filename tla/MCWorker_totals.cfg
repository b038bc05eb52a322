SPECIFICATION Spec
CONSTANTS
  HotelIDs <- MCHotels
  SiteIDs <- MCFourSites
  StartHotelID = 0
  EndHotelID = 1
  NbDays = 2
  DistMatrix <- TightDist
  OpenTime <- TightOpen
  CloseTime <- TightClose
  ServiceTime <- TightService
  Score <- TightScore
  MaxDistPerDay <- TightBudgets
  MaxDist = 14
  RclSizes = {3}
  RatioModes = {0}
  MaxIter = 2
  Patience = 0
  MaxForce = 4
INVARIANTS
  TotalFromDays
