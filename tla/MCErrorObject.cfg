CONSTANTS
  c1 = c1
  c2 = c2
  Client <- Clients
  MinId <- MinSmallId
  MaxId = 7
  Requests <- AllRequests
SPECIFICATION SpecRoutes
INVARIANT NonSuccessHasErrorObject
CHECK_DEADLOCK FALSE
