CONSTANTS
  c1 = c1
  c2 = c2
  Client <- Clients
  MinId <- MinSmallId
  MaxId = 7
  Requests <- AllRequests
SPECIFICATION SpecRoutes
SYMMETRY Symmetry
INVARIANTS TypeOK OnlySoundRequestsReachRepo RepoSeesWhatWasSent ErrorHitsFirstCall StatusDeterminesExit TestsPass
\* Every request is answered in the end, and then nothing is left to do.
CHECK_DEADLOCK FALSE
