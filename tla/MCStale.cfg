CONSTANTS
  a = a
  b = b
  Server <- Servers
  BuildOf <- MixedBuild
  AddrOf <- OwnAddr
  Pid1 = {a}
  NoServer = NoServer
  Orphan = Orphan
  MaxInFlight = 1
  MaxFaults = 2
SPECIFICATION Spec
INVARIANT ValidatorNotStale
