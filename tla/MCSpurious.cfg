CONSTANTS
  a = a
  b = b
  Server <- Servers
  BuildOf <- SameBuild
  AddrOf <- SameAddr
  Pid1 = {}
  NoServer = NoServer
  Orphan = Orphan
  MaxInFlight = 2
  MaxFaults = 1
SPECIFICATION Spec
INVARIANT DrainOnlyOnSignal
