CONSTANTS
  a = a
  b = b
  Server <- Servers
  BuildOf <- SameBuild
  AddrOf <- SameAddr
  Pid1 = {}
  NoServer = NoServer
  Orphan = Orphan
  MaxInFlight = 2
  MaxFaults = 3
SPECIFICATION Spec
INVARIANTS TypeOK IInv NoReapply
PROPERTIES RestartIsNoOp ImplementsContract
