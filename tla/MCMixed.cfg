CONSTANTS
  a = a
  b = b
  Server <- Servers
  BuildOf <- MixedBuild
  AddrOf <- OwnAddr
  Pid1 = {a}
  NoServer = NoServer
  Orphan = Orphan
  MaxInFlight = 2
  MaxFaults = 2
SPECIFICATION FairSpec
INVARIANTS ListenImpliesReady SchemaBeforeValidator WaitsForTheLiving
PROPERTIES NoSilentDrop BootAdvances EventuallyListening SignalDrains
