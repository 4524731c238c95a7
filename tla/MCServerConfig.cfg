CONSTANTS
  Environments <- AllEnvironments
  Values = {"everywhere", "loopback", "url", "debug"}
  DotEnvs <- AllDotEnvs
SPECIFICATION Spec
INVARIANTS TypeOK EveryVariableHasItsSource BreakageExposesNothing
\* The configuration is read once, when the process starts.
CHECK_DEADLOCK FALSE
