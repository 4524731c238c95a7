CONSTANTS
  Environments <- AllEnvironments
  Values = {"everywhere", "loopback", "url", "debug"}
  DotEnvs <- AllDotEnvs
SPECIFICATION Spec
INVARIANT SourcesAsDocumented
\* The configuration is read once, when the process starts.
CHECK_DEADLOCK FALSE
