CONSTANTS
  WrittenDocs <- SomeWritten
  OtherDocs <- SomeOther
SPECIFICATION Spec
INVARIANT VersionChecked
CHECK_DEADLOCK FALSE
