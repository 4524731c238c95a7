CONSTANTS
  WrittenDocs <- SomeWritten
  OtherDocs <- SomeOther
SPECIFICATION Spec
INVARIANTS StoredIsUnderstood OnlyTimesRefused MinimalReadsAsEmpty
\* A document ends where it is refused or read.
CHECK_DEADLOCK FALSE
