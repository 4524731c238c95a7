CONSTANTS
  s1 = s1
  s2 = s2
  s3 = s3
  Session <- Sessions
  MaxId = 4
SPECIFICATION Spec
SYMMETRY Symmetry
INVARIANTS TypeOK IdsUnique NoDanglingParent Acyclic NoDeadlock
PROPERTIES CascadeExact ImplementsForest IdsGoneForGood
\* No id is left and no row.
CHECK_DEADLOCK FALSE
