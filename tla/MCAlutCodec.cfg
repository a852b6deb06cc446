SPECIFICATION Spec
CONSTANT Files <- SomeFiles
INVARIANTS
  SameValue
