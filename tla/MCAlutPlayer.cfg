SPECIFICATION PlayerFairSpec
CONSTANTS
  None = None
  Devices = {d1, d2}
  Contexts = {c1, c2}
  Buffers = {b1, b2}
  HandleReuse = FALSE
  LoadErrors = {"OUT_OF_MEMORY", "IO_ERROR"}
INVARIANTS
  PlaysToTheEnd
  SuccessIsTrue
PROPERTIES
  ExitIsNotRefused
  Ends
CHECK_DEADLOCK FALSE
