SPECIFICATION Spec
CONSTANTS
  Micro = 2
  Milli = 4
  Second = 8
  UIntMod = 6
  Durations <- AllDurations
INVARIANTS
  PiecesAddUp
  SleepsAsLongAsAsked
  FailsOnlyOutOfRange
PROPERTIES
  SleepReturns
