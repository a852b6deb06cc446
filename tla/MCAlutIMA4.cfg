SPECIFICATION Spec
CONSTANTS
  Calls <- AllCalls
  Predictors <- AllPredictors
  Indexes <- AllIndexes
  Nibbles <- AllNibbles
  BeyondStepTable <- SomeBeyond
  SizeMod = 256
  MaxAlloc = 200
INVARIANTS
  TypeOK
  MovesByTheStep
  Interleaved
  DecodesUpToTheTail
  LeavesItsMemory
