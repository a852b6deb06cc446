SPECIFICATION Spec
CONSTANTS
  SizeMod = 256
  MaxAlloc = 150
  Sizes <- AuSizes
  WavMemorySize = 53
  HelloLength = 4
  SampleCounts = {0, 1, 2}
  ChunkLengths = {16}
  DataOffsets = {20, 24, 26}
  DataLengths <- AuDataLengths
  ChannelCounts = {0, 2, 3}
  BlockAligns = {8}
INVARIANTS
  TypeOK
  NothingUsedAfterFree
  ErrorStateKept
  OutputsOnlyOnSuccess
  ErrorsAreDocumented
