SPECIFICATION Spec
CONSTANTS
  SizeMod = 256
  MaxAlloc = 150
  Sizes <- WavSizes
  WavMemorySize = 53
  HelloLength = 4
  SampleCounts = {2}
  ChunkLengths = {3, 16, 17}
  DataOffsets = {24}
  DataLengths = {4}
  ChannelCounts = {0, 1, 3}
  BlockAligns = {0, 5}
INVARIANTS
  HeapAccounts
  SilentFailureOnlyForIMA4
  ChunksAligned
  SoundIsStandard
PROPERTIES
  CallReturns
  ImplementsLoadCall
