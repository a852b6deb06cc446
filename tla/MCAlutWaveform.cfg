SPECIFICATION Spec
CONSTANTS
  SampleFrequency = 8
  DurationUnits = 4
  Frequencies <- SomeFrequencies
  Durations <- SomeDurations
  Phases <- SomePhases
  Sin <- Sines
  NoiseLevels <- SomeNoise
INVARIANTS
  TypeOK
  StreamExactlyFilled
  EndsWithACycle
  OneImpulsePerCycle
  ReadsBack
