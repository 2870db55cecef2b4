CONSTANTS
  Names = {1, 2}
  PayloadNames = {1, 2, 3}
  SampleFiles <- MCSampleFiles
  Existing <- MCExisting
  Malformed <- MCMalformed
  RegistrySize = 2
  MaxSamples = 2
  NoValue = NoValue
SPECIFICATION Spec
INVARIANTS TypeOK SamplesTabled
CHECK_DEADLOCK FALSE
