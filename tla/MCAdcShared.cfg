SPECIFICATION Spec
CONSTANTS
  Readers = {r1, r2}
  ADC_NUMCHANNELS = 2
  MaxByte = 3
  Env = {"overlap"}
INVARIANTS
  ReadReturnsChannel
