SPECIFICATION FairSpec
CONSTANTS
  Readers = {r1, r2}
  ADC_NUMCHANNELS = 2
  MaxByte = 3
  Env = {"overlap", "preempt", "signal", "lax"}
INVARIANTS
  NoLostWakeup
PROPERTIES
  SomeReaderReturns
