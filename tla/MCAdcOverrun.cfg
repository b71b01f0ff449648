SPECIFICATION Spec
CONSTANTS
  Readers = {r1}
  ADC_NUMCHANNELS = 3
  MaxByte = 4
  Env = {"overlap", "button"}
INVARIANTS
  NoOverrun
