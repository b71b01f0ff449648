SPECIFICATION GpioSpec
CONSTANTS
  Readers = {r1}
  ADC_NUMCHANNELS = 2
  MaxByte = 3
  Env = {"overlap", "button", "signal", "lax"}
INVARIANTS
  TypeOK
  ScanAlive
  ScanMarked
