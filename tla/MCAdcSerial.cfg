SPECIFICATION FairSpec
CONSTANTS
  Readers = {r1, r2}
  ADC_NUMCHANNELS = 3
  MaxByte = 4
  Env = {"button", "preempt", "lax"}
INVARIANTS
  SerialInv
  ReadReturnsRequested
PROPERTIES
  ScanPrintsAllChannels
  SleeperWoken
  ScanEnds
  ImplementsService
