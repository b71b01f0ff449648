SPECIFICATION LibSpec
CONSTANTS
  Threads = {t1}
  Files = {f1}
  Commands <- AllPinCommands
  LibCalls <- SomeCalls
  Lengths = {4096}
  Naps = {}
  Mixtures <- NoMixtures
  Signals <- SomeSignals
  BUF_LEN = 80
  MaxCommands = 2
INVARIANTS
  ShowsInvertedInput
  DirectionOffP3
PROPERTIES
  ImplementsPins
  SelectionStays
