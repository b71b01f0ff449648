SPECIFICATION LibSpec
CONSTANTS
  Threads = {t1, t2}
  Files = {f1, f2}
  Commands <- ThreadCommands
  LibCalls <- NoCalls
  Lengths = {20, 4096}
  Naps = {6}
  Mixtures <- ThreadMixtures
  Signals <- NoSignals
  BUF_LEN = 80
  MaxCommands = 2
INVARIANTS
  TypeOK
  OneHolder

  
