SPECIFICATION LibSpec
CONSTANTS
  Threads = {t1}
  Files = {f1}
  Commands <- FewCommands
  LibCalls <- NoCalls
  Lengths = {10, 4096}
  Naps = {}
  Mixtures <- NoMixtures
  Signals <- NoSignals
  BUF_LEN = 80
  MaxCommands = 1
INVARIANTS
  MessageFits
