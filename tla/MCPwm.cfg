SPECIFICATION Spec
CONSTANTS
  Threads = {t1, t2}
  Files = {f1, f2}
  Values <- Numbers
  Mixtures <- CutNumbers
  INT_MAX = 2147483647
  MaxWrites = 3
INVARIANTS
  TypeOK
  SnapshotsAgree
PROPERTIES
  ImplementsPanel
