SPECIFICATION SysfsSpec
CONSTANTS
  Users = {u1, u2, u3}
  Modules = {"adc", "gpio", "pwm", "peekpoke", "freddy"}
  Threads = {t1, t2, t3}
  Sizes = {1, 2, 3}
  sysfs_max_data_size = 2
INVARIANTS
  RefsBalanced
  CodeStays
  FailsCleanly
  StaysTerminated
  ShowsLast
