SPECIFICATION Spec
CONSTANTS
  Jobs = {j1}
  Rollbacks = {}
  Devices = {d1, d2}
  Threads = {t1, t2}
  Faults = {}
  Compound = TRUE
INVARIANT AggregatesFollow
CHECK_DEADLOCK FALSE
