SPECIFICATION FairSpec
CONSTANTS
  Jobs = {j1, rb}
  Rollbacks = {rb}
  Devices = {d1, d2}
  Threads = {t1}
  Faults = {"timeout", "lost", "restart", "cancel"}
  Compound = FALSE
PROPERTY JobEnds
CHECK_DEADLOCK FALSE
