SPECIFICATION Spec
CONSTANTS
  Jobs = {j1}
  Rollbacks = {}
  Devices = {d1}
  Threads = {t1}
  Faults = {"cancel"}
  Compound = TRUE
PROPERTY CancelShows
CHECK_DEADLOCK FALSE
