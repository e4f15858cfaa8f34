SPECIFICATION FairSpec
CONSTANTS
  Raisers = {t1}
  Sockets = {s1}
  NoTimer = none
  BatchSize = 2
  MaxEvents = 2
PROPERTY QueuedIsFlushed
CHECK_DEADLOCK FALSE
