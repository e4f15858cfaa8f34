SPECIFICATION Spec
CONSTANTS
  Restores = {r1}
  Threads = {t1, t2}
  Checks = {required}
  Required = {required}
  MaxRetries = 1
  MaxAttempts = 3
  FailureThreshold = 1
  SuccessThreshold = 1
  HalfOpenMax = 1
INVARIANTS
  PassedMeansChecked
  
PROPERTY TimedOutStays
SYMMETRY Symmetry
