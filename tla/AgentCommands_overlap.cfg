SPECIFICATION Spec
CONSTANTS
  NoHandler = NoHandler
  Cmds = {c1, c2}
  Legacy = {l1}
  Handlers = {h1, h2}
  Workers = {w1}
  MaxRetries = 1
  PollLimit = 2
  MaxFaults = 2
  DbFaults = TRUE
SYMMETRY Symmetry
INVARIANTS
  OneCarrier
  ExecutionBudget
  CompletedRan
PROPERTY LifecycleSpec
