SPECIFICATION FairSpec
CONSTANTS
  NoHandler = NoHandler
  Cmds = {c1, c2}
  Legacy = {l1}
  Handlers = {h1}
  Workers = {w1}
  MaxRetries = 1
  PollLimit = 1
  MaxFaults = 1
  DbFaults = TRUE
PROPERTY StaleWorkIsResolved
