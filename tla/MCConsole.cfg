SPECIFICATION ConsoleSpec
CONSTANTS
  Callers = {t1, t2, t3, t4}
  FailureThreshold = 2
  SuccessThreshold = 1
  HalfOpenMax = 2
  Conns = {a1, a2}
  Dashboards = {d1}
  NoConn = none
  MaxMessages = 3
  Capacity = 2
  Raisers = {t1, t2}
  Sockets = {s1}
  NoTimer = none
  BatchSize = 2
  Cmds = {c1, c2}
  Runtime = {l1}
  MaxFaults = 2
  SensorEvery = 1
  ScanEvery = 1
INVARIANTS
  CommandsAreKept
  DeliveredOnceInOrder
  StatusTellsAgent
  
PROPERTIES
  AgentKeepsPromise
  KeepsAdmitting
  
CHECK_DEADLOCK FALSE
