SPECIFICATION FleetSpec
CONSTANTS
  Jobs = {j1}
  Rollbacks = {}
  Devices = {d1, d2}
  Threads = {t1, t2}
  Faults = {"lost", "restart", "cancel"}
  Compound = TRUE
  EscalateAt = 2
  Online = 1
  Overdue = 2
  Shown = 1
  MaxAge = 4
  MaxMisses = 3
  Hosts = {h1, h2}
  Requests = {t1, t2}
  Products = {"crowdstrike"}
  Endpoints = {e1}
  Findings = {f1}
  Parts = {"deployment", "alerts", "remediation", "presence", "rollout", "security"}
INVARIANTS
  Counted
  VerdictHolds
  RunOnce
  OneAlertPerCondition
  CooldownHolds
  
  StatusTellsOrders
  
SYMMETRY Symmetry
CHECK_DEADLOCK FALSE
