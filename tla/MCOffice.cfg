SPECIFICATION OfficeSpec
CONSTANTS
  Machines = {m1, m2}
  Threads = {t1, t2}
  Limits = {1, 2}
  MaxStripeEvents = 4
  Passes = {t1, t2}
  MaxSlots = 2
  MaxReports = 2
  Requests = {t1, t2}
  MaxTickets = 2
  Tickets = {k1}
  Pushers = {t1, t2}
  MaxMade = 2
  MaxEvents = 2
  Controls = {q1}
  Assessments = {a1, a2}
  Completions = {k1}
  Orgs = {o1}
  Rows = {r1, r2}
  Nothing = none
  Recipients = {b1, b2}
  MaxRetries = 2
  Messages = {n1, n2}
  Channels = {"email"}
  MaxSecrets = 3
  MaxTenants = 2
  Assets = {b1, b2}
  NoAsset = none
  MaxTokens = 3
  Workers = {w1, w2}
  MaxLinks = 3
  Users = {u1}
  Clients = {"phone", "laptop"}
  MaxTime = 5
  AccessLife = 1
  RefreshLife = 2
  Retention = 2
  MaxSeats = 2
  MaxAssigned = 3
  Parts = {"seats", "subscription", "reports", "desk", "sla", "psa", "compliance", "msp", "mail", "notices", "licences", "accounts", "factor", "login", "reset", "tokens"}
INVARIANTS
  
  
  OneReportPerOccurrence
  
  EscalatedOnce
  InStepWithProvider
  
  CustomersAreWhole
  OutcomesAreTold
  SeatsAreCounted
  EnabledMeansConfirmed
  
  
  InnocentStaysSignedIn
  OneLinkOnce
  
CHECK_DEADLOCK FALSE
SYMMETRY Symmetry
