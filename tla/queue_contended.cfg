\* One job fought over by three workers of two processes, with an operator who cancels
\* it and requeues it twice, a database error and a crash.
CONSTANTS
  w1 = w1
  w2 = w2
  w3 = w3
  web = web
  tick = tick
  p1 = p1
  p2 = p2
  j1 = j1
  j2 = j2
  j3 = j3
  Workers = {w1, w2, w3}
  Clients = {web}
  Admins = {web}
  Procs = {p1, p2}
  ProcOf <- ContendedProcOf
  Jobs = {j1}
  RootJobs = {j1}
  Keys = {"bracket"}
  Chains = {0}
  ChainLimit = 1
  MaxAttempts = 2
  Outcomes = {"succeeded", "failed", "raised"}
  MaxRequeues = 2
  MaxFaults = 1
  MaxCrashes = 1
  NoRow = NoRow
  NoJob = NoJob
  NoDraft = NoDraft
SPECIFICATION Spec
SYMMETRY WorkerSymmetry
INVARIANTS TypeOK SingleHolder NoOrphan AttemptBudget
PROPERTY SettledMovesByAdminOnly
CHECK_DEADLOCK FALSE
