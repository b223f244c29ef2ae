\* Nobody cancels or requeues and every transaction commits: two processes, a caller
\* that enqueues, a chain of jobs, and a crash.
CONSTANTS
  w1 = w1
  w2 = w2
  w3 = w3
  web = web
  tick = tick
  p1 = p1
  p2 = p2
  j1 = j1
  j2 = j2
  j3 = j3
  Workers = {w1, w3}
  Clients = {web}
  Admins = {}
  Procs = {p1, p2}
  ProcOf <- UnattendedProcOf
  Jobs = {j1, j2, j3}
  RootJobs = {j1, j2}
  Keys = {"bracket"}
  Chains = {0, 2}
  ChainLimit = 1
  MaxAttempts = 2
  Outcomes = {"succeeded", "raised"}
  MaxRequeues = 0
  MaxFaults = 0
  MaxCrashes = 1
  NoRow = NoRow
  NoJob = NoJob
  NoDraft = NoDraft
SPECIFICATION FairSpec
PROPERTIES ImplementsLifecycle EveryJobSettles
CHECK_DEADLOCK FALSE
