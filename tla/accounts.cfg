\* Two task threads of one export, or two exports, one with a parallel download, beside
\* the web process's polling.
CONSTANTS
  e1 = e1
  e2 = e2
  e3 = e3
  a1 = a1
  a2 = a2
  Accounts = {a1, a2}
  Exports = {e1, e2, e3}
  Web = "web"
  Tasks <- Downloads
  Assigned <- Choice
  MaxAttempts = 2
  MaxReset = 1
  MaxDelay = 2
  MaxFaults = 1
  Horizon = 1
SPECIFICATION Spec
CONSTRAINT Together
INVARIANTS NeverOvercounted CooldownAsTold EndsSaved
