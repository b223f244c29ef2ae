\* One export with two downloads beside each other: what a save leaves of a rest.
CONSTANTS
  e1 = e1
  e2 = e2
  e3 = e3
  a1 = a1
  a2 = a2
  Accounts = {a1}
  Exports = {e1}
  Web = "web"
  Tasks <- Downloads
  Assigned <- Choice
  MaxAttempts = 1
  MaxReset = 1
  MaxDelay = 1
  MaxFaults = 0
  Horizon = 0
SPECIFICATION Spec
INVARIANT RestsEnd
