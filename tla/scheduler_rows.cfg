\* Two labels and a start without any error.
CONSTANTS
  Labels = {a, b}
  Processes = {web}
  Web = web
  Intervals = {"hourly"}
  Delta <- MCDelta
  Unparsed = unparsed
  Off = off
  None = none
  MaxTime = 1
  MaxEdits = 0
  MaxFaults = 0
SPECIFICATION Spec
INVARIANT ScheduledLabelsHaveRows
