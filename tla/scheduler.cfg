\* One label with either interval, a web server, an edit, an error or a crash.
CONSTANTS
  Labels = {a}
  Processes = {web}
  Web = web
  Intervals = {"hourly", "daily"}
  Delta <- MCDelta
  Unparsed = unparsed
  Off = off
  None = none
  MaxTime = 2
  MaxEdits = 1
  MaxFaults = 1
SPECIFICATION FairSpec
INVARIANTS NoGap NothingTwice
PROPERTY DueServed
