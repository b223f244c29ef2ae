\* The schools page: a school with a key and a group, a second school and a second group to
\* be made; two edits, two threads of the worker, a configuration that lives for two ticks.
\* The export page: two labels, days of three instants, weeks of two days and months of
\* three; three things a user does, two previews under way at one time, a midnight.
CONSTANTS
  Schools = {"acme", "labs"}
  Keys = {"main"}
  Names = {"robots", "rockets"}
  Established <- OneSchool
  Threads = {w1, w2}
  TTL = 2
  MaxActs = 2
  MaxClock = 2
  Nothing = Nothing
  Labels = {"bracket", "gear"}
  Destinations = {"usb"}
  DayLen = 3
  WeekLen = 2
  MonthLen = 3
  Noon = 34
  Midnights = 1
  Picks = {28, 34}
  Remembered = {"gear", Blank}
  MaxActions = 3
  MaxRequests = 2
  Blank = Blank
  None = None
SPECIFICATION PagesSpec
INVARIANTS TreeCurrent JobsSeeEdits RequestsSound PreviewCurrent
CHECK_DEADLOCK FALSE
SYMMETRY ThreadSymmetry
