\* One publisher beside the delivery threads, a service started twice, a restart, a database
\* error.  Nothing more happens when all events are published and the service is stopped.
CONSTANTS
  p1 = p1
  p2 = p2
  Publishers = {p1}
  Capacity = 1
  MaxRows = 1
  PurgeEvery = 2
  MaxStarts = 2
  MaxEvents = 2
  MaxMetas = 1
  MaxFaults = 1
  MaxRestarts = 1
  Sentinel = Sentinel
  Meta = Meta
  Audit = Audit
SPECIFICATION FairSpec
INVARIANT AuditBounded
PROPERTIES InOrder StopEnds Served
CHECK_DEADLOCK FALSE
