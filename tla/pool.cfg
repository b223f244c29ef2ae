\* One thread per start, two starts, two jobs per tick, a stop whenever, two database errors.
CONSTANTS
  Size = 1
  MaxBatch = 2
  MaxStarts = 2
  MaxFaults = 2
SPECIFICATION FairSpec
INVARIANTS TypeOK NoStray OneAdvancer OneLateClaim
PROPERTIES StopDrains SchedulerServed
