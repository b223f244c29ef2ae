\* Two browsers at addresses of their own, a terminal's wizard, a restart.
CONSTANTS
  b1 = b1
  b2 = b2
  Browsers = {b1, b2}
  Terminals = {tty}
  Ips = {"home", "away"}
  IpOf <- Addresses
  Most <- SmallLimits
  Window = 1
  MaxIps = 1
  Lifetime <- Short
  MaxClock = 3
  MaxActs = 3
  MaxRestarts = 1
  Nobody = Nobody
SPECIFICATION Spec
INVARIANTS LimitExact OneOwner LetIn
CHECK_DEADLOCK FALSE
