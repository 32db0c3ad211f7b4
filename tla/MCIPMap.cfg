\* Two callers of one address from time 2 to time 5, in minutes of two.
CONSTANTS
  Procs = {p1, p2}
  MaxLimiters = 2
  Addrs = {a1}
  Burst = 2
  Interval = 2
  Needs = {1, 2, 3}
  TTL = 1
  Minute = 2
  Uses <- MCUses
  MaxClock = 5
  MaxChores = 1
  None = None
SYMMETRY Symmetric
SPECIFICATION Spec
INVARIANTS BudgetKept OneLimiterPerAddress RecentWithinHits
CHECK_DEADLOCK FALSE
