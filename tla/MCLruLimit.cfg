SPECIFICATION Spec
CONSTANTS
  c1 = c1
  c2 = c2
  k0 = k0
  k1 = k1
  k2 = k2
  k3 = k3
  Callers = {c1, c2}
  Keys = {k0, k1, k2, k3}
  NShards = 2
  ShardOf <- MCShardOf
  EmptyKey = k0
  Capacity = 2
  TTL = 1
  BatchSize = 1
  MaxTime = 2
INVARIANTS
  RangeLimitCovers
CHECK_DEADLOCK FALSE
