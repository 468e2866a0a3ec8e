\* Each of the three queues under two workers; one row always throws, one is moot.
SPECIFICATION QueueFairSpec
CONSTANTS
  Items = {1, 2, 3}
  Workers = {w1, w2}
  BatchSize = 2
  MaxAttempts = 3
  Lease = 1
  Backoff = 1
  Poison = {2}
  Moot = {3}
  Paced = FALSE
  MaxFaults = 2
INVARIANTS
  RowsSafe
PROPERTIES
  Resolved
  TransientFaultsRecover
