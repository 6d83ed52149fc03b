SPECIFICATION FairSpec
CONSTANTS
  Plan <- MCPlan
  Campaign = TRUE
  Memory = TRUE
  Limit = 16
  MaxRuns = 2
  MaxCrashes = 1
  MaxFaults = 1
INVARIANTS MemoryIsReplay OneRun Verifies NeverRedispatched PhaseBudget
PROPERTY Terminates
CHECK_DEADLOCK FALSE
