CONSTANTS
  NumWorkers = 3
  ThreadCounts <- MCThreadCounts
  Callers = {c1, c2}
  Tasks = {ta, tb, tc}
  NetTasks <- MCNetTasks
  TaskTypes = {"sched", "reaper"}
  Hashes <- MCHashes
  TruePeriodsNs <- MCPeriods
  MaxIntervalUs = 100000
  Null = Null
  ta = ta
  tb = tb
  tc = tc
SPECIFICATION Spec
INVARIANTS
  TypeOK
  RoundRobinBalanced
  IdleIntervalBounded
\* Once every task has run the runtime only polls empty lanes.
CHECK_DEADLOCK FALSE
