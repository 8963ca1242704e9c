CONSTANTS
  NumWorkers = 3
  ThreadCounts <- MCThreadCounts
  Callers = {c1, c2}
  Tasks = {ta, tb, tc}
  NetTasks <- MCNetTasks
  TaskTypes = {"sched", "slow"}
  Hashes <- MCHashes
  TruePeriodsNs <- MCPeriods
  MaxIntervalUs = 100000
  Null = Null
  ta = ta
  tb = tb
  tc = tc
SPECIFICATION Spec
INVARIANT
  NoRoutableTaskDropped
CHECK_DEADLOCK FALSE
