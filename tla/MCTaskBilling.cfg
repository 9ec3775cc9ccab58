SPECIFICATION FairSpec
CONSTANTS
  Tasks = {1, 2}
  Pollers = {p1, p2}
  Readers = {}
  Price = 2
  Actuals = {0, 1}
  c1 = c1
  Channel <- OneChannel
  PerCall = {2}
  Legacy = {2}
  NoToken = {2}
  OwnProgress = {1}
  NullTasks = {}
  Realtime = {}
  Gone = {}
  SweepLimit = 1
  QueryLimit = 1
  Faults = {"fund"}
  MaxFaults = 1
  MaxFetches = 0
  NoTask = NoTask
  NoChannel = NoChannel
INVARIANT TypeOK NeverOverRefunded QuotaIsPaid ClearedMeansRefunded FailedIsRefunded
PROPERTY TerminalIsFinal EveryTaskEnds
