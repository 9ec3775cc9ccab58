SPECIFICATION Spec
CONSTANTS
  Tasks = {1, 2}
  Pollers = {p1, p2}
  Readers = {r1}
  Price = 2
  Actuals = {0, 3}
  c1 = c1
  Channel <- OneChannel
  PerCall = {}
  Legacy = {2}
  NoToken = {2}
  OwnProgress = {}
  NullTasks = {2}
  Realtime = {1}
  Gone = {c1}
  SweepLimit = 1
  QueryLimit = 2
  Faults = {"insert", "bulk", "cas", "token", "quota", "crash"}
  MaxFaults = 1
  MaxFetches = 1
  NoTask = NoTask
  NoChannel = NoChannel
INVARIANT TokenFollowsFunding
