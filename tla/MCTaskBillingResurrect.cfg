SPECIFICATION Spec
CONSTANTS
  Tasks = {1}
  Pollers = {p1}
  Readers = {r1}
  Price = 2
  Actuals = {0, 1, 3}
  c1 = c1
  Channel <- OneChannel
  PerCall = {}
  Legacy = {}
  NoToken = {}
  OwnProgress = {}
  NullTasks = {}
  Realtime = {1}
  Gone = {}
  SweepLimit = 1
  QueryLimit = 1
  Faults = {}
  MaxFaults = 0
  MaxFetches = 1
  NoTask = NoTask
  NoChannel = NoChannel
INVARIANT NeverOverRefunded
