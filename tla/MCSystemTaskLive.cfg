SPECIFICATION FairSpec
CONSTANTS
    Runners = {r1, r2}
    NoRunner = NoRunner
    MaxTasks = 2
    TTL = 1
    Interval = 0
    MaxStall = 1
    MaxErrors = 0
PROPERTY OrphanFails
PROPERTY PendingClaimed
