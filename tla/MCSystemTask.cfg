SPECIFICATION Spec
CONSTANTS
    Runners = {r1, r2}
    NoRunner = NoRunner
    MaxTasks = 2
    TTL = 1
    Interval = 1
    MaxStall = 1
    MaxErrors = 2
SYMMETRY RunnerSymmetry
INVARIANT TypeOK
INVARIANT OneActiveRow
INVARIANT OneRunnerPerTask
INVARIANT RunningHasLock
PROPERTY TerminalIsFinal
PROPERTY AbsSpec
