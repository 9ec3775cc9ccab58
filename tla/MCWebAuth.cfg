SPECIFICATION Spec
CONSTANTS
    Tabs = {t1, t2}
    NoTab = NoTab
    MaxSessions = 2
    MaxGen = 2
    MaxVer = 1
    MaxOps = 2
SYMMETRY TabSymmetry
INVARIANT TypeOK
INVARIANT ReuseNeedsLoss
INVARIANT SignedOutStaysOut
PROPERTY TokenNeverOlder
CHECK_DEADLOCK FALSE
