SPECIFICATION FairSpec
CONSTANTS
    Tabs = {t1, t2}
    NoTab = NoTab
    MaxSessions = 2
    MaxGen = 1
    MaxVer = 0
    MaxOps = 1
PROPERTY RefreshSettles
PROPERTY DeadSessionLeft
CHECK_DEADLOCK FALSE
