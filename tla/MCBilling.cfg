SPECIFICATION FairSpec
CONSTANTS
    Requests = {r1, r2}
    NSubs = 1
    Total <- OneSub
    Overflow = {1}
    Wallet0 = 3
    Token0 = 4
    TokenUnlimited = FALSE
    Trust = 2
    Kinds = {"playground", "task"}
    Prefs = {"subscription_first"}
    Estimates = {2}
    Actuals = {1, 3}
    Fee = 1
    Faults = {"record"}
    MaxFaults = 1
INVARIANTS TypeOK SettledPaysActual RejectedPaysNothing WithinTotal
PROPERTY NeverOvercharged
