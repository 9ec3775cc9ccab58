SPECIFICATION Spec
CONSTANTS
    Requests = {r1, r2}
    NSubs = 2
    Total <- TwoSubs
    Overflow = {1, 2}
    Wallet0 = 2
    Token0 = 4
    TokenUnlimited = FALSE
    Trust = 1
    Kinds = {"relay"}
    Prefs = {"wallet_first", "subscription_only", "wallet_only"}
    Estimates = {0, 2}
    Actuals = {1, 3}
    Fee = 1
    Faults = {"query", "wallet", "token", "subscription", "record", "panic", "crash"}
    MaxFaults = 1
SYMMETRY Symmetry
INVARIANTS NeverOverRefunded RefundReturnsAll UsedIsBacked
