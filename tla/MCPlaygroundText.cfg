SPECIFICATION Spec
CONSTANTS
    Modes = {"delta", "snapshot", "reply"}
    Letter <- FirstTwoAlike
    MaxGen = 2
    MaxPieces = 3
    MaxSubmits = 1
    MaxActs = 1
    MaxStored = 3
INVARIANT AnswerFaithful
INVARIANT PendingIsLast
CHECK_DEADLOCK FALSE
