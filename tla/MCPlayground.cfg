SPECIFICATION Spec
CONSTANTS
    Modes = {"snapshot", "image"}
    Letter <- FirstTwoAlike
    MaxGen = 2
    MaxPieces = 1
    MaxSubmits = 2
    MaxActs = 3
    MaxStored = 3
INVARIANT TypeOK
INVARIANT AnswerFaithful
INVARIANT PendingIsLast
INVARIANT BusyMeansWork
INVARIANT ConversationSaved
PROPERTY FinalStaysFinal
CHECK_DEADLOCK FALSE
