SPECIFICATION Spec
CONSTANTS
    Drives <- EveryRunner
    Script <- ReviseFirst
    Items = 2
    Keys = {a}
    Values <- OneField
    MaxTriggers = 3
    MaxRounds = 4
    AnswersEarly = FALSE
INVARIANTS
    DecisionFindsItsItem
    PassedMeansSound
CHECK_DEADLOCK FALSE
