SPECIFICATION Spec
CONSTANTS
    Drives <- FewRunners
    Script <- ReviseFirst
    Items = 1
    Keys = {a}
    Values <- OneField
    MaxTriggers = 2
    MaxRounds = 2
    AnswersEarly = TRUE
INVARIANTS
    PassedMeansDriven
PROPERTIES
    ImplementsOneVerdict
CHECK_DEADLOCK FALSE
