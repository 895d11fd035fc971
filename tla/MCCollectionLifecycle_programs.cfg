SPECIFICATION LiveSpec
CONSTANTS
    Descriptors <- LifecyclesAsked
    Ids = { "a", "b" }
    Words = { "pending", "in_review", "accepted", "other" }
    Guards = { "reopen_requested" }
    MaxItems = 2
    None = None
PROPERTIES
    ImplementsBoard
    CollectionCompletes
CHECK_DEADLOCK FALSE
