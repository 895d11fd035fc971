SPECIFICATION LiveSpec
CONSTANTS
    Programs <- MCPrograms
    MaxDocs = 3
    None = None
INVARIANTS EachChildHasItsDocument
PROPERTIES ImplementsOneEach ParentEnds
CHECK_DEADLOCK FALSE
