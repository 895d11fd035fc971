SPECIFICATION LiveSpec
CONSTANTS
    Decisions <- MCDecisions
    Outcome <- MCOutcome
    NeedsInstruction <- MCNeedsInstruction
    TerminalStatuses <- MCTerminal
    Initial = "pending"
    ProposedStatus = "proposed"
    Texts = {a}
    MaxItems = 2
    MaxStamp = 3
    Cap = 2
    None = None
INVARIANTS
    AcceptedAsSeen
PROPERTIES
    ImplementsOneByOne
    ReviewEnds
CHECK_DEADLOCK FALSE
