CONSTANTS
    MaxLines = 2
    MaxSessions = 2
    RetryLimit = 2
    Inputs = { "text", "new", "resume", "abort", "status", "history", "approve", "reject", "exit" }
SPECIFICATION LiveSpec
PROPERTIES NothingServedAfterGoodbye ImplementsTurnstile QueueMoves HandlersEnd
CHECK_DEADLOCK FALSE
