SPECIFICATION LiveSpec
CONSTANTS
    Callers = {a, b}
    a = a
    b = b
    Wishes <- WishesOf
    Size = 2
    Programs <- All
    Contracts = {c1, c2, c3}
    c1 = c1
    c2 = c2
    c3 = c3
    u = u
    v = v
    Shape <- ShapeOf
    Weaves = {w}
    Services = {u, v}
    Environments <- Environs
    MaxAttempts = 2
    MaxEscalations = 2
    Declares = TRUE
    Inherited <- OlderFile
    None = None
    Fallback = Fallback
    Torn = Torn
INVARIANTS
    DiskTellsTheTruth
    ResultFits
    DegradationIsExplicit
    RepairIsOfThisStage
PROPERTIES
    ImplementsAllOrNothing
    CallsEnd
