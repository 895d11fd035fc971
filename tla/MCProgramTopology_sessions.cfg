CONSTANTS
    None = None
    Intakes <- MCIntakes
    SafeIdentifier <- MCSafeIdentifier
SPECIFICATION Spec
PROPERTIES
    HubHolds
    OneBranchOpens
    RenderedOnEntry
    SessionEnds
