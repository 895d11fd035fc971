\* A program may stop: a stage that cannot be judged, a body that never lets go.
CONSTANTS
    IllNamed <- MCIllNamed
    Marked <- MCMarked
    Own <- MCOwn
    StubNames <- MCStubNames
    StubAnchors <- MCStubAnchors
    Contracted <- MCContracted
    Stages <- MCStages
    Domains <- MCDomains
    MaxAnswers = 1
    MaxDrafts = 1

SPECIFICATION Spec
CHECK_DEADLOCK FALSE

INVARIANT TypeOK
INVARIANT OwnBodiesHold
INVARIANT DerivedContractHolds
INVARIANT RepairKeepsWhatHolds
INVARIANT ServedInputIsFound
INVARIANT ExportsWhatWasApproved
PROPERTY JudgedUnlessItSpins
