SPECIFICATION Spec
CONSTANTS
    Providers <- MCProviders
    Unknown <- MCUnknown
    NoName <- MCNoName
    MaxAttempts = 3
INVARIANTS
    CandidatesInTurn
PROPERTIES
    NothingIsBurnt
CHECK_DEADLOCK FALSE
