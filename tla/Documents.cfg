CONSTANTS
    MaxNodes = 9
    MaxDepth = 2
    Letters <- AllLetters
    Index <- Positions
    Jobs <- SomeJobs
SPECIFICATION WalkSpec
INVARIANTS
    WalkIsExact
    NothingSecretIsLeft
    ReportIsTrue
    QuantifiersAreNotMissed
