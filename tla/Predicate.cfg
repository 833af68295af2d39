CONSTANTS
    Trials = 2
    Required = 1
    OutputLimit = 2
    Chunk = 2
    PipeSize = 1
    Plans <- TwoTrials
    Entries = {"runs", "invalid", "raises"}
    Faulty = {2}
    MayCancel = TRUE
SPECIFICATION FairSpec
INVARIANT
    NoChildIsLeft
PROPERTIES
    ImplementsVerdicts
    DeadlineEndsTrial
    EndsWithoutTheClock
