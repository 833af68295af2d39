CONSTANTS
    Trials = 2
    Required = 1
    OutputLimit = 2
    Chunk = 2
    PipeSize = 1
    Plans <- TwoTrials
    EventDocs <- SomeEvents
    IndexDocs <- SomeIndexes
    SpecDocs <- SomeSpecs
    ArchiveDocs <- SomeArchives
    Second = "second"
    HostNames = {"LANG", "OPENAI_KEY"}
    MaxMembers = 8
    MaxTenths = 25
    Moves = 2
    Worlds <- SomeWorlds
SPECIFICATION FairSpec
INVARIANTS
    ReadmeComesLast
    ChildSeesWhatTheRunnerShows
    ReadIsOfThePath
    LoadersAgree
PROPERTIES
    ImplementsVerdicts
    DeadlineEndsTrial
