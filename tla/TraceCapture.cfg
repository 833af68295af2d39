CONSTANTS
    Trace = {t1, t2}
    MaxEvents = 5
    MaxBytes = 3
    MaxStarts = 3
    EventIds <- EventNames
    PlainStarts = 1
    Requests <- SomeRequests
    Disks <- SomeDisks
SYMMETRY Symmetry
CHECK_DEADLOCK FALSE
SPECIFICATION CaptureSpec
INVARIANTS
    PublishedShowsAll
    CompletedIsValid
PROPERTIES
    FailureIsFinal
    OneAuthor
