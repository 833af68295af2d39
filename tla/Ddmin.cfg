SPECIFICATION MCSpec
CONSTANTS
    MaxItems = 4
    LongItems = 6
    Results = {"reproduces", "absent"}
INVARIANTS OneMinimal ScanStaysInside
PROPERTIES ImplementsShrinking Terminates
CHECK_DEADLOCK FALSE
