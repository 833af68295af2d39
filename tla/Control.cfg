CONSTANTS
    t1 = t1
    t2 = t2
    t3 = t3
    g1 = g1
    g2 = g2
    g3 = g3
    Task = {t1, t2, t3}
    Gate = {g1, g2, g3}
    DependsOn <- Depends
    Priority <- Order
    Deadline <- Hours
    Owner <- Owners
    Blockable = {t3}
    Starts <- AllStarts
    Total = 2
    Checks = 2
    RunIds = {1, 2}
    MaxCommits = 4
    MaxVersion = 1
SPECIFICATION Spec
CHECK_DEADLOCK FALSE
INVARIANTS
    NextTaskIsRight
    ClockIsNeverReset
    GreenIsProved
    ReceiptIsOfItsCommit
