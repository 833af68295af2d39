CONSTANTS
    Session = {s1, s2, s3}
    Tool = {t1, t2}
    Handler = {h1, h2}
    Free = Free
    Callers = {TRUE, FALSE}
SYMMETRY Symmetry
CHECK_DEADLOCK FALSE
SPECIFICATION ClaimsSpec
INVARIANTS
    ClaimsAreExact
    CanariesHold
    RestoredIfCareful
