CONSTANTS
    Session = {s1, s2}
    Tool = {t1}
    Handler = {h1}
    Free = Free
    Callers = {FALSE}
CHECK_DEADLOCK FALSE
SPECIFICATION ClaimsSpec
INVARIANTS
    RestoredWhenFree
