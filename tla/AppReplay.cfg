CONSTANTS
    Plain = {a1, a2}
    Asks <- PlainAndOdd
    Shape <- Shapes
    Calls = {c1, s1}
    Secrets = {s1}
    Masked = Masked
    MaxCalls = 2
    MaxTurns = 2
    MaxEvents = 10
    Callbacks = {TRUE, FALSE}
SYMMETRY Symmetry
CHECK_DEADLOCK FALSE
SPECIFICATION Spec
INVARIANTS
    ResultsNameTheirCalls
    ReportIsExact
    PlainEligibleReplays
