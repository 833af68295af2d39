SPECIFICATION FairSpec
CONSTANTS
    Cases <- AllCases
    Results = {"reproduces", "absent"}
    MaxTimeouts = 2
INVARIANTS HoldsTheFailure SingleSearchLevelsExhausted VerifierFindsWhatIsLeft
PROPERTIES OnlyDeletes Terminates
CHECK_DEADLOCK FALSE
