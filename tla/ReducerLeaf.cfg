SPECIFICATION Spec
CONSTANTS
    Cases <- LeafCase
    Results = {"reproduces", "absent"}
    MaxTimeouts = 2
INVARIANTS ResultIsOneMinimal
CHECK_DEADLOCK FALSE
