CONSTANTS
    Process = {p1, p2, p3}
    Digest = {d1, d2}
    Output = {o1, o2}
SYMMETRY Symmetry
CHECK_DEADLOCK FALSE
SPECIFICATION CommandSpec
INVARIANTS
    PublishedInOrder
    PublishedVerifies
    UndisturbedSucceeds
