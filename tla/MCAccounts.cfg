SPECIFICATION Spec
CONSTANTS
    Users = {ann, bob}
    Requests = {q1, q2}
    MaxMoves = 1
    MaxBegun = 2
    None = none
INVARIANTS TypeOK LockHolds ActsWhereItBelongs HealsUnlessHindered
PROPERTIES HandsOver
SYMMETRY Symmetry
CHECK_DEADLOCK FALSE
