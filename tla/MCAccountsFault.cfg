SPECIFICATION Spec
CONSTANTS
    Users = {ann, bob}
    Requests = {q1}
    MaxMoves = 0
    MaxBegun = 1
    None = none
PROPERTIES ForgetsOnlyTheHomeless
SYMMETRY Symmetry
CHECK_DEADLOCK FALSE
