SPECIFICATION Spec
CONSTANTS
    Requests = {r1, r2}
    Options = {o1, o2}
    People = {ann, bob, cat}
    Owner = ann
    Participants = {bob}
    Managers = {ann, bob}
    Lead = 1
    Recheck = 1
    MaxTime = 2
    MaxRequests = 2
    MaxMishaps = 2
    None = none
INVARIANTS DeadlineArmed DecisionReaches ToldOnce ClosedOnce
CHECK_DEADLOCK FALSE
SYMMETRY Symmetry
