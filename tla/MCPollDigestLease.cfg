SPECIFICATION MCSpec
CONSTANTS
    Followers = {"ann", "bob"}
    Events <- MCEvents
    Wants <- MCWants
    Workers = {w1, w2}
    MaxItems = 1
    MaxDeaths = 0
    Requests = {r1}
    People = {p1}
    Linked = p1
    Options = {o1}
    Answers = {"yes"}
    Account <- MCAccount
    Manager = "ann"
    Limit = 1
    MaxRequests = 1
    None = none
INVARIANTS EveryItemOnce
SYMMETRY Symmetry
CHECK_DEADLOCK FALSE
