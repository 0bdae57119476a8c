SPECIFICATION MCSpec
CONSTANTS
    Followers = {"ann", "bob"}
    Events <- MCEvents
    Wants <- MCWants
    Workers = {w1, w2}
    MaxItems = 2
    MaxDeaths = 1
    Requests = {r1, r2}
    People = {p1, p2, p3}
    Linked = p1
    Options = {o1, o2}
    Answers = {"yes", "ifneedbe"}
    Account <- MCAccount
    Manager = "ann"
    Limit = 1
    MaxRequests = 2
    None = none
INVARIANTS TypeOK VotesAreOneSubmission DeadlockNeedsEdit OnceUnlessShared
SYMMETRY Symmetry
CHECK_DEADLOCK FALSE
