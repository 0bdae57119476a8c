SPECIFICATION FairSpec
CONSTANTS
    Requests = {r1, r2}
    Options = {o1, o2}
    Participants = {p1, p2}
    Users = {u}
    Guest = guest
    Poll = poll
    None = none
    Budgets = {1}
    Capacities = {1}
    Unlimited = unlimited
    LimitParticipants = 1
    MaxNews = 0
INVARIANTS TypeOK
PROPERTIES ClaimsWithinCapacity ClaimsWithinBudget RequestsAnswered
