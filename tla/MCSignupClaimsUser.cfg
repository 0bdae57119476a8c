SPECIFICATION Spec
CONSTANTS
    Requests = {r1, r2}
    Options = {o1, o2}
    Participants = {p1, p2}
    Users = {u}
    Guest = guest
    Poll = poll
    None = none
    Budgets = {1}
    Capacities = {1}
    Unlimited = unlimited
    LimitParticipants = 2
    MaxNews = 0
SYMMETRY Symmetry
INVARIANTS OneParticipantPerUser
