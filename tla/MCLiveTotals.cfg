SPECIFICATION Spec
CONSTANTS
    Replicas = {a, b}
    Conns = {c1, c2}
    StaleAfter = 1
    MaxErrors = 1
    Gone = gone
    Processes = {p1, p2}
    Records = {x1, x2, x3}
    MaxFailures = 1
PROPERTIES IdleRowsGo TotalsAreTold CountsAreTold
CHECK_DEADLOCK FALSE
