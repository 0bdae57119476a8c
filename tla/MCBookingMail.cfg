SPECIFICATION FairMailSpec
CONSTANTS
    DayLen = 4
    WeekLen = 7
    Requests = {r}
    Bookings = {b}
    Starts = {1, 2}
    PageRules <- MCPageRules
    Lead = 1
    MaxNow = 1
    MaxMoves = 1
    MaxMishaps = 1
    None = none
INVARIANTS PartiesInformed
PROPERTIES ReminderArrives
CHECK_DEADLOCK FALSE
