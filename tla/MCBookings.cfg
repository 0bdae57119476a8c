SPECIFICATION Spec
CONSTANTS
    DayLen = 4
    WeekLen = 7
    Requests = {r1, r2}
    Bookings = {b1, b2}
    Starts = {1, 2}
    PageRules <- MCPageRules
    Lead = 4
    MaxNow = 1
    MaxMoves = 1
    None = none
INVARIANTS TypeOK MailsTellTheStory ReminderFollows OfferedIsAccepted HorizonHarmless NoDeadlock
PROPERTIES KeepsCalendar NeverBooksClosedPage
SYMMETRY Symmetry
CHECK_DEADLOCK FALSE
