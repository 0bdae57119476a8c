--------------------------- MODULE MCBookingMail ---------------------------
\* One booking, two requests about it, and a page with slots of one unit.
EXTENDS BookingMail

Hourly == [zone |-> [shift |-> 0, before |-> 0, after |-> 0],
           weekly |-> [d \in 0 .. WeekLen - 1 |-> {<<1, 3>>}], overrides |-> <<>>,
           duration |-> 1, bufferBefore |-> 0, bufferAfter |-> 0,
           minNotice |-> 0, maxDaysAhead |-> 1]

MCPageRules == {Hourly}

=============================================================================
