----------------------------- MODULE MCBookings -----------------------------
\* A small page for Bookings: days of four units, two slots that overlap in
\* part, clocks that go forward or back in the second day.
EXTENDS Bookings, TLC

EveryDay(ranges) == [d \in 0 .. WeekLen - 1 |-> ranges]

\* Slots of one unit with a pause after each, and two adjacent ranges.
Short == [zone |-> [shift |-> 6, before |-> 0, after |-> 1],
          weekly |-> EveryDay({<<0, 2>>, <<2, 4>>}), overrides |-> [d \in {1} |-> {<<1, 3>>}],
          duration |-> 1, bufferBefore |-> 0, bufferAfter |-> 1,
          minNotice |-> 0, maxDaysAhead |-> 2]

\* Slots of two units with a pause before each, at a distance from now.
Long == [zone |-> [shift |-> 6, before |-> 1, after |-> 0],
         weekly |-> EveryDay({<<0, 4>>}), overrides |-> [d \in {2} |-> {}],
         duration |-> 2, bufferBefore |-> 1, bufferAfter |-> 0,
         minNotice |-> 1, maxDaysAhead |-> 1]

MCPageRules == {Short, Long}

\* Neither slots nor ids have an order anywhere in the code.
Symmetry == Permutations(Requests) \cup Permutations(Bookings)

=============================================================================
