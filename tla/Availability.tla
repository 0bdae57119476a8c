---------------------------- MODULE Availability ----------------------------
(***************************************************************************)
(* Which starts a booking page offers: availability.go, without state.     *)
(*                                                                         *)
(* Instants and durations are integers of one unit (the code's grid of 15  *)
(* minutes); dates count days.  A zone changes its offset once, at the     *)
(* instant zone.shift, which stands for a daylight saving change.          *)
(***************************************************************************)
EXTENDS Integers

CONSTANTS
    DayLen,         \* units in 24 hours
    WeekLen         \* days in a week, the domain of a page's weekly ranges

ASSUME AvailabilityAssumption == DayLen \in Nat \ {0} /\ WeekLen \in Nat \ {0}

OffsetAt(zone, t) == IF t < zone.shift THEN zone.before ELSE zone.after

LocalDate(zone, t) == (t + OffsetAt(zone, t)) \div DayLen

\* time.Date: the wall clock read as UTC picks an offset; if the instant it
\* yields lies on the other side of the change, the offset there is taken.
\* A time in the gap moves past it, a doubled one is one of the two.
LocalToUTC(zone, date, clock) ==
    LET wall == date * DayLen + clock
        utc  == wall - OffsetAt(zone, wall)
    IN  IF (utc < zone.shift) = (wall < zone.shift) THEN utc ELSE wall - OffsetAt(zone, utc)

Overlaps(aStart, aEnd, bStart, bEnd) == aStart < bEnd /\ bStart < aEnd

WeekdayKey(date) == date % WeekLen

\* An override replaces the weekly ranges of its date, also with none at all.
RangesOn(rules, date) ==
    IF date \in DOMAIN rules.overrides THEN rules.overrides[date]
    ELSE rules.weekly[WeekdayKey(date)]

\* The starts of one date: a grid of slots in UTC from each range's start.  A
\* range that a change of the offset turns around has none.
GridStarts(rules, date) ==
    UNION {LET first == LocalToUTC(rules.zone, date, range[1])
               end   == LocalToUTC(rules.zone, date, range[2])
           IN  {first + k * rules.duration : k \in 0 .. ((end - first) \div rules.duration) - 1} :
           range \in RangesOn(rules, date)}

\* Neither too soon, nor too late, nor within a buffer of something booked.
\* The buffers pad the candidate, never what is booked.
IsOpen(rules, booked, now, start) ==
    LET end == start + rules.duration
    IN  /\ start >= now + rules.minNotice
        /\ end <= now + rules.maxDaysAhead * DayLen
        /\ \A b \in booked :
              ~Overlaps(start - rules.bufferBefore, end + rules.bufferAfter, b.start, b.end)

\* Mutant: a day short.
HorizonTooNear(rules, now) == LocalDate(rules.zone, now + (rules.maxDaysAhead - 1) * DayLen)

\* Dates after this one are cut off before their slots are looked at.
Horizon(rules, now) == LocalDate(rules.zone, now + (rules.maxDaysAhead + 1) * DayLen)

\* Slots: only the local dates of from and to count.
Slots(rules, booked, now, from, to) ==
    {start \in UNION {GridStarts(rules, date) :
                         date \in {d \in LocalDate(rules.zone, from) .. LocalDate(rules.zone, to) :
                                      d <= Horizon(rules, now)}} :
        IsOpen(rules, booked, now, start)}

IsSlotAvailable(rules, start, now, booked) ==
    start \in Slots(rules, booked, now, start - DayLen, start + DayLen)

=============================================================================
