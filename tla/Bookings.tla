------------------------------ MODULE Bookings ------------------------------
(***************************************************************************)
(* One booking page, its bookings and the transactions on them             *)
(* (bookings.go, pages.go), as they interleave under READ COMMITTED.       *)
(*                                                                         *)
(* A request slot runs one transaction; row locks are held to its end, and *)
(* its writes appear at its commit.  Mail jobs are rows appended to mails; *)
(* who takes them is the business of BookingMail.                          *)
(***************************************************************************)
EXTENDS Availability, Sequences, FiniteSets

CONSTANTS
    Requests,       \* slots for transactions
    Bookings,       \* ids, each used once
    Starts,         \* the starts that visitors ask for
    PageRules,      \* what an organiser may set a page's rules to
    Lead,           \* reminderLead, 24 hours
    MaxNow,         \* bound: the clock stops here
    MaxMoves,       \* bound: a booking is rescheduled this often
    None

\* Clock times of one day, in order.
ValidRanges(ranges) ==
    /\ ranges \subseteq (0 .. DayLen) \X (0 .. DayLen)
    /\ \A r \in ranges : r[1] < r[2]
    /\ \A r, s \in ranges : r = s \/ r[2] <= s[1] \/ s[2] <= r[1]

\* A zone of the IANA database: no change of the offset is by more than a day, which
\* it was where a country crossed the date line.
ValidZone(zone) ==
    /\ zone.shift \in Int /\ zone.before \in Int /\ zone.after \in Int
    /\ zone.before - zone.after \in -DayLen .. DayLen

\* What the validation of a page lets through.  Its upper bounds leave every
\* padded slot within a day.
ValidRules(p) ==
    /\ p.duration \in Nat \ {0}
    /\ p.bufferBefore \in Nat /\ p.bufferAfter \in Nat
    /\ p.minNotice \in Nat /\ p.maxDaysAhead \in Nat \ {0}
    /\ p.bufferBefore <= DayLen
    /\ p.duration + p.bufferAfter <= DayLen
    /\ ValidZone(p.zone)
    /\ DOMAIN p.weekly = 0 .. WeekLen - 1
    /\ \A day \in DOMAIN p.weekly : ValidRanges(p.weekly[day])
    /\ \A date \in DOMAIN p.overrides : ValidRanges(p.overrides[date])

ASSUME BookingsAssumption ==
    /\ Starts \subseteq Int /\ Lead \in Nat
    /\ MaxNow \in Nat /\ MaxMoves \in Nat
    /\ None \notin Int /\ None \notin Bookings
    /\ \A p \in PageRules : ValidRules(p)

VARIABLES
    page,       \* the booking_pages row
    booking,    \* the bookings rows
    reminder,   \* per booking, the run_at of its booking.reminder job, or None
    mails,      \* per booking, the mail:booking jobs queued so far, in order
    now,
    req         \* the transactions

vars == <<page, booking, reminder, mails, now, req>>

Recipients == {"visitor", "organiser"}
Statuses   == {"active", "paused"}

Unmade == [status |-> "unmade", start |-> 0, end |-> 0]
Idle   == [pc |-> "idle", op |-> "none", b |-> None, start |-> 0, prev |-> None, holds |-> {}]

-----------------------------------------------------------------------------
\* Reads.

\* GetBookingPage and its variants see neither deleted nor suspended pages.
Visible == page.live /\ ~page.suspended

Confirmed(b) == booking[b].status = "confirmed"

ConfirmedInRange(from, to) ==
    {b \in Bookings : Confirmed(b) /\ booking[b].start < to /\ booking[b].end > from}

\* bookedIntervalsForPage: what is booked within [from, to), but for one booking.
BookedIntervals(from, to, exclude) ==
    {[start |-> booking[b].start, end |-> booking[b].end] :
        b \in ConfirmedInRange(from, to) \ {exclude}}

\* The windows a visitor may ask for: whole UTC days, in order.  Their greatest
\* length, 62 days, is beyond the bound of four.
Windows == {w \in {d * DayLen : d \in -1 .. 3} \X {d * DayLen : d \in -1 .. 3} : w[1] <= w[2]}

\* What the public page shows: an unlocked read.
PublicAvailability(from, to) ==
    IF Visible THEN Slots(page.rules, BookedIntervals(from, to, None), now, from, to)
    ELSE {}

\* Mutant: the buffers widen what is booked as well.
SlotIsFreeBufferedTwice(start, exclude) ==
    IsSlotAvailable(page.rules, start, now,
        {[start |-> i.start - page.rules.bufferBefore, end |-> i.end + page.rules.bufferAfter] :
            i \in BookedIntervals(start - DayLen, start + DayLen, exclude)})

\* The check of Book and Reschedule, over one day on either side.
SlotIsFree(start, exclude) ==
    IsSlotAvailable(page.rules, start, now,
                    BookedIntervals(start - DayLen, start + DayLen, exclude))

\* Row locks.  FOR UPDATE and the UPDATE of an edit wait for each other.
HoldsPage(q)       == "page" \in req[q].holds
HoldsBooking(q, b) == "booking" \in req[q].holds /\ req[q].b = b

\* Mutants: a plain read instead of FOR UPDATE.
PageReadPlainly(r)       == TRUE
BookingReadPlainly(r, b) == TRUE

PageFree(r) == \A q \in Requests \ {r} : ~HoldsPage(q)

BookingFree(r, b) == \A q \in Requests \ {r} : ~HoldsBooking(q, b)

PageUnlocked == \A q \in Requests : ~HoldsPage(q)

-----------------------------------------------------------------------------
\* Writes inside a transaction.

\* enqueueMailBooking: a row for either party.
Queue(kind, prev) ==
    [i \in 1 .. 2 |-> [kind |-> kind, prev |-> prev,
                       to |-> IF i = 1 THEN "visitor" ELSE "organiser"]]

\* armBookingReminder, also for a time already past.
Arm(start) == start - Lead

Scheduled(start) == [status |-> "confirmed", start |-> start,
                     end |-> start + page.rules.duration]

\* What each operation writes: the booking, its mails, its reminder.
WriteBook(b, start) ==
    /\ booking' = [booking EXCEPT ![b] = Scheduled(start)]
    /\ mails' = [mails EXCEPT ![b] = @ \o Queue("confirmed", None)]
    /\ reminder' = IF page.reminders THEN [reminder EXCEPT ![b] = Arm(start)] ELSE reminder

\* Mutant: a status the type does not know.
WriteCanceled(b) ==
    /\ booking' = [booking EXCEPT ![b].status = "canceled"]
    /\ mails' = [mails EXCEPT ![b] = @ \o Queue("cancelled", None)]
    /\ reminder' = [reminder EXCEPT ![b] = None]

WriteCancel(b) ==
    /\ booking' = [booking EXCEPT ![b].status = "cancelled"]
    /\ mails' = [mails EXCEPT ![b] = @ \o Queue("cancelled", None)]
    /\ reminder' = [reminder EXCEPT ![b] = None]

\* Mutant: the old reminder stays when the page wants none.
WriteRescheduleKeepingReminder(b, start, prev) ==
    /\ booking' = [booking EXCEPT ![b] = Scheduled(start)]
    /\ mails' = [mails EXCEPT ![b] = @ \o Queue("rescheduled", prev)]
    /\ reminder' = IF page.reminders THEN [reminder EXCEPT ![b] = Arm(start)] ELSE reminder

WriteReschedule(b, start, prev) ==
    /\ booking' = [booking EXCEPT ![b] = Scheduled(start)]
    /\ mails' = [mails EXCEPT ![b] = @ \o Queue("rescheduled", prev)]
    /\ reminder' = [reminder EXCEPT ![b] = IF page.reminders THEN Arm(start) ELSE None]

\* The end of a transaction releases its locks.
Finish(r) == req' = [req EXCEPT ![r] = Idle]

-----------------------------------------------------------------------------
\* Book.

BeginBook(r, start) ==
    /\ req[r] = Idle
    /\ Visible
    /\ \E b \in Bookings :
          /\ booking[b] = Unmade
          /\ \A q \in Requests : req[q].b # b
          /\ req' = [req EXCEPT ![r] = [Idle EXCEPT !.pc = "lockPage", !.op = "book",
                                                   !.b = b, !.start = start]]
    /\ UNCHANGED <<page, booking, reminder, mails, now>>

\* Mutant: what was read before the lock still counts.
LockPageUnread(r) ==
    /\ req[r].pc = "lockPage"
    /\ PageFree(r)
    /\ req' = [req EXCEPT ![r].pc = IF req[r].op = "book" THEN "check" ELSE "lockBooking",
                          ![r].holds = @ \cup {"page"}]
    /\ UNCHANGED <<page, booking, reminder, mails, now>>

\* The page's row, locked and read afresh; the request ends here if the page
\* is gone or paused.  A reschedule goes on to the booking's row.
LockPage(r) ==
    /\ req[r].pc = "lockPage"
    /\ PageFree(r)
    /\ IF ~Visible \/ page.status = "paused" THEN Finish(r)
       ELSE req' = [req EXCEPT ![r].pc = IF req[r].op = "book" THEN "check" ELSE "lockBooking",
                               ![r].holds = @ \cup {"page"}]
    /\ UNCHANGED <<page, booking, reminder, mails, now>>

\* A start in the past, or no slot: the transaction is rolled back.
Check(r) ==
    /\ req[r].pc = "check"
    /\ LET exclude == IF req[r].op = "book" THEN None ELSE req[r].b
       IN  IF req[r].start >= now /\ SlotIsFree(req[r].start, exclude)
           THEN req' = [req EXCEPT ![r].pc = "write"] ELSE Finish(r)
    /\ UNCHANGED <<page, booking, reminder, mails, now>>

\* The page's row is locked, so what was read of it still holds.
CommitBook(r) ==
    /\ req[r].pc = "write" /\ req[r].op = "book"
    /\ WriteBook(req[r].b, req[r].start)
    /\ Finish(r)
    /\ UNCHANGED <<page, now>>

-----------------------------------------------------------------------------
\* Cancel, by a visitor with the token or by the organiser.

BeginCancel(r, b) ==
    /\ req[r] = Idle
    /\ booking[b] # Unmade
    /\ req' = [req EXCEPT ![r] = [Idle EXCEPT !.pc = "lockBooking", !.op = "cancel", !.b = b]]
    /\ UNCHANGED <<page, booking, reminder, mails, now>>

\* Mutant: a cancellation locks the page's row as well, after the booking's.
LockBookingThenPage(r) ==
    LET b == req[r].b IN
    /\ req[r].pc = "lockBooking"
    /\ BookingFree(r, b)
    /\ IF booking[b].status = "cancelled" THEN Finish(r)
       ELSE req' = [req EXCEPT ![r].pc = IF req[r].op = "cancel" THEN "lockPage" ELSE "check",
                               ![r].prev = booking[b].start,
                               ![r].holds = @ \cup {"booking"}]
    /\ UNCHANGED <<page, booking, reminder, mails, now>>

\* GetBookingForUpdate.  A cancelled booking ends either operation.
LockBooking(r) ==
    LET b == req[r].b IN
    /\ req[r].pc = "lockBooking"
    /\ BookingFree(r, b)
    /\ IF booking[b].status = "cancelled" THEN Finish(r)
       ELSE req' = [req EXCEPT ![r].pc = IF req[r].op = "cancel" THEN "write" ELSE "check",
                               ![r].prev = booking[b].start,
                               ![r].holds = @ \cup {"booking"}]
    /\ UNCHANGED <<page, booking, reminder, mails, now>>

\* Also when the page is deleted, suspended or paused.
CommitCancel(r) ==
    /\ req[r].pc = "write" /\ req[r].op = "cancel"
    /\ WriteCancel(req[r].b)
    /\ Finish(r)
    /\ UNCHANGED <<page, now>>

-----------------------------------------------------------------------------
\* Reschedule: the page's row, then the booking's.

Moves(b) == Cardinality({i \in DOMAIN mails[b] : mails[b][i].kind = "rescheduled"})

BeginReschedule(r, b, start) ==
    /\ req[r] = Idle
    /\ booking[b] # Unmade
    /\ Moves(b) < 2 * MaxMoves
    /\ req' = [req EXCEPT ![r] = [Idle EXCEPT !.pc = "lockPage", !.op = "reschedule",
                                             !.b = b, !.start = start]]
    /\ UNCHANGED <<page, booking, reminder, mails, now>>

CommitReschedule(r) ==
    /\ req[r].pc = "write" /\ req[r].op = "reschedule"
    /\ WriteReschedule(req[r].b, req[r].start, req[r].prev)
    /\ Finish(r)
    /\ UNCHANGED <<page, now>>

\* The client goes away or a statement fails: Rollback.
Abort(r) ==
    /\ req[r] # Idle
    /\ Finish(r)
    /\ UNCHANGED <<page, booking, reminder, mails, now>>

-----------------------------------------------------------------------------
\* The page.

\* UpdatePage writes every editable field; bookings and reminders stay.
UpdatePage ==
    /\ Visible /\ PageUnlocked
    /\ \E rules \in PageRules, status \in Statuses, reminders \in BOOLEAN :
          page' = [page EXCEPT !.rules = rules, !.status = status, !.reminders = reminders]
    /\ UNCHANGED <<booking, reminder, mails, now, req>>

DeletePage ==
    /\ Visible /\ PageUnlocked
    /\ page' = [page EXCEPT !.live = FALSE]
    /\ UNCHANGED <<booking, reminder, mails, now, req>>

\* Staff suspend a page or restore it.
SetSuspended ==
    /\ page.live /\ PageUnlocked
    /\ page' = [page EXCEPT !.suspended = ~@]
    /\ UNCHANGED <<booking, reminder, mails, now, req>>

Tick ==
    /\ now < MaxNow
    /\ now' = now + 1
    /\ UNCHANGED <<page, booking, reminder, mails, req>>

-----------------------------------------------------------------------------
\* The row that CreatePage inserts.
NewPages == [live : {TRUE}, suspended : {FALSE}, status : {"active"},
             reminders : BOOLEAN, rules : PageRules]

Init ==
    /\ page \in NewPages
    /\ booking = [b \in Bookings |-> Unmade]
    /\ reminder = [b \in Bookings |-> None]
    /\ mails = [b \in Bookings |-> <<>>]
    /\ now = 0
    /\ req = [r \in Requests |-> Idle]

Step(r) == \/ LockPage(r) \/ LockBooking(r) \/ Check(r)
           \/ CommitBook(r) \/ CommitCancel(r) \/ CommitReschedule(r)

Next ==
    \/ \E r \in Requests :
          \/ \E start \in Starts : BeginBook(r, start)
          \/ \E b \in Bookings : BeginCancel(r, b)
          \/ \E b \in Bookings, start \in Starts : BeginReschedule(r, b, start)
          \/ Step(r)
          \/ Abort(r)
    \/ UpdatePage \/ DeletePage \/ SetSuspended
    \/ Tick

Spec == Init /\ [][Next]_vars
-----------------------------------------------------------------------------
TypeOK ==
    /\ page \in [live : BOOLEAN, suspended : BOOLEAN, status : Statuses,
                 reminders : BOOLEAN, rules : PageRules]
    /\ booking \in [Bookings -> [status : {"unmade", "confirmed", "cancelled"},
                                 start : Int, end : Int]]
    /\ reminder \in [Bookings -> Int \cup {None}]
    /\ mails \in [Bookings -> Seq([kind : {"confirmed", "rescheduled", "cancelled", "reminder"},
                                   prev : Int \cup {None}, to : Recipients])]
    /\ now \in 0 .. MaxNow
    /\ req \in [Requests -> [pc : {"idle", "lockPage", "lockBooking", "check", "write"},
                             op : {"none", "book", "cancel", "reschedule"},
                             b : Bookings \cup {None}, start : Int,
                             prev : Int \cup {None}, holds : SUBSET {"page", "booking"}]]

\* The contract at the head of bookings.go: bookings that stand never overlap,
\* a cancelled one is never brought back, whatever requests cross.
Cal == INSTANCE Calendar WITH Instants <- Starts \cup {s + p.duration : s \in Starts, p \in PageRules}
KeepsCalendar == Cal!Spec

\* Book and Reschedule, bookings.go:291-302 and 521-530: a page that was
\* paused, deleted, suspended or given another slot length while the request
\* was under way takes no booking under what it was before.
NeverBooksClosedPage ==
    [][\A b \in Bookings :
          booking'[b] # booking[b] /\ booking'[b].status = "confirmed"
             => /\ Visible /\ page.status = "active"
                /\ booking'[b].end - booking'[b].start = page.rules.duration]_vars

\* Cancel, bookings.go:403-411: "a single cancellation mail, not two", and
\* nothing is mailed about a booking after it, so no reschedule slipped in.
MailsTellTheStory ==
    \A b \in Bookings, to \in Recipients :
        LET told == {i \in DOMAIN mails[b] : mails[b][i].to = to}
            Of(kind) == {i \in told : mails[b][i].kind = kind}
        IN  /\ Cardinality(Of("confirmed")) = IF booking[b] = Unmade THEN 0 ELSE 1
            /\ Cardinality(Of("cancelled")) = IF booking[b].status = "cancelled" THEN 1 ELSE 0
            /\ \A i \in Of("cancelled"), j \in told : j <= i
            /\ \A i \in Of("confirmed"), j \in told : i <= j

\* emails.go:138-152: a reminder that is armed is that of a booking that
\* stands, for the start it has now.
ReminderFollows ==
    \A b \in Bookings :
        reminder[b] # None => Confirmed(b) /\ reminder[b] = Arm(booking[b].start)

\* The next two are about the page, the bookings and the clock alone, whose
\* every combination is also met with no request under way.
Quiet == \A r \in Requests : req[r] = Idle

\* availability.go:211 against handlers.go:484: a slot that the public page
\* offers, and whose padded span lies in the window its bookings were read
\* for, is one that Book would take.
OfferedIsAccepted ==
    Quiet /\ page.status = "active" =>
        \A w \in Windows : \A s \in PublicAvailability(w[1], w[2]) :
            /\ s - page.rules.bufferBefore >= w[1]
            /\ s + page.rules.duration + page.rules.bufferAfter <= w[2]
            => SlotIsFree(s, None)

\* availability.go:133-155: the dates that the horizon cuts off hold no slot
\* anyone could book, also over a change of the zone's offset.
HorizonHarmless ==
    Quiet =>
        \A date \in Horizon(page.rules, now) + 1 .. Horizon(page.rules, now) + 3 :
            \A s \in GridStarts(page.rules, date) : ~IsOpen(page.rules, {}, now, s)

\* bookings.go:515-539: whoever takes both rows takes the page's first, so
\* some transaction can always go on: no set of them waits for each other.
WaitsFor(r, q) ==
    /\ q # r
    /\ \/ req[r].pc = "lockPage" /\ HoldsPage(q)
       \/ req[r].pc = "lockBooking" /\ HoldsBooking(q, req[r].b)
NoDeadlock ==
    \A S \in (SUBSET Requests) \ {{}} : \E r \in S : \A q \in S : ~WaitsFor(r, q)

=============================================================================
