----------------------------- MODULE BookingMail -----------------------------
(***************************************************************************)
(* The mails about bookings (emails.go): the writes of Bookings, and the   *)
(* workers that run its booking.reminder and mail:booking jobs.            *)
(*                                                                         *)
(* A request is one step here, as Bookings shows its transactions to be.   *)
(* Of the job queue only its promise is used: a due job is run, and run    *)
(* again if its worker dies; a job is completed by its id, so a row that   *)
(* was armed anew meanwhile stays.                                         *)
(***************************************************************************)
EXTENDS Bookings

CONSTANT
    MaxMishaps      \* bound: deaths of workers, failures of handlers and changes
                    \* of the page, together

VARIABLES
    alarm,      \* the worker that runs a reminder job
    post,       \* the worker that runs a mail job
    outcome,    \* per booking, how its finished mail jobs ended, by position
    told,       \* history: who was sent which news of which booking
    failed,     \* mail jobs that wait for a retry
    mishaps

mailVars == <<alarm, post, outcome, told, failed, mishaps>>
allVars == <<vars, mailVars>>

NoAlarm == [pc |-> "idle", b |-> None, current |-> FALSE]
NoPost  == [b |-> None, i |-> 0, start |-> None]

-----------------------------------------------------------------------------
\* Requests.  Reschedule and Cancel replace or delete the reminder's row: a
\* worker that holds the job then holds an id that is gone.
Open(start) == Visible /\ page.status = "active" /\ start >= now

Request(b) ==
    /\ \/ booking[b] = Unmade /\ \E start \in Starts :
             Open(start) /\ SlotIsFree(start, None) /\ WriteBook(b, start)
       \/ Confirmed(b) /\ WriteCancel(b)
       \/ Confirmed(b) /\ Moves(b) < 2 * MaxMoves /\ \E start \in Starts :
             Open(start) /\ SlotIsFree(start, b) /\ WriteReschedule(b, start, booking[b].start)
    /\ alarm' = [alarm EXCEPT !.current = @ /\ alarm.b # b]
    /\ UNCHANGED <<page, now, req, post, outcome, told, failed, mishaps>>

ChangePage ==
    /\ mishaps < MaxMishaps /\ mishaps' = mishaps + 1
    /\ UpdatePage \/ DeletePage \/ SetSuspended
    /\ UNCHANGED <<alarm, post, outcome, told, failed>>

Clock == Tick /\ UNCHANGED mailVars

-----------------------------------------------------------------------------
\* The reminder job.

TakeReminder(b) ==
    /\ alarm = NoAlarm
    /\ reminder[b] # None /\ reminder[b] <= now
    /\ alarm' = [pc |-> "recheck", b |-> b, current |-> TRUE]
    /\ UNCHANGED <<vars, post, outcome, told, failed, mishaps>>

\* A booking that does not stand or a page that wants no reminders: nothing.
Recheck ==
    /\ alarm.pc = "recheck"
    /\ alarm' = [alarm EXCEPT !.pc = IF Confirmed(alarm.b) /\ Visible /\ page.reminders
                                     THEN "visitor" ELSE "complete"]
    /\ UNCHANGED <<vars, post, outcome, told, failed, mishaps>>

\* enqueueMailBooking on the bare connection: two inserts, not one transaction.
QueueReminder ==
    /\ alarm.pc \in Recipients
    /\ mails' = [mails EXCEPT ![alarm.b] =
                    Append(@, [kind |-> "reminder", prev |-> None, to |-> alarm.pc])]
    /\ alarm' = [alarm EXCEPT !.pc = IF @ = "visitor" THEN "organiser" ELSE "complete"]
    /\ UNCHANGED <<page, booking, reminder, now, req, post, outcome, told, failed, mishaps>>

\* Mutant: the job is completed by its key.
CompleteByKey ==
    /\ alarm.pc = "complete"
    /\ reminder' = [reminder EXCEPT ![alarm.b] = None]
    /\ alarm' = NoAlarm
    /\ UNCHANGED <<page, booking, mails, now, req, post, outcome, told, failed, mishaps>>

CompleteReminder ==
    /\ alarm.pc = "complete"
    /\ reminder' = IF alarm.current THEN [reminder EXCEPT ![alarm.b] = None] ELSE reminder
    /\ alarm' = NoAlarm
    /\ UNCHANGED <<page, booking, mails, now, req, post, outcome, told, failed, mishaps>>

-----------------------------------------------------------------------------
\* The mail job.

Pending(b) == DOMAIN mails[b] \ DOMAIN outcome[b]

End(b, i, how) ==
    outcome' = [outcome EXCEPT ![b] = [j \in {i} \cup DOMAIN @ |-> IF j = i THEN how ELSE @[j]]]

\* ClaimDue takes the oldest first; what has failed comes back at any time.
Claimable(b, i) ==
    /\ i \in Pending(b)
    /\ <<b, i>> \in failed \/ \A j \in Pending(b) : j >= i \/ <<b, j>> \in failed

\* What the compose functions look up: the news is no longer true.  A page that is
\* gone counts as such too, and ends the job at once.
Overtaken(b, kind) == \/ ~Visible
                      \/ kind # "cancelled" /\ ~Confirmed(b)
                      \/ kind = "reminder" /\ ~page.reminders

\* Mutant: the row is gone before its mail is.
ComposeAndComplete(b, i) ==
    /\ post = NoPost
    /\ Claimable(b, i)
    /\ End(b, i, "done")
    /\ post' = IF Visible THEN [b |-> b, i |-> i, start |-> booking[b].start] ELSE NoPost
    /\ UNCHANGED <<vars, alarm, told, failed, mishaps>>

\* handleMailBooking: nothing is sent of what is overtaken, and the job is done.
Compose(b, i) ==
    /\ post = NoPost
    /\ Claimable(b, i)
    /\ IF Overtaken(b, mails[b][i].kind)
       THEN End(b, i, IF Visible THEN "done" ELSE "pageGone") /\ UNCHANGED post
       ELSE post' = [b |-> b, i |-> i, start |-> booking[b].start] /\ UNCHANGED outcome
    /\ UNCHANGED <<vars, alarm, told, failed, mishaps>>

\* What a mail tells its recipient.  Whatever its kind, it gives the start that the booking
\* had when it was composed; what it had before a move, and the wording, is left out.
Letter(b, i, start) == [b |-> b, to |-> mails[b][i].to, kind |-> mails[b][i].kind, start |-> start]

Send ==
    /\ post # NoPost
    /\ told' = told \cup {Letter(post.b, post.i, post.start)}
    /\ End(post.b, post.i, "done") /\ post' = NoPost
    /\ failed' = failed \ {<<post.b, post.i>>}
    /\ UNCHANGED <<vars, alarm, mishaps>>

\* A worker dies, or its handler returns an error: the job will be run again.
Crash ==
    /\ mishaps < MaxMishaps /\ mishaps' = mishaps + 1
    /\ \/ alarm # NoAlarm /\ alarm' = NoAlarm /\ UNCHANGED <<post, failed>>
       \/ /\ post # NoPost /\ post' = NoPost /\ UNCHANGED alarm
          /\ failed' = failed \cup {<<post.b, post.i>>}
    /\ UNCHANGED <<vars, outcome, told>>

-----------------------------------------------------------------------------
MailInit ==
    /\ Init /\ page.reminders
    /\ alarm = NoAlarm /\ post = NoPost
    /\ outcome = [b \in Bookings |-> <<>>]
    /\ told = {} /\ failed = {}
    /\ mishaps = 0

ReminderWorker == \/ \E b \in Bookings : TakeReminder(b)
                  \/ Recheck \/ QueueReminder \/ CompleteReminder
MailWorker == \/ \E b \in Bookings : \E i \in DOMAIN mails[b] : Compose(b, i)
              \/ Send

MailNext ==
    \/ \E b \in Bookings : Request(b)
    \/ ChangePage
    \/ Clock
    \/ ReminderWorker
    \/ MailWorker
    \/ Crash

MailSpec == MailInit /\ [][MailNext]_allVars

\* Workers poll for ever and the clock runs; visitors owe nothing.
FairMailSpec == MailSpec /\ WF_allVars(Clock \/ ReminderWorker \/ MailWorker)

-----------------------------------------------------------------------------
\* emails.go:19-24: whatever crosses whatever, both parties of a booking have
\* been sent what it is now, or a job is on its way that will, unless the page
\* was gone when it ran.
PartiesInformed ==
    \A b \in Bookings, to \in Recipients :
        LET news == IF Confirmed(b) THEN {"confirmed", "rescheduled"} ELSE {"cancelled"}
            Outdated(i) == post.b = b /\ post.i = i
                              /\ post.start # booking[b].start
        IN  booking[b] # Unmade =>
               \/ \E n \in told : n.b = b /\ n.to = to /\ n.kind \in news
                                     /\ n.start = booking[b].start
               \/ \E i \in DOMAIN mails[b] :
                     /\ mails[b][i].to = to /\ mails[b][i].kind \in news
                     /\ \/ i \in Pending(b) /\ ~Outdated(i)
                        \/ i \in DOMAIN outcome[b] /\ outcome[b][i] = "pageGone"

\* emails.go:138-152, jobs.go:107: a reminder that is armed reaches both
\* parties, also if its booking was moved while the old one was being run.
ReminderDue(b, s) == Confirmed(b) /\ booking[b].start = s /\ reminder[b] # None
Reminded(b, s) == \A to \in Recipients :
                      [b |-> b, to |-> to, kind |-> "reminder", start |-> s] \in told
ReminderMoot(b, s) == \/ ~Confirmed(b) \/ booking[b].start # s
                      \/ ~Visible \/ ~page.reminders
ReminderArrives ==
    \A b \in Bookings, s \in Starts :
        ReminderDue(b, s) ~> Reminded(b, s) \/ ReminderMoot(b, s)

=============================================================================
