-------------------------- MODULE BookingMailProofs --------------------------
(***************************************************************************)
(* What the parties of a booking get to know, however many bookings there  *)
(* are and however requests, reminders, mails and crashes cross.           *)
(***************************************************************************)
EXTENDS BookingMail, BookingsProofs

-----------------------------------------------------------------------------
\* Types.

\* The mail in hand has not ended.
PostOK == post # NoPost => /\ post.b \in Bookings
                           /\ post.i \in DOMAIN mails[post.b]
                           /\ post.i \notin DOMAIN outcome[post.b]

MailTypes ==
    /\ TypeOK
    /\ alarm.pc # "idle" => alarm.b \in Bookings
    /\ outcome = [b \in Bookings |-> outcome[b]]
    /\ \A b \in Bookings : DOMAIN outcome[b] \subseteq DOMAIN mails[b]
    /\ PostOK

-----------------------------------------------------------------------------
\* The news of a booking, and what brings it.

News(b) == IF Confirmed(b) THEN {"confirmed", "rescheduled"} ELSE {"cancelled"}

Knows(b, to) == \E n \in told : /\ n.b = b /\ n.to = to /\ n.kind \in News(b)
                                /\ n.start = booking[b].start

Outdated(b, i) == post.b = b /\ post.i = i /\ post.start # booking[b].start

\* Mail i of booking b will tell the recipient, or was to when the page was gone.
Brings(b, to, i) ==
    /\ i \in DOMAIN mails[b]
    /\ mails[b][i].to = to /\ mails[b][i].kind \in News(b)
    /\ \/ i \notin DOMAIN outcome[b] /\ ~Outdated(b, i)
       \/ i \in DOMAIN outcome[b] /\ outcome[b][i] = "pageGone"

Informed(b, to) == booking[b] # Unmade => Knows(b, to) \/ \E i \in DOMAIN mails[b] : Brings(b, to, i)

LEMMA InformedMeans ==
    PartiesInformed <=> \A b \in Bookings, to \in Recipients : Informed(b, to)
BY DEF PartiesInformed, Informed, Knows, Brings, Outdated, News, Pending

LEMMA InformedNext ==
    ASSUME \A b \in Bookings, to \in Recipients : Informed(b, to)'
    PROVE  PartiesInformed'
BY DEF PartiesInformed, Informed, Knows, Brings, Outdated, News, Pending

\* Mails that stand stay what they are.
MailsKept(b) == /\ DOMAIN mails[b] \subseteq DOMAIN mails'[b]
                /\ \A i \in DOMAIN mails[b] : mails'[b][i] = mails[b][i]

\* A step after which the booking is as it was, no mail has ended, and the mail in
\* hand is the same or none.
LEMMA InformedStays ==
    ASSUME NEW b \in Bookings, NEW to \in Recipients, Informed(b, to),
           booking'[b] = booking[b], MailsKept(b), told' = told,
           outcome'[b] = outcome[b],
           post' = post \/ post'.b # b
    PROVE  Informed(b, to)'
<1> SUFFICES ASSUME booking[b] # Unmade PROVE (Knows(b, to) \/ \E i \in DOMAIN mails[b] : Brings(b, to, i))'
  BY DEF Informed
<1>1. News(b)' = News(b)
  BY DEF News, Confirmed
<1>2. CASE Knows(b, to)
  BY <1>1, <1>2 DEF Knows
<1>3. ASSUME NEW i \in DOMAIN mails[b], Brings(b, to, i)
      PROVE  Brings(b, to, i)' /\ i \in DOMAIN mails'[b]
  <2>1. ~Outdated(b, i) => ~Outdated(b, i)'
    BY DEF Outdated
  <2>2. QED
    BY <1>1, <1>3, <2>1 DEF Brings, MailsKept
<1>4. QED
  BY <1>2, <1>3 DEF Informed

-----------------------------------------------------------------------------
\* Requests.

\* A request about b appends its own mail to either party, under a booking that is
\* confirmed, or cancelled, as the mail says.
Announces(b) ==
    \E kind \in {"confirmed", "rescheduled", "cancelled"} :
        /\ Appended(mails[b], kind, mails'[b])
        /\ kind \in News(b)'
        /\ mails'[b] \in Seq(Mail)

LEMMA RequestWrites ==
    ASSUME TypeOK, NEW b \in Bookings, Request(b)
    PROVE  /\ Announces(b)
           /\ \A c \in Bookings \ {b} : booking'[c] = booking[c] /\ mails'[c] = mails[c]
           /\ booking' \in [Bookings -> Row]
           /\ reminder' \in [Bookings -> Int \cup {None}]
           /\ mails' \in [Bookings -> Seq(Mail)]
<1> DEFINE m == mails[b]
<1>1. /\ booking \in [Bookings -> Row] /\ mails \in [Bookings -> Seq(Mail)]
      /\ m \in Seq(Mail) /\ booking[b] \in Row
  BY Typed
<1>2. Starts \subseteq Int
  BY BookingsAssumption
<1>3. CASE \E start \in Starts : WriteBook(b, start)
  <2>1. PICK start \in Starts : WriteBook(b, start)
    BY <1>3
  <2>2. start \in Int
    BY <1>2
  <2>3. /\ booking' \in [Bookings -> Row] /\ reminder' \in [Bookings -> Int \cup {None}]
        /\ mails' \in [Bookings -> Seq(Mail)]
    BY <2>1, <2>2, WriteType
  <2>4. /\ booking' = [booking EXCEPT ![b] = Scheduled(start)]
        /\ mails' = [mails EXCEPT ![b] = m \o Queue("confirmed", None)]
    BY <2>1 DEF WriteBook
  <2>5. mails'[b] = m \o Queue("confirmed", None) /\ booking'[b].status = "confirmed"
    BY <1>1, <2>4 DEF Scheduled
  <2>6. Appended(m, "confirmed", mails'[b])
    BY <1>1, <2>5, QueueAppends
  <2>7. Announces(b)
    BY <2>3, <2>5, <2>6 DEF Announces, News, Confirmed
  <2>8. \A c \in Bookings \ {b} : booking'[c] = booking[c] /\ mails'[c] = mails[c]
    BY <1>1, <2>4
  <2>9. QED
    BY <2>3, <2>7, <2>8
<1>4. CASE WriteCancel(b)
  <2>3. /\ booking' \in [Bookings -> Row] /\ reminder' \in [Bookings -> Int \cup {None}]
        /\ mails' \in [Bookings -> Seq(Mail)]
    BY <1>4, WriteType
  <2>4. /\ booking' = [booking EXCEPT ![b].status = "cancelled"]
        /\ mails' = [mails EXCEPT ![b] = m \o Queue("cancelled", None)]
    BY <1>4 DEF WriteCancel
  <2>5. mails'[b] = m \o Queue("cancelled", None) /\ booking'[b].status = "cancelled"
    BY <1>1, <2>4 DEF Row
  <2>6. Appended(m, "cancelled", mails'[b])
    BY <1>1, <2>5, QueueAppends
  <2>7. Announces(b)
    BY <2>3, <2>5, <2>6 DEF Announces, News, Confirmed
  <2>8. \A c \in Bookings \ {b} : booking'[c] = booking[c] /\ mails'[c] = mails[c]
    BY <1>1, <2>4
  <2>9. QED
    BY <2>3, <2>7, <2>8
<1>5. CASE \E start \in Starts : WriteReschedule(b, start, booking[b].start)
  <2>1. PICK start \in Starts : WriteReschedule(b, start, booking[b].start)
    BY <1>5
  <2>2. start \in Int /\ booking[b].start \in Int \cup {None}
    BY <1>1, <1>2 DEF Row
  <2>3. /\ booking' \in [Bookings -> Row] /\ reminder' \in [Bookings -> Int \cup {None}]
        /\ mails' \in [Bookings -> Seq(Mail)]
    BY <2>1, <2>2, WriteType
  <2>4. /\ booking' = [booking EXCEPT ![b] = Scheduled(start)]
        /\ mails' = [mails EXCEPT ![b] = m \o Queue("rescheduled", booking[b].start)]
    BY <2>1 DEF WriteReschedule
  <2>5. /\ mails'[b] = m \o Queue("rescheduled", booking[b].start)
        /\ booking'[b].status = "confirmed"
    BY <1>1, <2>4 DEF Scheduled
  <2>6. Appended(m, "rescheduled", mails'[b])
    BY <1>1, <2>2, <2>5, QueueAppends
  <2>7. Announces(b)
    BY <2>3, <2>5, <2>6 DEF Announces, News, Confirmed
  <2>8. \A c \in Bookings \ {b} : booking'[c] = booking[c] /\ mails'[c] = mails[c]
    BY <1>1, <2>4
  <2>9. QED
    BY <2>3, <2>7, <2>8
<1>6. QED
  BY <1>3, <1>4, <1>5 DEF Request

\* The new mails are after the old ones.
LEMMA AppendedDomain ==
    ASSUME NEW m \in Seq(Mail), NEW t \in Seq(Mail), NEW kind, Appended(m, kind, t)
    PROVE  /\ DOMAIN m = 1 .. Len(m) /\ DOMAIN t = 1 .. Len(m) + 2 /\ Len(m) \in Nat
           /\ DOMAIN m \subseteq DOMAIN t
           /\ \A i \in DOMAIN m : t[i] = m[i]
BY LenProperties DEF Appended

LEMMA RequestInforms ==
    ASSUME MailTypes, PartiesInformed, NEW b \in Bookings, Request(b)
    PROVE  (MailTypes /\ PartiesInformed)'
<1>1. /\ Announces(b)
      /\ \A c \in Bookings \ {b} : booking'[c] = booking[c] /\ mails'[c] = mails[c]
      /\ booking' \in [Bookings -> Row] /\ reminder' \in [Bookings -> Int \cup {None}]
      /\ mails' \in [Bookings -> Seq(Mail)]
  BY RequestWrites DEF MailTypes
<1>2. /\ page' = page /\ now' = now /\ req' = req /\ post' = post
      /\ outcome' = outcome /\ told' = told
      /\ alarm'.pc = alarm.pc /\ alarm'.b = alarm.b
  <2>1. UNCHANGED <<page, now, req, post, outcome, told>>
    BY DEF Request
  <2>2. alarm' = [alarm EXCEPT !.current = @ /\ alarm.b # b]
    BY DEF Request
  <2>3. QED
    BY <2>1, <2>2
<1>3. PICK kind : /\ Appended(mails[b], kind, mails'[b])
                  /\ kind \in News(b)'
                  /\ mails'[b] \in Seq(Mail)
  BY <1>1 DEF Announces
<1>4. mails[b] \in Seq(Mail) /\ mails'[b] \in Seq(Mail)
  BY <1>1, Typed DEF MailTypes
<1>5. /\ DOMAIN mails[b] = 1 .. Len(mails[b]) /\ DOMAIN mails'[b] = 1 .. Len(mails[b]) + 2
      /\ Len(mails[b]) \in Nat
      /\ MailsKept(b)
  BY <1>3, <1>4, AppendedDomain DEF MailsKept
<1>6. \A c \in Bookings : MailsKept(c)
  BY <1>1, <1>5 DEF MailsKept
<1>7. TypeOK'
  BY <1>1, <1>2, Typed DEF MailTypes, TypeOK, Page, Row, Mail, Transaction
<1>8. MailTypes'
  BY <1>2, <1>6, <1>7 DEF MailTypes, PostOK, MailsKept
<1>9. ASSUME NEW to \in Recipients PROVE Informed(b, to)'
  <2>1. PICK i : /\ i \in DOMAIN mails'[b] /\ i \notin DOMAIN mails[b]
                 /\ mails'[b][i].to = to /\ mails'[b][i].kind = kind
    <3>1. PICK n \in Nat : n = Len(mails[b])
      BY <1>5
    <3>2. /\ n + 1 \in DOMAIN mails'[b] /\ n + 1 \notin DOMAIN mails[b]
          /\ n + 2 \in DOMAIN mails'[b] /\ n + 2 \notin DOMAIN mails[b]
      <4>1. /\ n + 1 \in 1 .. n + 2 /\ n + 2 \in 1 .. n + 2
            /\ n + 1 \notin 1 .. n /\ n + 2 \notin 1 .. n
        OBVIOUS
      <4>2. QED
        BY <1>5, <3>1, <4>1
    <3>3. /\ mails'[b][n + 1].to = "visitor" /\ mails'[b][n + 1].kind = kind
          /\ mails'[b][n + 2].to = "organiser" /\ mails'[b][n + 2].kind = kind
      BY <1>3, <3>1 DEF Appended
    <3>4. to = "visitor" \/ to = "organiser"
      BY DEF Recipients
    <3>5. QED
      BY <3>2, <3>3, <3>4
  <2>3. i \notin DOMAIN outcome[b] /\ ~(post.b = b /\ post.i = i)
    <3>1. post # NoPost => ~(post.b = b /\ post.i = i)
      BY <2>1 DEF MailTypes, PostOK
    <3>2. post = NoPost => post.b # b
      BY BookingsAssumption DEF NoPost
    <3>3. QED
      BY <2>1, <3>1, <3>2 DEF MailTypes
  <2>4. Brings(b, to, i)'
    BY <1>2, <1>3, <2>1, <2>3 DEF Brings, Outdated
  <2>5. QED
    BY <2>1, <2>4 DEF Informed
<1>10. ASSUME NEW c \in Bookings \ {b}, NEW to \in Recipients PROVE Informed(c, to)'
  <2>1. Informed(c, to)
    BY InformedMeans
  <2>2. QED
    BY <1>1, <1>2, <1>6, <2>1, InformedStays
<1>11. PartiesInformed'
  BY <1>9, <1>10, InformedNext
<1>12. QED
  BY <1>8, <1>11

-----------------------------------------------------------------------------
\* Steps that send and end nothing.

Bystands ==
    /\ booking' = booking /\ told' = told /\ outcome' = outcome
    /\ \A b \in Bookings : MailsKept(b)
    /\ post' = post \/ post' = NoPost

LEMMA BystandersInform ==
    ASSUME MailTypes, PartiesInformed, Bystands, TypeOK',
           alarm'.pc # "idle" => alarm'.b \in Bookings
    PROVE  (MailTypes /\ PartiesInformed)'
<1>1. MailTypes'
  BY DEF MailTypes, Bystands, MailsKept, PostOK
<1>2. ASSUME NEW b \in Bookings, NEW to \in Recipients PROVE Informed(b, to)'
  <2>1. Informed(b, to)
    BY InformedMeans
  <2>2. post' = NoPost => post'.b # b
    BY BookingsAssumption DEF NoPost
  <2>3. QED
    BY <2>1, <2>2, InformedStays DEF Bystands
<1>3. QED
  BY <1>1, <1>2, InformedNext

LEMMA KeptOnes ==
    ASSUME UNCHANGED mails
    PROVE  \A b \in Bookings : MailsKept(b)
BY DEF MailsKept

LEMMA ReminderQueued ==
    ASSUME MailTypes, QueueReminder
    PROVE  mails' \in [Bookings -> Seq(Mail)] /\ \A b \in Bookings : MailsKept(b)
<1> DEFINE b == alarm.b
           letter == [kind |-> "reminder", prev |-> None, to |-> alarm.pc]
<1>1. /\ mails \in [Bookings -> Seq(Mail)] /\ b \in Bookings
      /\ mails' = [mails EXCEPT ![b] = Append(mails[b], letter)]
  BY Typed DEF MailTypes, QueueReminder, Recipients
<1>2. letter \in Mail
  BY DEF QueueReminder, Mail
<1>3. mails[b] \in Seq(Mail) /\ Append(mails[b], letter) \in Seq(Mail)
  BY <1>1, <1>2, AppendProperties
<1>4. /\ mails' \in [Bookings -> Seq(Mail)]
      /\ mails'[b] = Append(mails[b], letter)
      /\ \A c \in Bookings \ {b} : mails'[c] = mails[c]
  BY <1>1, <1>3
<1>5. /\ Len(mails[b]) \in Nat
      /\ Len(Append(mails[b], letter)) = Len(mails[b]) + 1
      /\ \A i \in 1 .. Len(mails[b]) : Append(mails[b], letter)[i] = mails[b][i]
  BY <1>2, <1>3, AppendProperties, LenProperties
<1>6. /\ DOMAIN mails[b] = 1 .. Len(mails[b])
      /\ DOMAIN Append(mails[b], letter) = 1 .. Len(Append(mails[b], letter))
  BY <1>3, LenProperties
<1>7. MailsKept(b)
  <2>1. 1 .. Len(mails[b]) \subseteq 1 .. Len(mails[b]) + 1
    BY <1>5
  <2>2. QED
    BY <1>4, <1>5, <1>6, <2>1 DEF MailsKept
<1>8. QED
  BY <1>4, <1>7 DEF MailsKept

LEMMA ReminderInforms ==
    ASSUME MailTypes, PartiesInformed, ReminderWorker
    PROVE  (MailTypes /\ PartiesInformed)'
<1> USE DEF MailTypes
<1>1. CASE \E b \in Bookings : TakeReminder(b)
  <2>1. PICK b \in Bookings : TakeReminder(b)
    BY <1>1
  <2>2. UNCHANGED vars /\ alarm'.b = b /\ UNCHANGED <<post, outcome, told>>
    BY <2>1 DEF TakeReminder
  <2>3. TypeOK' /\ Bystands
    BY <2>2, KeptOnes DEF vars, TypeOK, Bystands
  <2>4. QED
    BY <2>2, <2>3, BystandersInform
<1>2. CASE Recheck
  <2>1. /\ UNCHANGED vars /\ UNCHANGED <<post, outcome, told>>
        /\ alarm.pc = "recheck" /\ alarm'.b = alarm.b
    BY <1>2 DEF Recheck
  <2>2. TypeOK' /\ Bystands
    BY <2>1, KeptOnes DEF vars, TypeOK, Bystands
  <2>3. alarm'.pc # "idle" => alarm'.b \in Bookings
    BY <2>1
  <2>4. QED
    BY <2>2, <2>3, BystandersInform
<1>3. CASE QueueReminder
  <2>1. mails' \in [Bookings -> Seq(Mail)] /\ \A b \in Bookings : MailsKept(b)
    BY <1>3, ReminderQueued
  <2>2. /\ UNCHANGED <<page, booking, reminder, now, req, post, outcome, told>>
        /\ alarm.pc # "idle" /\ alarm'.b = alarm.b
    BY <1>3 DEF QueueReminder, Recipients
  <2>3. TypeOK' /\ Bystands
    BY <2>1, <2>2 DEF TypeOK, Bystands, Mail
  <2>4. QED
    BY <2>2, <2>3, BystandersInform
<1>4. CASE CompleteReminder
  <2>1. /\ UNCHANGED <<page, booking, mails, now, req, post, outcome, told>>
        /\ alarm' = NoAlarm
    BY <1>4 DEF CompleteReminder
  <2>2. reminder' \in [Bookings -> Int \cup {None}]
    BY <1>4, Typed DEF CompleteReminder
  <2>3. TypeOK' /\ Bystands
    BY <2>1, <2>2, KeptOnes DEF TypeOK, Bystands
  <2>4. QED
    BY <2>1, <2>3, BystandersInform DEF NoAlarm
<1>5. QED
  BY <1>1, <1>2, <1>3, <1>4 DEF ReminderWorker

LEMMA OthersInform ==
    ASSUME MailTypes, PartiesInformed, ChangePage \/ Clock \/ Crash \/ UNCHANGED allVars
    PROVE  (MailTypes /\ PartiesInformed)'
<1> USE DEF MailTypes
<1>1. CASE ChangePage
  <2>1. PageStep /\ UNCHANGED <<alarm, post, outcome, told>>
    BY <1>1 DEF ChangePage, PageStep
  <2>2. page' \in Page
    BY <2>1, PageType
  <2>3. UNCHANGED <<booking, reminder, mails, now, req>>
    <3>1. CASE UpdatePage
      BY <3>1 DEF UpdatePage
    <3>2. CASE DeletePage \/ SetSuspended
      BY <3>2 DEF DeletePage, SetSuspended
    <3>3. QED
      BY <2>1, <3>1, <3>2 DEF PageStep
  <2>4. TypeOK' /\ Bystands
    BY <2>1, <2>2, <2>3, KeptOnes DEF TypeOK, Bystands, Page
  <2>5. QED
    BY <2>1, <2>4, BystandersInform
<1>2. CASE Clock
  <2>1. /\ UNCHANGED <<page, booking, reminder, mails, req, alarm, post, outcome, told>>
        /\ now < MaxNow /\ now' = now + 1
    BY <1>2 DEF Clock, Tick, mailVars
  <2>2. now' \in 0 .. MaxNow
    BY <2>1, BookingsAssumption DEF TypeOK
  <2>3. TypeOK' /\ Bystands
    BY <2>1, <2>2, KeptOnes DEF TypeOK, Bystands
  <2>4. QED
    BY <2>1, <2>3, BystandersInform
<1>3. CASE Crash
  <2>1. /\ UNCHANGED vars /\ outcome' = outcome /\ told' = told
        /\ alarm' = alarm \/ alarm' = NoAlarm
        /\ post' = post \/ post' = NoPost
    BY <1>3 DEF Crash
  <2>2. TypeOK' /\ Bystands
    BY <2>1, KeptOnes DEF TypeOK, Bystands, vars
  <2>3. alarm'.pc # "idle" => alarm'.b \in Bookings
    BY <2>1 DEF NoAlarm
  <2>4. QED
    BY <2>2, <2>3, BystandersInform
<1>4. CASE UNCHANGED allVars
  <2>1. /\ UNCHANGED vars /\ outcome' = outcome /\ told' = told /\ alarm' = alarm /\ post' = post
    BY <1>4 DEF allVars, mailVars
  <2>2. TypeOK' /\ Bystands
    BY <2>1, KeptOnes DEF TypeOK, Bystands, vars
  <2>3. QED
    BY <2>1, <2>2, BystandersInform
<1>5. QED
  BY <1>1, <1>2, <1>3, <1>4

-----------------------------------------------------------------------------
\* Mails.

\* A mail that ends.
LEMMA EndKeeps ==
    ASSUME MailTypes, NEW b \in Bookings, NEW i \in DOMAIN mails[b], NEW how, End(b, i, how)
    PROVE  /\ outcome' = [c \in Bookings |-> outcome'[c]]
           /\ DOMAIN outcome'[b] = {i} \cup DOMAIN outcome[b]
           /\ outcome'[b][i] = how
           /\ \A j \in DOMAIN outcome[b] : j # i => outcome'[b][j] = outcome[b][j]
           /\ \A c \in Bookings \ {b} : outcome'[c] = outcome[c]
<1> DEFINE ended == [j \in {i} \cup DOMAIN outcome[b] |-> IF j = i THEN how ELSE outcome[b][j]]
<1>1. outcome = [c \in Bookings |-> outcome[c]] /\ outcome' = [outcome EXCEPT ![b] = ended]
  BY DEF MailTypes, End
<1>2. outcome' = [c \in Bookings |-> outcome'[c]] /\ outcome'[b] = ended
  BY <1>1
<1>3. \A c \in Bookings \ {b} : outcome'[c] = outcome[c]
  BY <1>1
<1>4. QED
  BY <1>2, <1>3

LEMMA ComposeInforms ==
    ASSUME MailTypes, PartiesInformed,
           NEW b \in Bookings, NEW i \in DOMAIN mails[b], Compose(b, i)
    PROVE  (MailTypes /\ PartiesInformed)'
<1>1. /\ UNCHANGED vars /\ alarm' = alarm /\ told' = told
      /\ post = NoPost /\ i \notin DOMAIN outcome[b]
  BY DEF Compose, Claimable, Pending
<1>2. /\ TypeOK' /\ booking' = booking /\ mails' = mails
      /\ \A c \in Bookings : News(c)' = News(c)
  BY <1>1 DEF MailTypes, vars, TypeOK, News, Confirmed
<1>3. NoPost.b \notin Bookings
  BY BookingsAssumption DEF NoPost
<1>4. ASSUME NEW c \in Bookings, NEW to \in Recipients PROVE Informed(c, to)
  BY InformedMeans
<1>5. CASE Overtaken(b, mails[b][i].kind)
  <2>1. End(b, i, IF Visible THEN "done" ELSE "pageGone") /\ post' = NoPost
    BY <1>1, <1>5 DEF Compose
  <2>2. /\ outcome' = [c \in Bookings |-> outcome'[c]]
        /\ DOMAIN outcome'[b] = {i} \cup DOMAIN outcome[b]
        /\ outcome'[b][i] = IF Visible THEN "done" ELSE "pageGone"
        /\ \A j \in DOMAIN outcome[b] : j # i => outcome'[b][j] = outcome[b][j]
        /\ \A c \in Bookings \ {b} : outcome'[c] = outcome[c]
    BY <2>1, EndKeeps
  <2>3. MailTypes'
    BY <1>1, <1>2, <2>1, <2>2 DEF MailTypes, PostOK
  <2>4. ASSUME NEW c \in Bookings, NEW to \in Recipients, NEW j \in DOMAIN mails[c], Brings(c, to, j)
        PROVE  Brings(c, to, j)'
    <3>1. ~Outdated(c, j)'
      BY <1>3, <2>1 DEF Outdated
    <3>2. CASE c = b /\ j = i
      <4>1. mails[b][i].kind \in News(b)
        BY <2>4, <3>2 DEF Brings
      <4>2. ~Visible
        BY <1>5, <4>1 DEF Overtaken, News
      <4>3. outcome'[c][j] = "pageGone" /\ j \in DOMAIN outcome'[c]
        BY <2>2, <3>2, <4>2
      <4>4. QED
        BY <1>2, <2>4, <4>3 DEF Brings
    <3>3. CASE c # b \/ j # i
      <4>1. /\ j \in DOMAIN outcome'[c] <=> j \in DOMAIN outcome[c]
            /\ j \in DOMAIN outcome[c] => outcome'[c][j] = outcome[c][j]
        BY <2>2, <3>3
      <4>2. QED
        BY <1>2, <2>4, <3>1, <4>1 DEF Brings
    <3>4. QED
      BY <3>2, <3>3
  <2>5. ASSUME NEW c \in Bookings, NEW to \in Recipients PROVE Informed(c, to)'
    BY <1>1, <1>2, <1>4, <2>4 DEF Informed, Knows
  <2>6. QED
    BY <2>3, <2>5, InformedNext
<1>6. CASE ~Overtaken(b, mails[b][i].kind)
  <2>1. post' = [b |-> b, i |-> i, start |-> booking[b].start] /\ outcome' = outcome
    BY <1>6 DEF Compose
  <2>2. MailTypes'
    BY <1>1, <1>2, <2>1 DEF MailTypes, PostOK
  <2>3. ASSUME NEW c \in Bookings, NEW j PROVE ~Outdated(c, j)'
    BY <1>2, <2>1 DEF Outdated
  <2>4. ASSUME NEW c \in Bookings, NEW to \in Recipients PROVE Informed(c, to)'
    BY <1>1, <1>2, <1>4, <2>1, <2>3 DEF Informed, Knows, Brings
  <2>5. QED
    BY <2>2, <2>4, InformedNext
<1>7. QED
  BY <1>5, <1>6

LEMMA SendInforms ==
    ASSUME MailTypes, PartiesInformed, Send
    PROVE  (MailTypes /\ PartiesInformed)'
<1> DEFINE b == post.b
           i == post.i
<1>1. /\ UNCHANGED vars /\ alarm' = alarm /\ post' = NoPost
      /\ told' = told \cup {Letter(b, i, post.start)}
      /\ End(b, i, "done")
  BY DEF Send
<1>2. b \in Bookings /\ i \in DOMAIN mails[b] /\ i \notin DOMAIN outcome[b]
  BY DEF Send, MailTypes, PostOK
<1>3. /\ TypeOK' /\ booking' = booking /\ mails' = mails
      /\ \A c \in Bookings : News(c)' = News(c)
  BY <1>1 DEF MailTypes, vars, TypeOK, News, Confirmed
<1>4. /\ outcome' = [c \in Bookings |-> outcome'[c]]
      /\ DOMAIN outcome'[b] = {i} \cup DOMAIN outcome[b]
      /\ \A j \in DOMAIN outcome[b] : j # i => outcome'[b][j] = outcome[b][j]
      /\ \A c \in Bookings \ {b} : outcome'[c] = outcome[c]
  BY <1>1, <1>2, EndKeeps
<1>5. MailTypes'
  BY <1>1, <1>2, <1>3, <1>4 DEF MailTypes, PostOK
<1>6. ASSUME NEW c \in Bookings, NEW to \in Recipients, NEW j \in DOMAIN mails[c], Brings(c, to, j)
      PROVE  Brings(c, to, j)' \/ Knows(c, to)'
  <2>1. CASE c = b /\ j = i
    <3>1. /\ mails[b][i].to = to /\ mails[b][i].kind \in News(b)
          /\ post.start = booking[b].start
      BY <1>2, <1>6, <2>1 DEF Brings, Outdated
    <3>2. Letter(b, i, post.start) \in told'
      BY <1>1
    <3>3. QED
      BY <1>3, <2>1, <3>1, <3>2, <1>2 DEF Knows, Letter
  <2>2. CASE c # b \/ j # i
    <3>1. /\ j \in DOMAIN outcome'[c] <=> j \in DOMAIN outcome[c]
          /\ j \in DOMAIN outcome[c] => outcome'[c][j] = outcome[c][j]
      BY <1>4, <2>2
    <3>2. ~Outdated(c, j)'
      BY <1>1, BookingsAssumption DEF Outdated, NoPost
    <3>3. QED
      BY <1>3, <1>6, <3>1, <3>2 DEF Brings
  <2>3. QED
    BY <2>1, <2>2
<1>7. ASSUME NEW c \in Bookings, NEW to \in Recipients PROVE Informed(c, to)'
  <2>1. Informed(c, to)
    BY InformedMeans
  <2>2. Knows(c, to) => Knows(c, to)'
    BY <1>1, <1>3 DEF Knows
  <2>3. QED
    BY <1>3, <1>6, <2>1, <2>2 DEF Informed
<1>8. QED
  BY <1>5, <1>7, InformedNext

\* emails.go:19-24: both parties of a booking have been sent what it is now, or a job
\* is on its way that will, whatever requests, retries and crashes have crossed, unless
\* the page was gone when it ran.
THEOREM PartiesAlwaysInformed == MailSpec => []PartiesInformed
<1>1. MailInit => MailTypes /\ PartiesInformed
  <2> SUFFICES ASSUME MailInit PROVE MailTypes /\ PartiesInformed
    OBVIOUS
  <2>1. TypeOK
    BY InitTyped DEF MailInit
  <2>2. /\ booking = [b \in Bookings |-> Unmade]
        /\ outcome = [b \in Bookings |-> <<>>]
        /\ alarm = NoAlarm /\ post = NoPost
    BY DEF MailInit, Init
  <2>3. MailTypes
    BY <2>1, <2>2 DEF MailTypes, PostOK, NoAlarm
  <2>4. PartiesInformed
    BY <2>2 DEF PartiesInformed
  <2>5. QED
    BY <2>3, <2>4
<1>2. (MailTypes /\ PartiesInformed) /\ [MailNext]_allVars => (MailTypes /\ PartiesInformed)'
  BY RequestInforms, ReminderInforms, OthersInform, ComposeInforms, SendInforms
     DEF MailNext, MailWorker
<1>3. QED
  BY <1>1, <1>2, PTL DEF MailSpec

=============================================================================
