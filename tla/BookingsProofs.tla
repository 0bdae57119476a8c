--------------------------- MODULE BookingsProofs ---------------------------
(***************************************************************************)
(* What holds of Bookings for every number of requests and bookings, every *)
(* set of starts, and all page rules that the validation lets through.     *)
(*                                                                         *)
(* A request that books or moves holds the page's row from the moment it   *)
(* has read it: neither the page nor any booking that stands changes under *)
(* it, but for one that is cancelled.                                      *)
(***************************************************************************)
EXTENDS Bookings, FiniteSetTheorems, SequenceTheorems, TLAPS

Instants == Starts \cup {s + p.duration : s \in Starts, p \in PageRules}

(***************************************************************************)
(* Types                                                                   *)
(***************************************************************************)

Page == [live : BOOLEAN, suspended : BOOLEAN, status : Statuses,
         reminders : BOOLEAN, rules : PageRules]

Row == [status : {"unmade", "confirmed", "cancelled"}, start : Int, end : Int]

Mail == [kind : {"confirmed", "rescheduled", "cancelled", "reminder"},
         prev : Int \cup {None}, to : Recipients]

Transaction == [pc : {"idle", "lockPage", "lockBooking", "check", "write"},
                op : {"none", "book", "cancel", "reschedule"},
                b : Bookings \cup {None}, start : Int,
                prev : Int \cup {None}, holds : SUBSET {"page", "booking"}]

LEMMA Typed ==
    TypeOK <=> /\ page \in Page
               /\ booking \in [Bookings -> Row]
               /\ reminder \in [Bookings -> Int \cup {None}]
               /\ mails \in [Bookings -> Seq(Mail)]
               /\ now \in 0 .. MaxNow
               /\ req \in [Requests -> Transaction]
BY DEF TypeOK, Page, Row, Mail, Transaction

LEMMA IdleType == Idle \in Transaction
BY DEF Idle, Transaction

\* Of a page's rules, the proofs use no more than this.
LEMMA RulesType ==
    ASSUME NEW p \in PageRules
    PROVE  /\ p.duration \in Nat /\ p.duration > 0
           /\ p.bufferBefore \in Nat /\ p.bufferBefore <= DayLen
           /\ p.bufferAfter \in Nat /\ p.duration + p.bufferAfter <= DayLen
           /\ DayLen \in Nat
<1>1. ValidRules(p)
  BY BookingsAssumption
<1>2. QED
  BY <1>1, AvailabilityAssumption DEF ValidRules

LEMMA FinishType ==
    ASSUME NEW r \in Requests, req \in [Requests -> Transaction], Finish(r)
    PROVE  req' \in [Requests -> Transaction]
BY IdleType DEF Finish

\* What a transaction appends to the mails of its booking.
LEMMA QueueType ==
    ASSUME NEW kind \in {"confirmed", "rescheduled", "cancelled"}, NEW prev \in Int \cup {None},
           NEW b \in Bookings, mails \in [Bookings -> Seq(Mail)]
    PROVE  [mails EXCEPT ![b] = @ \o Queue(kind, prev)] \in [Bookings -> Seq(Mail)]
<1>1. \A i \in 1 .. 2 : [kind |-> kind, prev |-> prev,
                         to |-> IF i = 1 THEN "visitor" ELSE "organiser"] \in Mail
  BY DEF Mail, Recipients
<1>2. Queue(kind, prev) \in [1 .. 2 -> Mail]
  BY <1>1 DEF Queue
<1>3. Queue(kind, prev) \in Seq(Mail)
  <2>1. [1 .. 2 -> Mail] \in {[1 .. n -> Mail] : n \in Nat}
    OBVIOUS
  <2>2. Queue(kind, prev) \in UNION {[1 .. n -> Mail] : n \in Nat}
    BY <1>2, <2>1
  <2>3. QED
    BY <2>2, SeqDef
<1>4. mails[b] \o Queue(kind, prev) \in Seq(Mail)
  BY <1>3
<1>5. QED
  BY <1>4

LEMMA ScheduledType ==
    ASSUME page \in Page, NEW start \in Int
    PROVE  Scheduled(start) \in Row /\ Arm(start) \in Int
<1>1. page.rules.duration \in Nat
  BY RulesType DEF Page
<1>2. QED
  BY <1>1, BookingsAssumption DEF Scheduled, Arm, Row

\* Each of the three writes keeps the tables well typed.
LEMMA WriteType ==
    ASSUME TypeOK, NEW b \in Bookings, NEW start \in Int, NEW prev \in Int \cup {None},
           WriteBook(b, start) \/ WriteCancel(b) \/ WriteReschedule(b, start, prev)
    PROVE  /\ booking' \in [Bookings -> Row]
           /\ reminder' \in [Bookings -> Int \cup {None}]
           /\ mails' \in [Bookings -> Seq(Mail)]
<1>1. /\ page \in Page /\ booking \in [Bookings -> Row]
      /\ reminder \in [Bookings -> Int \cup {None}]
      /\ mails \in [Bookings -> Seq(Mail)]
  BY Typed
<1>2. Scheduled(start) \in Row /\ Arm(start) \in Int
  BY <1>1, ScheduledType
<1>3. CASE WriteBook(b, start)
  BY <1>1, <1>2, <1>3, QueueType DEF WriteBook
<1>4. CASE WriteCancel(b)
  <2>1. [booking EXCEPT ![b].status = "cancelled"] \in [Bookings -> Row]
    BY <1>1 DEF Row
  <2>2. QED
    BY <1>1, <1>4, <2>1, QueueType DEF WriteCancel
<1>5. CASE WriteReschedule(b, start, prev)
  BY <1>1, <1>2, <1>5, QueueType DEF WriteReschedule
<1>6. QED
  BY <1>3, <1>4, <1>5

(***************************************************************************)
(* Where a transaction is, and the locks it has by then.                   *)
(***************************************************************************)

Shaped(t) ==
    /\ t.op = "none" <=> t.pc = "idle"
    /\ t.op # "none" => t.b \in Bookings
    /\ t.op = "book" => t.pc \in {"lockPage", "check", "write"}
    /\ t.op = "cancel" => t.pc \in {"lockBooking", "write"}
    /\ t.pc \in {"idle", "lockPage"} => t.holds = {}
    /\ "booking" \in t.holds <=> t.op \in {"cancel", "reschedule"} /\ t.pc \in {"check", "write"}
    /\ "page" \in t.holds <=> t.op \in {"book", "reschedule"} /\ t.pc # "lockPage"

Shapes == \A r \in Requests : Shaped(req[r])

LEMMA IdleShaped == Shaped(Idle)
BY DEF Shaped, Idle

\* A step of r that leaves its transaction typed and shaped, and no other's changed.
Proceeds(r) ==
    /\ req' = [req EXCEPT ![r] = req'[r]]
    /\ req'[r] \in Transaction
    /\ Shaped(req'[r])

LEMMA FinishProceeds ==
    ASSUME TypeOK, NEW r \in Requests, Finish(r)
    PROVE  Proceeds(r)
BY Typed, IdleType, IdleShaped DEF Finish, Proceeds

LEMMA BeginProceeds ==
    ASSUME TypeOK, NEW r \in Requests, NEW b \in Bookings, NEW start \in Starts,
           BeginBook(r, start) \/ BeginReschedule(r, b, start)
    PROVE  Proceeds(r)
<1>1. start \in Int
  BY BookingsAssumption
<1>2. CASE BeginBook(r, start)
  <2>1. PICK c \in Bookings :
           req' = [req EXCEPT ![r] = [Idle EXCEPT !.pc = "lockPage", !.op = "book",
                                                  !.b = c, !.start = start]]
    BY <1>2 DEF BeginBook
  <2>2. req'[r] = [pc |-> "lockPage", op |-> "book", b |-> c, start |-> start,
                   prev |-> None, holds |-> {}]
    BY <2>1, Typed DEF Idle
  <2>3. req'[r] \in Transaction /\ Shaped(req'[r])
    BY <1>1, <2>2 DEF Transaction, Shaped
  <2>4. req' = [req EXCEPT ![r] = req'[r]]
    BY <2>1, Typed
  <2>5. QED
    BY <2>3, <2>4 DEF Proceeds
<1>3. CASE BeginReschedule(r, b, start)
  BY <1>1, <1>3, Typed DEF BeginReschedule, Proceeds, Idle, Transaction, Shaped
<1>4. QED
  BY <1>2, <1>3

LEMMA CancelProceeds ==
    ASSUME TypeOK, NEW r \in Requests, NEW b \in Bookings, BeginCancel(r, b)
    PROVE  Proceeds(r)
BY Typed DEF BeginCancel, Proceeds, Idle, Transaction, Shaped

LEMMA LockProceeds ==
    ASSUME TypeOK, Shapes, NEW r \in Requests, LockPage(r) \/ LockBooking(r)
    PROVE  Proceeds(r)
<1>1. req[r] \in Transaction /\ Shaped(req[r]) /\ req \in [Requests -> Transaction]
  BY Typed DEF Shapes
<1>2. CASE Finish(r)
  BY <1>2, FinishProceeds
<1>3. CASE LockPage(r) /\ ~Finish(r)
  BY <1>1, <1>3 DEF LockPage, Proceeds, Transaction, Shaped
<1>4. CASE LockBooking(r) /\ ~Finish(r)
  <2>1. booking[req[r].b].start \in Int
    BY <1>1, <1>4, Typed DEF LockBooking, Shaped, Row
  <2>2. QED
    BY <1>1, <1>4, <2>1 DEF LockBooking, Proceeds, Transaction, Shaped
<1>5. QED
  BY <1>2, <1>3, <1>4

LEMMA CheckProceeds ==
    ASSUME TypeOK, Shapes, NEW r \in Requests, Check(r)
    PROVE  Proceeds(r)
<1>1. req[r] \in Transaction /\ Shaped(req[r]) /\ req \in [Requests -> Transaction]
  BY Typed DEF Shapes
<1>2. CASE Finish(r)
  BY <1>2, FinishProceeds
<1>3. CASE req' = [req EXCEPT ![r].pc = "write"]
  BY <1>1, <1>3 DEF Check, Proceeds, Transaction, Shaped
<1>4. QED
  BY <1>2, <1>3 DEF Check

\* The writes of a transaction that commits, and the end it comes to.
LEMMA CommitEffect ==
    ASSUME TypeOK, Shapes, NEW r \in Requests,
           CommitBook(r) \/ CommitCancel(r) \/ CommitReschedule(r)
    PROVE  /\ Proceeds(r) /\ Finish(r)
           /\ booking' \in [Bookings -> Row]
           /\ reminder' \in [Bookings -> Int \cup {None}]
           /\ mails' \in [Bookings -> Seq(Mail)]
           /\ UNCHANGED <<page, now>>
<1>1. Finish(r) /\ UNCHANGED <<page, now>> /\ req[r].pc = "write"
  BY DEF CommitBook, CommitCancel, CommitReschedule
<1>2. req[r] \in Transaction /\ Shaped(req[r])
  BY Typed DEF Shapes
<1>3. req[r].b \in Bookings /\ req[r].start \in Int /\ req[r].prev \in Int \cup {None}
  BY <1>1, <1>2 DEF Transaction, Shaped
<1>4. \/ WriteBook(req[r].b, req[r].start)
      \/ WriteCancel(req[r].b)
      \/ WriteReschedule(req[r].b, req[r].start, req[r].prev)
  BY DEF CommitBook, CommitCancel, CommitReschedule
<1>5. /\ booking' \in [Bookings -> Row]
      /\ reminder' \in [Bookings -> Int \cup {None}]
      /\ mails' \in [Bookings -> Seq(Mail)]
  BY <1>3, <1>4, WriteType
<1>6. QED
  BY <1>1, <1>5, FinishProceeds

LEMMA ProceedsKeepsShapes ==
    ASSUME TypeOK, Shapes, NEW r \in Requests, Proceeds(r)
    PROVE  req' \in [Requests -> Transaction] /\ Shapes'
<1>1. req \in [Requests -> Transaction]
  BY Typed
<1>2. req' \in [Requests -> Transaction]
  BY <1>1 DEF Proceeds
<1>3. \A q \in Requests : Shaped(req'[q])
  BY <1>1 DEF Proceeds, Shapes
<1>4. QED
  BY <1>2, <1>3 DEF Shapes

PageStep == UpdatePage \/ DeletePage \/ SetSuspended

LEMMA PageType ==
    ASSUME TypeOK, PageStep
    PROVE  page' \in Page
<1>1. page \in Page
  BY Typed
<1>2. CASE UpdatePage
  BY <1>1, <1>2 DEF UpdatePage, Page
<1>3. CASE DeletePage
  BY <1>1, <1>3 DEF DeletePage, Page
<1>4. CASE SetSuspended
  BY <1>1, <1>4 DEF SetSuspended, Page
<1>5. QED
  BY <1>2, <1>3, <1>4 DEF PageStep

LEMMA InitTyped == Init => TypeOK /\ Shapes
<1> SUFFICES ASSUME Init PROVE TypeOK /\ Shapes
  OBVIOUS
<1>1. page \in Page
  BY DEF Init, NewPages, Page, Statuses
<1>2. booking \in [Bookings -> Row]
  BY DEF Init, Unmade, Row
<1>3. mails \in [Bookings -> Seq(Mail)]
  BY DEF Init
<1>4. req \in [Requests -> Transaction] /\ Shapes
  BY IdleType, IdleShaped DEF Init, Shapes
<1>5. now \in 0 .. MaxNow /\ reminder \in [Bookings -> Int \cup {None}]
  BY BookingsAssumption DEF Init
<1>6. QED
  BY <1>1, <1>2, <1>3, <1>4, <1>5, Typed

\* Rows, mails and transactions are well typed, whatever requests cross.
THEOREM BookingsTypeCorrect == Spec => [](TypeOK /\ Shapes)
<1>1. Init => TypeOK /\ Shapes
  BY InitTyped
<1>2. TypeOK /\ Shapes /\ [Next]_vars => TypeOK' /\ Shapes'
  <2> SUFFICES ASSUME TypeOK, Shapes, [Next]_vars PROVE TypeOK' /\ Shapes'
    OBVIOUS
  <2> USE DEF Shapes
  <2>1. ASSUME NEW r \in Requests, Proceeds(r), UNCHANGED <<page, booking, reminder, mails, now>>
        PROVE  TypeOK' /\ Shapes'
    BY <2>1, ProceedsKeepsShapes DEF TypeOK, Transaction
  <2>2. ASSUME NEW r \in Requests, NEW start \in Starts, BeginBook(r, start)
        PROVE  TypeOK' /\ Shapes'
    <3>1. PICK b \in Bookings : TRUE
      BY <2>2 DEF BeginBook
    <3>2. QED
      BY <2>1, <2>2, <3>1, BeginProceeds DEF BeginBook
  <2>3. ASSUME NEW r \in Requests, NEW b \in Bookings, BeginCancel(r, b)
        PROVE  TypeOK' /\ Shapes'
    BY <2>1, <2>3, CancelProceeds DEF BeginCancel
  <2>4. ASSUME NEW r \in Requests, NEW b \in Bookings, NEW start \in Starts,
               BeginReschedule(r, b, start)
        PROVE  TypeOK' /\ Shapes'
    BY <2>1, <2>4, BeginProceeds DEF BeginReschedule
  <2>5. ASSUME NEW r \in Requests, LockPage(r) \/ LockBooking(r) \/ Check(r) \/ Abort(r)
        PROVE  TypeOK' /\ Shapes'
    <3>1. Proceeds(r)
      BY <2>5, LockProceeds, CheckProceeds, FinishProceeds DEF Abort
    <3>2. UNCHANGED <<page, booking, reminder, mails, now>>
      BY <2>5 DEF LockPage, LockBooking, Check, Abort
    <3>3. QED
      BY <2>1, <3>1, <3>2
  <2>6. ASSUME NEW r \in Requests, CommitBook(r) \/ CommitCancel(r) \/ CommitReschedule(r)
        PROVE  TypeOK' /\ Shapes'
    <3>1. /\ Proceeds(r)
          /\ booking' \in [Bookings -> Row]
          /\ reminder' \in [Bookings -> Int \cup {None}]
          /\ mails' \in [Bookings -> Seq(Mail)]
          /\ UNCHANGED <<page, now>>
      BY <2>6, CommitEffect
    <3>2. QED
      BY <3>1, ProceedsKeepsShapes, Typed DEF TypeOK, Row, Mail, Transaction
  <2>7. CASE PageStep
    <3>1. page' \in Page
      BY <2>7, PageType
    <3>2. UNCHANGED <<booking, reminder, mails, now, req>>
      BY <2>7 DEF PageStep, UpdatePage, DeletePage, SetSuspended
    <3>3. QED
      BY <3>1, <3>2 DEF TypeOK, Page
  <2>8. CASE Tick
    <3>1. now' \in 0 .. MaxNow
      BY <2>8, BookingsAssumption DEF Tick, TypeOK
    <3>2. QED
      BY <2>8, <3>1, Typed DEF Tick, TypeOK
  <2>9. CASE UNCHANGED vars
    BY <2>9 DEF vars, TypeOK
  <2>10. QED
    BY <2>2, <2>3, <2>4, <2>5, <2>6, <2>7, <2>8, <2>9 DEF Next, Step, PageStep
<1>3. QED
  BY <1>1, <1>2, PTL DEF Spec

(***************************************************************************)
(* Locks                                                                   *)
(***************************************************************************)

\* Of requests that wait for a lock, one that waits for a booking's row waits for
\* none of the others, as whoever has that row waits for nothing; and if they all
\* wait for the page's row, none of them has any.
LEMMA ShapesNoDeadlock == Shapes => NoDeadlock
<1> SUFFICES ASSUME Shapes, NEW S \in (SUBSET Requests) \ {{}}
             PROVE  \E r \in S : \A q \in S : ~WaitsFor(r, q)
  BY DEF NoDeadlock
<1>1. \A q \in S : Shaped(req[q])
  BY DEF Shapes
<1>2. CASE \E r \in S : req[r].pc \notin {"lockPage", "lockBooking"}
  BY <1>2 DEF WaitsFor
<1>3. CASE /\ \A q \in S : req[q].pc \in {"lockPage", "lockBooking"}
           /\ \E r \in S : req[r].pc = "lockBooking"
  <2>1. \A q \in S : "booking" \notin req[q].holds
    BY <1>1, <1>3 DEF Shaped
  <2>2. QED
    BY <1>3, <2>1 DEF WaitsFor, HoldsBooking
<1>4. CASE \A q \in S : req[q].pc = "lockPage"
  <2>1. \A q \in S : req[q].holds = {}
    BY <1>1, <1>4 DEF Shaped
  <2>2. \E r \in S : TRUE
    OBVIOUS
  <2>3. QED
    BY <1>4, <2>1, <2>2 DEF WaitsFor, HoldsPage
<1>5. QED
  BY <1>2, <1>3, <1>4

\* The code never deadlocks on its two kinds of rows, whatever crosses.
THEOREM BookingsNeverDeadlock == Spec => []NoDeadlock
BY BookingsTypeCorrect, ShapesNoDeadlock, PTL

\* One holder of the page's row and one of a booking's; while the page's is held
\* the page stays open.
Locks ==
    /\ \A r, q \in Requests : HoldsPage(r) /\ HoldsPage(q) => r = q
    /\ \A r, q \in Requests :
          "booking" \in req[r].holds /\ HoldsBooking(q, req[r].b) => r = q
    /\ \A r \in Requests : HoldsPage(r) => Visible /\ page.status = "active"

\* What a step of r does to the locks.
Unlocked(r) == req'[r].holds = {}
Same(r)     == req'[r].holds = req[r].holds /\ req'[r].b = req[r].b
TakesPage(r) ==
    /\ PageFree(r) /\ Visible /\ page.status # "paused"
    /\ req'[r].holds = req[r].holds \cup {"page"} /\ req'[r].b = req[r].b
TakesBooking(r) ==
    /\ BookingFree(r, req[r].b) /\ booking[req[r].b].status # "cancelled"
    /\ req'[r].holds = req[r].holds \cup {"booking"} /\ req'[r].b = req[r].b

LEMMA StepLocks ==
    ASSUME TypeOK, NEW r \in Requests,
           LockPage(r) \/ LockBooking(r) \/ Check(r) \/ Finish(r)
    PROVE  Unlocked(r) \/ Same(r) \/ TakesPage(r) \/ TakesBooking(r)
<1>1. req \in [Requests -> Transaction]
  BY Typed
<1>2. CASE Finish(r)
  BY <1>1, <1>2 DEF Finish, Unlocked, Idle
<1>3. CASE LockPage(r) /\ ~Finish(r)
  <2>1. req[r] \in Transaction
    BY <1>1
  <2>2. req' = [req EXCEPT ![r].pc = IF req[r].op = "book" THEN "check" ELSE "lockBooking",
                           ![r].holds = @ \cup {"page"}]
    BY <1>3 DEF LockPage
  <2>3. req'[r].holds = req[r].holds \cup {"page"} /\ req'[r].b = req[r].b
    BY <1>1, <2>1, <2>2 DEF Transaction
  <2>4. QED
    BY <1>3, <2>3 DEF LockPage, TakesPage
<1>4. CASE LockBooking(r) /\ ~Finish(r)
  <2>1. req[r] \in Transaction
    BY <1>1
  <2>2. req' = [req EXCEPT ![r].pc = IF req[r].op = "cancel" THEN "write" ELSE "check",
                           ![r].prev = booking[req[r].b].start,
                           ![r].holds = @ \cup {"booking"}]
    BY <1>4 DEF LockBooking
  <2>3. req'[r].holds = req[r].holds \cup {"booking"} /\ req'[r].b = req[r].b
    BY <1>1, <2>1, <2>2 DEF Transaction
  <2>4. QED
    BY <1>4, <2>3 DEF LockBooking, TakesBooking
<1>5. CASE Check(r) /\ ~Finish(r)
  BY <1>1, <1>5 DEF Check, Same, Transaction
<1>6. QED
  BY <1>2, <1>3, <1>4, <1>5

LEMMA LocksKept ==
    ASSUME TypeOK, Locks, NEW r \in Requests, req' = [req EXCEPT ![r] = req'[r]],
           Unlocked(r) \/ Same(r) \/ TakesPage(r) \/ TakesBooking(r),
           UNCHANGED page
    PROVE  Locks'
<1>1. \A q \in Requests \ {r} : req'[q] = req[q]
  BY Typed
<1>2. page \in Page
  BY Typed
<1> USE DEF HoldsPage, HoldsBooking
<1>3. ASSUME NEW p \in Requests, NEW q \in Requests, HoldsPage(p)', HoldsPage(q)'
      PROVE  p = q
  BY <1>1, <1>3 DEF Locks, Unlocked, Same, TakesPage, TakesBooking, PageFree
<1>4. ASSUME NEW p \in Requests, NEW q \in Requests,
             "booking" \in req'[p].holds, "booking" \in req'[q].holds, req'[q].b = req'[p].b
      PROVE  p = q
  <2>1. CASE TakesBooking(r)
    BY <1>1, <1>4, <2>1 DEF Locks, TakesBooking, BookingFree
  <2>2. CASE ~TakesBooking(r)
    BY <1>1, <1>4, <2>2 DEF Locks, Unlocked, Same, TakesPage
  <2>3. QED
    BY <2>1, <2>2
<1>5. ASSUME NEW p \in Requests, HoldsPage(p)'
      PROVE  Visible' /\ page'.status = "active"
  BY <1>1, <1>2, <1>5 DEF Locks, Unlocked, Same, TakesPage, TakesBooking, Visible, Page, Statuses
<1>6. QED
  BY <1>3, <1>4, <1>5 DEF Locks

\* The start of a request leaves it without a lock.
LEMMA BeginUnlocked ==
    ASSUME TypeOK, NEW r \in Requests,
           \/ \E start \in Starts : BeginBook(r, start)
           \/ \E b \in Bookings : BeginCancel(r, b)
           \/ \E b \in Bookings, start \in Starts : BeginReschedule(r, b, start)
    PROVE  /\ req' = [req EXCEPT ![r] = req'[r]] /\ Unlocked(r)
           /\ UNCHANGED <<page, booking, reminder, mails, now>>
<1>1. req \in [Requests -> Transaction]
  BY Typed
<1>2. \E t : t.holds = {} /\ req' = [req EXCEPT ![r] = t]
  <2>1. ASSUME NEW start \in Starts, BeginBook(r, start)
        PROVE  \E t : t.holds = {} /\ req' = [req EXCEPT ![r] = t]
    BY <2>1 DEF BeginBook, Idle
  <2>2. ASSUME NEW b \in Bookings, BeginCancel(r, b)
        PROVE  \E t : t.holds = {} /\ req' = [req EXCEPT ![r] = t]
    BY <2>2 DEF BeginCancel, Idle
  <2>3. ASSUME NEW b \in Bookings, NEW start \in Starts, BeginReschedule(r, b, start)
        PROVE  \E t : t.holds = {} /\ req' = [req EXCEPT ![r] = t]
    BY <2>3 DEF BeginReschedule, Idle
  <2>4. QED
    BY <2>1, <2>2, <2>3
<1>3. PICK t : t.holds = {} /\ req' = [req EXCEPT ![r] = t]
  BY <1>2
<1>4. req' = [req EXCEPT ![r] = req'[r]] /\ Unlocked(r)
  BY <1>1, <1>3 DEF Unlocked
<1>5. QED
  BY <1>4 DEF BeginBook, BeginCancel, BeginReschedule

\* The steps of a transaction, by what each does to the locks.
LEMMA RequestLocks ==
    ASSUME TypeOK, Shapes, Locks, NEW r \in Requests,
           Step(r) \/ Abort(r)
    PROVE  Locks'
<1>1. req \in [Requests -> Transaction]
  BY Typed
<1>2. CASE CommitBook(r) \/ CommitCancel(r) \/ CommitReschedule(r) \/ Abort(r)
  <2>1. Finish(r) /\ UNCHANGED page
    BY <1>2 DEF CommitBook, CommitCancel, CommitReschedule, Abort
  <2>2. Unlocked(r) /\ req' = [req EXCEPT ![r] = req'[r]]
    BY <1>1, <2>1 DEF Finish, Unlocked, Idle
  <2>3. QED
    BY <2>1, <2>2, LocksKept
<1>3. CASE LockPage(r) \/ LockBooking(r) \/ Check(r)
  <2>1. UNCHANGED page
    BY <1>3 DEF LockPage, LockBooking, Check
  <2>2. Proceeds(r)
    BY <1>3, LockProceeds, CheckProceeds
  <2>3. QED
    BY <1>3, <2>1, <2>2, StepLocks, LocksKept DEF Proceeds
<1>4. QED
  BY <1>2, <1>3 DEF Step

LEMMA LocksInvariant == Spec => []Locks
<1>1. Init => Locks
  BY DEF Init, Idle, Locks, HoldsPage, HoldsBooking
<1>2. TypeOK /\ Shapes /\ Locks /\ [Next]_vars => Locks'
  <2> SUFFICES ASSUME TypeOK, Shapes, Locks, [Next]_vars PROVE Locks'
    OBVIOUS
  <2>1. ASSUME NEW r \in Requests,
               \/ \E start \in Starts : BeginBook(r, start)
               \/ \E b \in Bookings : BeginCancel(r, b)
               \/ \E b \in Bookings, start \in Starts : BeginReschedule(r, b, start)
        PROVE  Locks'
    BY <2>1, BeginUnlocked, LocksKept
  <2>2. ASSUME NEW r \in Requests, Step(r) \/ Abort(r) PROVE Locks'
    BY <2>2, RequestLocks
  <2>3. CASE PageStep
    <3>1. (\A q \in Requests : ~HoldsPage(q)) /\ UNCHANGED req
      BY <2>3 DEF PageStep, UpdatePage, DeletePage, SetSuspended, PageUnlocked
    <3>2. QED
      BY <3>1 DEF Locks, HoldsPage, HoldsBooking
  <2>4. CASE Tick \/ UNCHANGED vars
    BY <2>4 DEF Tick, vars, Locks, HoldsPage, HoldsBooking, Visible
  <2>5. QED
    BY <2>1, <2>2, <2>3, <2>4 DEF Next, PageStep
<1>3. QED
  BY <1>1, <1>2, BookingsTypeCorrect, PTL DEF Spec

(***************************************************************************)
(* The page a booking is made under                                        *)
(***************************************************************************)

\* What a request writes at its commit.
Books(r) ==
    /\ req[r].pc = "write" /\ req[r].op \in {"book", "reschedule"}
    /\ booking' = [booking EXCEPT ![req[r].b] = Scheduled(req[r].start)]
Cancels(r) ==
    /\ req[r].pc = "write" /\ req[r].op = "cancel"
    /\ booking' = [booking EXCEPT ![req[r].b].status = "cancelled"]

\* A row of bookings changes by a commit and not otherwise.
LEMMA WhoWrites ==
    ASSUME [Next]_vars
    PROVE  \/ UNCHANGED booking
           \/ \E r \in Requests : (Books(r) \/ Cancels(r)) /\ Finish(r) /\ UNCHANGED <<page, now>>
<1>1. ASSUME NEW r \in Requests, Step(r)
      PROVE  \/ UNCHANGED booking
             \/ (Books(r) \/ Cancels(r)) /\ Finish(r) /\ UNCHANGED <<page, now>>
  <2>1. CASE LockPage(r) \/ LockBooking(r) \/ Check(r)
    BY <2>1 DEF LockPage, LockBooking, Check
  <2>2. CASE CommitBook(r)
    BY <2>2 DEF CommitBook, WriteBook, Books
  <2>3. CASE CommitCancel(r)
    BY <2>3 DEF CommitCancel, WriteCancel, Cancels
  <2>4. CASE CommitReschedule(r)
    BY <2>4 DEF CommitReschedule, WriteReschedule, Books
  <2>5. QED
    BY <1>1, <2>1, <2>2, <2>3, <2>4 DEF Step
<1>2. CASE Next
  BY <1>1, <1>2 DEF Next, BeginBook, BeginCancel, BeginReschedule, Abort,
                    UpdatePage, DeletePage, SetSuspended, Tick
<1>3. QED
  BY <1>2 DEF vars

\* Who commits a start holds the page's row, and its booking's row to move it.
LEMMA WriterHolds ==
    ASSUME Shapes, NEW r \in Requests, Books(r) \/ Cancels(r)
    PROVE  /\ req[r].b \in Bookings
           /\ Books(r) => HoldsPage(r)
           /\ req[r].op # "book" => "booking" \in req[r].holds
BY DEF Shapes, Shaped, Books, Cancels, HoldsPage

LEMMA ClosedPageStep ==
    ASSUME TypeOK, Shapes, Locks, [Next]_vars, NEW b \in Bookings,
           booking'[b] # booking[b], booking'[b].status = "confirmed"
    PROVE  /\ Visible /\ page.status = "active"
           /\ booking'[b].end - booking'[b].start = page.rules.duration
<1>1. booking \in [Bookings -> Row] /\ page \in Page /\ req \in [Requests -> Transaction]
  BY Typed
<1>2. PICK r \in Requests : Books(r) \/ Cancels(r)
  BY WhoWrites
<1>3. ~Cancels(r)
  BY <1>1 DEF Cancels, Row
<1>4. Books(r) /\ HoldsPage(r) /\ req[r].b \in Bookings
  BY <1>2, <1>3, WriterHolds
<1>5. booking'[b] = Scheduled(req[r].start)
  BY <1>1, <1>4 DEF Books
<1>6. req[r].start \in Int /\ page.rules.duration \in Nat
  BY <1>1, RulesType DEF Page, Transaction
<1>7. QED
  BY <1>4, <1>5, <1>6 DEF Locks, Scheduled

\* Book and Reschedule, bookings.go:291-302 and 521-530: no booking is made or
\* moved under a page that has been closed or given another slot length since.
THEOREM BookingsNeverClosed == Spec => NeverBooksClosedPage
<1>1. TypeOK /\ Shapes /\ Locks /\ [Next]_vars
      => [\A b \in Bookings :
             booking'[b] # booking[b] /\ booking'[b].status = "confirmed"
                => /\ Visible /\ page.status = "active"
                   /\ booking'[b].end - booking'[b].start = page.rules.duration]_vars
  BY ClosedPageStep
<1>2. QED
  BY <1>1, BookingsTypeCorrect, LocksInvariant, PTL DEF Spec, NeverBooksClosedPage

(***************************************************************************)
(* Bookings implements Calendar                                            *)
(***************************************************************************)

\* Nothing else that stands overlaps the start of r under the page's rules.
Clear(r) ==
    \A c \in Bookings \ {req[r].b} :
        Confirmed(c) => \/ booking[c].end <= req[r].start
                        \/ req[r].start + page.rules.duration <= booking[c].start

\* What a request has established by the place it has reached.
Grounds(r) ==
    /\ req[r].op = "book" => /\ booking[req[r].b] = Unmade
                             /\ \A q \in Requests \ {r} : req[q].b # req[r].b
    /\ req[r].op \in {"cancel", "reschedule"} => booking[req[r].b].status # "unmade"
    /\ "booking" \in req[r].holds => Confirmed(req[r].b)
    /\ req[r].op \in {"book", "reschedule"} => req[r].start \in Starts
    /\ req[r].pc = "write" /\ req[r].op # "cancel" => Clear(r)

Grounded ==
    /\ \A b \in Bookings : booking[b].status = "unmade" => booking[b] = Unmade
    /\ \A r \in Requests : Grounds(r)

\* The day that the check looks at on either side covers the slot and its buffers.
LEMMA FreeIsClear ==
    ASSUME TypeOK, NEW r \in Requests, NEW exclude \in {None, req[r].b},
           SlotIsFree(req[r].start, exclude)
    PROVE  Clear(r)
<1> DEFINE s == req[r].start
           rules == page.rules
           booked == BookedIntervals(s - DayLen, s + DayLen, exclude)
<1>1. booking \in [Bookings -> Row] /\ s \in Int /\ rules \in PageRules
  BY Typed DEF Transaction, Page
<1>2. /\ rules.duration \in Nat
      /\ rules.bufferBefore \in Nat /\ rules.bufferBefore <= DayLen
      /\ rules.bufferAfter \in Nat /\ rules.duration + rules.bufferAfter <= DayLen
      /\ DayLen \in Nat
  BY <1>1, RulesType
<1>3. IsOpen(rules, booked, now, s)
  BY DEF SlotIsFree, IsSlotAvailable, Slots
<1>4. \A i \in booked : ~Overlaps(s - rules.bufferBefore, s + rules.duration + rules.bufferAfter,
                                  i.start, i.end)
  BY <1>3 DEF IsOpen
<1> SUFFICES ASSUME NEW c \in Bookings \ {req[r].b}, Confirmed(c)
             PROVE  booking[c].end <= s \/ s + rules.duration <= booking[c].start
  BY DEF Clear
<1>5. booking[c].start \in Int /\ booking[c].end \in Int /\ c # exclude
  BY <1>1, BookingsAssumption DEF Row
<1>6. CASE booking[c].start < s + DayLen /\ booking[c].end > s - DayLen
  <2>1. [start |-> booking[c].start, end |-> booking[c].end] \in booked
    BY <1>5, <1>6 DEF BookedIntervals, ConfirmedInRange
  <2>2. ~Overlaps(s - rules.bufferBefore, s + rules.duration + rules.bufferAfter,
                  booking[c].start, booking[c].end)
    BY <1>4, <2>1
  <2>3. QED
    BY <1>1, <1>2, <1>5, <2>2 DEF Overlaps
<1>7. CASE ~(booking[c].start < s + DayLen /\ booking[c].end > s - DayLen)
  BY <1>1, <1>2, <1>5, <1>7
<1>8. QED
  BY <1>6, <1>7

\* A request that goes on keeps what it has established of its booking and start.
GoesOn(r) ==
    /\ req'[r].op = req[r].op /\ req'[r].b = req[r].b /\ req'[r].start = req[r].start
    /\ "booking" \in req'[r].holds \ req[r].holds => TakesBooking(r)
    /\ req'[r].pc = "write" /\ req'[r].op # "cancel" => Clear(r)

LEMMA StepGoesOn ==
    ASSUME TypeOK, Shapes, NEW r \in Requests, LockPage(r) \/ LockBooking(r) \/ Check(r)
    PROVE  Finish(r) \/ GoesOn(r)
<1>1. req \in [Requests -> Transaction] /\ req[r] \in Transaction /\ Shaped(req[r])
  BY Typed DEF Shapes
<1>2. CASE LockPage(r) /\ ~Finish(r)
  <2>1. req' = [req EXCEPT ![r].pc = IF req[r].op = "book" THEN "check" ELSE "lockBooking",
                           ![r].holds = @ \cup {"page"}]
    BY <1>2 DEF LockPage
  <2>2. /\ req'[r].op = req[r].op /\ req'[r].b = req[r].b /\ req'[r].start = req[r].start
        /\ req'[r].holds = req[r].holds \cup {"page"}
        /\ req'[r].pc # "write"
    BY <1>1, <2>1 DEF Transaction
  <2>3. QED
    BY <2>2 DEF GoesOn
<1>3. CASE LockBooking(r) /\ ~Finish(r)
  <2>1. req' = [req EXCEPT ![r].pc = IF req[r].op = "cancel" THEN "write" ELSE "check",
                           ![r].prev = booking[req[r].b].start,
                           ![r].holds = @ \cup {"booking"}]
    BY <1>3 DEF LockBooking
  <2>2. /\ req'[r].op = req[r].op /\ req'[r].b = req[r].b /\ req'[r].start = req[r].start
        /\ req'[r].holds = req[r].holds \cup {"booking"}
        /\ req'[r].pc = "write" => req[r].op = "cancel"
    BY <1>1, <2>1 DEF Transaction
  <2>3. BookingFree(r, req[r].b) /\ booking[req[r].b].status # "cancelled"
    BY <1>3 DEF LockBooking
  <2>4. QED
    BY <2>2, <2>3 DEF GoesOn, TakesBooking
<1>4. CASE Check(r) /\ ~Finish(r)
  <2>1. req' = [req EXCEPT ![r].pc = "write"]
    BY <1>4 DEF Check
  <2>2. /\ req'[r].op = req[r].op /\ req'[r].b = req[r].b /\ req'[r].start = req[r].start
        /\ req'[r].holds = req[r].holds
    BY <1>1, <2>1 DEF Transaction
  <2>3. SlotIsFree(req[r].start, IF req[r].op = "book" THEN None ELSE req[r].b)
    BY <1>4 DEF Check
  <2>4. Clear(r)
    BY <2>3, FreeIsClear
  <2>5. QED
    BY <2>2, <2>4 DEF GoesOn
<1>5. QED
  BY <1>2, <1>3, <1>4

\* A step of r that writes nothing.
LEMMA GroundedGoesOn ==
    ASSUME TypeOK, Shapes, Grounded, NEW r \in Requests, UNCHANGED <<page, booking>>,
           Proceeds(r), req'[r] = Idle \/ GoesOn(r)
    PROVE  Grounded'
<1>1. /\ booking \in [Bookings -> Row] /\ req \in [Requests -> Transaction]
      /\ \A q \in Requests : Shaped(req[q]) /\ Grounds(q)
  BY Typed DEF Shapes, Grounded
<1>2. \A q \in Requests \ {r} : req'[q] = req[q]
  BY <1>1 DEF Proceeds
<1>3. ASSUME NEW q \in Requests \ {r} PROVE Grounds(q)'
  <2>1. Clear(q) => Clear(q)'
    BY <1>2 DEF Clear, Confirmed
  <2>2. req'[r].b \in {None, req[r].b}
    BY DEF GoesOn, Idle
  <2>3. req[q].op = "book" => req[q].b # None
    BY <1>1, BookingsAssumption DEF Shaped
  <2>4. QED
    BY <1>1, <1>2, <2>1, <2>2, <2>3 DEF Grounds, Confirmed
<1>4. Grounds(r)'
  <2>1. CASE req'[r] = Idle
    BY <2>1 DEF Grounds, Idle
  <2>2. CASE GoesOn(r)
    <3>1. Clear(r) => Clear(r)'
      BY <2>2 DEF GoesOn, Clear, Confirmed
    <3>2. ASSUME TakesBooking(r), "booking" \in req'[r].holds, "booking" \notin req[r].holds
          PROVE  Confirmed(req[r].b)
      <4>1. req[r].op \in {"cancel", "reschedule"} /\ req[r].b \in Bookings
        BY <1>1, <2>2, <3>2 DEF GoesOn, Proceeds, Shaped
      <4>2. QED
        BY <1>1, <3>2, <4>1 DEF Grounds, TakesBooking, Confirmed, Row
    <3>3. QED
      BY <1>1, <1>2, <2>2, <3>1, <3>2 DEF GoesOn, Grounds, Confirmed
  <2>3. QED
    BY <2>1, <2>2
<1>5. QED
  BY <1>3, <1>4 DEF Grounded

\* The first step of r, into a transaction t.
Opens(r, t) ==
    /\ req' = [req EXCEPT ![r] = t]
    /\ t.b \in Bookings /\ t.pc # "write" /\ t.holds = {}
    /\ \/ /\ t.op = "book" /\ booking[t.b] = Unmade /\ t.start \in Starts
          /\ \A q \in Requests : req[q].b # t.b
       \/ t.op = "reschedule" /\ booking[t.b] # Unmade /\ t.start \in Starts
       \/ t.op = "cancel" /\ booking[t.b] # Unmade

LEMMA GroundedBegin ==
    ASSUME TypeOK, Shapes, Grounded, NEW r \in Requests,
           \/ \E start \in Starts : BeginBook(r, start)
           \/ \E b \in Bookings : BeginCancel(r, b)
           \/ \E b \in Bookings, start \in Starts : BeginReschedule(r, b, start)
    PROVE  Grounded'
<1>1. /\ booking \in [Bookings -> Row] /\ req \in [Requests -> Transaction]
      /\ \A q \in Requests : Shaped(req[q]) /\ Grounds(q)
      /\ \A b \in Bookings : booking[b].status = "unmade" => booking[b] = Unmade
  BY Typed DEF Shapes, Grounded
<1>2. UNCHANGED <<page, booking>>
  BY DEF BeginBook, BeginCancel, BeginReschedule
<1>3. \E t : Opens(r, t)
  <2>1. ASSUME NEW start \in Starts, BeginBook(r, start)
        PROVE  \E t : Opens(r, t)
    <3>1. PICK b \in Bookings :
             /\ booking[b] = Unmade /\ \A q \in Requests : req[q].b # b
             /\ req' = [req EXCEPT ![r] = [Idle EXCEPT !.pc = "lockPage", !.op = "book",
                                                      !.b = b, !.start = start]]
      BY <2>1 DEF BeginBook
    <3>2. Opens(r, [Idle EXCEPT !.pc = "lockPage", !.op = "book", !.b = b, !.start = start])
      BY <3>1 DEF Opens, Idle
    <3>3. QED
      BY <3>2
  <2>2. ASSUME NEW b \in Bookings, BeginCancel(r, b)
        PROVE  \E t : Opens(r, t)
    <3>1. Opens(r, [Idle EXCEPT !.pc = "lockBooking", !.op = "cancel", !.b = b])
      BY <2>2 DEF BeginCancel, Opens, Idle
    <3>2. QED
      BY <3>1
  <2>3. ASSUME NEW b \in Bookings, NEW start \in Starts, BeginReschedule(r, b, start)
        PROVE  \E t : Opens(r, t)
    <3>1. Opens(r, [Idle EXCEPT !.pc = "lockPage", !.op = "reschedule", !.b = b,
                                !.start = start])
      BY <2>3 DEF BeginReschedule, Opens, Idle
    <3>2. QED
      BY <3>1
  <2>4. QED
    BY <2>1, <2>2, <2>3
<1>4. PICK t : Opens(r, t)
  BY <1>3
<1>5. /\ req'[r] = t /\ \A q \in Requests \ {r} : req'[q] = req[q]
      /\ t.b \in Bookings /\ \A q \in Requests : req[q].op = "book" => req[q].b # t.b
  <2>1. req'[r] = t /\ \A q \in Requests \ {r} : req'[q] = req[q]
    BY <1>1, <1>4 DEF Opens
  <2>2. QED
    BY <1>1, <1>4, <2>1 DEF Opens, Grounds
<1>6. ASSUME NEW q \in Requests \ {r} PROVE Grounds(q)'
  <2>1. Clear(q) => Clear(q)'
    BY <1>2, <1>5 DEF Clear, Confirmed
  <2>2. QED
    BY <1>1, <1>2, <1>5, <2>1 DEF Grounds, Confirmed
<1>7. Grounds(r)'
  BY <1>1, <1>2, <1>4, <1>5 DEF Grounds, Opens
<1>8. QED
  BY <1>1, <1>2, <1>6, <1>7 DEF Grounded

\* A commit: the other requests' bookings are not the one it writes, unless they
\* are still to lock it.
LEMMA GroundedCommit ==
    ASSUME TypeOK, Shapes, Locks, Grounded, NEW r \in Requests,
           Books(r) \/ Cancels(r), Finish(r), UNCHANGED page
    PROVE  Grounded'
<1> DEFINE b == req[r].b
<1>1. /\ booking \in [Bookings -> Row] /\ req \in [Requests -> Transaction]
      /\ \A q \in Requests : Shaped(req[q]) /\ Grounds(q)
      /\ \A c \in Bookings : booking[c].status = "unmade" => booking[c] = Unmade
  BY Typed DEF Shapes, Grounded
<1>2. req'[r] = Idle /\ \A q \in Requests \ {r} : req'[q] = req[q]
  BY <1>1 DEF Finish
<1>3. b \in Bookings /\ (Books(r) => HoldsPage(r)) /\ (req[r].op # "book" => "booking" \in req[r].holds)
  BY WriterHolds
<1>4. /\ \A c \in Bookings \ {b} : booking'[c] = booking[c]
      /\ booking'[b].status \in {"confirmed", "cancelled"}
      /\ Cancels(r) => booking'[b].status = "cancelled"
  BY <1>1, <1>3 DEF Books, Cancels, Scheduled, Row
<1>5. ASSUME NEW q \in Requests \ {r} PROVE Grounds(q)'
  <2>1. req[q].op = "book" => req[q].b # b
    BY <1>1 DEF Grounds
  <2>2. "booking" \in req[q].holds => req[q].b # b
    <3> SUFFICES ASSUME "booking" \in req[q].holds, req[q].b = b PROVE FALSE
      OBVIOUS
    <3>1. CASE req[r].op = "book"
      BY <1>1, <3>1 DEF Grounds
    <3>2. CASE req[r].op # "book"
      BY <1>3, <3>2 DEF Locks, HoldsBooking
    <3>3. QED
      BY <3>1, <3>2
  <2>3. ASSUME req[q].pc = "write", req[q].op # "cancel" PROVE Clear(q)'
    <3>1. Clear(q) /\ HoldsPage(q)
      BY <1>1, <2>3 DEF Grounds, Shaped, HoldsPage, Transaction
    <3>2. Cancels(r)
      BY <1>3, <3>1 DEF Locks
    <3>3. QED
      BY <1>2, <1>4, <3>1, <3>2 DEF Clear, Confirmed
  <2>4. req[q].op # "none" => req[q].b \in Bookings
    BY <1>1 DEF Shaped
  <2>5. "booking" \in req[q].holds => req[q].op # "none"
    BY <1>1 DEF Shaped
  <2>6. \A p \in Requests : req'[p].b \in {None, req[p].b}
    BY <1>2 DEF Idle
  <2>7. None \notin Bookings
    BY BookingsAssumption
  <2>8. QED
    BY <1>1, <1>2, <1>4, <2>1, <2>2, <2>3, <2>4, <2>5, <2>6, <2>7 DEF Grounds, Confirmed
<1>6. Grounds(r)'
  BY <1>2 DEF Grounds, Idle
<1>7. QED
  BY <1>1, <1>4, <1>5, <1>6 DEF Grounded

LEMMA GroundedInvariant == Spec => []Grounded
<1>1. Init => Grounded
  BY DEF Init, Idle, Grounded, Grounds
<1>2. TypeOK /\ Shapes /\ Locks /\ Grounded /\ [Next]_vars => Grounded'
  <2> SUFFICES ASSUME TypeOK, Shapes, Locks, Grounded, [Next]_vars PROVE Grounded'
    OBVIOUS
  <2>1. ASSUME NEW r \in Requests,
               \/ \E start \in Starts : BeginBook(r, start)
               \/ \E b \in Bookings : BeginCancel(r, b)
               \/ \E b \in Bookings, start \in Starts : BeginReschedule(r, b, start)
        PROVE  Grounded'
    BY <2>1, GroundedBegin
  <2>2. ASSUME NEW r \in Requests, LockPage(r) \/ LockBooking(r) \/ Check(r) \/ Abort(r)
        PROVE  Grounded'
    <3>1. UNCHANGED <<page, booking>> /\ Proceeds(r)
      BY <2>2, LockProceeds, CheckProceeds, FinishProceeds DEF LockPage, LockBooking, Check, Abort
    <3>2. Finish(r) \/ GoesOn(r)
      BY <2>2, StepGoesOn DEF Abort
    <3>3. Finish(r) => req'[r] = Idle
      BY Typed DEF Finish
    <3>4. QED
      BY <3>1, <3>2, <3>3, GroundedGoesOn
  <2>3. ASSUME NEW r \in Requests, CommitBook(r) \/ CommitCancel(r) \/ CommitReschedule(r)
        PROVE  Grounded'
    <3>1. (Books(r) \/ Cancels(r)) /\ Finish(r) /\ UNCHANGED page
      BY <2>3 DEF CommitBook, CommitCancel, CommitReschedule, WriteBook, WriteCancel,
                  WriteReschedule, Books, Cancels
    <3>2. QED
      BY <3>1, GroundedCommit
  <2>4. CASE PageStep
    <3>1. (\A q \in Requests : ~HoldsPage(q)) /\ UNCHANGED <<booking, req>>
      BY <2>4 DEF PageStep, UpdatePage, DeletePage, SetSuspended, PageUnlocked
    <3>2. \A q \in Requests : req[q].pc = "write" => req[q].op = "cancel"
      BY <3>1, Typed DEF Shapes, Shaped, HoldsPage, Transaction
    <3>3. QED
      BY <3>1, <3>2 DEF Grounded, Grounds, Confirmed
  <2>5. CASE Tick \/ UNCHANGED vars
    BY <2>5 DEF Tick, vars, Grounded, Grounds, Confirmed, Clear
  <2>6. QED
    BY <2>1, <2>2, <2>3, <2>4, <2>5 DEF Next, Step, PageStep
<1>3. QED
  BY <1>1, <1>2, BookingsTypeCorrect, LocksInvariant, PTL DEF Spec

\* Each step of Bookings is one of Calendar, or leaves the bookings as they are.
LEMMA CalendarStep ==
    ASSUME TypeOK, Shapes, Grounded, [Next]_vars
    PROVE  [Cal!Next]_booking
<1> SUFFICES ASSUME ~UNCHANGED booking PROVE \E b \in Bookings : Cal!Make(b) \/ Cal!Move(b) \/ Cal!Cancel(b)
  BY DEF Cal!Next
<1>1. PICK r \in Requests : Books(r) \/ Cancels(r)
  BY WhoWrites
<1> DEFINE b == req[r].b
           s == req[r].start
           e == s + page.rules.duration
<1>2. b \in Bookings /\ (req[r].op # "book" => "booking" \in req[r].holds)
  BY <1>1, WriterHolds
<1>3. Grounds(r) /\ page \in Page /\ req[r] \in Transaction
  BY Typed DEF Grounded
<1>4. CASE Cancels(r)
  <2>1. Confirmed(b)
    BY <1>2, <1>3, <1>4 DEF Cancels, Grounds
  <2>2. Cal!Cancel(b)
    BY <1>4, <2>1 DEF Cancels, Cal!Cancel, Confirmed
  <2>3. QED
    BY <1>2, <2>2
<1>5. CASE Books(r)
  <2>1. s \in Starts /\ Clear(r) /\ booking' = [booking EXCEPT ![b] = Scheduled(s)]
    BY <1>3, <1>5 DEF Books, Grounds
  <2>2. /\ s \in Int /\ page.rules \in PageRules
        /\ page.rules.duration \in Nat /\ page.rules.duration > 0
    BY <1>3, RulesType DEF Page, Transaction
  <2>3. s \in Instants /\ e \in Instants /\ s < e
    BY <2>1, <2>2 DEF Instants
  <2>4. Cal!Free(b, s, e)
    BY <2>1 DEF Clear, Cal!Free, Confirmed
  <2>5. Scheduled(s) = Cal!At(s, e)
    BY DEF Scheduled, Cal!At
  <2>6. Cal!Place(b, s, e)
    BY <2>1, <2>3, <2>4, <2>5 DEF Cal!Place
  <2>7. \E u, v \in Instants : Cal!Place(b, u, v)
    BY <2>3, <2>6
  <2>8. CASE req[r].op = "book"
    <3>1. booking[b] = Unmade
      BY <1>3, <2>8 DEF Grounds
    <3>2. Cal!Make(b)
      BY <2>7, <3>1 DEF Cal!Make, Cal!Unmade, Unmade, Instants
    <3>3. QED
      BY <1>2, <3>2
  <2>9. CASE req[r].op # "book"
    <3>1. Confirmed(b)
      BY <1>2, <1>3, <2>9 DEF Grounds
    <3>2. Cal!Move(b)
      BY <2>7, <3>1 DEF Cal!Move, Confirmed, Instants
    <3>3. QED
      BY <1>2, <3>2
  <2>10. QED
    BY <2>8, <2>9
<1>6. QED
  BY <1>1, <1>4, <1>5

\* The contract at the head of bookings.go: bookings that stand never overlap,
\* and a cancelled one is never brought back, whatever requests cross.
THEOREM BookingsKeepCalendar == Spec => KeepsCalendar
<1>1. Init => Cal!Init
  BY DEF Init, Cal!Init, Unmade, Cal!Unmade
<1>2. TypeOK /\ Shapes /\ Grounded /\ [Next]_vars => [Cal!Next]_booking
  BY CalendarStep
<1>3. QED
  BY <1>1, <1>2, BookingsTypeCorrect, GroundedInvariant, PTL DEF Spec, KeepsCalendar, Cal!Spec

(***************************************************************************)
(* Reminders                                                               *)
(***************************************************************************)

\* A step that commits nothing leaves the tables as they are.
LEMMA OnlyCommitsWrite ==
    ASSUME [Next]_vars,
           ~\E r \in Requests : CommitBook(r) \/ CommitCancel(r) \/ CommitReschedule(r)
    PROVE  UNCHANGED <<booking, reminder, mails>>
<1>1. ASSUME NEW r \in Requests,
             \/ \E start \in Starts : BeginBook(r, start)
             \/ \E b \in Bookings : BeginCancel(r, b)
             \/ \E b \in Bookings, start \in Starts : BeginReschedule(r, b, start)
      PROVE  UNCHANGED <<booking, reminder, mails>>
  <2>1. ASSUME NEW start \in Starts, BeginBook(r, start) PROVE UNCHANGED <<booking, reminder, mails>>
    BY <2>1 DEF BeginBook
  <2>2. ASSUME NEW b \in Bookings, BeginCancel(r, b) PROVE UNCHANGED <<booking, reminder, mails>>
    BY <2>2 DEF BeginCancel
  <2>3. ASSUME NEW b \in Bookings, NEW start \in Starts, BeginReschedule(r, b, start)
        PROVE  UNCHANGED <<booking, reminder, mails>>
    BY <2>3 DEF BeginReschedule
  <2>4. QED
    BY <1>1, <2>1, <2>2, <2>3
<1>2. ASSUME NEW r \in Requests, LockPage(r) \/ LockBooking(r) \/ Check(r) \/ Abort(r)
      PROVE  UNCHANGED <<booking, reminder, mails>>
  BY <1>2 DEF LockPage, LockBooking, Check, Abort
<1>3. CASE UpdatePage
  BY <1>3 DEF UpdatePage
<1>4. CASE DeletePage \/ SetSuspended \/ Tick
  BY <1>4 DEF DeletePage, SetSuspended, Tick
<1>5. CASE UNCHANGED vars
  BY <1>5 DEF vars
<1>6. QED
  BY <1>1, <1>2, <1>3, <1>4, <1>5 DEF Next, Step

LEMMA CommitReminds ==
    ASSUME TypeOK, Shapes, Grounded, ReminderFollows, NEW r \in Requests,
           CommitBook(r) \/ CommitCancel(r) \/ CommitReschedule(r)
    PROVE  ReminderFollows'
<1> DEFINE b == req[r].b
           s == req[r].start
<1>1. /\ booking \in [Bookings -> Row] /\ reminder \in [Bookings -> Int \cup {None}]
      /\ Shaped(req[r]) /\ Grounds(r)
  BY Typed DEF Shapes, Grounded
<1>2. b \in Bookings
  BY <1>1 DEF CommitBook, CommitCancel, CommitReschedule, Shaped
<1>3. CASE CommitBook(r)
  <2>1. reminder[b] = None
    BY <1>1, <1>2, <1>3 DEF CommitBook, Grounds, Unmade, ReminderFollows, Confirmed
  <2>2. /\ booking' = [booking EXCEPT ![b] = Scheduled(s)]
        /\ reminder' = IF page.reminders THEN [reminder EXCEPT ![b] = Arm(s)] ELSE reminder
    BY <1>3 DEF CommitBook, WriteBook
  <2>3. booking'[b].status = "confirmed" /\ booking'[b].start = s
        /\ reminder'[b] \in {None, Arm(s)}
    BY <1>1, <1>2, <2>1, <2>2 DEF Scheduled
  <2>4. \A c \in Bookings \ {b} : booking'[c] = booking[c] /\ reminder'[c] = reminder[c]
    BY <1>1, <2>2
  <2>5. QED
    BY <2>3, <2>4 DEF ReminderFollows, Confirmed, Arm
<1>4. CASE CommitCancel(r)
  BY <1>1, <1>2, <1>4 DEF CommitCancel, WriteCancel, ReminderFollows, Confirmed, Arm
<1>5. CASE CommitReschedule(r)
  <2>1. /\ booking' = [booking EXCEPT ![b] = Scheduled(s)]
        /\ reminder' = [reminder EXCEPT ![b] = IF page.reminders THEN Arm(s) ELSE None]
    BY <1>5 DEF CommitReschedule, WriteReschedule
  <2>2. booking'[b].status = "confirmed" /\ booking'[b].start = s
        /\ reminder'[b] \in {None, Arm(s)}
    BY <1>1, <1>2, <2>1 DEF Scheduled
  <2>3. \A c \in Bookings \ {b} : booking'[c] = booking[c] /\ reminder'[c] = reminder[c]
    BY <1>1, <2>1
  <2>4. QED
    BY <2>2, <2>3 DEF ReminderFollows, Confirmed, Arm
<1>6. QED
  BY <1>3, <1>4, <1>5

\* emails.go:138-152: a reminder that is armed is that of a booking that stands,
\* for the start it has now.
THEOREM BookingsReminderFollows == Spec => []ReminderFollows
<1>1. Init => ReminderFollows
  BY DEF Init, ReminderFollows
<1>2. TypeOK /\ Shapes /\ Grounded /\ ReminderFollows /\ [Next]_vars => ReminderFollows'
  <2> SUFFICES ASSUME TypeOK, Shapes, Grounded, ReminderFollows, [Next]_vars
               PROVE  ReminderFollows'
    OBVIOUS
  <2>1. CASE \E r \in Requests : CommitBook(r) \/ CommitCancel(r) \/ CommitReschedule(r)
    BY <2>1, CommitReminds
  <2>2. CASE ~\E r \in Requests : CommitBook(r) \/ CommitCancel(r) \/ CommitReschedule(r)
    <3>1. UNCHANGED <<booking, reminder>>
      BY <2>2, OnlyCommitsWrite
    <3>2. QED
      BY <3>1 DEF ReminderFollows, Confirmed
  <2>3. QED
    BY <2>1, <2>2
<1>3. QED
  BY <1>1, <1>2, BookingsTypeCorrect, GroundedInvariant, PTL DEF Spec
(***************************************************************************)
(* Slots and dates                                                         *)
(***************************************************************************)

LEMMA Multiples ==
    ASSUME NEW p \in Int, NEW q \in Int, NEW d \in Nat, p <= q
    PROVE  p * d \in Int /\ q * d \in Int /\ p * d <= q * d
<1>1. (q - p) * d \in Nat
  <2>1. q - p \in Nat
    OBVIOUS
  <2>2. QED
    BY <2>1
<1>2. q * d = p * d + (q - p) * d
  OBVIOUS
<1>3. QED
  BY <1>1, <1>2

LEMMA NextMultiple ==
    ASSUME NEW k \in Nat, NEW d \in Nat
    PROVE  k * d \in Nat /\ (k + 1) * d = k * d + d
OBVIOUS

LEMMA Division ==
    ASSUME NEW x \in Int, NEW d \in Nat, d > 0
    PROVE  /\ x \div d \in Int
           /\ (x \div d) * d <= x
           /\ x < (x \div d) * d + d
OBVIOUS

\* A day of a date ends where the next begins.
LEMMA DateBounds ==
    ASSUME NEW x \in Int, NEW date \in Int
    PROVE  /\ x \div DayLen \in Int
           /\ x < date * DayLen + DayLen => x \div DayLen <= date
           /\ date * DayLen <= x => date <= x \div DayLen
           /\ x \div DayLen < date => x < date * DayLen
<1>1. DayLen \in Nat /\ DayLen > 0
  BY AvailabilityAssumption
<1> DEFINE q == x \div DayLen
<1>2. q \in Int /\ q * DayLen <= x /\ x < q * DayLen + DayLen
  BY <1>1, Division
<1> HIDE DEF q
<1>3. ASSUME q >= date + 1 PROVE date * DayLen + DayLen <= q * DayLen
  BY <1>1, <1>2, <1>3, Multiples
<1>4. ASSUME q + 1 <= date PROVE q * DayLen + DayLen <= date * DayLen
  BY <1>1, <1>2, <1>4, Multiples
<1>5. date * DayLen \in Int /\ q * DayLen \in Int
  BY <1>1, <1>2
<1>6. /\ x < date * DayLen + DayLen => q <= date
      /\ date * DayLen <= x => date <= q
      /\ q < date => x < date * DayLen
  BY <1>1, <1>2, <1>3, <1>4, <1>5
<1>7. QED
  BY <1>2, <1>6 DEF q

LEMMA ZoneType ==
    ASSUME NEW p \in PageRules
    PROVE  /\ p.zone.before \in Int /\ p.zone.after \in Int
           /\ p.zone.before - p.zone.after \in -DayLen .. DayLen
           /\ DayLen \in Nat
           /\ \A t : OffsetAt(p.zone, t) \in {p.zone.before, p.zone.after}
<1>1. ValidZone(p.zone)
  BY BookingsAssumption DEF ValidRules
<1>2. QED
  BY <1>1, AvailabilityAssumption DEF ValidZone, OffsetAt

LEMMA RangeType ==
    ASSUME NEW p \in PageRules, NEW date \in Int, NEW range \in RangesOn(p, date)
    PROVE  range[1] \in 0 .. DayLen /\ range[2] \in 0 .. DayLen
<1>1. ValidRules(p)
  BY BookingsAssumption
<1>2. WeekdayKey(date) \in DOMAIN p.weekly
  BY <1>1, AvailabilityAssumption DEF ValidRules, WeekdayKey
<1>3. ValidRanges(RangesOn(p, date))
  BY <1>1, <1>2 DEF ValidRules, RangesOn
<1>4. range \in (0 .. DayLen) \X (0 .. DayLen)
  BY <1>3 DEF ValidRanges
<1>5. QED
  BY <1>4

\* A local time is its wall clock less one of the zone's two offsets.
LEMMA LocalTime ==
    ASSUME NEW p \in PageRules, NEW date \in Int, NEW clock \in 0 .. DayLen
    PROVE  \E o \in {p.zone.before, p.zone.after} :
              LocalToUTC(p.zone, date, clock) = (date * DayLen + clock) - o
<1> DEFINE wall == date * DayLen + clock
           utc == wall - OffsetAt(p.zone, wall)
<1>1. LocalToUTC(p.zone, date, clock) = utc
      \/ LocalToUTC(p.zone, date, clock) = wall - OffsetAt(p.zone, utc)
  BY DEF LocalToUTC
<1>2. /\ OffsetAt(p.zone, wall) \in {p.zone.before, p.zone.after}
      /\ OffsetAt(p.zone, utc) \in {p.zone.before, p.zone.after}
  BY ZoneType
<1>3. \E o \in {p.zone.before, p.zone.after} : LocalToUTC(p.zone, date, clock) = wall - o
  <2> HIDE DEF wall
  <2>1. QED
    BY <1>1, <1>2
<1>4. QED
  BY <1>3 DEF wall

\* A slot of a date begins and ends within the date, under one offset or the other.
LEMMA GridWithinDate ==
    ASSUME NEW p \in PageRules, NEW date \in Int, NEW s \in GridStarts(p, date)
    PROVE  /\ s \in Int
           /\ \E o \in {p.zone.before, p.zone.after} : date * DayLen - o <= s
           /\ \E o \in {p.zone.before, p.zone.after} :
                 s + p.duration <= date * DayLen + DayLen - o
<1> DEFINE first(range) == LocalToUTC(p.zone, date, range[1])
           last(range)  == LocalToUTC(p.zone, date, range[2])
<1>1. PICK range \in RangesOn(p, date) :
         s \in {first(range) + k * p.duration :
                  k \in 0 .. ((last(range) - first(range)) \div p.duration) - 1}
  BY DEF GridStarts
<1>2. range[1] \in 0 .. DayLen /\ range[2] \in 0 .. DayLen
  BY RangeType
<1>3. /\ p.zone.before \in Int /\ p.zone.after \in Int /\ DayLen \in Nat
      /\ p.duration \in Nat /\ p.duration > 0
  BY ZoneType, RulesType
<1>4. PICK o \in {p.zone.before, p.zone.after} : first(range) = (date * DayLen + range[1]) - o
  BY <1>2, LocalTime
<1>5. PICK u \in {p.zone.before, p.zone.after} : last(range) = (date * DayLen + range[2]) - u
  BY <1>2, LocalTime
<1>6. date * DayLen \in Int
  BY <1>3
<1>7. first(range) \in Int /\ last(range) \in Int
  BY <1>2, <1>3, <1>4, <1>5, <1>6
<1> HIDE DEF first, last
<1> DEFINE n == (last(range) - first(range)) \div p.duration
<1>8. n \in Int /\ n * p.duration <= last(range) - first(range)
  BY <1>3, <1>7, Division
<1>9. PICK k \in 0 .. n - 1 : s = first(range) + k * p.duration
  BY <1>1
<1> HIDE DEF n
<1>10. k \in Nat /\ k + 1 \in Int /\ k + 1 <= n
  BY <1>8, <1>9
<1>11. k * p.duration \in Nat /\ (k + 1) * p.duration = k * p.duration + p.duration
  BY <1>3, <1>10, NextMultiple
<1>12. (k + 1) * p.duration <= n * p.duration
  BY <1>3, <1>8, <1>10, Multiples
<1>13. n * p.duration \in Int
  BY <1>3, <1>8
<1>14. s \in Int /\ first(range) <= s /\ s + p.duration <= last(range)
  BY <1>3, <1>7, <1>8, <1>9, <1>11, <1>12, <1>13
<1>15. date * DayLen - o <= s
  BY <1>2, <1>3, <1>4, <1>6, <1>14
<1>16. s + p.duration <= date * DayLen + DayLen - u
  BY <1>2, <1>3, <1>5, <1>6, <1>14
<1>17. QED
  BY <1>14, <1>15, <1>16

\* Slots a day or more beyond the horizon of a page end too late.
LEMMA BeyondHorizon ==
    ASSUME TypeOK, NEW date \in Horizon(page.rules, now) + 1 .. Horizon(page.rules, now) + 3,
           NEW s \in GridStarts(page.rules, date)
    PROVE  ~IsOpen(page.rules, {}, now, s)
<1> DEFINE p == page.rules
           m == p.maxDaysAhead
           limit == now + (m + 1) * DayLen
           z == OffsetAt(p.zone, limit)
<1>1. p \in PageRules /\ now \in Nat
  BY Typed, BookingsAssumption DEF Page
<1>2. m \in Nat
  BY <1>1, BookingsAssumption DEF ValidRules
<1>3. /\ p.zone.before \in Int /\ p.zone.after \in Int
      /\ p.zone.before - p.zone.after \in -DayLen .. DayLen
      /\ DayLen \in Nat /\ z \in {p.zone.before, p.zone.after}
      /\ p.duration \in Nat /\ p.duration > 0
  BY <1>1, ZoneType, RulesType
<1>4. /\ m * DayLen \in Nat /\ (m + 1) * DayLen = m * DayLen + DayLen
      /\ (m + 1) * DayLen \in Int
  BY <1>2, <1>3
<1>5. limit = now + m * DayLen + DayLen /\ limit \in Int /\ limit + z \in Int
  BY <1>1, <1>3, <1>4
<1>6. Horizon(p, now) = (limit + z) \div DayLen
  BY DEF Horizon, LocalDate
<1>7. (limit + z) \div DayLen \in Int
  BY <1>5, DateBounds
<1>8. date \in Int /\ (limit + z) \div DayLen < date
  BY <1>6, <1>7
<1>9. limit + z < date * DayLen
  BY <1>5, <1>8, DateBounds
<1>10. /\ s \in Int
       /\ \E o \in {p.zone.before, p.zone.after} : date * DayLen - o <= s
  BY <1>1, <1>8, GridWithinDate
<1>11. date * DayLen \in Int
  BY <1>3, <1>8
<1> HIDE DEF limit, z
<1>12. s > now + m * DayLen
  BY <1>1, <1>3, <1>4, <1>5, <1>9, <1>10, <1>11
<1>13. ~(s + p.duration <= now + m * DayLen)
  BY <1>1, <1>3, <1>4, <1>10, <1>12
<1>14. QED
  BY <1>13 DEF IsOpen

\* availability.go:133-155: the dates that the horizon cuts off hold no slot anyone
\* could book, for every zone whose offset changes by a day at most.
THEOREM HorizonAlwaysHarmless == Spec => []HorizonHarmless
<1>1. TypeOK => HorizonHarmless
  BY BeyondHorizon DEF HorizonHarmless
<1>2. QED
  BY <1>1, BookingsTypeCorrect, PTL

\* The dates within a day of a start include its own.
LEMMA DateNearby ==
    ASSUME NEW p \in PageRules, NEW date \in Int, NEW s \in GridStarts(p, date)
    PROVE  date \in LocalDate(p.zone, s - DayLen) .. LocalDate(p.zone, s + DayLen)
<1> DEFINE y == OffsetAt(p.zone, s - DayLen)
           z == OffsetAt(p.zone, s + DayLen)
<1>1. /\ p.zone.before \in Int /\ p.zone.after \in Int
      /\ p.zone.before - p.zone.after \in -DayLen .. DayLen
      /\ DayLen \in Nat
      /\ y \in {p.zone.before, p.zone.after} /\ z \in {p.zone.before, p.zone.after}
      /\ p.duration \in Nat /\ p.duration > 0
  BY ZoneType, RulesType
<1>2. /\ s \in Int
      /\ \E o \in {p.zone.before, p.zone.after} : date * DayLen - o <= s
      /\ \E o \in {p.zone.before, p.zone.after} :
            s + p.duration <= date * DayLen + DayLen - o
  BY GridWithinDate
<1>3. date * DayLen \in Int
  BY <1>1
<1>4. /\ LocalDate(p.zone, s - DayLen) = (s - DayLen + y) \div DayLen
      /\ LocalDate(p.zone, s + DayLen) = (s + DayLen + z) \div DayLen
  BY DEF LocalDate
<1> HIDE DEF y, z
<1>5. s - DayLen + y \in Int /\ s + DayLen + z \in Int
  BY <1>1, <1>2
<1>6. s - DayLen + y < date * DayLen + DayLen
  BY <1>1, <1>2, <1>3
<1>7. date * DayLen <= s + DayLen + z
  BY <1>1, <1>2, <1>3
<1>8. /\ (s - DayLen + y) \div DayLen \in Int
      /\ (s - DayLen + y) \div DayLen <= date
  BY <1>5, <1>6, DateBounds
<1>9. /\ (s + DayLen + z) \div DayLen \in Int
      /\ date <= (s + DayLen + z) \div DayLen
  BY <1>5, <1>7, DateBounds
<1>10. QED
  BY <1>4, <1>8, <1>9

\* What a window shows free is free of every booking near the slot.
LEMMA OfferHolds ==
    ASSUME TypeOK, NEW w \in Windows, NEW s \in PublicAvailability(w[1], w[2]),
           s - page.rules.bufferBefore >= w[1],
           s + page.rules.duration + page.rules.bufferAfter <= w[2]
    PROVE  SlotIsFree(s, None)
<1> DEFINE p == page.rules
           shown == BookedIntervals(w[1], w[2], None)
           near == BookedIntervals(s - DayLen, s + DayLen, None)
<1>1. /\ p \in PageRules /\ now \in Nat /\ booking \in [Bookings -> Row]
      /\ w[1] \in Int /\ w[2] \in Int
  BY Typed, BookingsAssumption, AvailabilityAssumption DEF Page, Windows
<1>2. s \in Slots(p, shown, now, w[1], w[2])
  BY DEF PublicAvailability
<1>3. PICK date \in LocalDate(p.zone, w[1]) .. LocalDate(p.zone, w[2]) :
         date <= Horizon(p, now) /\ s \in GridStarts(p, date)
  BY <1>2 DEF Slots
<1>4. IsOpen(p, shown, now, s)
  BY <1>2 DEF Slots
<1>5. date \in Int
  BY <1>3
<1>6. s \in Int
  BY <1>1, <1>3, <1>5, GridWithinDate
<1>7. date \in LocalDate(p.zone, s - DayLen) .. LocalDate(p.zone, s + DayLen)
  BY <1>1, <1>3, <1>5, DateNearby
<1>8. ASSUME NEW i \in near
      PROVE  ~Overlaps(s - p.bufferBefore, s + p.duration + p.bufferAfter, i.start, i.end)
  <2>1. PICK b \in ConfirmedInRange(s - DayLen, s + DayLen) \ {None} :
           i = [start |-> booking[b].start, end |-> booking[b].end]
    BY <1>8 DEF BookedIntervals
  <2>2. b \in Bookings /\ Confirmed(b)
    BY <2>1 DEF ConfirmedInRange
  <2>3. booking[b].start \in Int /\ booking[b].end \in Int
    BY <1>1, <2>2 DEF Row
  <2>4. CASE booking[b].start < w[2] /\ booking[b].end > w[1]
    <3>1. i \in shown
      BY <2>1, <2>2, <2>4 DEF BookedIntervals, ConfirmedInRange
    <3>2. QED
      BY <1>4, <3>1 DEF IsOpen
  <2>5. CASE ~(booking[b].start < w[2] /\ booking[b].end > w[1])
    BY <1>1, <1>6, <2>1, <2>3, <2>5, RulesType DEF Overlaps
  <2>6. QED
    BY <2>4, <2>5
<1>9. IsOpen(p, near, now, s)
  BY <1>4, <1>8 DEF IsOpen
<1>10. s \in Slots(p, near, now, s - DayLen, s + DayLen)
  BY <1>3, <1>7, <1>9 DEF Slots
<1>11. QED
  BY <1>10 DEF SlotIsFree, IsSlotAvailable

\* availability.go:211 against handlers.go:484: what the public page offers, within
\* the window its bookings were read for, is what Book would take.
THEOREM OffersAlwaysAccepted == Spec => []OfferedIsAccepted
<1>1. TypeOK => OfferedIsAccepted
  BY OfferHolds DEF OfferedIsAccepted
<1>2. QED
  BY <1>1, BookingsTypeCorrect, PTL

(***************************************************************************)
(* Mails                                                                   *)
(***************************************************************************)

\* The mails of a booking begin with both confirmations and, once it is cancelled,
\* end with both cancellations.
Tells(status, m) ==
    /\ status = "unmade" => m = <<>>
    /\ status # "unmade" =>
          /\ 2 <= Len(m)
          /\ m[1].kind = "confirmed" /\ m[1].to = "visitor"
          /\ m[2].kind = "confirmed" /\ m[2].to = "organiser"
          /\ \A i \in 3 .. Len(m) : m[i].kind # "confirmed"
    /\ status = "confirmed" => \A i \in 1 .. Len(m) : m[i].kind # "cancelled"
    /\ status = "cancelled" =>
          /\ 4 <= Len(m)
          /\ m[Len(m) - 1].kind = "cancelled" /\ m[Len(m) - 1].to = "visitor"
          /\ m[Len(m)].kind = "cancelled" /\ m[Len(m)].to = "organiser"
          /\ \A i \in 1 .. Len(m) - 2 : m[i].kind # "cancelled"

StoryTold == \A b \in Bookings : Tells(booking[b].status, mails[b])

\* t is m and a mail of the kind to either party.
Appended(m, kind, t) ==
    /\ Len(m) \in Nat /\ Len(t) = Len(m) + 2
    /\ \A i \in 1 .. Len(m) : t[i] = m[i]
    /\ t[Len(m) + 1].kind = kind /\ t[Len(m) + 1].to = "visitor"
    /\ t[Len(m) + 2].kind = kind /\ t[Len(m) + 2].to = "organiser"

LEMMA QueueAppends ==
    ASSUME NEW m \in Seq(Mail), NEW kind \in {"confirmed", "rescheduled", "cancelled"},
           NEW prev \in Int \cup {None}
    PROVE  Appended(m, kind, m \o Queue(kind, prev))
<1> DEFINE q == Queue(kind, prev)
<1>1. q \in Seq(Mail) /\ Len(q) = 2
  <2>1. \A i \in 1 .. 2 : [kind |-> kind, prev |-> prev,
                           to |-> IF i = 1 THEN "visitor" ELSE "organiser"] \in Mail
    BY DEF Mail, Recipients
  <2>2. q \in [1 .. 2 -> Mail]
    BY <2>1 DEF Queue
  <2>3. [1 .. 2 -> Mail] \in {[1 .. k -> Mail] : k \in Nat}
    OBVIOUS
  <2>4. q \in UNION {[1 .. k -> Mail] : k \in Nat}
    BY <2>2, <2>3
  <2>5. q \in Seq(Mail)
    BY <2>4, SeqDef
  <2>6. QED
    BY <2>2, <2>5, LenProperties
<1>2. /\ q[1].kind = kind /\ q[1].to = "visitor"
      /\ q[2].kind = kind /\ q[2].to = "organiser"
  BY DEF Queue
<1> HIDE DEF q
<1>3. /\ Len(m) \in Nat
      /\ Len(m \o q) = Len(m) + 2
      /\ \A i \in 1 .. Len(m) + 2 : (m \o q)[i] = IF i <= Len(m) THEN m[i] ELSE q[i - Len(m)]
  <2>1. /\ Len(m \o q) = Len(m) + Len(q)
        /\ \A i \in 1 .. Len(m) + Len(q) :
              (m \o q)[i] = IF i <= Len(m) THEN m[i] ELSE q[i - Len(m)]
    BY <1>1, ConcatProperties
  <2>2. Len(m) \in Nat
    BY LenProperties
  <2>3. QED
    BY <1>1, <2>1, <2>2
<1>4. \A i \in 1 .. Len(m) : (m \o q)[i] = m[i]
  BY <1>3
<1>5. (m \o q)[Len(m) + 1] = q[1] /\ (m \o q)[Len(m) + 2] = q[2]
  BY <1>3
<1>6. QED
  BY <1>2, <1>3, <1>4, <1>5 DEF q, Appended

LEMMA StoryGoesOn ==
    ASSUME NEW m, NEW t
    PROVE  /\ Tells("unmade", m) /\ Appended(m, "confirmed", t) => Tells("confirmed", t)
           /\ Tells("confirmed", m) /\ Appended(m, "rescheduled", t) => Tells("confirmed", t)
           /\ Tells("confirmed", m) /\ Appended(m, "cancelled", t) => Tells("cancelled", t)
<1>1. ASSUME Tells("unmade", m), Appended(m, "confirmed", t) PROVE Tells("confirmed", t)
  <2>1. Len(m) = 0
    BY <1>1 DEF Tells
  <2>2. /\ Len(t) = 2
        /\ t[1].kind = "confirmed" /\ t[1].to = "visitor"
        /\ t[2].kind = "confirmed" /\ t[2].to = "organiser"
    BY <1>1, <2>1 DEF Appended
  <2>3. \A i \in 1 .. 2 : i = 1 \/ i = 2
    OBVIOUS
  <2>4. QED
    BY <2>2, <2>3 DEF Tells
<1>2. ASSUME Tells("confirmed", m), Appended(m, "rescheduled", t) PROVE Tells("confirmed", t)
  <2>1. \A i \in 1 .. Len(t) : i \in 1 .. Len(m) \/ i = Len(m) + 1 \/ i = Len(m) + 2
    BY <1>2 DEF Appended
  <2>2. QED
    BY <1>2, <2>1 DEF Appended, Tells
<1>3. ASSUME Tells("confirmed", m), Appended(m, "cancelled", t) PROVE Tells("cancelled", t)
  <2>1. \A i \in 1 .. Len(t) : i \in 1 .. Len(m) \/ i = Len(m) + 1 \/ i = Len(m) + 2
    BY <1>3 DEF Appended
  <2>2. Len(t) - 1 = Len(m) + 1 /\ Len(t) - 2 = Len(m) /\ 2 <= Len(m)
    BY <1>3 DEF Appended, Tells
  <2>3. QED
    BY <1>3, <2>1, <2>2 DEF Appended, Tells
<1>4. QED
  BY <1>1, <1>2, <1>3

LEMMA CommitTells ==
    ASSUME TypeOK, Shapes, Grounded, StoryTold, NEW r \in Requests,
           CommitBook(r) \/ CommitCancel(r) \/ CommitReschedule(r)
    PROVE  StoryTold'
<1> DEFINE b == req[r].b
           m == mails[b]
<1>1. /\ booking \in [Bookings -> Row] /\ mails \in [Bookings -> Seq(Mail)]
      /\ req[r] \in Transaction /\ Shaped(req[r]) /\ Grounds(r)
  BY Typed DEF Shapes, Grounded
<1>2. b \in Bookings
  BY <1>1 DEF CommitBook, CommitCancel, CommitReschedule, Shaped
<1>3. m \in Seq(Mail) /\ Tells(booking[b].status, m) /\ req[r].prev \in Int \cup {None}
  BY <1>1, <1>2 DEF StoryTold, Transaction
<1>4. /\ \A c \in Bookings \ {b} : booking'[c] = booking[c] /\ mails'[c] = mails[c]
      /\ Tells(booking'[b].status, mails'[b])
  <2>1. CASE CommitBook(r)
    <3>1. booking[b].status = "unmade"
      BY <1>1, <2>1 DEF CommitBook, Grounds, Unmade
    <3>2. /\ booking' = [booking EXCEPT ![b] = Scheduled(req[r].start)]
          /\ mails' = [mails EXCEPT ![b] = m \o Queue("confirmed", None)]
      BY <2>1 DEF CommitBook, WriteBook
    <3>3. booking'[b].status = "confirmed" /\ mails'[b] = m \o Queue("confirmed", None)
      BY <1>1, <1>2, <3>2 DEF Scheduled
    <3>4. Tells("confirmed", m \o Queue("confirmed", None))
      BY <1>3, <3>1, QueueAppends, StoryGoesOn
    <3>5. QED
      BY <1>1, <1>2, <3>2, <3>3, <3>4
  <2>2. CASE CommitCancel(r)
    <3>1. booking[b].status = "confirmed"
      BY <1>1, <2>2 DEF CommitCancel, Shaped, Grounds, Confirmed
    <3>2. /\ booking' = [booking EXCEPT ![b].status = "cancelled"]
          /\ mails' = [mails EXCEPT ![b] = m \o Queue("cancelled", None)]
      BY <2>2 DEF CommitCancel, WriteCancel
    <3>3. booking'[b].status = "cancelled" /\ mails'[b] = m \o Queue("cancelled", None)
      BY <1>1, <1>2, <3>2 DEF Row
    <3>4. Tells("cancelled", m \o Queue("cancelled", None))
      BY <1>3, <3>1, QueueAppends, StoryGoesOn
    <3>5. QED
      BY <1>1, <1>2, <3>2, <3>3, <3>4
  <2>3. CASE CommitReschedule(r)
    <3>1. booking[b].status = "confirmed"
      BY <1>1, <2>3 DEF CommitReschedule, Shaped, Grounds, Confirmed
    <3>2. /\ booking' = [booking EXCEPT ![b] = Scheduled(req[r].start)]
          /\ mails' = [mails EXCEPT ![b] = m \o Queue("rescheduled", req[r].prev)]
      BY <2>3 DEF CommitReschedule, WriteReschedule
    <3>3. booking'[b].status = "confirmed" /\ mails'[b] = m \o Queue("rescheduled", req[r].prev)
      BY <1>1, <1>2, <3>2 DEF Scheduled
    <3>4. Tells("confirmed", m \o Queue("rescheduled", req[r].prev))
      BY <1>3, <3>1, QueueAppends, StoryGoesOn
    <3>5. QED
      BY <1>1, <1>2, <3>2, <3>3, <3>4
  <2>4. QED
    BY <2>1, <2>2, <2>3
<1>5. QED
  BY <1>4 DEF StoryTold

\* What the mails of one booking tell either party.
LEMMA StoryCounts ==
    ASSUME TypeOK, Grounded, StoryTold, NEW b \in Bookings, NEW to \in Recipients
    PROVE  LET told == {i \in DOMAIN mails[b] : mails[b][i].to = to}
               Of(kind) == {i \in told : mails[b][i].kind = kind}
           IN  /\ Cardinality(Of("confirmed")) = IF booking[b] = Unmade THEN 0 ELSE 1
               /\ Cardinality(Of("cancelled")) = IF booking[b].status = "cancelled" THEN 1 ELSE 0
               /\ \A i \in Of("cancelled"), j \in told : j <= i
               /\ \A i \in Of("confirmed"), j \in told : i <= j
<1> DEFINE m == mails[b]
           status == booking[b].status
           n == Len(m)
           told == {i \in DOMAIN m : m[i].to = to}
           Of(kind) == {i \in told : m[i].kind = kind}
           first == IF to = "visitor" THEN 1 ELSE 2
           last == IF to = "visitor" THEN n - 1 ELSE n
<1>0. /\ m \in Seq(Mail) /\ Tells(status, m)
      /\ status \in {"unmade", "confirmed", "cancelled"}
      /\ booking[b] = Unmade <=> status = "unmade"
  BY Typed DEF Row, StoryTold, Grounded, Unmade
<1> HIDE DEF m, status
<1>1. n \in Nat /\ DOMAIN m = 1 .. n
  BY <1>0, LenProperties
<1>2. to = "visitor" \/ to = "organiser"
  BY DEF Recipients
<1> HIDE DEF n
<1>3. ASSUME status # "unmade" PROVE Of("confirmed") = {first}
  <2>1. /\ 2 <= n /\ m[1].kind = "confirmed" /\ m[1].to = "visitor"
        /\ m[2].kind = "confirmed" /\ m[2].to = "organiser"
        /\ \A i \in 3 .. n : m[i].kind # "confirmed"
    BY <1>0, <1>3 DEF Tells, n
  <2>2. first \in Of("confirmed")
    BY <1>1, <1>2, <2>1
  <2>3. \A i \in Of("confirmed") : i = first
    BY <1>1, <1>2, <2>1
  <2>4. QED
    BY <2>2, <2>3
<1>4. ASSUME status = "cancelled" PROVE Of("cancelled") = {last}
  <2>1. /\ 4 <= n /\ m[n - 1].kind = "cancelled" /\ m[n - 1].to = "visitor"
        /\ m[n].kind = "cancelled" /\ m[n].to = "organiser"
        /\ \A i \in 1 .. n - 2 : m[i].kind # "cancelled"
    BY <1>0, <1>4 DEF Tells, n
  <2>2. last \in Of("cancelled")
    BY <1>1, <1>2, <2>1
  <2>3. \A i \in Of("cancelled") : i = last
    BY <1>1, <1>2, <2>1
  <2>4. QED
    BY <2>2, <2>3
<1>5. ASSUME status = "unmade" PROVE Of("confirmed") = {}
  <2>1. n = 0
    BY <1>0, <1>5 DEF Tells, n
  <2>2. QED
    BY <1>1, <2>1
<1>6. ASSUME status # "cancelled" PROVE Of("cancelled") = {}
  <2>1. \A i \in 1 .. n : m[i].kind # "cancelled"
    BY <1>0, <1>1, <1>6 DEF Tells, n
  <2>2. QED
    BY <1>1, <2>1
<1>7. /\ status = "cancelled" => \A j \in told : j <= last
      /\ status # "unmade" => \A j \in told : first <= j
  <2>1. ASSUME status = "cancelled", NEW j \in told PROVE j <= last
    <3>1. m[n].to = "organiser" /\ 4 <= n
      BY <1>0, <2>1 DEF Tells, n
    <3>2. QED
      BY <1>1, <1>2, <3>1
  <2>2. ASSUME status # "unmade", NEW j \in told PROVE first <= j
    <3>1. m[1].to = "visitor"
      BY <1>0, <2>2 DEF Tells
    <3>2. QED
      BY <1>1, <1>2, <3>1
  <2>3. QED
    BY <2>1, <2>2
<1> HIDE DEF told, Of, first, last
<1>8. Cardinality(Of("confirmed")) = IF status = "unmade" THEN 0 ELSE 1
  BY <1>3, <1>5, FS_EmptySet, FS_Singleton
<1>9. Cardinality(Of("cancelled")) = IF status = "cancelled" THEN 1 ELSE 0
  BY <1>4, <1>6, FS_EmptySet, FS_Singleton
<1>10. \A i \in Of("cancelled"), j \in told : j <= i
  BY <1>4, <1>6, <1>7
<1>11. \A i \in Of("confirmed"), j \in told : i <= j
  BY <1>3, <1>5, <1>7
<1>12. QED
  BY <1>0, <1>8, <1>9, <1>10, <1>11 DEF told, Of, m, status

\* bookings.go:403-411: each party is sent one confirmation, before everything else,
\* and at most one cancellation, after everything else.
THEOREM MailsAlwaysTellTheStory == Spec => []MailsTellTheStory
<1>1. Init => StoryTold
  BY DEF Init, StoryTold, Tells, Unmade
<1>2. TypeOK /\ Shapes /\ Grounded /\ StoryTold /\ [Next]_vars => StoryTold'
  <2> SUFFICES ASSUME TypeOK, Shapes, Grounded, StoryTold, [Next]_vars PROVE StoryTold'
    OBVIOUS
  <2>1. CASE \E r \in Requests : CommitBook(r) \/ CommitCancel(r) \/ CommitReschedule(r)
    BY <2>1, CommitTells
  <2>2. CASE ~\E r \in Requests : CommitBook(r) \/ CommitCancel(r) \/ CommitReschedule(r)
    <3>1. booking' = booking /\ mails' = mails
      BY <2>2, OnlyCommitsWrite
    <3>2. QED
      BY <3>1 DEF StoryTold
  <2>3. QED
    BY <2>1, <2>2
<1>3. TypeOK /\ Grounded /\ StoryTold => MailsTellTheStory
  BY StoryCounts DEF MailsTellTheStory
<1>4. QED
  BY <1>1, <1>2, <1>3, BookingsTypeCorrect, GroundedInvariant, PTL DEF Spec

=============================================================================
