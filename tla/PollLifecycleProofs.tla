------------------------- MODULE PollLifecycleProofs -------------------------
(***************************************************************************)
(* What holds of a poll's timers and letters whatever requests, workers    *)
(* and staff have crossed.                                                 *)
(***************************************************************************)
EXTENDS PollLifecycle, TLAPS

-----------------------------------------------------------------------------
\* Types.

Statuses == {"open", "closed", "finalized"}
HandPcs  == {"idle", "check", "defer", "read", "close", "look", "tell", "done"}

PollRow == [status : Statuses, deadline : Nat \cup {None}, options : SUBSET Options,
            chosen : Options \cup {None}, deleted : BOOLEAN, suspended : BOOLEAN]

HandRecord == [pc : HandPcs, own : BOOLEAN, left : SUBSET People]

UpdateRequest   == [op : {"update"}, drop : SUBSET Options, given : BOOLEAN,
                    deadline : Nat \cup {None}]
StatusRequest   == [op : {"status"}, status : {"open", "closed"}]
FinalizeRequest == [op : {"finalize"}, option : Options, actor : Managers]
IdleOrDelete    == [op : {"none", "delete"}]

RequestRecord == UpdateRequest \cup StatusRequest \cup FinalizeRequest \cup IdleOrDelete

LifecycleTypeOK ==
    /\ poll \in PollRow
    /\ timer \in [Kinds -> Nat \cup {None}]
    /\ followers \subseteq People
    /\ hand \in [Kinds -> HandRecord]
    /\ req \in [Requests -> RequestRecord]
    /\ post \in [People -> Nat]
    /\ queued \in [{"finalized", "closed", "reminder"} -> [People -> Nat]]
    /\ count \in [decisions : Nat, closings : Nat]
    /\ parted \in BOOLEAN /\ late \in BOOLEAN
    /\ now \in Nat /\ now <= MaxTime

-----------------------------------------------------------------------------
\* The timer and the deadline.

\* The poll's timer has not been parted from a deadline it still has to keep.
Live == /\ ~parted /\ ~poll.deleted
        /\ poll.status # "finalized" /\ poll.deadline # None

\* Who holds the row of the deadline job, holds one that was due.
HeldIsDue == hand["deadline"].own => timer["deadline"] # None /\ timer["deadline"] <= now

\* Before the deadline the job waits for it; it never comes earlier, and never
\* goes while a worker has it in hand.
JobOnTime == Live /\ now < poll.deadline => timer["deadline"] = poll.deadline
NotEarly  == Live /\ timer["deadline"] # None => poll.deadline <= timer["deadline"]
InHand    == Live /\ hand["deadline"].pc # "idle" => timer["deadline"] # None

\* A worker that is about to delete the row leaves no open poll behind.
LastLook == Live /\ ~late /\ hand["deadline"].own /\ hand["deadline"].pc \in {"look", "tell", "done"}
                => poll.status # "open"

ArmInv == HeldIsDue /\ JobOnTime /\ NotEarly /\ InHand /\ LastLook /\ DeadlineArmed

\* A letter of a closing not yet queued.
Pending(p) == IF \/ hand["deadline"].pc = "look"
                 \/ hand["deadline"].pc = "tell" /\ p \in hand["deadline"].left
              THEN 1 ELSE 0

ClosingInv == \A p \in People : queued["closed"][p] + Pending(p) <= count.closings

-----------------------------------------------------------------------------
\* Types are kept.

LEMMA ArmKeepsTypes ==
    ASSUME LifecycleTypeOK, NEW d \in Nat \cup {None}, Arm(d)
    PROVE  timer' \in [Kinds -> Nat \cup {None}] /\ hand' \in [Kinds -> HandRecord]
<1>1. RemindAt(d) \in Nat \cup {None}
  BY PollAssumption DEF RemindAt, LifecycleTypeOK
<1>2. timer' \in [Kinds -> Nat \cup {None}]
  BY <1>1 DEF Arm, Kinds
<1>3. hand' \in [Kinds -> HandRecord]
  BY DEF Arm, Disown, LifecycleTypeOK, HandRecord
<1>4. QED
  BY <1>2, <1>3

LEMMA CancelKeepsTypes ==
    ASSUME LifecycleTypeOK, CancelTimers
    PROVE  timer' \in [Kinds -> Nat \cup {None}] /\ hand' \in [Kinds -> HandRecord]
BY DEF CancelTimers, Disown, LifecycleTypeOK, HandRecord

LEMMA BeginsKeepTypes ==
    ASSUME LifecycleTypeOK, NEW r \in Requests,
           BeginUpdate(r) \/ BeginStatus(r) \/ BeginFinalize(r) \/ BeginDelete(r)
    PROVE  LifecycleTypeOK'
<1>1. \E q \in RequestRecord : Begin(r, q)
  <2>1. CASE BeginUpdate(r)
    <3>1. PICK drop \in SUBSET Options, given \in BOOLEAN, d \in Nat \cup {None} :
             Begin(r, [op |-> "update", drop |-> drop, given |-> given, deadline |-> d])
      <4>1. /\ Deadlines \subseteq Nat /\ poll.deadline \in Nat \cup {None}
            /\ poll.options \subseteq Options
        BY PollAssumption DEF Deadlines, LifecycleTypeOK, PollRow
      <4>2. CASE \E o \in poll.options :
                    Begin(r, [op |-> "update", drop |-> {o}, given |-> FALSE,
                              deadline |-> poll.deadline])
        BY <4>1, <4>2
      <4>3. CASE \E given \in BOOLEAN, d \in Deadlines \cup {None} :
                    Begin(r, [op |-> "update", drop |-> {}, given |-> given, deadline |-> d])
        BY <4>1, <4>3
      <4>4. QED
        BY <2>1, <4>2, <4>3 DEF BeginUpdate
    <3>2. [op |-> "update", drop |-> drop, given |-> given, deadline |-> d] \in UpdateRequest
      BY DEF UpdateRequest
    <3>3. QED
      BY <3>1, <3>2 DEF RequestRecord
  <2>2. CASE BeginStatus(r)
    <3>1. \E q \in StatusRequest : Begin(r, q)
      BY <2>2 DEF BeginStatus, StatusRequest
    <3>2. QED
      BY <3>1 DEF RequestRecord
  <2>3. CASE BeginFinalize(r)
    <3>1. \E q \in FinalizeRequest : Begin(r, q)
      BY <2>3 DEF BeginFinalize, FinalizeRequest, LifecycleTypeOK, PollRow
    <3>2. QED
      BY <3>1 DEF RequestRecord
  <2>4. CASE BeginDelete(r)
    BY <2>4 DEF BeginDelete, RequestRecord, IdleOrDelete
  <2>5. QED
    BY <2>1, <2>2, <2>3, <2>4
<1>2. PICK q \in RequestRecord : Begin(r, q)
  BY <1>1
<1>3. QED
  BY <1>2 DEF Begin, LifecycleTypeOK, history

\* A closed request is nobody's.
LEMMA FinishKeepsTypes ==
    ASSUME LifecycleTypeOK, NEW r \in Requests, Finish(r)
    PROVE  req' \in [Requests -> RequestRecord]
BY DEF Finish, NoReq, LifecycleTypeOK, RequestRecord, IdleOrDelete

LEMMA WritesKeepTypes ==
    ASSUME LifecycleTypeOK, NEW r \in Requests, Write(r)
    PROVE  LifecycleTypeOK'
<1>1. req[r] \in RequestRecord
  BY DEF LifecycleTypeOK
<1>2. CASE WriteUpdate(r)
  <2>1. req[r] \in UpdateRequest
    BY <1>1, <1>2 DEF WriteUpdate, RequestRecord, UpdateRequest, StatusRequest, FinalizeRequest,
                      IdleOrDelete
  <2>2. req[r].deadline \in Nat \cup {None}
    BY <2>1 DEF UpdateRequest
  <2>3. poll' \in PollRow
    BY <1>2, <2>2 DEF WriteUpdate, UpdatePoll, ReplaceOptions, LifecycleTypeOK, PollRow
  <2>4. /\ timer' \in [Kinds -> Nat \cup {None}] /\ hand' \in [Kinds -> HandRecord]
        /\ parted' \in BOOLEAN /\ late' \in BOOLEAN
    BY <1>2, <2>2, ArmKeepsTypes DEF WriteUpdate, LifecycleTypeOK
  <2>5. QED
    BY <1>2, <2>3, <2>4, FinishKeepsTypes DEF WriteUpdate, LifecycleTypeOK, history
<1>3. CASE WriteStatus(r)
  <2>1. req[r] \in StatusRequest
    BY <1>1, <1>3 DEF WriteStatus, RequestRecord, UpdateRequest, StatusRequest, FinalizeRequest,
                      IdleOrDelete
  <2>2. poll' \in PollRow
    BY <1>3, <2>1 DEF WriteStatus, SetPollStatus, StatusRequest, LifecycleTypeOK, PollRow, Statuses
  <2>3. QED
    BY <1>3, <2>2, FinishKeepsTypes DEF WriteStatus, LifecycleTypeOK, history
<1>4. CASE WriteFinalize(r)
  <2>1. req[r] \in FinalizeRequest
    BY <1>1, <1>4 DEF WriteFinalize, RequestRecord, UpdateRequest, StatusRequest, FinalizeRequest,
                      IdleOrDelete
  <2>2. poll' \in PollRow
    BY <1>4, <2>1
       DEF WriteFinalize, FinalizePoll, FinalizeRequest, LifecycleTypeOK, PollRow, Statuses
  <2>3. \A p \in People : Letters(p, req[r].actor) \in Nat
    BY DEF Letters
  <2>4. post' \in [People -> Nat]
    BY <1>4, <2>3 DEF WriteFinalize, LifecycleTypeOK
  <2>5. queued' \in [{"finalized", "closed", "reminder"} -> [People -> Nat]]
    BY <1>4, <2>3 DEF WriteFinalize, LifecycleTypeOK
  <2>6. count' \in [decisions : Nat, closings : Nat]
    BY <1>4 DEF WriteFinalize, LifecycleTypeOK
  <2>7. QED
    BY <1>4, <2>2, <2>4, <2>5, <2>6, FinishKeepsTypes, CancelKeepsTypes
       DEF WriteFinalize, LifecycleTypeOK
<1>5. CASE WriteDelete(r)
  <2>1. poll' \in PollRow
    BY <1>5 DEF WriteDelete, SoftDeletePoll, LifecycleTypeOK, PollRow
  <2>2. QED
    BY <1>5, <2>1, FinishKeepsTypes, CancelKeepsTypes
       DEF WriteDelete, UnsubscribeAll, LifecycleTypeOK, history
<1>6. QED
  BY <1>2, <1>3, <1>4, <1>5 DEF Write

LEMMA GoKeepsTypes ==
    ASSUME LifecycleTypeOK, NEW k \in Kinds, NEW pc \in HandPcs, NEW left \in SUBSET People,
           Go(k, pc, left)
    PROVE  hand' \in [Kinds -> HandRecord]
BY DEF Go, LifecycleTypeOK, HandRecord

LEMMA PutDownKeepsTypes ==
    ASSUME LifecycleTypeOK, NEW k \in Kinds, hand' = [hand EXCEPT ![k] = NoHand]
    PROVE  hand' \in [Kinds -> HandRecord]
BY DEF NoHand, LifecycleTypeOK, HandRecord, HandPcs

LEMMA WorkersKeepTypes ==
    ASSUME LifecycleTypeOK, NEW k \in Kinds, Worker(k)
    PROVE  LifecycleTypeOK'
<1>1. CASE Take(k)
  <2>1. hand' \in [Kinds -> HandRecord]
    BY <1>1 DEF Take, LifecycleTypeOK, HandRecord, HandPcs
  <2>2. QED
    BY <1>1, <2>1 DEF Take, LifecycleTypeOK, history
<1>2. CASE Look(k)
  <2>1. hand' \in [Kinds -> HandRecord]
    BY <1>2, GoKeepsTypes DEF Look, Subscribers, HandPcs, LifecycleTypeOK
  <2>2. QED
    BY <1>2, <2>1 DEF Look, LifecycleTypeOK, history
<1>3. CASE Complete(k)
  <2>1. timer' \in [Kinds -> Nat \cup {None}]
    BY <1>3 DEF Complete, LifecycleTypeOK
  <2>2. QED
    BY <1>3, <2>1, PutDownKeepsTypes DEF Complete, LifecycleTypeOK, history
<1>4. ASSUME NEW p \in People, Tell(k, p) PROVE LifecycleTypeOK'
  <2>1. Event(k) \in {"finalized", "closed", "reminder"}
    BY DEF Event
  <2>2. queued' \in [{"finalized", "closed", "reminder"} -> [People -> Nat]]
    BY <1>4, <2>1 DEF Tell, LifecycleTypeOK
  <2>3. hand[k].left \ {p} \in SUBSET People
    BY DEF LifecycleTypeOK, HandRecord
  <2>4. hand' \in [Kinds -> HandRecord]
    BY <1>4, <2>3, GoKeepsTypes DEF Tell, HandPcs
  <2>5. QED
    BY <1>4, <2>2, <2>4 DEF Tell, LifecycleTypeOK, history
<1>5. QED
  BY <1>1, <1>2, <1>3, <1>4 DEF Worker

LEMMA DeadlineStepsKeepTypes ==
    ASSUME LifecycleTypeOK, CheckSuspended \/ Defer \/ ReadExpired \/ CloseExpired
    PROVE  LifecycleTypeOK'
<1>1. "deadline" \in Kinds
  BY DEF Kinds
<1>2. CASE CheckSuspended
  <2>1. hand' \in [Kinds -> HandRecord]
    BY <1>1, <1>2, GoKeepsTypes DEF CheckSuspended, HandPcs
  <2>2. QED
    BY <1>2, <2>1 DEF CheckSuspended, LifecycleTypeOK, history
<1>3. CASE Defer
  <2>1. timer' \in [Kinds -> Nat \cup {None}]
    BY <1>1, <1>3, PollAssumption DEF Defer, LifecycleTypeOK
  <2>2. QED
    BY <1>1, <1>3, <2>1, PutDownKeepsTypes DEF Defer, LifecycleTypeOK, history
<1>4. CASE ReadExpired
  <2>1. hand' \in [Kinds -> HandRecord]
    BY <1>1, <1>4, GoKeepsTypes DEF ReadExpired, HandPcs
  <2>2. QED
    BY <1>4, <2>1 DEF ReadExpired, LifecycleTypeOK, history, PollRow
<1>5. CASE CloseExpired
  <2>1. hand' \in [Kinds -> HandRecord]
    BY <1>1, <1>5, GoKeepsTypes DEF CloseExpired, HandPcs
  <2>2. poll' \in PollRow
    BY <1>5 DEF CloseExpired, SetPollStatus, LifecycleTypeOK, PollRow, Statuses
  <2>3. count' \in [decisions : Nat, closings : Nat]
    BY <1>5 DEF CloseExpired, LifecycleTypeOK
  <2>4. QED
    BY <1>5, <2>1, <2>2, <2>3 DEF CloseExpired, LifecycleTypeOK, history
<1>6. QED
  BY <1>2, <1>3, <1>4, <1>5

LEMMA TypesInductive == LifecycleTypeOK /\ [Next]_vars => LifecycleTypeOK'
<1> SUFFICES ASSUME LifecycleTypeOK, [Next]_vars PROVE LifecycleTypeOK'
  OBVIOUS
<1>1. ASSUME NEW p \in People, SetFollowing(p) \/ UpdateNotificationPrefs(p)
      PROVE  LifecycleTypeOK'
  BY <1>1 DEF SetFollowing, UpdateNotificationPrefs, Follows, Subscribe, Unsubscribe,
              LifecycleTypeOK, history
<1>2. ASSUME NEW p \in People, Deliver(p) PROVE LifecycleTypeOK'
  BY <1>2 DEF Deliver, LifecycleTypeOK
<1>3. CASE SetSuspended
  BY <1>3 DEF SetSuspended, LifecycleTypeOK, PollRow, history
<1>4. ASSUME NEW k \in Kinds, Crash(k) PROVE LifecycleTypeOK'
  BY <1>4, PutDownKeepsTypes DEF Crash, LifecycleTypeOK, history
<1>5. CASE Tick
  BY <1>5, PollAssumption DEF Tick, LifecycleTypeOK, history
<1>6. CASE UNCHANGED vars
  BY <1>6 DEF vars, LifecycleTypeOK
<1>7. QED
  BY <1>1, <1>2, <1>3, <1>4, <1>5, <1>6, BeginsKeepTypes, WritesKeepTypes, WorkersKeepTypes,
     DeadlineStepsKeepTypes
     DEF Next, DeadlineWorker, Kinds

LEMMA TypesInitially == Init => LifecycleTypeOK
<1> SUFFICES ASSUME Init PROVE LifecycleTypeOK
  OBVIOUS
<1>1. poll \in PollRow /\ timer \in [Kinds -> Nat \cup {None}]
  <2>1. CASE Created
    <3>1. PICK d \in Deadlines \cup {None} :
             /\ poll = NewPoll(d)
             /\ timer = [deadline |-> d, reminder |-> IF d # None /\ d > Lead THEN d - Lead ELSE None]
      BY <2>1 DEF Created
    <3>2. d \in Nat \cup {None}
      BY PollAssumption DEF Deadlines
    <3>3. (IF d # None /\ d > Lead THEN d - Lead ELSE None) \in Nat \cup {None}
      BY <3>2, PollAssumption
    <3>4. timer \in [Kinds -> Nat \cup {None}]
      BY <3>1, <3>2, <3>3 DEF Kinds
    <3>5. QED
      BY <3>1, <3>2, <3>4 DEF NewPoll, PollRow, Statuses
  <2>2. CASE Duplicated
    BY <2>2 DEF Duplicated, NewPoll, PollRow, Statuses
  <2>3. QED
    BY <2>1, <2>2 DEF Init
<1>2. hand \in [Kinds -> HandRecord] /\ req \in [Requests -> RequestRecord]
  BY DEF Init, NoHand, NoReq, HandRecord, HandPcs, RequestRecord, IdleOrDelete
<1>3. followers \subseteq People
  BY PollAssumption DEF Init, EnsureCreatorSubscription
<1>4. /\ post \in [People -> Nat]
      /\ queued \in [{"finalized", "closed", "reminder"} -> [People -> Nat]]
      /\ count \in [decisions : Nat, closings : Nat]
  BY DEF Init
<1>5. parted \in BOOLEAN /\ late \in BOOLEAN
  BY DEF Init
<1>6. now \in Nat /\ now <= MaxTime
  <2>1. now = 0
    BY DEF Init
  <2>2. QED
    BY <2>1, PollAssumption
<1>7. QED
  BY <1>1, <1>2, <1>3, <1>4, <1>5, <1>6 DEF LifecycleTypeOK

LEMMA TypeCorrect == Spec => []LifecycleTypeOK
BY TypesInitially, TypesInductive, PTL DEF Spec

-----------------------------------------------------------------------------
\* Letters.

\* The owner, and whoever only follows, get at most one letter of a decision; the
\* owner and the participants get one.
LEMMA LettersToEach ==
    ASSUME NEW p \in People, NEW a \in Managers
    PROVE  /\ p = Owner \/ p \notin Participants => Letters(p, a) \in {0, 1}
           /\ p \in Participants \cup {Owner} => Letters(p, a) \in {1, 2}
BY DEF Letters, Subscribers

\* timers.go:371-398 does not touch the letters of a decision; every step but the
\* decision leaves them as they are.
LEMMA LettersStay ==
    ASSUME LifecycleTypeOK, [Next]_vars, \A r \in Requests : ~WriteFinalize(r)
    PROVE  /\ queued'["finalized"] = queued["finalized"]
           /\ count'.decisions = count.decisions
<1>1. ASSUME NEW k \in Kinds, NEW p \in People, Tell(k, p)
      PROVE  queued'["finalized"] = queued["finalized"] /\ count' = count
  BY <1>1 DEF Tell, Event, LifecycleTypeOK
<1>2. CASE CloseExpired
  BY <1>2 DEF CloseExpired, LifecycleTypeOK
<1>3. CASE UNCHANGED vars
  BY <1>3 DEF vars
<1>4. ASSUME NEW r \in Requests,
             BeginUpdate(r) \/ BeginStatus(r) \/ BeginFinalize(r) \/ BeginDelete(r) \/ Write(r)
      PROVE  UNCHANGED <<queued, count>>
  BY <1>4 DEF BeginUpdate, BeginStatus, BeginFinalize, BeginDelete, Begin, Write, WriteUpdate,
              WriteStatus, WriteDelete
<1>5. ASSUME NEW p \in People, SetFollowing(p) \/ UpdateNotificationPrefs(p) \/ Deliver(p)
      PROVE  UNCHANGED <<queued, count>>
  BY <1>5 DEF SetFollowing, UpdateNotificationPrefs, Follows, Deliver
<1>6. ASSUME NEW k \in Kinds, Take(k) \/ Look(k) \/ Complete(k) \/ Crash(k)
      PROVE  UNCHANGED <<queued, count>>
  BY <1>6 DEF Take, Look, Complete, Crash
<1>7. CASE SetSuspended \/ CheckSuspended \/ Defer \/ ReadExpired \/ Tick
  BY <1>7 DEF SetSuspended, CheckSuspended, Defer, ReadExpired, Tick
<1>8. QED
  BY <1>1, <1>2, <1>3, <1>4, <1>5, <1>6, <1>7 DEF Next, DeadlineWorker, Worker, Kinds

\* service.go:640-683: the owner, who may take part and follow as well, and
\* whoever only follows, get one letter per decision.
THEOREM ToldOnceAlways == Spec => []ToldOnce
<1>1. Init => ToldOnce
  BY DEF Init, ToldOnce
<1>2. LifecycleTypeOK /\ ToldOnce /\ [Next]_vars => ToldOnce'
  <2> SUFFICES ASSUME LifecycleTypeOK, ToldOnce, [Next]_vars PROVE ToldOnce'
    OBVIOUS
  <2>1. ASSUME NEW r \in Requests, WriteFinalize(r) PROVE ToldOnce'
    <3> SUFFICES ASSUME NEW p \in People, p = Owner \/ p \notin Participants
                 PROVE  queued'["finalized"][p] <= count'.decisions
      BY DEF ToldOnce
    <3>1. req[r].actor \in Managers
      BY <2>1 DEF WriteFinalize, LifecycleTypeOK, RequestRecord, UpdateRequest, StatusRequest,
                  FinalizeRequest, IdleOrDelete
    <3>2. Letters(p, req[r].actor) \in {0, 1}
      BY <3>1, LettersToEach
    <3>3. queued'["finalized"][p] = queued["finalized"][p] + Letters(p, req[r].actor)
      BY <2>1 DEF WriteFinalize, LifecycleTypeOK
    <3>4. count'.decisions = count.decisions + 1
      BY <2>1 DEF WriteFinalize, LifecycleTypeOK
    <3>5. queued["finalized"][p] <= count.decisions
      BY DEF ToldOnce
    <3>6. queued["finalized"][p] \in Nat /\ count.decisions \in Nat
      BY DEF LifecycleTypeOK
    <3>7. QED
      BY <3>2, <3>3, <3>4, <3>5, <3>6
  <2>2. CASE \A r \in Requests : ~WriteFinalize(r)
    BY <2>2, LettersStay DEF ToldOnce
  <2>3. QED
    BY <2>1, <2>2
<1>3. QED
  BY <1>1, <1>2, TypeCorrect, PTL DEF Spec

-----------------------------------------------------------------------------
\* Closings.

\* A step that queues no letter of a closing, and leaves no more to be queued.
Quiet == /\ queued'["closed"] = queued["closed"] /\ count'.closings = count.closings
         /\ \A p \in People : Pending(p)' \in {0, Pending(p)}

LEMMA QuietCloses ==
    ASSUME LifecycleTypeOK, ClosingInv, Quiet
    PROVE  ClosingInv'
<1> SUFFICES ASSUME NEW p \in People
             PROVE  queued'["closed"][p] + Pending(p)' <= count'.closings
  BY DEF ClosingInv
<1>1. queued["closed"][p] + Pending(p) <= count.closings
  BY DEF ClosingInv
<1>2. queued["closed"][p] \in Nat /\ count.closings \in Nat /\ Pending(p) \in {0, 1}
  BY DEF LifecycleTypeOK, Pending
<1>3. queued'["closed"][p] = queued["closed"][p] /\ count'.closings = count.closings
  BY DEF Quiet
<1>4. Pending(p)' \in {0, Pending(p)}
  BY DEF Quiet
<1>5. QED
  BY <1>1, <1>2, <1>3, <1>4

\* Who has the job in hand keeps his place in it.
SamePlace == /\ hand'["deadline"].pc = hand["deadline"].pc
             /\ hand'["deadline"].left = hand["deadline"].left

LEMMA SamePlacePending == SamePlace => \A p \in People : Pending(p)' = Pending(p)
BY DEF SamePlace, Pending

LEMMA DisownSamePlace == LifecycleTypeOK /\ Disown => SamePlace
BY DEF Disown, SamePlace, LifecycleTypeOK, HandRecord, Kinds

LEMMA WritesAreQuiet ==
    ASSUME LifecycleTypeOK, NEW r \in Requests, Write(r)
    PROVE  Quiet
<1>1. queued'["closed"] = queued["closed"] /\ count'.closings = count.closings
  BY DEF Write, WriteUpdate, WriteStatus, WriteFinalize, WriteDelete, LifecycleTypeOK
<1>2. SamePlace
  <2>1. CASE WriteUpdate(r)
    BY <2>1, DisownSamePlace DEF WriteUpdate, Arm, SamePlace
  <2>2. CASE WriteStatus(r)
    BY <2>2 DEF WriteStatus, SamePlace
  <2>3. CASE WriteFinalize(r) \/ WriteDelete(r)
    BY <2>3, DisownSamePlace DEF WriteFinalize, WriteDelete, CancelTimers
  <2>4. QED
    BY <2>1, <2>2, <2>3 DEF Write
<1>3. QED
  BY <1>1, <1>2, SamePlacePending DEF Quiet

LEMMA OthersAreQuiet ==
    ASSUME LifecycleTypeOK,
           \/ \E r \in Requests : BeginUpdate(r) \/ BeginStatus(r) \/ BeginFinalize(r) \/ BeginDelete(r)
           \/ \E p \in People : SetFollowing(p) \/ UpdateNotificationPrefs(p) \/ Deliver(p)
           \/ SetSuspended \/ Tick \/ UNCHANGED vars
    PROVE  Quiet
<1>1. UNCHANGED <<queued, count, hand>>
  BY DEF BeginUpdate, BeginStatus, BeginFinalize, BeginDelete, Begin, SetFollowing,
         UpdateNotificationPrefs, Follows, Deliver, SetSuspended, Tick, vars
<1>2. QED
  BY <1>1, SamePlacePending DEF Quiet, SamePlace

LEMMA ReminderIsQuiet ==
    ASSUME LifecycleTypeOK, Worker("reminder") \/ Crash("reminder")
    PROVE  Quiet
<1>1. hand'["deadline"] = hand["deadline"]
  BY DEF Worker, Take, Look, Complete, Tell, Go, Crash, LifecycleTypeOK, Kinds
<1>2. queued'["closed"] = queued["closed"] /\ count' = count
  BY DEF Worker, Take, Look, Complete, Tell, Event, Crash, LifecycleTypeOK, Kinds
<1>3. QED
  BY <1>1, <1>2, SamePlacePending DEF Quiet, SamePlace

\* The steps of the deadline job up to the closing, and those that put it down.
LEMMA EarlyStepsAreQuiet ==
    ASSUME LifecycleTypeOK,
           \/ Take("deadline") \/ Complete("deadline") \/ Crash("deadline")
           \/ CheckSuspended \/ Defer \/ ReadExpired
    PROVE  Quiet
<1>1. hand'["deadline"].pc \in {"idle", "check", "defer", "read", "close", "done"}
  BY DEF Take, Complete, Crash, CheckSuspended, Defer, ReadExpired, Go, NoHand, LifecycleTypeOK,
         HandRecord, Kinds
<1>2. \A p \in People : Pending(p)' = 0
  BY <1>1 DEF Pending
<1>3. UNCHANGED <<queued, count>>
  BY DEF Take, Complete, Crash, CheckSuspended, Defer, ReadExpired
<1>4. QED
  BY <1>2, <1>3 DEF Quiet

LEMMA ClosingInductive == LifecycleTypeOK /\ ClosingInv /\ [Next]_vars => ClosingInv'
<1> SUFFICES ASSUME LifecycleTypeOK, ClosingInv, [Next]_vars PROVE ClosingInv'
  OBVIOUS
<1>1. "deadline" \in Kinds /\ hand["deadline"] \in HandRecord
  BY DEF Kinds, LifecycleTypeOK
<1>2. CASE Look("deadline")
  <2>1. \A p \in People : Pending(p) = 1
    BY <1>2 DEF Look, At, Pending
  <2>2. UNCHANGED <<queued, count>>
    BY <1>2 DEF Look
  <2>3. \A p \in People : Pending(p)' \in {0, 1}
    BY DEF Pending
  <2>4. QED
    BY <2>1, <2>2, <2>3, QuietCloses DEF Quiet
<1>3. ASSUME NEW p \in People, Tell("deadline", p) PROVE ClosingInv'
  <2> SUFFICES ASSUME NEW x \in People
               PROVE  queued'["closed"][x] + Pending(x)' <= count'.closings
    BY DEF ClosingInv
  <2>1. queued["closed"][x] + Pending(x) <= count.closings
    BY DEF ClosingInv
  <2>2. queued["closed"][x] \in Nat /\ count.closings \in Nat
    BY DEF LifecycleTypeOK
  <2>3. /\ hand["deadline"].pc = "tell" /\ p \in hand["deadline"].left
        /\ hand'["deadline"].pc = "tell" /\ hand'["deadline"].left = hand["deadline"].left \ {p}
    BY <1>1, <1>3 DEF Tell, At, Go, LifecycleTypeOK, HandRecord
  <2>4. queued'["closed"][x] = IF x = p THEN queued["closed"][x] + 1 ELSE queued["closed"][x]
    BY <1>3 DEF Tell, Event, LifecycleTypeOK
  <2>5. Pending(x)' = IF x = p THEN 0 ELSE Pending(x)
    BY <2>3 DEF Pending
  <2>6. x = p => Pending(x) = 1
    BY <2>3 DEF Pending
  <2>7. count' = count /\ Pending(x) \in {0, 1}
    BY <1>3 DEF Tell, Pending
  <2>8. QED
    BY <2>1, <2>2, <2>4, <2>5, <2>6, <2>7
<1>4. CASE CloseExpired
  <2> SUFFICES ASSUME NEW x \in People
               PROVE  queued'["closed"][x] + Pending(x)' <= count'.closings
    BY DEF ClosingInv
  <2>1. Pending(x) = 0
    BY <1>4 DEF CloseExpired, At, Pending
  <2>2. queued["closed"][x] + Pending(x) <= count.closings
    BY DEF ClosingInv
  <2>3. queued["closed"][x] \in Nat /\ count.closings \in Nat
    BY DEF LifecycleTypeOK
  <2>4. queued' = queued /\ count'.closings = count.closings + 1
    BY <1>4 DEF CloseExpired, LifecycleTypeOK
  <2>5. Pending(x)' \in {0, 1}
    BY DEF Pending
  <2>6. QED
    BY <2>1, <2>2, <2>3, <2>4, <2>5
<1>5. QED
  BY <1>2, <1>3, <1>4, QuietCloses, WritesAreQuiet, OthersAreQuiet, ReminderIsQuiet,
     EarlyStepsAreQuiet
     DEF Next, DeadlineWorker, Worker, Kinds

\* timers.go:371-398: however often the deadline job is run again, or armed anew,
\* a closing is announced to nobody twice.
THEOREM ClosedOnceAlways == Spec => []ClosedOnce
<1>1. Init => ClosingInv
  <2> SUFFICES ASSUME Init, NEW p \in People
               PROVE  queued["closed"][p] + Pending(p) <= count.closings
    BY DEF ClosingInv
  <2>1. queued["closed"][p] = 0 /\ count.closings = 0
    BY DEF Init
  <2>2. hand["deadline"].pc = "idle"
    BY DEF Init, NoHand, Kinds
  <2>3. QED
    BY <2>1, <2>2 DEF Pending
<1>2. LifecycleTypeOK /\ ClosingInv => ClosedOnce
  <2> SUFFICES ASSUME LifecycleTypeOK, ClosingInv, NEW p \in People
               PROVE  queued["closed"][p] <= count.closings
    BY DEF ClosedOnce
  <2>1. queued["closed"][p] + Pending(p) <= count.closings
    BY DEF ClosingInv
  <2>2. queued["closed"][p] \in Nat /\ count.closings \in Nat /\ Pending(p) \in {0, 1}
    BY DEF LifecycleTypeOK, Pending
  <2>3. QED
    BY <2>1, <2>2
<1>3. QED
  BY <1>1, <1>2, TypeCorrect, ClosingInductive, PTL DEF Spec

-----------------------------------------------------------------------------
\* The decision and its letters.

\* A step after which the poll, its letters and who was told are as they were, or
\* there is less of a decision to tell.
NoDecision ==
    /\ post' = post /\ told' = told /\ missed' = missed
    /\ \/ poll'.deleted \/ poll'.status # "finalized"
       \/ /\ ~poll.deleted /\ poll.status = "finalized"
          /\ poll'.chosen = poll.chosen /\ poll'.options \subseteq poll.options

LEMMA NoDecisionReaches ==
    ASSUME DecisionReaches, NoDecision
    PROVE  DecisionReaches'
BY DEF DecisionReaches, NoDecision

LEMMA WritesDecide ==
    ASSUME LifecycleTypeOK, NEW r \in Requests, Write(r), ~WriteFinalize(r)
    PROVE  NoDecision
<1>1. poll \in PollRow /\ req[r] \in RequestRecord
  BY DEF LifecycleTypeOK
<1>2. CASE WriteUpdate(r)
  <2>1. post' = post /\ told' = told /\ missed' = missed
    BY <1>2 DEF WriteUpdate, history
  <2>2. /\ poll'.deleted = poll.deleted /\ poll'.status = poll.status
        /\ poll'.chosen = poll.chosen /\ poll'.options \subseteq poll.options
    BY <1>1, <1>2 DEF WriteUpdate, UpdatePoll, ReplaceOptions, PollRow
  <2>3. poll.deleted \in BOOLEAN
    BY <1>1 DEF PollRow
  <2>4. QED
    BY <2>1, <2>2, <2>3 DEF NoDecision
<1>3. CASE WriteStatus(r)
  <2>1. req[r].status # "finalized"
    BY <1>1, <1>3 DEF WriteStatus, RequestRecord, UpdateRequest, StatusRequest, FinalizeRequest,
                      IdleOrDelete
  <2>2. poll'.status # "finalized"
    BY <1>1, <1>3, <2>1 DEF WriteStatus, SetPollStatus, PollRow
  <2>3. QED
    BY <1>3, <2>2 DEF WriteStatus, history, NoDecision
<1>4. CASE WriteDelete(r)
  BY <1>1, <1>4 DEF WriteDelete, SoftDeletePoll, history, NoDecision, PollRow
<1>5. QED
  BY <1>2, <1>3, <1>4 DEF Write

LEMMA OthersDecideNothing ==
    ASSUME LifecycleTypeOK,
           \/ \E r \in Requests : BeginUpdate(r) \/ BeginStatus(r) \/ BeginFinalize(r) \/ BeginDelete(r)
           \/ \E p \in People : SetFollowing(p) \/ UpdateNotificationPrefs(p)
           \/ SetSuspended \/ DeadlineWorker \/ Worker("reminder")
           \/ \E k \in Kinds : Crash(k)
           \/ Tick \/ UNCHANGED vars
    PROVE  NoDecision
<1>1. poll \in PollRow
  BY DEF LifecycleTypeOK
<1>2. post' = post /\ told' = told /\ missed' = missed
  BY DEF BeginUpdate, BeginStatus, BeginFinalize, BeginDelete, Begin, SetFollowing,
         UpdateNotificationPrefs, Follows, SetSuspended, DeadlineWorker, Worker, Take, Look, Tell,
         Complete, CheckSuspended, Defer, ReadExpired, CloseExpired, Crash, Tick, vars, history
<1>3. CASE SetSuspended
  <2>1. /\ poll'.deleted = poll.deleted /\ poll'.status = poll.status
        /\ poll'.chosen = poll.chosen /\ poll'.options = poll.options
    BY <1>1, <1>3 DEF SetSuspended, PollRow
  <2>2. poll.deleted \in BOOLEAN
    BY <1>1 DEF PollRow
  <2>3. QED
    BY <1>2, <2>1, <2>2 DEF NoDecision
<1>4. CASE CloseExpired
  BY <1>1, <1>2, <1>4 DEF CloseExpired, SetPollStatus, NoDecision, PollRow
<1>5. CASE ~SetSuspended /\ ~CloseExpired
  <2>1. poll' = poll
    BY <1>5
       DEF BeginUpdate, BeginStatus, BeginFinalize, BeginDelete, Begin, SetFollowing,
           UpdateNotificationPrefs, Follows, DeadlineWorker, Worker, Take, Look, Tell,
           Complete, CheckSuspended, Defer, ReadExpired, Crash, Tick, vars
  <2>2. poll.deleted \in BOOLEAN
    BY <1>1 DEF PollRow
  <2>3. QED
    BY <1>2, <2>1, <2>2 DEF NoDecision
<1>6. QED
  BY <1>3, <1>4, <1>5

\* A letter that is delivered tells of the decision that stands, or finds the poll
\* hidden.
LEMMA DeliveryReaches ==
    ASSUME LifecycleTypeOK, DecisionReaches, NEW p \in People, Deliver(p)
    PROVE  DecisionReaches'
<1> SUFFICES ASSUME ~poll.deleted, poll.status = "finalized", poll.chosen \in poll.options,
                    NEW x \in Participants \cup {Owner}
             PROVE  post'[x] > 0 \/ <<x, poll.chosen>> \in told' \/ x \in missed'
  BY DEF DecisionReaches, Deliver
<1>1. post[x] > 0 \/ <<x, poll.chosen>> \in told \/ x \in missed
  BY DEF DecisionReaches
<1>2. told \subseteq told' /\ missed \subseteq missed'
  BY DEF Deliver, history
<1>3. CASE x = p
  <2>1. <<p, poll.chosen>> \in told' \/ p \in missed'
    BY DEF Deliver
  <2>2. QED
    BY <1>3, <2>1
<1>4. CASE x # p
  <2>1. post'[x] = post[x]
    BY <1>4, PollAssumption DEF Deliver, LifecycleTypeOK
  <2>2. QED
    BY <1>1, <1>2, <2>1
<1>5. QED
  BY <1>3, <1>4

\* service.go:614-663, timers.go:549-626: while a decision stands, every address
\* among the participants and the owner has been told it, has a letter on its way,
\* or was to be told while the poll was hidden.
THEOREM DecisionAlwaysReaches == Spec => []DecisionReaches
<1>1. Init => DecisionReaches
  <2>1. Init => poll.status = "open"
    BY DEF Init, Created, Duplicated, NewPoll
  <2>2. QED
    BY <2>1 DEF DecisionReaches
<1>2. LifecycleTypeOK /\ DecisionReaches /\ [Next]_vars => DecisionReaches'
  <2> SUFFICES ASSUME LifecycleTypeOK, DecisionReaches, [Next]_vars PROVE DecisionReaches'
    OBVIOUS
  <2>1. ASSUME NEW r \in Requests, WriteFinalize(r) PROVE DecisionReaches'
    <3> SUFFICES ASSUME NEW p \in Participants \cup {Owner} PROVE post'[p] > 0
      BY DEF DecisionReaches
    <3>1. p \in People
      BY PollAssumption
    <3>2. req[r].actor \in Managers
      BY <2>1 DEF WriteFinalize, LifecycleTypeOK, RequestRecord, UpdateRequest, StatusRequest,
                  FinalizeRequest, IdleOrDelete
    <3>3. Letters(p, req[r].actor) \in {1, 2}
      BY <3>1, <3>2, LettersToEach
    <3>4. post'[p] = post[p] + Letters(p, req[r].actor) /\ post[p] \in Nat
      BY <2>1, <3>1 DEF WriteFinalize, LifecycleTypeOK
    <3>5. QED
      BY <3>3, <3>4
  <2>2. ASSUME NEW r \in Requests, Write(r), ~WriteFinalize(r) PROVE DecisionReaches'
    BY <2>2, WritesDecide, NoDecisionReaches
  <2>3. ASSUME NEW p \in People, Deliver(p) PROVE DecisionReaches'
    BY <2>3, DeliveryReaches
  <2>4. QED
    BY <2>1, <2>2, <2>3, OthersDecideNothing, NoDecisionReaches DEF Next
<1>3. QED
  BY <1>1, <1>2, TypeCorrect, PTL DEF Spec

-----------------------------------------------------------------------------
\* The timer: one lemma per way to move it, the poll or the clock.

\* Requests, letters and the other job leave the deadline's job alone.
SameArm ==
    /\ poll'.deadline = poll.deadline /\ poll'.status = poll.status /\ poll'.deleted = poll.deleted
    /\ timer'["deadline"] = timer["deadline"] /\ hand'["deadline"] = hand["deadline"]
    /\ parted' = parted /\ late' = late /\ now' = now

LEMMA SameArmKeeps == ArmInv /\ SameArm => ArmInv'
BY DEF SameArm, ArmInv, HeldIsDue, JobOnTime, NotEarly, InHand, LastLook, DeadlineArmed, Live

LEMMA OthersKeepArm ==
    ASSUME LifecycleTypeOK,
           \/ \E r \in Requests : BeginUpdate(r) \/ BeginStatus(r) \/ BeginFinalize(r) \/ BeginDelete(r)
           \/ \E p \in People : SetFollowing(p) \/ UpdateNotificationPrefs(p) \/ Deliver(p)
           \/ SetSuspended \/ Worker("reminder") \/ Crash("reminder") \/ UNCHANGED vars
    PROVE  SameArm
<1>1. /\ UNCHANGED <<parted, late, now>>
      /\ timer'["deadline"] = timer["deadline"]
  BY DEF BeginUpdate, BeginStatus, BeginFinalize, BeginDelete, Begin, SetFollowing,
         UpdateNotificationPrefs, Follows, Deliver, SetSuspended, Worker, Take, Look, Tell,
         Complete, Crash, vars, LifecycleTypeOK, Kinds
<1>2. hand'["deadline"] = hand["deadline"]
  BY DEF BeginUpdate, BeginStatus, BeginFinalize, BeginDelete, Begin, SetFollowing,
         UpdateNotificationPrefs, Follows, Deliver, SetSuspended, Worker, Take, Look, Tell,
         Complete, Go, Crash, vars, LifecycleTypeOK, Kinds
<1>3. /\ poll'.deadline = poll.deadline /\ poll'.status = poll.status
      /\ poll'.deleted = poll.deleted
  BY DEF BeginUpdate, BeginStatus, BeginFinalize, BeginDelete, Begin, SetFollowing,
         UpdateNotificationPrefs, Follows, Deliver, SetSuspended, Worker, Take, Look, Tell,
         Complete, Crash, vars, LifecycleTypeOK, PollRow
<1>4. QED
  BY <1>1, <1>2, <1>3 DEF SameArm

\* An edit that gives a deadline arms the job anew, whatever was there before.
LEMMA ArmArms ==
    ASSUME LifecycleTypeOK, NEW d \in Nat \cup {None}, Arm(d), poll'.deadline = d,
           late' = FALSE, now' = now
    PROVE  ArmInv'
<1>1. timer'["deadline"] = d
  BY DEF Arm
<1>2. hand'["deadline"].own = FALSE
  BY DEF Arm, Disown, LifecycleTypeOK, HandRecord, Kinds
<1>3. HeldIsDue' /\ LastLook'
  BY <1>2 DEF HeldIsDue, LastLook
<1>4. JobOnTime' /\ NotEarly' /\ InHand' /\ DeadlineArmed'
  BY <1>1, PollAssumption DEF JobOnTime, NotEarly, InHand, DeadlineArmed, Live
<1>5. QED
  BY <1>3, <1>4 DEF ArmInv

\* One that gives none keeps the job, and parts it from a deadline it writes back.
LEMMA EditKeeps ==
    ASSUME LifecycleTypeOK, ArmInv,
           poll'.status = poll.status, poll'.deleted = poll.deleted,
           parted' = (parted \/ poll'.deadline # poll.deadline),
           UNCHANGED <<timer, hand, late, now>>
    PROVE  ArmInv'
BY DEF ArmInv, HeldIsDue, JobOnTime, NotEarly, InHand, LastLook, DeadlineArmed, Live

\* Closed or opened by hand.
LEMMA StatusKeeps ==
    ASSUME LifecycleTypeOK, ArmInv, poll'.status \in {"open", "closed"},
           poll'.deadline = poll.deadline, poll'.deleted = poll.deleted,
           late' = (late \/ (poll'.status = "open" /\ Expired)),
           parted' = (parted \/ poll.status = "finalized"),
           UNCHANGED <<timer, hand, now>>
    PROVE  ArmInv'
<1>1. CASE parted'
  BY <1>1 DEF ArmInv, HeldIsDue, JobOnTime, NotEarly, InHand, LastLook, DeadlineArmed, Live
<1>2. CASE ~parted'
  <2>1. /\ Live' <=> Live
        /\ poll.deadline \in Nat \cup {None} /\ timer["deadline"] \in Nat \cup {None} /\ now \in Nat
    BY <1>2 DEF Live, LifecycleTypeOK, PollRow, Kinds
  <2>2. HeldIsDue' /\ JobOnTime' /\ NotEarly' /\ InHand'
    BY <2>1 DEF ArmInv, HeldIsDue, JobOnTime, NotEarly, InHand
  <2>3. Live /\ poll'.status = "open" /\ ~late' => ~late /\ now < poll.deadline
    <3>1. ~late' => ~late /\ ~(poll'.status = "open" /\ Expired)
      OBVIOUS
    <3>2. Live /\ ~Expired => now < poll.deadline
      BY <2>1 DEF Expired, Live
    <3>3. QED
      BY <3>1, <3>2
  <2>4. LastLook'
    BY <2>1, <2>3, PollAssumption DEF ArmInv, LastLook, HeldIsDue, NotEarly, Live
  <2>5. DeadlineArmed'
    <3>1. SUFFICES ASSUME Live, poll'.status = "open", ~late'
                   PROVE  timer["deadline"] # None /\ timer["deadline"] <= poll.deadline
      BY <1>2, <2>1 DEF DeadlineArmed, Live
    <3>2. timer["deadline"] = poll.deadline
      BY <2>3, <3>1 DEF ArmInv, JobOnTime
    <3>3. QED
      BY <2>1, <3>1, <3>2, PollAssumption DEF Live
  <2>6. QED
    BY <2>2, <2>4, <2>5 DEF ArmInv
<1>3. QED
  BY <1>1, <1>2

\* Decided or deleted: no timer, and none expected.
LEMMA CancelKeeps ==
    ASSUME LifecycleTypeOK, CancelTimers, poll'.status = "finalized" \/ poll'.deleted
    PROVE  ArmInv'
<1>1. hand'["deadline"].own = FALSE
  BY DEF CancelTimers, Disown, LifecycleTypeOK, HandRecord, Kinds
<1>2. QED
  BY <1>1 DEF ArmInv, HeldIsDue, JobOnTime, NotEarly, InHand, LastLook, DeadlineArmed, Live

LEMMA WritesKeepArm ==
    ASSUME LifecycleTypeOK, ArmInv, NEW r \in Requests, Write(r)
    PROVE  ArmInv'
<1>1. poll \in PollRow /\ req[r] \in RequestRecord
  BY DEF LifecycleTypeOK
<1>2. CASE WriteUpdate(r)
  <2>1. req[r].deadline \in Nat \cup {None}
    BY <1>1, <1>2 DEF WriteUpdate, RequestRecord, UpdateRequest, StatusRequest, FinalizeRequest,
                      IdleOrDelete
  <2>2. /\ poll'.deadline = req[r].deadline /\ poll'.status = poll.status
        /\ poll'.deleted = poll.deleted /\ now' = now
    BY <1>1, <1>2 DEF WriteUpdate, UpdatePoll, PollRow
  <2>3. CASE req[r].given
    BY <1>2, <2>1, <2>2, <2>3, ArmArms DEF WriteUpdate
  <2>4. CASE ~req[r].given
    BY <1>2, <2>2, <2>4, EditKeeps DEF WriteUpdate
  <2>5. QED
    BY <2>3, <2>4
<1>3. CASE WriteStatus(r)
  <2>1. req[r].status \in {"open", "closed"}
    BY <1>1, <1>3 DEF WriteStatus, RequestRecord, UpdateRequest, StatusRequest, FinalizeRequest,
                      IdleOrDelete
  <2>2. /\ poll'.status = req[r].status /\ poll'.deadline = poll.deadline
        /\ poll'.deleted = poll.deleted
    BY <1>1, <1>3 DEF WriteStatus, SetPollStatus, PollRow
  <2>3. QED
    BY <1>3, <2>1, <2>2, StatusKeeps DEF WriteStatus
<1>4. CASE WriteFinalize(r)
  BY <1>1, <1>4, CancelKeeps DEF WriteFinalize, FinalizePoll, PollRow
<1>5. CASE WriteDelete(r)
  BY <1>1, <1>5, CancelKeeps DEF WriteDelete, SoftDeletePoll, PollRow
<1>6. QED
  BY <1>2, <1>3, <1>4, <1>5 DEF Write

\* The worker of the deadline job.

LEMMA TakeKeepsArm ==
    ASSUME LifecycleTypeOK, ArmInv, Take("deadline")
    PROVE  ArmInv'
<1>1. /\ hand'["deadline"].pc = "check" /\ timer["deadline"] # None /\ timer["deadline"] <= now
      /\ UNCHANGED <<poll, timer, parted, late, now>>
  BY DEF Take, LifecycleTypeOK, HandRecord, Kinds
<1>2. QED
  BY <1>1 DEF ArmInv, HeldIsDue, JobOnTime, NotEarly, InHand, LastLook, DeadlineArmed, Live

\* A worker that goes on with what it has in hand.
LEMMA GoKeepsArm ==
    ASSUME LifecycleTypeOK, ArmInv, NEW pc \in HandPcs, NEW left \in SUBSET People,
           Go("deadline", pc, left), hand["deadline"].pc # "idle",
           UNCHANGED <<poll, timer, late, now>>, parted => parted',
           pc \in {"look", "tell", "done"} => LastLook'
    PROVE  ArmInv'
<1>1. hand'["deadline"].pc = pc /\ hand'["deadline"].own = hand["deadline"].own
  BY DEF Go, LifecycleTypeOK, HandRecord, Kinds
<1>2. HeldIsDue' /\ JobOnTime' /\ NotEarly' /\ InHand' /\ DeadlineArmed'
  BY <1>1 DEF ArmInv, HeldIsDue, JobOnTime, NotEarly, InHand, DeadlineArmed, Live
<1>3. LastLook'
  BY <1>1 DEF LastLook
<1>4. QED
  BY <1>2, <1>3 DEF ArmInv

\* A handler that finds the poll not yet due, closed or hidden is done with it: not
\* so with a poll whose job it still has, unless somebody has parted the two.
LEMMA ReadKeepsArm ==
    ASSUME LifecycleTypeOK, ArmInv, ReadExpired
    PROVE  ArmInv'
<1>1. /\ UNCHANGED <<poll, timer, late, now>> /\ (parted' <=> parted \/ poll.suspended)
      /\ hand["deadline"].pc = "read"
  BY DEF ReadExpired, At, LifecycleTypeOK, PollRow
<1>2. poll.deadline \in Nat \cup {None} /\ timer["deadline"] \in Nat \cup {None} /\ now \in Nat
  BY DEF LifecycleTypeOK, PollRow, Kinds
<1>3. CASE Visible /\ poll.status = "open" /\ Expired
  <2>1. Go("deadline", "close", {})
    BY <1>3 DEF ReadExpired
  <2>2. QED
    BY <1>1, <2>1, GoKeepsArm DEF HandPcs
<1>4. CASE ~(Visible /\ poll.status = "open" /\ Expired)
  <2>1. Go("deadline", "done", {})
    BY <1>4 DEF ReadExpired
  <2>2. hand'["deadline"].own = hand["deadline"].own
    BY <2>1 DEF Go, LifecycleTypeOK, HandRecord, Kinds
  <2>3. LastLook'
    <3>1. SUFFICES ASSUME Live', hand["deadline"].own, poll.status = "open" PROVE FALSE
      BY <1>1, <2>2 DEF LastLook
    <3>2. Live /\ ~poll.suspended
      BY <1>1, <3>1 DEF Live
    <3>3. ~Expired
      BY <1>4, <3>1, <3>2 DEF Visible, Live
    <3>4. /\ timer["deadline"] # None /\ timer["deadline"] <= now
          /\ poll.deadline <= timer["deadline"]
      BY <3>1, <3>2 DEF ArmInv, HeldIsDue, NotEarly
    <3>5. QED
      BY <1>2, <3>2, <3>3, <3>4, PollAssumption DEF Expired, Live
  <2>4. QED
    BY <1>1, <2>1, <2>3, GoKeepsArm DEF HandPcs
<1>5. QED
  BY <1>3, <1>4

LEMMA LaterStepsKeepArm ==
    ASSUME LifecycleTypeOK, ArmInv,
           CheckSuspended \/ Look("deadline") \/ \E p \in People : Tell("deadline", p)
    PROVE  ArmInv'
<1>1. UNCHANGED <<poll, timer, parted, late, now>> /\ hand["deadline"].pc # "idle"
  BY DEF CheckSuspended, Look, Tell, At
<1>2. CASE CheckSuspended
  <2>1. Go("deadline", IF PollSuspended THEN "defer" ELSE "read", {})
    BY <1>2 DEF CheckSuspended
  <2>2. QED
    BY <1>1, <2>1, GoKeepsArm DEF HandPcs
<1>3. CASE Look("deadline") \/ \E p \in People : Tell("deadline", p)
  <2>1. \E pc \in {"tell", "done"}, left \in SUBSET People : Go("deadline", pc, left)
    <3>1. CASE Look("deadline")
      BY <3>1 DEF Look, Subscribers, LifecycleTypeOK
    <3>2. ASSUME NEW p \in People, Tell("deadline", p)
          PROVE  \E pc \in {"tell", "done"}, left \in SUBSET People : Go("deadline", pc, left)
      <4>1. hand["deadline"].left \ {p} \in SUBSET People
        BY DEF LifecycleTypeOK, HandRecord, Kinds
      <4>2. QED
        BY <3>2, <4>1 DEF Tell
    <3>3. QED
      BY <1>3, <3>1, <3>2
  <2>2. PICK pc \in {"tell", "done"}, left \in SUBSET People : Go("deadline", pc, left)
    BY <2>1
  <2>3. hand'["deadline"].pc = pc /\ hand'["deadline"].own = hand["deadline"].own
    BY <2>2 DEF Go, LifecycleTypeOK, HandRecord, Kinds
  <2>4. hand["deadline"].pc \in {"look", "tell"}
    BY <1>3 DEF Look, Tell, At
  <2>5. LastLook'
    BY <1>1, <2>3, <2>4 DEF ArmInv, LastLook, Live
  <2>6. QED
    BY <1>1, <2>2, <2>5, GoKeepsArm DEF HandPcs
<1>4. QED
  BY <1>2, <1>3

LEMMA CloseKeepsArm ==
    ASSUME LifecycleTypeOK, ArmInv, CloseExpired
    PROVE  ArmInv'
<1>1. /\ poll'.status = "closed" /\ poll'.deadline = poll.deadline
      /\ poll'.deleted = poll.deleted /\ poll \in PollRow
  BY DEF CloseExpired, SetPollStatus, LifecycleTypeOK, PollRow
<1>2. /\ hand'["deadline"].pc = "look" /\ hand'["deadline"].own = hand["deadline"].own
      /\ hand["deadline"].pc = "close"
  BY DEF CloseExpired, Go, At, LifecycleTypeOK, HandRecord, Kinds
<1>3. UNCHANGED <<timer, late, now>> /\ (parted' <=> parted \/ poll.status = "finalized")
  BY DEF CloseExpired, LifecycleTypeOK
<1>4. Live' => Live
  BY <1>1, <1>3 DEF Live
<1>5. HeldIsDue' /\ JobOnTime' /\ NotEarly' /\ InHand'
  BY <1>1, <1>2, <1>3, <1>4 DEF ArmInv, HeldIsDue, JobOnTime, NotEarly, InHand
<1>6. LastLook' /\ DeadlineArmed'
  BY <1>1 DEF LastLook, DeadlineArmed
<1>7. QED
  BY <1>5, <1>6 DEF ArmInv

\* Put off while the poll is suspended, but for no longer than until the next look.
LEMMA DeferKeepsArm ==
    ASSUME LifecycleTypeOK, ArmInv, Defer
    PROVE  ArmInv'
<1> DEFINE next == IF now + Recheck < MaxTime THEN now + Recheck ELSE MaxTime
<1>1. /\ timer'["deadline"] = next /\ UNCHANGED <<poll, late, now>>
      /\ hand["deadline"].pc = "defer" /\ hand["deadline"].own \in BOOLEAN
  BY DEF Defer, At, LifecycleTypeOK, HandRecord, Kinds
<1>2. parted' <=> parted \/ (~hand["deadline"].own /\ timer["deadline"] # None)
  BY DEF Defer, LifecycleTypeOK
<1>3. hand'["deadline"] = NoHand
  BY DEF Defer, LifecycleTypeOK, Kinds
<1>4. /\ now \in Nat /\ now <= MaxTime /\ MaxTime \in Nat /\ Recheck \in Nat /\ Recheck > 0
      /\ poll.deadline \in Nat \cup {None} /\ timer["deadline"] \in Nat \cup {None}
  BY PollAssumption DEF LifecycleTypeOK, PollRow, Kinds
<1>5. next \in Nat /\ now <= next /\ next <= now + Recheck /\ next # None
  BY <1>4, PollAssumption
<1>6. Live' => poll.deadline <= now
  <2>1. SUFFICES ASSUME Live' PROVE poll.deadline <= now
    OBVIOUS
  <2>2. Live
    BY <1>1, <1>2, <2>1 DEF Live
  <2>3. timer["deadline"] # None /\ hand["deadline"].own
    BY <1>1, <1>2, <2>1, <2>2 DEF ArmInv, InHand, Live
  <2>4. timer["deadline"] <= now /\ poll.deadline <= timer["deadline"]
    BY <2>2, <2>3 DEF ArmInv, HeldIsDue, NotEarly
  <2>5. QED
    BY <1>4, <2>2, <2>3, <2>4, PollAssumption DEF Live
<1>7. HeldIsDue' /\ LastLook' /\ InHand'
  BY <1>3 DEF HeldIsDue, LastLook, InHand, NoHand
<1>8. JobOnTime' /\ NotEarly'
  <2>1. SUFFICES ASSUME Live' PROVE ~(now < poll.deadline) /\ poll.deadline <= next
    BY <1>1 DEF JobOnTime, NotEarly
  <2>2. poll.deadline <= now /\ poll.deadline \in Nat
    BY <1>1, <1>4, <1>6, <2>1 DEF Live
  <2>3. QED
    BY <1>4, <1>5, <2>2
<1>9. DeadlineArmed'
  BY <1>1, <1>5 DEF DeadlineArmed
<1>10. QED
  BY <1>7, <1>8, <1>9 DEF ArmInv

\* The row goes only with the id it was claimed under, and then no open poll is
\* left behind.
LEMMA CompleteKeepsArm ==
    ASSUME LifecycleTypeOK, ArmInv, Complete("deadline")
    PROVE  ArmInv'
<1>1. /\ hand["deadline"].pc \in {"look", "tell", "done"} /\ UNCHANGED <<poll, parted, late, now>>
      /\ hand["deadline"].own \in BOOLEAN /\ (Live' <=> Live)
  BY DEF Complete, At, LifecycleTypeOK, HandRecord, Kinds, Live
<1>2. hand'["deadline"] = NoHand
  BY DEF Complete, LifecycleTypeOK, Kinds
<1>3. timer'["deadline"] = IF hand["deadline"].own THEN None ELSE timer["deadline"]
  BY DEF Complete, LifecycleTypeOK, Kinds
<1>4. HeldIsDue' /\ LastLook' /\ InHand'
  BY <1>2 DEF HeldIsDue, LastLook, InHand, NoHand
<1>5. CASE ~hand["deadline"].own
  BY <1>1, <1>3, <1>4, <1>5 DEF ArmInv, JobOnTime, NotEarly, DeadlineArmed, Live
<1>6. CASE hand["deadline"].own
  <2>1. poll.deadline \in Nat \cup {None} /\ timer["deadline"] \in Nat \cup {None} /\ now \in Nat
    BY DEF LifecycleTypeOK, PollRow, Kinds
  <2>2. Live => ~(now < poll.deadline)
    BY <1>6, <2>1, PollAssumption DEF ArmInv, HeldIsDue, NotEarly, Live
  <2>3. Live /\ ~late => poll.status # "open"
    BY <1>1, <1>6 DEF ArmInv, LastLook
  <2>4. JobOnTime' /\ NotEarly'
    BY <1>1, <1>3, <1>6, <2>2 DEF JobOnTime, NotEarly
  <2>5. DeadlineArmed'
    BY <1>1, <2>3 DEF DeadlineArmed, Live
  <2>6. QED
    BY <1>4, <2>4, <2>5 DEF ArmInv
<1>7. QED
  BY <1>1, <1>5, <1>6

LEMMA CrashKeepsArm ==
    ASSUME LifecycleTypeOK, ArmInv, Crash("deadline")
    PROVE  ArmInv'
<1>1. hand'["deadline"] = NoHand /\ UNCHANGED <<poll, timer, parted, late, now>>
  BY DEF Crash, LifecycleTypeOK, Kinds
<1>2. QED
  BY <1>1 DEF ArmInv, HeldIsDue, JobOnTime, NotEarly, InHand, LastLook, DeadlineArmed, Live, NoHand

LEMMA TickKeepsArm ==
    ASSUME LifecycleTypeOK, ArmInv, Tick
    PROVE  ArmInv'
<1>1. now' = now + 1 /\ UNCHANGED <<poll, timer, hand, parted, late>>
  BY DEF Tick
<1>2. /\ poll.deadline \in Nat \cup {None} /\ timer["deadline"] \in Nat \cup {None} /\ now \in Nat
      /\ Recheck \in Nat
  BY PollAssumption DEF LifecycleTypeOK, PollRow, Kinds
<1>3. HeldIsDue'
  BY <1>1, <1>2, PollAssumption DEF ArmInv, HeldIsDue
<1>4. JobOnTime'
  BY <1>1, <1>2, PollAssumption DEF ArmInv, JobOnTime, Live
<1>5. NotEarly' /\ InHand' /\ LastLook'
  BY <1>1 DEF ArmInv, NotEarly, InHand, LastLook, Live
<1>6. DeadlineArmed'
  BY <1>1, <1>2, PollAssumption DEF ArmInv, DeadlineArmed
<1>7. QED
  BY <1>3, <1>4, <1>5, <1>6 DEF ArmInv

LEMMA ArmInductive == LifecycleTypeOK /\ ArmInv /\ [Next]_vars => ArmInv'
<1> SUFFICES ASSUME LifecycleTypeOK, ArmInv, [Next]_vars PROVE ArmInv'
  OBVIOUS
<1>1. CASE \/ \E r \in Requests : BeginUpdate(r) \/ BeginStatus(r) \/ BeginFinalize(r) \/ BeginDelete(r)
           \/ \E p \in People : SetFollowing(p) \/ UpdateNotificationPrefs(p) \/ Deliver(p)
           \/ SetSuspended \/ Worker("reminder") \/ Crash("reminder") \/ UNCHANGED vars
  <2>1. SameArm
    BY <1>1, OthersKeepArm
  <2>2. QED
    BY <2>1, SameArmKeeps
<1>2. CASE \E r \in Requests : Write(r)
  BY <1>2, WritesKeepArm
<1>3. CASE DeadlineWorker \/ Crash("deadline")
  BY <1>3, TakeKeepsArm, LaterStepsKeepArm, ReadKeepsArm, CloseKeepsArm, DeferKeepsArm,
     CompleteKeepsArm, CrashKeepsArm DEF DeadlineWorker, Worker
<1>4. CASE Tick
  BY <1>4, TickKeepsArm
<1>5. QED
  BY <1>1, <1>2, <1>3, <1>4 DEF Next, Kinds

LEMMA ArmInitially == Init => ArmInv
<1> SUFFICES ASSUME Init PROVE ArmInv
  OBVIOUS
<1>1. timer["deadline"] = poll.deadline /\ poll.deadline \in Nat \cup {None}
  <2>1. CASE Created
    BY <2>1, PollAssumption DEF Created, NewPoll, Deadlines
  <2>2. CASE Duplicated
    BY <2>2 DEF Duplicated, NewPoll, Kinds
  <2>3. QED
    BY <2>1, <2>2 DEF Init
<1>2. hand["deadline"] = NoHand
  BY DEF Init, Kinds
<1>3. HeldIsDue /\ LastLook /\ InHand
  BY <1>2 DEF HeldIsDue, LastLook, InHand, NoHand
<1>4. JobOnTime /\ NotEarly /\ DeadlineArmed
  BY <1>1, PollAssumption DEF JobOnTime, NotEarly, DeadlineArmed, Live
<1>5. QED
  BY <1>3, <1>4 DEF ArmInv

\* service.go:320, timers.go:107, 351: an open poll with a deadline has a job that
\* will close it, in time, whatever edits, suspensions, decisions and workers have
\* crossed, unless one of the four known crossings has parted the two.
THEOREM DeadlineAlwaysArmed == Spec => []DeadlineArmed
<1>1. ArmInv => DeadlineArmed
  BY DEF ArmInv
<1>2. QED
  BY <1>1, ArmInitially, ArmInductive, TypeCorrect, PTL DEF Spec

=============================================================================
