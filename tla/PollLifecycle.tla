---------------------------- MODULE PollLifecycle ----------------------------
(***************************************************************************)
(* The life of one poll (polls/service.go) and of its two timers           *)
(* (polls/timers.go): edits, status changes, the decision and its letters, *)
(* deletion, suspension, and the poll.deadline and poll.reminder jobs.     *)
(*                                                                         *)
(* Every method reads the poll without a lock and then writes it with      *)
(* UPDATE ... WHERE id, which holds the row until the commit: a request is *)
(* a read step and a write step.  Of the job queue only its promise is     *)
(* used: one row per kind and poll, run when it is due, run again if its   *)
(* worker dies, deleted by the id it was claimed under.                    *)
(***************************************************************************)
EXTENDS Integers, FiniteSets

CONSTANTS
    Requests,       \* requests under way at a time
    Options,        \* the poll's options when it is created
    People,         \* those with an e-mail address
    Owner,          \* polls.created_by
    Participants,   \* participants who left an address
    Managers,       \* who may manage the poll
    Lead,           \* reminderLead
    Recheck,        \* suspendedDeadlineRecheck
    MaxTime,        \* bound: the clock stops here
    MaxRequests,    \* bound: requests in all
    MaxMishaps,     \* bound: deaths of workers and acts of the staff in all
    None

ASSUME PollAssumption ==
    /\ Owner \in Managers /\ Managers \subseteq People /\ Participants \subseteq People
    /\ Lead \in Nat \ {0} /\ Recheck \in Nat \ {0}
    /\ MaxTime \in Nat /\ MaxRequests \in Nat /\ MaxMishaps \in Nat
    /\ None \notin Options \cup People /\ None \notin Int

Kinds     == {"deadline", "reminder"}
Deadlines == 1 .. MaxTime

VARIABLES
    poll,       \* row of polls, with its options
    timer,      \* run_at of the poll's two rows of scheduled_jobs, or None
    followers,  \* notification_subscriptions of the poll
    hand,       \* the worker that runs each of the two jobs
    req,        \* requests between their read and their write
    post,       \* "finalized" mail jobs that wait, by recipient
    queued,     \* history: mail jobs ever queued, by event and recipient
    told,       \* history: who was told of which decision
    missed,     \* history: whose letter was dropped while the poll was hidden
    count,      \* history: decisions, closings by the timer
    parted,     \* history: something has parted the timer from the deadline
    late,       \* history: the poll was reopened after its deadline
    now,
    used,       \* requests made
    mishaps

vars == <<poll, timer, followers, hand, req, post, queued, told, missed, count,
          parted, late, now, used, mishaps>>
history == <<told, missed>>

NoHand == [pc |-> "idle", own |-> FALSE, left |-> {}]
NoReq  == [op |-> "none"]

-----------------------------------------------------------------------------
\* GetPoll does not see a poll that is deleted or suspended.
Visible == ~poll.deleted /\ ~poll.suspended

Expired == poll.deadline # None /\ poll.deadline <= now

\* Schedule and Cancel give a row a new id, or none: whoever runs the job under
\* the old one has nothing left to complete.
Disown == hand' = [k \in Kinds |-> [hand[k] EXCEPT !.own = FALSE]]

RemindAt(d) == IF d # None /\ d - Lead > now THEN d - Lead ELSE None

Arm(d) ==
    /\ timer' = [deadline |-> d, reminder |-> RemindAt(d)]
    /\ Disown

CancelTimers ==
    /\ timer' = [k \in Kinds |-> None]
    /\ Disown

\* What an options array leaves out is deleted, whoever may have chosen it.
ReplaceOptions(drop) == poll.options \ drop

\* The statements that write the row: none looks at what the row has become.
SetPollStatus(status)      == poll' = [poll EXCEPT !.status = status]
UpdatePoll(deadline, drop) == poll' = [poll EXCEPT !.deadline = deadline,
                                                   !.options = ReplaceOptions(drop)]
FinalizePoll(option)       == poll' = [poll EXCEPT !.status = "finalized", !.chosen = option]
SoftDeletePoll             == poll' = [poll EXCEPT !.deleted = TRUE]
PollSuspended              == poll.suspended /\ ~poll.deleted

\* The rows of notification_subscriptions.
Subscribers    == followers
Subscribe(p)   == followers' = followers \cup {p}
Unsubscribe(p) == followers' = followers \ {p}
UnsubscribeAll == followers' = {}

-----------------------------------------------------------------------------
NewPoll(d) == [status |-> "open", deadline |-> d, options |-> Options, chosen |-> None,
               deleted |-> FALSE, suspended |-> FALSE]

Created == \E d \in Deadlines \cup {None} :
    /\ poll = NewPoll(d)
    /\ timer = [deadline |-> d, reminder |-> IF d # None /\ d > Lead THEN d - Lead ELSE None]

\* A copy takes the options, but neither status nor deadline nor timers.
Duplicated ==
    /\ poll = NewPoll(None)
    /\ timer = [k \in Kinds |-> None]

\* After the commit, and logged when it fails.
EnsureCreatorSubscription == followers \in {{Owner}, {}}

Init ==
    /\ Created \/ Duplicated
    /\ EnsureCreatorSubscription
    /\ hand = [k \in Kinds |-> NoHand]
    /\ req = [r \in Requests |-> NoReq]
    /\ post = [p \in People |-> 0]
    /\ queued = [e \in {"finalized", "closed", "reminder"} |-> [p \in People |-> 0]]
    /\ told = {} /\ missed = {}
    /\ count = [decisions |-> 0, closings |-> 0]
    /\ parted = FALSE /\ late = FALSE
    /\ now = 0 /\ used = 0 /\ mishaps = 0

-----------------------------------------------------------------------------
\* Requests: the read.

Begin(r, q) ==
    /\ req[r] = NoReq /\ used < MaxRequests
    /\ used' = used + 1
    /\ Visible
    /\ req' = [req EXCEPT ![r] = q]
    /\ UNCHANGED <<poll, timer, followers, hand, post, queued, history, count, parted, late,
                   now, mishaps>>

\* Update merges what it was given into what it has read.
BeginUpdate(r) ==
    \/ \E o \in poll.options :
          /\ poll.status # "finalized"
          /\ Begin(r, [op |-> "update", drop |-> {o}, given |-> FALSE, deadline |-> poll.deadline])
    \/ \E given \in BOOLEAN, d \in Deadlines \cup {None} :
          /\ ~given => d = poll.deadline
          /\ Begin(r, [op |-> "update", drop |-> {}, given |-> given, deadline |-> d])

BeginStatus(r) ==
    /\ poll.status # "finalized"
    /\ \E s \in {"open", "closed"} : Begin(r, [op |-> "status", status |-> s])

BeginFinalize(r) ==
    /\ poll.status # "finalized"
    /\ \E o \in poll.options, a \in Managers :
          Begin(r, [op |-> "finalize", option |-> o, actor |-> a])

BeginDelete(r) == Begin(r, [op |-> "delete"])

-----------------------------------------------------------------------------
\* Requests: the write, on whatever the row has become.

Finish(r) == req' = [req EXCEPT ![r] = NoReq]

WriteUpdate(r) ==
    LET q == req[r] IN
    /\ q.op = "update"
    /\ UpdatePoll(q.deadline, q.drop)
    /\ \/ /\ q.given
          /\ Arm(q.deadline)
          /\ parted' = FALSE /\ late' = FALSE
       \/ /\ ~q.given
          /\ parted' = (parted \/ q.deadline # poll.deadline)
          /\ UNCHANGED <<timer, hand, late>>
    /\ Finish(r)
    /\ UNCHANGED <<followers, post, queued, history, count, now, used, mishaps>>

WriteStatus(r) ==
    LET q == req[r] IN
    /\ q.op = "status"
    /\ SetPollStatus(q.status)
    /\ late' = (late \/ (q.status = "open" /\ Expired))
    /\ parted' = (parted \/ poll.status = "finalized")
    /\ Finish(r)
    /\ UNCHANGED <<timer, followers, hand, post, queued, history, count, now, used, mishaps>>

\* Mutants: the owner's letter is left to the subscription; the owner's account
\* is not kept out of the subscriptions.
LettersBySubscription(p, actor) ==
    (IF p \in Participants THEN 1 ELSE 0) + (IF p \in followers \ {actor} THEN 1 ELSE 0)

LettersTwice(p, actor) ==
    (IF p \in Participants \cup {Owner} THEN 1 ELSE 0)
        + (IF p \in followers \ {actor} THEN 1 ELSE 0)

\* One letter to each address among the participants and the owner; one to each
\* other follower's account but the actor's.
Letters(p, actor) ==
    (IF p \in Participants \cup {Owner} THEN 1 ELSE 0)
        + (IF p \in Subscribers \ {actor, Owner} THEN 1 ELSE 0)

WriteFinalize(r) ==
    LET q == req[r] IN
    /\ q.op = "finalize"
    /\ FinalizePoll(q.option)
    /\ CancelTimers
    /\ post' = [p \in People |-> post[p] + Letters(p, q.actor)]
    /\ queued' = [queued EXCEPT !.finalized = [p \in People |-> @[p] + Letters(p, q.actor)]]
    /\ count' = [count EXCEPT !.decisions = @ + 1]
    /\ missed' = {}
    /\ Finish(r)
    /\ UNCHANGED <<followers, told, parted, late, now, used, mishaps>>

WriteDelete(r) ==
    /\ req[r].op = "delete"
    /\ SoftDeletePoll
    /\ UnsubscribeAll
    /\ CancelTimers
    /\ Finish(r)
    /\ UNCHANGED <<post, queued, history, count, parted, late, now, used, mishaps>>

\* Any member follows the poll or leaves it; to tune its notifications is to
\* follow it (which of them, PollDigest knows).
Follows ==
    /\ used < MaxRequests /\ used' = used + 1
    /\ Visible
    /\ UNCHANGED <<poll, timer, hand, req, post, queued, history, count, parted, late, now, mishaps>>

SetFollowing(p) == Follows /\ IF p \in followers THEN Unsubscribe(p) ELSE Subscribe(p)

UpdateNotificationPrefs(p) == Follows /\ Subscribe(p)

\* SetContentSuspended.
SetSuspended ==
    /\ mishaps < MaxMishaps /\ mishaps' = mishaps + 1
    /\ poll' = [poll EXCEPT !.suspended = ~@]
    /\ UNCHANGED <<timer, followers, hand, req, post, queued, history, count, parted, late, now, used>>

-----------------------------------------------------------------------------
\* The deadline job.

At(k, pc) == hand[k].pc = pc
Go(k, pc, left) == hand' = [hand EXCEPT ![k].pc = pc, ![k].left = left]

Take(k) ==
    /\ At(k, "idle")
    /\ timer[k] # None /\ timer[k] <= now
    /\ hand' = [hand EXCEPT ![k] = [pc |-> IF k = "deadline" THEN "check" ELSE "look",
                                    own |-> TRUE, left |-> {}]]
    /\ UNCHANGED <<poll, timer, followers, req, post, queued, history, count, parted, late,
                   now, used, mishaps>>

CheckSuspended ==
    /\ At("deadline", "check")
    /\ Go("deadline", IF PollSuspended THEN "defer" ELSE "read", {})
    /\ UNCHANGED <<poll, timer, followers, req, post, queued, history, count, parted, late,
                   now, used, mishaps>>

\* The row that is armed has a new id, so that the worker completes nothing;
\* a row that a request has armed since is overwritten.
Defer ==
    /\ At("deadline", "defer")
    /\ timer' = [timer EXCEPT !.deadline = IF now + Recheck < MaxTime THEN now + Recheck ELSE MaxTime]
    /\ parted' = (parted \/ (~hand["deadline"].own /\ timer["deadline"] # None))
    /\ hand' = [hand EXCEPT !["deadline"] = NoHand]
    /\ UNCHANGED <<poll, followers, req, post, queued, history, count, late, now, used, mishaps>>

\* Mutant: what CloseExpired answers is ignored, the poll's being closed enough.
ReadExpiredTellAnyway ==
    /\ At("deadline", "read")
    /\ Go("deadline", IF ~Visible THEN "done" ELSE
                      IF poll.status = "closed" THEN "look" ELSE
                      IF poll.status = "open" /\ Expired THEN "close" ELSE "done", {})
    /\ parted' = (parted \/ poll.suspended)
    /\ UNCHANGED <<poll, timer, followers, req, post, queued, history, count, late, now, used, mishaps>>

\* CloseExpired, its read.  A poll suspended since the check is not seen, and
\* the job is done for good.
ReadExpired ==
    /\ At("deadline", "read")
    /\ Go("deadline", IF Visible /\ poll.status = "open" /\ Expired THEN "close" ELSE "done", {})
    /\ parted' = (parted \/ poll.suspended)
    /\ UNCHANGED <<poll, timer, followers, req, post, queued, history, count, late, now, used, mishaps>>

\* CloseExpired, its write.
CloseExpired ==
    /\ At("deadline", "close")
    /\ SetPollStatus("closed")
    /\ parted' = (parted \/ poll.status = "finalized")
    /\ count' = [count EXCEPT !.closings = @ + 1]
    /\ Go("deadline", "look", {})
    /\ UNCHANGED <<timer, followers, req, post, queued, history, late, now, used, mishaps>>

-----------------------------------------------------------------------------
\* Both handlers: who is to be told, one mail job each, outside any transaction.

Event(k) == IF k = "deadline" THEN "closed" ELSE "reminder"

Look(k) ==
    /\ At(k, "look")
    /\ IF Visible THEN Go(k, "tell", Subscribers) ELSE Go(k, "done", {})
    /\ UNCHANGED <<poll, timer, followers, req, post, queued, history, count, parted, late,
                   now, used, mishaps>>

Tell(k, p) ==
    /\ At(k, "tell") /\ p \in hand[k].left
    /\ queued' = [queued EXCEPT ![Event(k)][p] = @ + 1]
    /\ Go(k, "tell", hand[k].left \ {p})
    /\ UNCHANGED <<poll, timer, followers, req, post, history, count, parted, late, now, used, mishaps>>

\* Mutant: the job is deleted by its key.
CompleteByKey(k) ==
    /\ At(k, "done") \/ (At(k, "tell") /\ hand[k].left = {})
    /\ timer' = [timer EXCEPT ![k] = None]
    /\ hand' = [hand EXCEPT ![k] = NoHand]
    /\ UNCHANGED <<poll, followers, req, post, queued, history, count, parted, late, now, used, mishaps>>

Complete(k) ==
    /\ At(k, "done") \/ (At(k, "tell") /\ hand[k].left = {})
    /\ timer' = IF hand[k].own THEN [timer EXCEPT ![k] = None] ELSE timer
    /\ hand' = [hand EXCEPT ![k] = NoHand]
    /\ UNCHANGED <<poll, followers, req, post, queued, history, count, parted, late, now, used, mishaps>>

\* The worker dies, or an enqueue fails: what was committed stays, the row too.
Crash(k) ==
    /\ ~At(k, "idle")
    /\ mishaps < MaxMishaps /\ mishaps' = mishaps + 1
    /\ hand' = [hand EXCEPT ![k] = NoHand]
    /\ UNCHANGED <<poll, timer, followers, req, post, queued, history, count, parted, late, now, used>>

-----------------------------------------------------------------------------
\* A "finalized" mail job looks again at what the poll is now.
Deliver(p) ==
    /\ post[p] > 0
    /\ post' = [post EXCEPT ![p] = @ - 1]
    /\ \/ ~Visible /\ missed' = missed \cup {p} /\ UNCHANGED told
       \/ /\ Visible /\ poll.status = "finalized" /\ poll.chosen \in poll.options
          /\ told' = told \cup {<<p, poll.chosen>>} /\ UNCHANGED missed
       \/ /\ Visible /\ ~(poll.status = "finalized" /\ poll.chosen \in poll.options)
          /\ UNCHANGED history
    /\ UNCHANGED <<poll, timer, followers, hand, req, queued, count, parted, late, now, used, mishaps>>

Tick ==
    /\ now < MaxTime /\ now' = now + 1
    /\ UNCHANGED <<poll, timer, followers, hand, req, post, queued, history, count, parted, late,
                   used, mishaps>>

-----------------------------------------------------------------------------
Write(r) == WriteUpdate(r) \/ WriteStatus(r) \/ WriteFinalize(r) \/ WriteDelete(r)

Worker(k) == Take(k) \/ Look(k) \/ Complete(k) \/ \E p \in People : Tell(k, p)

DeadlineWorker == Worker("deadline") \/ CheckSuspended \/ Defer \/ ReadExpired \/ CloseExpired

Next ==
    \/ \E r \in Requests : \/ BeginUpdate(r) \/ BeginStatus(r) \/ BeginFinalize(r)
                           \/ BeginDelete(r) \/ Write(r)
    \/ \E p \in People : SetFollowing(p) \/ UpdateNotificationPrefs(p) \/ Deliver(p)
    \/ SetSuspended
    \/ DeadlineWorker \/ Worker("reminder")
    \/ \E k \in Kinds : Crash(k)
    \/ Tick

Spec == Init /\ [][Next]_vars

-----------------------------------------------------------------------------
\* service.go:320, timers.go:107, 351: an open poll with a deadline has a job
\* that will close it, no later than the deadline or the next look at a suspended
\* poll, whatever edits, suspensions, decisions and workers have crossed.  Only
\* these part the two ("parted"): an edit without a deadline that writes back one
\* it read before another edit; a status written over a decision, which had
\* cancelled the job; a deferral that overwrites the job of a newer deadline; a
\* suspension between the handler's two looks.  A poll reopened after its
\* deadline ("late") stays open by intent.
DeadlineArmed ==
    ~poll.deleted /\ poll.status = "open" /\ poll.deadline # None /\ ~late /\ ~parted
        => /\ timer["deadline"] # None
           /\ \/ timer["deadline"] <= poll.deadline
              \/ timer["deadline"] <= now + Recheck

\* service.go:614-663, timers.go:549-626: while a decision stands, every address
\* among the participants and the owner has been told it, or has a letter on its
\* way that will, unless the poll was hidden when the letter was to be sent.
DecisionReaches ==
    ~poll.deleted /\ poll.status = "finalized" /\ poll.chosen \in poll.options
        => \A p \in Participants \cup {Owner} :
              post[p] > 0 \/ <<p, poll.chosen>> \in told \/ p \in missed

\* service.go:560-561: "so a subscribed owner/participant never gets two
\* "finalized" emails for the same event".  Not so for a participant who follows
\* the poll from an account of the same address: only accounts are compared.
NobodyToldTwice == \A p \in People : queued.finalized[p] <= count.decisions

\* service.go:640-683: the owner, who may take part and follow as well, and
\* whoever only follows, get one letter per decision.
ToldOnce ==
    \A p \in People : p = Owner \/ p \notin Participants => queued.finalized[p] <= count.decisions

\* timers.go:371-398: however often the deadline job is run again, or armed anew,
\* a closing is announced to nobody twice.
ClosedOnce == \A p \in People : queued.closed[p] <= count.closings

=============================================================================
