# Verification of whenweall

whenweall is a scheduling service: date polls, sign-up sheets and booking pages.
Several replicas of one Go process share a Postgres database (READ COMMITTED);
there is no other shared state. Requests run as SQL transactions; a job queue in
the database sends mail and drives deadlines; a `LISTEN/NOTIFY` hub on each
replica pushes changes to web sockets.

This directory holds TLA+ models of the parts where concurrency decides whether
the program is right, the TLC configurations that check them, and TLAPS proofs.

## Inventory

| Component | State | Operations | Hard behaviour | What makes it correct |
|---|---|---|---|---|
| **Job queue and worker** (`internal/jobs`) | `scheduled_jobs`; per replica, the batch it claimed | Schedule, ScheduleIfAbsent, Cancel, ClaimDue, Complete, fail, Retry, sweeps | leases that expire under a running worker, upserts under a running handler, crashes, lost outcome writes | at-least-once, at most MaxAttempts starts, no lock broken before its lease, a housekeeping chain never ends, every job settles |
| **Sign-up claims** (`polls/claims.go`) | participants, votes, option capacity, poll budget | Claim, Unclaim, SignupFull | count-then-insert races, row-lock order, reads without locks | capacity and budget never exceeded by a claim, no deadlock |
| **Poll lifecycle** (`polls/service.go`) | poll status, options, chosen option, deadline, subscriptions | Create, Duplicate, Update, SetStatus, Finalize, CloseExpired, Delete | unlocked reads before each write; a decision against an edit; overlapping lists of recipients | an open deadline has a job; a decision reaches whom it concerns, once |
| **Participants and comments** (`polls/participants.go`) | participants, votes, comments | add, update, remove, comment | ballots replaced statement by statement; row locks taken in map order against an edit's | a ballot is one submission, never a blend; voters do not deadlock |
| **Poll timers** (`polls/timers.go`) | digest accumulator row, deadline and reminder jobs | EnqueueDigestItem, processDigestJob, deadline, reminder, fan-out | an item that arrives while the digest is sent; closing and mails in different transactions; a suspended poll's deferral | no item is lost, none is sent twice within a lease; a closing is announced at most once |
| **Live rooms** (`internal/rooms`) | `room_events`; per replica, subscribers, watermark, pending notifications | Emit, Subscribe, handleNotify, reconnect, snapshot | ids drawn before commit, lost notifications, slow subscribers | no subscriber misses an event without being told to refetch |
| **Presence and statistics** (`rooms/presence.go`, `stats.go`) | `ws_presence` counts per replica; one row of counters, a throttle per process | join, leave, heartbeat, sweeps; Record, trailing flush | killed replicas; totals told outside transactions; a flush that fires later or never | idle rows go, the last total and the last count are told |
| **Bookings** (`internal/bookings`) | pages, bookings | Book, Cancel, Reschedule, page edits, slot generation | check-then-insert, two row locks, a page that changes under a request, zones and buffers | bookings never overlap, closed pages take none, what is offered is accepted |
| **Booking mail** (`bookings/emails.go`) | reminder row, mail jobs | arm, cancel, reminder job, mail job | a reminder that runs while it is re-armed; mails composed when sent | both parties learn what the booking is now; the reminder comes |
| **Accounts** (`internal/auth`, Limen) | users, sessions, organizations, members, owners, locks | resolve a session, personal organization, switch, lock, delete | a request resolved in six statements while rows change; a deletion that hands organizations over | a locked user is served nothing; a request acts where its user belongs |
| **Admin console** (`internal/admin`) | content flags, locks, audit log | lock, delete, suspend, retry a job | each against the component it disturbs | see those components |
| **Mailer, HTTP server, config, db, export, ICS, web client** | suppression list, rate limits | | mostly pure code, I/O and single statements | |

How they interact: a request's transaction writes its rows, emits a room event
and schedules jobs *in the same transaction*; the handlers then write after the
commit whatever is best-effort (digest items, statistics, presence totals). Workers on every
replica claim jobs; handlers read current rows, write mail jobs, re-arm
themselves. The listener of every replica reads committed events and feeds its
own web sockets; the client refetches on `resync`.

The hazards, each at its source line with the properties that cover it, are
listed in `PROJECT.json`.

## Modules

| Module | What it is |
|---|---|
| `JobQueue` | the table and the workers, one action per SQL statement or worker step |
| `JobPromise` | what the queue promises its callers, without workers, leases or time |
| `JobQueueProofs` | type correctness; chains, budgets and the promise; two hands on a job only past a lease |
| `SignupClaims` | one sign-up sheet: claims, edits, closings, removals |
| `SignupClaimsProofs` | no claim oversells an option or a participant's budget |
| `RoomHub` | one room on one replica: emitting transactions, LISTEN session, hub, web sockets and their clients |
| `RoomHubProofs` | no event is silently lost to a live subscriber |
| `Availability` | the slot generator as pure operators: zones, ranges, overrides, buffers, notice, horizon |
| `Bookings` | one page and the transactions on its bookings; EXTENDS `Availability` |
| `Calendar` | what `Bookings` promises: bookings that stand never overlap and are never revived |
| `BookingsProofs` | `Bookings` implements `Calendar`; no deadlock; closed pages; reminders; mails; offers and the horizon |
| `BookingMail` | the reminder and mail workers on top of `Bookings`, with crashes and retries |
| `BookingMailProofs` | both parties of a booking get to know what it is |
| `PollLifecycle` | one poll, its requests, its deadline and reminder jobs, its letters |
| `PollLifecycleProofs` | the deadline keeps its job; nobody is told twice or forgotten |
| `PollDigest` | the digest accumulator and its job |
| `PollResponses` | participants, votes, comments and an edit of the options; EXTENDS `PollDigest`, which it feeds |
| `PollResponsesProofs` | one submission's votes; no deadlock without an edit; every digest item told, and twice only by two workers that share it |
| `Accounts` | sessions, organizations, locks and the deletion cascade |
| `AccountsProofs` | locks hold, requests act where they belong, deletions hand over |
| `Presence` | the presence counts of a room across replicas |
| `LandingStats` | the landing counters and their throttled frames |
| `MC*` | instances of these for TLC; `MCLiveTotals` checks `Presence` and `LandingStats` side by side |

Of the job queue, the modules about polls and bookings use only what `JobPromise`
states and `JobQueue` is shown to implement: one row per kind and key, run when due,
run again if its worker dies, deleted by the id under which it was claimed.

### JobQueue and the code

`rows` and `job` are `scheduled_jobs`: the key stands for `(kind, room_key)`,
`wait` for `run_at`, `holder` and `age` for `locked_by` and `locked_at`. `worker`
is what a `Worker` keeps in memory: the rest of its batch, the job in hand, how
long its handler has run, and (as history) how long its batch has (`since`).
`succeeded`, `runs`, `retries` and `overrun` are history variables that only
properties and the bound on retries read; `overrun` are the rows claimed while a
batch that had them had outlived its lease. `TypeOK` includes the unique index
on kind and key.

| Action | Code |
|---|---|
| `Schedule`, `ScheduleIfAbsent`, `Cancel` | `jobs.go` functions of the same name; `Upsert` is the `ON CONFLICT` that takes `EXCLUDED.id` |
| `ClaimDue` | the one UPDATE of `ClaimDue`: up to `BatchSize` rows, attempts counted |
| `StartJob`, `HandlerOk`, `HandlerErr` | `RunOnce`, `process`, `invoke` |
| `Rearm` | `rescheduleHousekeeping`, and `deferDeadlineIfSuspended`: a handler schedules its own key |
| `Complete`, `Fail`, `Unrecorded` | the statement that writes the outcome, by id, or its failure |
| `Crash` | the replica is killed |
| `Retry`, `SweepDeadLetter` | `handleRetryJob`, `sweepDeadLetters` |
| `Tick` | a minute passes; only idle workers and running handlers let it |

Assumptions: SQL statements take no time (only handlers do); a handler obeys its
context, so it ends at `jobTimeout`; an id that nothing refers to may be reused,
which a fresh `db.NewID` cannot be told from; which due rows a claim takes when
there are more than a batch is left open. The backoff is cut at `BackoffCap`,
the attempt count of a chain (budget one million) at `MaxAttempts`, where it no
longer changes anything. `MaxRetries` bounds the admin's retries of one job.

### SignupClaims and the code

Each request slot runs one transaction at a time. A statement reads what is
committed when it runs; a transaction's own writes appear at its commit step,
which is how others see them; row locks are held to the end. A claim goes
`BeginClaim` (requireSignupPollTx) - `LockOption` - `Resolve` (resolveClaimant)
- `LockParticipant` - `CheckBudget` - `CheckCapacity` - `CommitClaim` -
`Announce`. An edit goes `BeginUpdate` - `CheckEdit` (the count of
replaceOptions) - `WriteOption` per row - `CommitUpdate`. `SetStatus` (also
CloseExpired), `Unclaim` and `RemoveParticipant` are one statement as far as
claims can tell. `Abort` is a client that goes away or a failing statement: the
deferred Rollback.

Not in the model: authorization, the texts, the confirmation mail, deletion of a
user (which turns a row into a guest's). Participants other than by claiming
cannot join a sign-up sheet: `requireNotSignupPollHTTP` keeps `AddParticipant`
and `UpdateParticipant` away from it. `Announce` reads options and votes in one
step, the code in two; that hides no announcement, as both reads follow the
commit. `LimitParticipants` is the cap of prepareNewParticipant, `MaxNews`
bounds the counter of announcements.

### RoomHub and the code

Rooms share nothing but the table and replicas nothing but the database, so one
room on one replica is modelled; transactions of other replicas are `Writers`
like any. `rows` is the room's committed part of `room_events`; `open[w]` holds
the rows a transaction has inserted, with ids already drawn. `inbox` is what
Postgres has sent to the session: at a commit, in the order of the calls of
`pg_notify`, to sessions that listen. `subs`, `watermark` and `pending` are the
hub's three maps for the room; `listener` is the local state of the listener's
goroutine, `conn[s]` that of a connection together with its channel and its
client. `skipped` is a history variable.

| Action | Code |
|---|---|
| `Emit`, `Commit`, `Rollback` | `Emit` and its caller's transaction |
| `Listen`, `GatherRooms`, `ResyncAll`, `Lose`, `NoticeLoss` | `runListener`, `resyncAll`, `listenLoop` |
| `HandleNotify` | `handleNotify` up to the choice of a branch, taken from one look at the maps |
| `ConsumePending`, `Fetch` | `deliverLateCommitter`, `deliverExact` |
| `Sweep`, `TrackPending`, `DispatchRow`, `RaiseWatermark` | `deliverSince`: its query, per row the two critical sections, the watermark |
| `QueryFails`, `FloorFails` | a query's error, which is logged |
| `Subscribe`, `ReadFloor`, `SetFloor` | `Subscribe` and `initWatermarkFloor`, whose query runs without the mutex |
| `Snapshot`, `WriteFrame`, `CloseDropped`, `HangUp` | `ServeWS`, `sendSnapshotAndBackfill`, `writePumpLoop` |
| `Refetch` | `onResync` of the client (`room-socket.ts`, `use-live-poll.ts`) |
| `Restart` | the replica is killed or shut down |

One step is one critical section of `h.mu` or one query. A session that breaks
still yields a prefix of what was sent to it. A snapshot reads the sequence
number and the view one after the other; as nothing here compares the two,
`Snapshot` is one read. Not in the model: the `?since=` backfill (the poll page
connects without it), the counting of presence (module `Presence`), the keepalive and the pings, undecodable rows,
and the deletion of events older than an hour by housekeeping.

### Availability, Bookings, BookingMail and the code

`Availability` translates `availability.go` operator by operator: `LocalToUTC` is what
`time.Date` does at a change of the offset, `GridStarts` the grid of one day's
ranges, `IsOpen` notice, horizon and buffers, `Horizon` the cap on the day loop,
`Slots` and `IsSlotAvailable` the two exported functions. The unit is the code's
15 minutes; a zone has one change of its offset.

In `Bookings`, a request slot runs one transaction. `BeginBook` - `LockPage` - `Check` -
`CommitBook` is `Book` (whose first read of the page is unlocked); `BeginReschedule` -
`LockPage` - `LockBooking` - `Check` - `CommitReschedule` is `Reschedule`;
`BeginCancel` - `LockBooking` - `CommitCancel` is `Cancel`. The three `Write`
operators are what each transaction writes: the row, both mail jobs, the reminder's
row. `NewPages`, `UpdatePage`, `DeletePage`, `SetSuspended` are the organiser's and the
staff's. `PublicAvailability` is the unlocked read behind the public page.
`Calendar` has the start and end of what stands and nothing else.

`BookingMail` extends `Bookings` and takes each request as one step, as `Bookings` shows
it may. `TakeReminder`, `Recheck`, `QueueReminder` and `CompleteReminder` are
`handleBookingReminderJob` and the worker's `Complete`; `Compose` and `Send` are
`handleMailBookingJob`, which composes from what is current, then sends; `Crash` is a
worker's death or a handler's error.

Not in the model: slugs, texts, the manage token's HMAC, listings and ICS files, and
Google Calendar: `googleSyncActive` returns false, so no busy times come from there and
nothing is pushed.

### PollLifecycle and the code

Every method of `service.go` reads the poll without a lock and writes it with
`UPDATE ... WHERE id`, so a request is a `Begin` action and a `Write` action with
anything in between. `timer` is the `run_at` of the poll's two rows in
`scheduled_jobs`; `hand[k].own` says whether the row a worker claimed is still there
under its id (`Schedule` and `Cancel` disown it). `Take`, `CheckSuspended`, `Defer`,
`ReadExpired`, `CloseExpired`, `Look`, `Tell` and `Complete` are
`deferDeadlineIfSuspended`, `handleDeadlineJob` and `handleReminderJob` statement by
statement; `Deliver` is `sendFinalizedMail`. `Created`, `Duplicated` and
`EnsureCreatorSubscription` say in what state a poll begins. `parted` and `late` are
history variables: they record the four crossings, all of which the code allows, by
which the deadline's job is lost, so that `DeadlineArmed` says that there is no fifth.

Not in the model: names, descriptions and settings (which two edits overwrite like
the deadline), listings, the wording of mails. An edit that changes a sign-up
sheet's capacities is in `SignupClaims`.

### PollDigest, PollResponses and the code

`PollDigest` is `EnqueueDigestItem` (`Enqueue`), the window (`WindowEnds`), the claim
of the job with a copy of its payload (`ClaimDigest`), `processDigestJob` with its
fan-out in one transaction (`Process`), and the worker's completion by id.
`ClaimDigest` may take a row another worker has, as the queue does when a lease is
over; `shared` is the history of that. `Process` empties the row it finds under the
id it claimed and fans out the payload of its claim, as the code does.
`Enqueue` and `Process` are one step each: both hold the poll's advisory lock.

`PollResponses` is `participants.go` in statements: `BeginAdd` or `BeginUpdate` - `Name` -
`Clear` - one `CastVote` per answer, in any order, as Go's maps have none -
`CommitResponse`; `DeleteParticipant` - `CommitRemove`; `BeginComment` -
`CommitComment`; `DeleteComment`; and `DeleteOption` - `CommitEdit` for
`replaceOptions`. Who waits for whom is written out in `WaitsFor`, from the locks
that Postgres takes for an update, a delete and a foreign key. `Notify` is the
handler's digest item after the commit.

### Accounts and the code

A request resolves its session in statements: `Begin` (Limen's session), `CheckLock`,
`Ensure` and `CreateOrg` (`ensurePersonalOrgOnce`), `ReadActive`
(`membershipDangling`), `Default` (`oldestMembership` and the healing of the cache),
and is then served: `Switch`, `Move` (Limen's membership routes behind
`AuthMountGuard`), `DeleteOwnAccount` or `Return`. `LockUser`, `UnlockUser` and
`DeleteUser` are the staff's. Each of these statements may fail: `FailsTo` is a
failure of `ensurePersonalOrgOnce`, logged and not cached; `GivesUp` one of the active
organization, which leaves the request without; in `Default` a failing query is taken for
an empty one, as in the code. A deletion is `CascadeDeleteUser`: `BeginDelete` -
`CheckOrg` with `Promote` or `DropOrg` per organization - `CommitDelete`, whose writes
show at the commit, under the row locks that can hold it up. `barred`, `kept`, `why`,
`seen` and `quiet` are history that the properties read: `why` says what has come between a
request and an organization in its last try, a statement that `failed`, a slug that was `taken`
or the last membership `lost` under way.

Limen (sessions, memberships, roles) is a library outside `src/`: its routes are
modelled by what this code relies on, and its definitions are marked external.
Not in the model: credentials, tokens, invitations' mail, OAuth, profiles.

### Presence, LandingStats and the code

In `Presence`, `row` and `age` are a replica's `ws_presence` row and its heartbeat;
`Join`, `Leave` and `Tell` are what `ServeWS` calls, `Interval` is a heartbeat interval
with `presenceHeartbeatLoop` in it, `Sweep` and `SweepTell` are the housekeeping job
(the sweep may fail to read what its DELETE returns, and then tells nobody),
and `Shutdown`, `ShutdownSweep`, `ShutdownTell`, `Exit`, `Crash` end a replica. A
replica id is never used again, hence `presenceBootSweep` finds nothing.

In `LandingStats`, `Record` is the upsert that counts up, `MaybeBroadcast` the throttle,
`FlushTrailing` - `ReadCurrent` - `EmitStats` the trailing frame, which reads the
row anew. One counter stands for five.

## Runs

| Run | Result | What it shows |
|---|---|---|
| `jobs` | passes | `RunsWithinBudget`: at most `MaxAttempts` starts per budget through crashes, lost writes and overlapping leases; `OverlapOnlyPastLease`: no lock is broken before its lease is over; `ChainsSurvive`; `KeepsPromise`: refinement of `JobPromise` |
| `jobs_live` | passes | `JobsSettle` and `ChainsKeepRunning`, as liveness, while the lease covers a batch |
| `jobs_lease` | violated | with the code's 20 / 2 min / 5 min a second worker runs a job that waits behind others: `jobTimeout`'s comment argues per job, the lock is per batch |
| `claims` | passes | `ClaimsWithinCapacity`, `ClaimsWithinBudget`, `RequestsAnswered` |
| `hub` | passes | `NothingLost`: an event that a live client does not know is in its buffer, under way in the listener, or a resync is due, through drops, losses and failing queries |
| `hub_live` | passes | `EveryoneLearns`: a client that stays connected sees every committed event in the end |
| `bookings` | passes | `KeepsCalendar`: refinement of `Calendar`; `NeverBooksClosedPage`; `MailsTellTheStory` and `ReminderFollows` across crossing cancels and moves; `NoDeadlock`; `OfferedIsAccepted` and `HorizonHarmless` relate the windows that the slot generator is called with |
| `booking_mail` | passes | `PartiesInformed` and, as liveness, `ReminderArrives`, through retries, crashes, moves during the reminder's run and page changes |
| `polls` | passes | `DeadlineArmed`, `DecisionReaches`, `ToldOnce`, `ClosedOnce` |
| `responses` | passes | `VotesAreOneSubmission`, `DeadlockNeedsEdit`; `TypeOK` includes that rows refer to rows; `OnceUnlessShared`: no digest item is lost, and none told twice but by two workers that had its payload in hand together |
| `accounts` | passes | `LockHolds`, `ActsWhereItBelongs`, `HealsUnlessHindered`, `HandsOver`, with failing statements |
| `live_totals` | passes | `IdleRowsGo`, `TotalsAreTold`, `CountsAreTold`, all liveness |

### Known disagreements

Besides `jobs_lease`, the models show these disagreements between the code and
what its comments say. Each can be reproduced with the configuration named, which
TLC finds violated; for the last three, put the property in the place of those of
the configuration.

| Property | Configuration | The code against the comment |
|---|---|---|
| `RetrySparesRunning` | `MCJobQueueRetry.cfg` | the console (`admin/handlers.go:421`) takes a job on its last attempt for dead while its handler runs; "resurrecting a job that's merely mid-flight is never the support console's intent" |
| `OneParticipantPerUser` | `MCSignupClaimsUser.cfg` | two first claims of one user insert two participants, each with a budget (`claims.go:171`); "always reuses their own participant row" |
| `NoCapacityBelowClaims` | `MCSignupClaimsEdit.cfg` | an edit counts claims before it locks the options (`service.go:446`); "lowering ... below its current claim count is rejected" |
| `FullAnnouncedOnce` | `MCSignupClaimsFull.cfg` | whether a sheet is full is asked after the commit (`handlers.go:867`); "exactly one signup.full per fill" |
| `NobodyToldTwice` | `MCPollLifecycleTold.cfg` | a participant who also follows from an account of the same address gets two letters (`service.go:670`); "never gets two" |
| `EveryItemOnce` | `MCPollDigestLease.cfg` | two workers of an expired lease have one claimed payload; the second one's UPDATE finds the row under its id, emptied by the first, and it fans all items out again (`timers.go:260`); "every item is sent exactly once" (`timers.go:168`) |
| `ForgetsOnlyTheHomeless` | `MCAccountsFault.cfg` | an error of the query for the oldest membership returns the same `(nil, false)` as no membership, and the cache entry of a user who has one is cleared (`session.go:162`); "routing a fault into the self-heal branch would needlessly clear" it (`auth.go:604`) |
| `AlwaysSomewhere` | `MCAccounts.cfg` | a user whose personal slug is kept by an organization that others have taken over has none (`auth.go:512`); "already satisfied" |
| `OrgsHaveOwners` | `MCAccounts.cfg` | an heir who is being deleted too has read what he owns before he inherits it, and the organization ends without owner or member (`cascade.go:60`); two owners deleted at once each count on the other |
| `FramesGrow` | `MCLiveTotals.cfg` | the first frame of a window carries what its own call counted, which another may have overtaken (`stats.go:214`) |

### Bounds

Two workers are enough for every overlap: the hazards are between a
worker and whoever took its lease. Two ids make batches of two and a handler's
row beside its successor; with the lease of `jobs` one minute and jobs of up to
one minute, leases expire in the middle of a batch, at its end and not at all.
`Delays = {0}` keeps everything due, the hard case; failures still wait. The
`claims` run has two transactions, two options and two participants with
capacity and budget one: the smallest sheet where two claims meet on an option,
on a participant, on neither, and where an edit or a removal takes away either.
For the hub, two events of two transactions commit in either order or in one
transaction, which gives sweeps, late committers and pending notifications; a
buffer of one overflows at the second frame and two subscribers can be dropped
apart or together. `hub_live` has three events and a buffer of two instead, so
that a resync, a sweep of two rows and a late row meet in one buffer; one
subscriber is enough, since no connection waits for another. The violation runs
use the smallest instance with the counterexample; the one
for the lease has the code's own constants.

`bookings` has two requests, since every hazard here is between two, and two bookings that
they can share or not; a day of four units, two page rules (one with a buffer after,
adjacent ranges and an override, one with a buffer before, notice and slots of two units),
zones that go forward and back, a clock of two instants, and one move per booking
(`MaxMoves`). The windows a visitor asks for are whole days of at most four, against
the code's 62: the horizons here are of one and two days. `booking_mail` has one booking, as
no mail job looks at another's, and one mishap (`MaxMishaps`): a second would only repeat
the retry of the first. `polls` has three instants, so that a deadline can be armed, moved
and passed, two requests in all and two mishaps, and three people: the owner, a participant and one
who may only follow. `responses` has two requests in all and
three people of whom one has an account; ballots and digest are looked at apart (`InFocus`): first
any requests and one worker at a time, whose death leaves the row to its successor; then two workers
and two items, fed by one comment or removal at a time, which has a claim that another overtakes
and an enqueue before, between and after them. `accounts` has two users, who have signed in at
the start, two requests in all and one change of membership; statements fail without a bound; with two users an heir is always the only candidate, so that *which*
of several others inherits is not exercised there. A deletion of a user is one at a time, and none
begins before there is an organization. `live_totals` has two replicas and two
connections, a row that is stale after one silent interval (in the code after three
of 30 s; what matters is that a beat resets the age), one failing statement, and three
records on two processes, the smallest with a leading frame, a trailing one and a late one.

### Fairness

`Run` polls for as long as the process lives and `RunOnce` goes on to
the next job whatever the last one did, hence weak fairness of each worker's
steps; time goes on, but `Tick` is disabled whenever a worker is between two
statements, hence strong fairness of `Tick`. Liveness further assumes that from
some point on no replica is killed: a worker killed in every batch settles
nothing, in the code as in the model. For the sheet, Postgres queues waiters on a row lock, so a
transaction that can proceed again and again does: strong fairness of its steps.
`Abort`, requests and edits have no fairness. For the hub: the listener's goroutine goes on
(it redials for ever, and some dial succeeds: `Listen` is part of its steps), a
connection's write pump goes on or, after `wsWriteTimeout`, ends the connection,
and a client that is told to resync refetches: weak fairness of each. Nobody
has to emit, commit or connect. Queries do not fail in `hub_live`: what a failing
query skips is the exception both properties name.

For `booking_mail`: the clock runs and the workers poll, as one weakly fair choice; each of
their steps brings a bounded clock, a reminder or a finite list of mails forward, so none can be
chosen for ever in the place of another. Visitors, organisers and crashes owe nothing. For
`Presence`: the handler of a connection ends its steps, one on a replica that shuts down is
sent away by `closeAllConns`, a shutdown proceeds, heartbeat intervals pass, and the sweep's
chain runs (`ChainsKeepRunning` in `JobQueue`): weak fairness of each. At least one replica runs on.
For `LandingStats`: goroutines run and timers fire. A failed statement or a
process that ends excuses what was under way, and nothing later.

## Proofs

`JobQueueProofs` proves for all constants that satisfy `JobQueueAssumption`:

* `TypeCorrect`: `Spec => []TypeOK`, action by action; `Upsert` and `Drop`, through
  which every action changes the table, have lemmas of their own. The invariant
  includes that only an id with a row has succeeded, and that a worker has a job
  in hand exactly when its phase says so.
* `ChainsNeverEnd`: `Spec => ChainsSurvive`. `ChainsSurvive` is not a
  consequence of types: a `Complete` deletes by id, so one needs that a worker
  whose handler has returned nil for a chain does *not* hold the id of the
  chain's row any more. `ChainInductive` proves that strengthening inductive:
  the id was taken over by the upsert of `Rearm`, and an id in someone's hands is
  not given to a new job.
* `RunsStayWithinBudget`: `Spec => []RunsWithinBudget`. A run and an attempt are counted at
  different moments, the attempt when the batch is claimed and the run when its turn
  comes, so the invariant `BudgetInv` adds up both: the runs so far and the claims
  that wait for theirs are at most the attempts counted, plus `MaxAttempts` for every retry.
* `QueueKeepsPromise`: `Spec => KeepsPromise`, that is, `JobQueue` implements
  `JobPromise`. Every action has its step: a handler's success is `Perform`, a replaced row
  is owed anew, what takes a row before its handler has succeeded is a withdrawal or the sweep of
  a spent job. The deletion by id needs `ChainInv` and that whoever is about to
  delete has seen its handler succeed (`Recorded`).

* `OverlapsOnlyPastLease`: `Spec => []OverlapOnlyPastLease`, for any batch size, job timeout and
  lease. A job is claimed away from a worker only by the age of its lock, and the invariant
  `LeaseInv` says that this age is at most how long the batch of the worker that has the job has been
  going on, as long as nobody has retried the job or claimed it past the lease; so whoever
  claims it finds that batch past its lease. With the shipped constants (40 minutes of work
  under a lease of 5) such batches exist, which is what `jobs_lease` shows.

`SignupClaimsProofs` proves for all constants that satisfy the assumption of
`SignupClaims`: `SheetTypeCorrect` (`[]TypeOK`), `NeverOversold`
(`ClaimsWithinCapacity`) and `NeverOverclaimed` (`ClaimsWithinBudget`). Both are
about the step that commits a claim, which trusts numbers read several statements
earlier. The inductive invariant `ClaimInv` says why it may:

* past `LockOption` the transaction holds the option's lock and `room` is still
  the option's capacity (`OptionHeld`), since an edit locks what it rewrites
  (`SheetHeld`);
* past `Resolve` or `LockParticipant` it holds the participant's lock, or the
  participant is not in the table and no other request knows it (`ClaimantHeld`,
  `FreshApart`);
* hence the two counts can only have fallen since they were taken (`BudgetLeft`,
  `RoomLeft`): another claim on the option or the participant would need the same
  lock, and removals take votes away.

`RoomHubProofs` proves for all constants that satisfy `RoomHubAssumption`:

* `HubTypeCorrect`: `[]TypeOK`, which includes that no buffer outgrows
  `BufferSize`, that only committed rows are ever notified, tracked or sent, and
  that `subs` holds connections only.
* `NothingSilentlyLost`: `[]NothingLost`. The property alone is not inductive: that
  a notification is still in `inbox` helps nobody if `pending` makes
  `ConsumePending` drop it. The invariant `HubInv` sharpens it to `Delivery`, where
  `Owed` takes the place of `UnderWay`: a notification still in `inbox` counts only
  while its row is not in `pending`, and a row in the listener's batch only if
  it is the one that was notified or the next to be dispatched. `TrackPending`, which
  spends a row's notification, makes it the next to be dispatched, and
  `DispatchRow` hands it to every subscriber or drops it. `JobSound` ties the
  listener's local state to its phase, and `Fresh` says that no open transaction
  holds an id that is committed, hence that a new row is not yet in `pending`.

`BookingsProofs` proves for all constants that satisfy `BookingsAssumption`, whose only
demand on a page's rules (`ValidRules`) is what the validation of a page lets through:

* `BookingsTypeCorrect`: `[](TypeOK /\ Shapes)`. `Shapes` says which locks a transaction
  has at each place it can have reached.
* `BookingsNeverDeadlock`: `[]NoDeadlock`, from `Shapes` alone: whoever has a booking's
  row waits for nothing, and whoever waits for the page's row has none.
* `BookingsNeverClosed`: `NeverBooksClosedPage`. The invariant `Locks` adds that each row
  has one holder, and that the page stays visible and active while its row is held.
* `BookingsKeepCalendar`: `KeepsCalendar`, that is `Spec => Cal!Spec`. The inductive
  invariant `Grounded` says what a request has established by where it is; for one
  about to write, that nothing else which stands overlaps its start (`Clear`). `FreeIsClear`
  shows that the check establishes it although it reads only the bookings of a day on
  either side and compares padded spans: that needs the upper bounds in `ValidRules`. Another
  commit keeps it, for a booking is made or moved only under the page's row lock, and a
  cancellation only makes room. `CalendarStep` then maps each commit to `Make`, `Move` or
  `Cancel`, and every other step to a stutter.
* `BookingsReminderFollows`: `[]ReminderFollows`, which rests on `Grounded` for a new
  booking: its id had no reminder.
* `MailsAlwaysTellTheStory`: `[]MailsTellTheStory`. The property counts; the invariant
  `StoryTold` says where the mails are: both confirmations first, both cancellations last, in
  between neither. A commit appends two mails (`Appended`), and `Grounded` says of what.
* `HorizonAlwaysHarmless`, `OffersAlwaysAccepted`: `[]HorizonHarmless` and `[]OfferedIsAccepted`,
  arithmetic about `Availability` that no state needs to be reached for. A slot lies within its
  date under one of the zone's two offsets (`GridWithinDate`), so that a date beyond
  the horizon is too late, and the day on either side of a start covers its date (`DateNearby`).
  Both need that a zone's offset never changes by more than a day and that the clock times of
  a range are those of one day: `ValidZone` and `ValidRanges`, which the validation of a page
  (`schemas.go`) and the IANA database give. The one day added to the horizon is just enough.

`BookingMailProofs` proves, over the same assumption, `PartiesAlwaysInformed`: `MailSpec =>
[]PartiesInformed`. It holds by induction over `MailTypes`, which says that the mail in hand has not ended
and that only mails there are have: whoever was to learn of a booking by a mail that ends
without being sent learns it by another, since a mail is overtaken only by one that waits behind it,
and a retry composes it anew.

`PollLifecycleProofs` proves for all constants that satisfy `PollAssumption`:

* `ToldOnceAlways`, `ClosedOnceAlways`: `[]ToldOnce` and `[]ClosedOnce`. A closing's letters are written by
  the worker that saw it, which may die and begin again, so `ClosingInv` counts the letters
  still to be queued (`Pending`) with those that are.
* `DecisionAlwaysReaches`: `[]DecisionReaches`, inductive by itself over `LifecycleTypeOK`: every step
  that makes or changes a decision queues its letters, every `Deliver` tells the decision then current.
* `DeadlineAlwaysArmed`: `[]DeadlineArmed`. The invariant `ArmInv` says what the row and the
  worker know of each other: before the deadline the row waits for it (`JobOnTime`), it never
  comes earlier (`NotEarly`), it stays while a worker has it in hand (`InHand`), and a worker
  that owns it and is past closing leaves no open poll (`LastLook`).
  The exceptions are the four crossings that `parted` and `late` record.

`PollResponsesProofs` proves for all constants that satisfy `ResponsesAssumption` and `DigestAssumption`:

* `VotesAlwaysOneSubmission`, `OnlyEditsDeadlock`, `RowsAlwaysRefer`: `[]VotesAreOneSubmission`,
  `[]DeadlockNeedsEdit` and `[]TypeOK`, from one invariant, `ResponseInv`. One transaction at a
  time has a participant's row (`OneHolder`), an update has deleted every vote before it writes one
  (`ClearsAll`), a newcomer is known to his own transaction only (`Newcomers`), and a vote that
  is written but not committed keeps its option (`CastRefers`). The deadlock theorem says that
  in every nonempty set of requests one waits for nobody in the set: each waits at most for
  the holder of a participant's row, and a holder casts or cascades without waiting.
* `NothingEverLost`: for any number of workers, an item that no longer waits and was not dropped
  has been told (`NothingLost`). `HolderKnows` ties what a worker read of the payload to the row
  it will delete: while it owns it, the row has those items or none.
* `TwiceOnlyWhenShared`: `[]OnceUnlessShared`, for any number of workers. It adds `ExactInv` to the
  above: two workers about to send one item have shared it (`SharedKnown`), what only
  one of them is about to send is still in the row (`TakesWhatIsThere`), and an item that waits has
  not been told, nor any twice that was not shared (`ToldAtMostOnce`). Without the exception it is
  false, as `MCPollDigestLease.cfg` shows.

`AccountsProofs` proves for all constants that satisfy `AccountsAssumption`, for any number of users,
requests and deletions, from one invariant `AccountsInv`:

* `RowsAlwaysRefer`: `[]TypeOK`. A deletion commits what it decided under row locks, so its heirs
  are still members of organizations that stand (`HeirsOK`).
* `LocksAlwaysHold`, `AlwaysActsWhereItBelongs`, `AlwaysHealsUnlessHindered`: `[]LockHolds`,
  `[]ActsWhereItBelongs`, `[]HealsUnlessHindered`. `RequestsOK` says at each place what a request has
  established, and what excuses one that has no organization (`Excused`). A second try forgets the excuses of
  the first (`Settled` holds anew once it is over), so what failed then does not count.
* `DeletionsHandOver`: `Spec => HandsOver`. While nothing interferes, what a deletion has decided is
  right of the rows as they are (`QuietDecide`); the commit then does exactly that.

Only model-checked: `RequestsAnswered`, `EveryoneLearns` and the other liveness properties, since tlapm 1.4.5 proves
neither ENABLED nor fairness arguments. Every invariant, every action property and
every refinement that a passing run checks is proved. Induction over
data is out of the prover's reach too; no module here declares a RECURSIVE operator.

What the properties do not claim, because the code does not: a lock that lands after a request has passed
its check leaves that one request served (`LockHolds` is about those that begin later); an edit
that deletes options can wait in a circle with ballots, and Postgres aborts one of them (`DeadlockNeedsEdit`);
the row of a replica that cannot write its heartbeat for 90 s is swept though it has viewers; and `TotalsAreTold` and
`CountsAreTold` say that the right figure is told, not that it is told last.

## Plan

1. `RoomHub`: that a newcomer is not swept the history that precedes it.
2. `Presence` and `LandingStats`: safety properties behind their liveness, and proofs of them.

## Not modelled, and why

Pure functions of one read (views, scoring, rosters, ICS, export, schemas), rendering and
SMTP, credentials and tokens (an external library and an HMAC), Google Calendar (external,
and switched off by `googleSyncActive`), configuration and wiring, HTTP routing,
the web client beyond its live connection, the wording of mails, and tables that only
ever see single independent statements (audit log, suppression list, rate limits).
