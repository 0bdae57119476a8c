------------------------------ MODULE JobQueue ------------------------------
(***************************************************************************)
(* The scheduled_jobs table and the workers that drain it (internal/jobs). *)
(*                                                                         *)
(* Every replica runs one Worker.  A poll claims a whole batch of due rows *)
(* in one statement, stamps them all with the same lock time and an        *)
(* incremented attempt count, and then runs their handlers one after the   *)
(* other.  Each outcome is written back by job id alone: nothing checks    *)
(* that the row is still locked by the worker that writes.                 *)
(*                                                                         *)
(* Time is relative and counts minutes: a row knows how long it has until  *)
(* run_at and how old its lock is, a worker how long its batch and its     *)
(* current handler have been going on.  Tick is the only action that takes *)
(* time; claiming and recording an outcome are single SQL statements and   *)
(* take none.                                                              *)
(*                                                                         *)
(* A job id names one job for as long as anything refers to it, and may    *)
(* name another afterwards: db.NewID never repeats an id, and one that     *)
(* nothing refers to cannot be told from a new one.                        *)
(***************************************************************************)
EXTENDS Integers, FiniteSets

CONSTANTS
    Workers,      \* the replicas' workers
    Ids,          \* job ids
    Chains,       \* keys of the self-rescheduling housekeeping jobs
    Rooms,        \* (kind, room_key) pairs that requests schedule and cancel
    NoKey,        \* the key of a job that is not room-scoped (a queued mail)
    None,         \* no worker, no job
    BatchSize,    \* claimBatchSize
    Lease,        \* lockTimeout, in minutes
    JobTimeout,   \* jobTimeout, in minutes
    MaxAttempts,  \* max_attempts of everything but the housekeeping chains
    BackoffCap,   \* the longest retry delay, in minutes
    Delays,       \* how far ahead requests and handlers schedule, in minutes
    MaxRetries    \* bound: admin retries of one job

Keys == Chains \cup Rooms \cup {NoKey}

ASSUME JobQueueAssumption ==
    /\ IsFiniteSet(Ids)
    /\ None \notin Workers \cup Ids
    /\ Chains \cap Rooms = {}
    /\ NoKey \notin Chains \cup Rooms
    /\ BatchSize \in Nat \ {0}
    /\ Lease \in Nat
    /\ JobTimeout \in Nat \ {0}
    /\ MaxAttempts \in Nat \ {0}
    /\ BackoffCap \in Nat \ {0}
    /\ Delays \subseteq Nat
    /\ MaxRetries \in Nat

VARIABLES
    rows,       \* the ids in scheduled_jobs
    job,        \* what each id stands for: its columns, kept while in memory
    worker,     \* each worker's batch and progress through it
    succeeded,  \* history: rows whose handler has returned nil
    runs,       \* history: starts of the handler of each job but the chains'
    retries,    \* history: how often an admin retried each id
    overrun     \* history: rows claimed while a batch that had outlived its lease had them

table   == <<rows, job>>
history == <<succeeded, runs, retries, overrun>>
vars    == <<rows, job, worker, succeeded, runs, retries, overrun>>

Phases == {"idle", "next", "running", "ok", "err"}

JobRecord == [key : Keys, wait : Nat, attempts : Nat,
              holder : Workers \cup {None}, age : Nat]

WorkerRecord == [phase : Phases, cur : Ids \cup {None}, rest : SUBSET Ids,
                 elapsed : Nat, since : Nat, rearmed : BOOLEAN]

\* scheduled_jobs_room_kind_idx: a key has one row.
OneRowPerKey ==
    \A i, j \in rows : job[i].key = job[j].key /\ job[i].key # NoKey => i = j

\* The types, and one row per key.
TypeOK ==
    /\ rows \subseteq Ids
    /\ job \in [Ids -> JobRecord]
    /\ worker \in [Workers -> WorkerRecord]
    /\ \A w \in Workers :
          worker[w].cur = None <=> worker[w].phase \in {"idle", "next"}
    /\ succeeded \subseteq rows
    /\ runs \in [Ids -> Nat]
    /\ retries \in [Ids -> Nat]
    /\ overrun \subseteq rows
    /\ OneRowPerKey

Smaller(a, b) == IF a <= b THEN a ELSE b

IdleWorker == [phase |-> "idle", cur |-> None, rest |-> {},
               elapsed |-> 0, since |-> 0, rearmed |-> FALSE]

Row(k, d, n, h, g) ==
    [key |-> k, wait |-> d, attempts |-> n, holder |-> h, age |-> g]

FreshJob(k, d) == Row(k, d, 0, None, 0)

Init ==
    /\ rows = {}
    /\ job = [i \in Ids |-> FreshJob(NoKey, 0)]
    /\ worker = [w \in Workers |-> IdleWorker]
    /\ succeeded = {}
    /\ runs = [i \in Ids |-> 0]
    /\ retries = [i \in Ids |-> 0]
    /\ overrun = {}

-----------------------------------------------------------------------------
(***************************************************************************)
(* The table                                                               *)
(***************************************************************************)

\* The worker has the job in its batch and has not recorded its outcome yet.
Holds(w, i) == i = worker[w].cur \/ i \in worker[w].rest

HasRow(k) == \E i \in rows : job[i].key = k

Unused == {i \in Ids : i \notin rows /\ \A w \in Workers : ~Holds(w, i)}

\* The rows in gone leave the table.  Of a job that is in no row only the kind
\* and payload a worker holds in memory are left.
Drop(gone) ==
    /\ rows' = rows \ gone
    /\ job' = [j \in Ids |-> IF j \in gone THEN FreshJob(job[j].key, 0)
                                           ELSE job[j]]
    /\ succeeded' = succeeded \ gone
    /\ runs' = [j \in Ids |-> IF j \in gone THEN 0 ELSE runs[j]]
    /\ retries' = [j \in Ids |-> IF j \in gone THEN 0 ELSE retries[j]]
    /\ overrun' = overrun \ gone

\* Mutation: on a conflict the old row keeps its id (no id = EXCLUDED.id).
UpsertKeepingId(i, k, d) ==
    LET target == IF k # NoKey /\ HasRow(k)
                  THEN CHOOSE j \in rows : job[j].key = k ELSE i
    IN  /\ rows' = rows \cup {target}
        /\ job' = [job EXCEPT ![target] = FreshJob(k, d)]
        /\ UNCHANGED history

\* Mutation: no ON CONFLICT: the new row stands beside the old one.
UpsertBeside(i, k, d) ==
    /\ rows' = rows \cup {i}
    /\ job' = [job EXCEPT ![i] = FreshJob(k, d)]
    /\ UNCHANGED history

\* The INSERT of Schedule.  A keyed job replaces the one row its key has,
\* whatever state that row is in, and takes the new id with it.
Upsert(i, k, d) ==
    LET old == {j \in rows : k # NoKey /\ job[j].key = k}
    IN  /\ rows' = (rows \ old) \cup {i}
        /\ job' = [j \in Ids |-> IF j = i THEN FreshJob(k, d)
                                 ELSE IF j \in old THEN FreshJob(k, 0)
                                 ELSE job[j]]
        /\ succeeded' = succeeded \ old
        /\ runs' = [j \in Ids |-> IF j \in old THEN 0 ELSE runs[j]]
        /\ retries' = [j \in Ids |-> IF j \in old THEN 0 ELSE retries[j]]
        /\ overrun' = overrun \ old

\* A request schedules a room's job, or queues a mail, in its transaction.
Schedule(k, d) ==
    /\ k \in Rooms \cup {NoKey}
    /\ \E i \in Unused : Upsert(i, k, d)
    /\ UNCHANGED worker

\* EnsureScheduled at boot, for one chain: a row that exists is left alone.
ScheduleIfAbsent(k, d) ==
    /\ k \in Chains
    /\ ~HasRow(k)
    /\ \E i \in Unused : Upsert(i, k, d)
    /\ UNCHANGED worker

\* A request withdraws a room's pending job, claimed or not.
Cancel(k) ==
    /\ k \in Rooms
    /\ HasRow(k)
    /\ Drop({j \in rows : job[j].key = k})
    /\ UNCHANGED worker

\* Mutation: the housekeeping chains have an ordinary budget.
SpentByAll(i) == job[i].attempts >= MaxAttempts

\* The attempt budget is spent.  housekeepingMaxAttempts is a million, hours
\* apart: a chain's budget is never spent.
Spent(i) == job[i].key \notin Chains /\ job[i].attempts >= MaxAttempts

\* Mutation: a lock never expires.
DueUnlocked == {i \in rows : job[i].wait = 0 /\ ~Spent(i) /\ job[i].holder = None}

\* What ClaimDue's WHERE selects.
Due ==
    {i \in rows : /\ job[i].wait = 0
                  /\ ~Spent(i)
                  /\ job[i].holder = None \/ job[i].age > Lease}

\* Mutation: claiming does not count the attempt.
ClaimedUncounted(j, w) == Row(j.key, j.wait, j.attempts, w, 0)

\* Mutation: a reclaim leaves locked_at as it was.
ClaimedKeepingLock(j, w) ==
    Row(j.key, j.wait,
        IF j.attempts < MaxAttempts THEN j.attempts + 1 ELSE j.attempts, w, j.age)

\* The columns ClaimDue stamps.  A chain's count stops where it no longer
\* matters, short of its budget.
Claimed(j, w) ==
    Row(j.key, j.wait,
        IF j.attempts < MaxAttempts THEN j.attempts + 1 ELSE j.attempts, w, 0)

-----------------------------------------------------------------------------
(***************************************************************************)
(* The worker                                                              *)
(***************************************************************************)

BetweenJobs(S, minutes) == [phase |-> "next", cur |-> None, rest |-> S,
                            elapsed |-> 0, since |-> minutes, rearmed |-> FALSE]

\* A poll: one statement claims up to BatchSize due rows.  Which ones when
\* there are more, and in which order they come back, is left open.
ClaimDue(w) ==
    /\ worker[w].phase = "idle"
    /\ \E S \in SUBSET Due :
          /\ S # {}
          /\ Cardinality(S) = Smaller(BatchSize, Cardinality(Due))
          /\ job' = [i \in Ids |-> IF i \in S THEN Claimed(job[i], w)
                                              ELSE job[i]]
          /\ worker' = [worker EXCEPT ![w] = BetweenJobs(S, 0)]
          /\ overrun' = overrun \cup
                {i \in S : \E v \in Workers : Holds(v, i) /\ worker[v].since > Lease}
    /\ UNCHANGED <<rows, succeeded, runs, retries>>

Running(b, i) == [phase |-> "running", cur |-> i, rest |-> b.rest \ {i},
                  elapsed |-> 0, since |-> b.since, rearmed |-> FALSE]

\* RunOnce takes the next job of its batch and invokes the handler.
StartJob(w) ==
    /\ worker[w].phase = "next"
    /\ \E i \in worker[w].rest :
          /\ worker' = [worker EXCEPT ![w] = Running(worker[w], i)]
          /\ runs' = [runs EXCEPT ![i] =
                         IF i \in rows /\ job[i].key \notin Chains THEN @ + 1 ELSE @]
    /\ UNCHANGED <<table, succeeded, retries, overrun>>

CurKey(w) == job[worker[w].cur].key

\* The handler schedules its own key again, in a statement of its own: every
\* housekeeping chain does, and poll.deadline when it defers itself.
Rearm(w, d) ==
    /\ worker[w].phase = "running"
    /\ ~worker[w].rearmed
    /\ CurKey(w) # NoKey
    /\ \E i \in Unused : Upsert(i, CurKey(w), d)
    /\ worker' = [worker EXCEPT ![w].rearmed = TRUE]

\* The handler returns nil.  A chain's last statement is its reschedule.
HandlerOk(w) ==
    /\ worker[w].phase = "running"
    /\ CurKey(w) \in Chains => worker[w].rearmed
    /\ worker' = [worker EXCEPT ![w].phase = "ok"]
    /\ succeeded' = succeeded \cup (rows \cap {worker[w].cur})
    /\ UNCHANGED <<table, runs, retries, overrun>>

\* It returns an error, panics, is of an unknown kind or runs into JobTimeout.
HandlerErr(w) ==
    /\ worker[w].phase = "running"
    /\ worker' = [worker EXCEPT ![w].phase = "err"]
    /\ UNCHANGED <<table, history>>

\* process is done with the current job: on to the rest of the batch, or to
\* the next poll.
Advance(w) ==
    worker' = [worker EXCEPT ![w] =
                  IF worker[w].rest = {} THEN IdleWorker
                  ELSE BetweenJobs(worker[w].rest, worker[w].since)]

\* Mutation: Complete deletes by key what Schedule put in the job's place.
CompleteByKey(w) ==
    /\ worker[w].phase = "ok"
    /\ Drop({j \in rows : \/ j = worker[w].cur
                          \/ CurKey(w) # NoKey /\ job[j].key = CurKey(w)})
    /\ Advance(w)

\* DELETE ... WHERE id = the id this worker claimed, if that row still exists.
Complete(w) ==
    /\ worker[w].phase = "ok"
    /\ Drop(rows \cap {worker[w].cur})
    /\ Advance(w)

\* 1, 2, 4, ... minutes, at most BackoffCap.
Backoff(attempts) ==
    IF 2^attempts \in 1..BackoffCap THEN 2^attempts ELSE BackoffCap

Failed(j) ==
    Row(j.key,
        IF j.attempts < MaxAttempts \/ j.key \in Chains
        THEN Backoff(j.attempts) ELSE j.wait,
        j.attempts, None, 0)

\* The lock is cleared by id, whoever holds it by now; a row with attempts
\* left gets a new run_at, one without is the dead letter.
Fail(w) ==
    LET i == worker[w].cur
    IN  /\ worker[w].phase = "err"
        /\ job' = IF i \in rows THEN [job EXCEPT ![i] = Failed(@)] ELSE job
        /\ Advance(w)
        /\ UNCHANGED <<rows, history>>

\* Complete or fail itself fails: process only logs it, the row stays locked.
Unrecorded(w) ==
    /\ worker[w].phase \in {"ok", "err"}
    /\ Advance(w)
    /\ UNCHANGED <<table, history>>

\* The replica is killed; its successor starts with nothing claimed.
Crash(w) ==
    /\ worker[w].phase # "idle"
    /\ worker' = [worker EXCEPT ![w] = IdleWorker]
    /\ UNCHANGED <<table, history>>

-----------------------------------------------------------------------------
(***************************************************************************)
(* The dead letters, the clock, the specification                          *)
(***************************************************************************)

InFlight(i) == \E w \in Workers : Holds(w, i)

\* The console's retry, its attempts check included.
Retry(i) ==
    /\ i \in rows
    /\ job[i].attempts >= MaxAttempts /\ job[i].key \notin Chains
    /\ retries[i] < MaxRetries
    /\ job' = [job EXCEPT ![i] = FreshJob(job[i].key, 0)]
    /\ retries' = [retries EXCEPT ![i] = @ + 1]
    /\ UNCHANGED <<rows, worker, succeeded, runs, overrun>>

\* sweepDeadLetters drops a dead row that is old enough; how old is left open.
SweepDeadLetter(i) ==
    /\ i \in rows
    /\ Spent(i)
    /\ Drop({i})
    /\ UNCHANGED worker

\* How long past the lease makes no difference.
Older(t) == Smaller(t + 1, Lease + 1)

\* run_at comes nearer, and once reached stays reached.
Countdown(t) == IF t > 0 THEN t - 1 ELSE 0

Aged(j) ==
    Row(j.key, Countdown(j.wait), j.attempts, j.holder,
        IF j.holder # None THEN Older(j.age) ELSE j.age)

\* A minute passes.  A handler's context ends at JobTimeout, and no worker is
\* between two statements of its own.
Tick ==
    /\ \A w \in Workers : \/ worker[w].phase = "idle"
                          \/ /\ worker[w].phase = "running"
                             /\ worker[w].elapsed < JobTimeout
    /\ worker' = [w \in Workers |->
                     IF worker[w].phase = "running"
                     THEN [worker[w] EXCEPT !.elapsed = @ + 1, !.since = Older(@)]
                     ELSE worker[w]]
    /\ job' = [i \in Ids |-> Aged(job[i])]
    /\ UNCHANGED <<rows, history>>

Work(w) ==
    \/ ClaimDue(w)
    \/ StartJob(w)
    \/ \E d \in Delays : Rearm(w, d)
    \/ HandlerOk(w)
    \/ HandlerErr(w)
    \/ Complete(w)
    \/ Fail(w)
    \/ Unrecorded(w)

Request ==
    \/ \E k \in Keys, d \in Delays : Schedule(k, d)
    \/ \E k \in Keys, d \in Delays : ScheduleIfAbsent(k, d)
    \/ \E k \in Keys : Cancel(k)
    \/ \E i \in Ids : Retry(i)
    \/ \E i \in Ids : SweepDeadLetter(i)

Next ==
    \/ \E w \in Workers : Work(w)
    \/ \E w \in Workers : Crash(w)
    \/ Request
    \/ Tick

Spec == Init /\ [][Next]_vars

\* Run polls for as long as the replica lives and RunOnce never stops half-way
\* through a batch: each worker keeps taking its steps, and time goes on.
Fairness ==
    /\ SF_vars(Tick)
    /\ \A w \in Workers : WF_vars(Work(w))

\* From some point on no replica is killed.
FairSpec == Spec /\ Fairness /\ <>[][\A w \in Workers : ~Crash(w)]_vars

-----------------------------------------------------------------------------
(***************************************************************************)
(* Properties                                                              *)
(***************************************************************************)

\* A housekeeping chain that has a row always has one: a worker's Complete of
\* the id it claimed never takes the row the handler has just scheduled, and
\* no crash, stale worker or sweep ends a chain (Schedule's id swap).
ChainsSurvive == [][\A k \in Chains : HasRow(k) => HasRow(k)']_vars

\* Two workers never have the same job in hand, unless an admin retried it:
\* what jobTimeout's comment wants of the lease, which the serial batch gives
\* only while BatchSize * JobTimeout <= Lease.
NoDoubleRun ==
    \A v, w \in Workers, i \in rows :
        v # w /\ Holds(v, i) /\ Holds(w, i) => retries[i] > 0

\* jobs.go:26-29: two workers have the same job in hand only if an admin retried it, or
\* if one claimed it while the batch of another that had it had outlived its lease:
\* whatever crashed, failed or was never recorded, no lock is broken early.
OverlapOnlyPastLease ==
    \A v, w \in Workers, i \in rows :
        v # w /\ Holds(v, i) /\ Holds(w, i) => retries[i] > 0 \/ i \in overrun

\* A job's handler is started at most MaxAttempts times per budget it was
\* given, through crashes, lost outcomes and overlapping leases alike:
\* ClaimDue counts the attempt before the handler can take the replica down.
RunsWithinBudget ==
    \A i \in Ids : job[i].key \notin Chains
        => runs[i] <= MaxAttempts * (1 + retries[i])

\* The console's retry never resets a job a worker still has in hand
\* (handleRetryJob: "resurrecting a job that's merely mid-flight is never the
\* support console's intent").
RetrySparesRunning ==
    [][\A i \in rows : retries'[i] = retries[i] + 1 => ~InFlight(i)]_vars

\* Every job is settled: its row goes, or it is dead and no longer in hand.
\* Crashes, lost writes and failing handlers only delay that.
JobsSettle ==
    \A i \in Ids : (i \in rows /\ job[i].key \notin Chains)
        ~> (i \notin rows \/ (Spent(i) /\ ~InFlight(i)))

\* A seeded chain is run again and again, whatever its handler does.
ChainsKeepRunning ==
    \A k \in Chains : HasRow(k)
        ~> \E w \in Workers : worker[w].phase = "running" /\ CurKey(w) = k

\* The queue keeps the promise: at-least-once, by id, under every interleaving
\* of stale workers, upserts, cancels and sweeps.
Promise == INSTANCE JobPromise WITH
    owed      <- rows,
    keyOf     <- [i \in Ids |-> job[i].key],
    performed <- succeeded \cap rows,
    spent     <- {i \in rows : Spent(i)}

KeepsPromise == Promise!Spec

=============================================================================
