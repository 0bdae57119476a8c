--------------------------- MODULE JobQueueProofs ---------------------------
(***************************************************************************)
(* What holds of JobQueue for every number of workers, jobs and rooms and  *)
(* every setting of the timeouts.                                          *)
(***************************************************************************)
EXTENDS JobQueue, FiniteSetTheorems, TLAPS

(***************************************************************************)
(* Types                                                                   *)
(***************************************************************************)

WorkersTyped ==
    /\ worker \in [Workers -> WorkerRecord]
    /\ \A w \in Workers :
          worker[w].cur = None <=> worker[w].phase \in {"idle", "next"}

\* Putting a job under an unused id keeps the table and the histories well
\* typed.
LEMMA UpsertType ==
    ASSUME TypeOK, NEW i \in Ids, NEW k \in Keys, NEW d \in Delays,
           Upsert(i, k, d)
    PROVE  /\ (rows \subseteq Ids)'
           /\ (job \in [Ids -> JobRecord])'
           /\ (succeeded \subseteq rows)'
           /\ (runs \in [Ids -> Nat])'
           /\ (retries \in [Ids -> Nat])'
           /\ (overrun \subseteq rows)'
<1>1. FreshJob(k, d) \in JobRecord /\ FreshJob(k, 0) \in JobRecord
  BY JobQueueAssumption DEF FreshJob, Row, JobRecord
<1>2. QED
  BY <1>1 DEF Upsert, TypeOK

\* A keyed job takes the place of the one its key had.
LEMMA UpsertOneRow ==
    ASSUME TypeOK, NEW i \in Unused, NEW k \in Keys, NEW d \in Delays,
           Upsert(i, k, d)
    PROVE  OneRowPerKey'
<1> DEFINE old == {j \in rows : k # NoKey /\ job[j].key = k}
<1>1. /\ rows' = (rows \ old) \cup {i} /\ job'[i].key = k
      /\ \A j \in rows \ old : job'[j].key = job[j].key
  BY DEF Upsert, Unused, FreshJob, Row, TypeOK
<1>2. ASSUME NEW a \in rows', NEW b \in rows', job'[a].key = job'[b].key, job'[a].key # NoKey
      PROVE  a = b
  BY <1>1, <1>2 DEF TypeOK, OneRowPerKey
<1>3. QED
  BY <1>2 DEF OneRowPerKey

\* What changes no key and adds no row leaves one row per key.
LEMMA RowsStayOne ==
    ASSUME TypeOK, rows' \subseteq rows, \A i \in rows' : job'[i].key = job[i].key
    PROVE  OneRowPerKey'
BY DEF TypeOK, OneRowPerKey

\* So does dropping rows.
LEMMA DropType ==
    ASSUME TypeOK, NEW gone, Drop(gone)
    PROVE  /\ (rows \subseteq Ids)'
           /\ (job \in [Ids -> JobRecord])'
           /\ (succeeded \subseteq rows)'
           /\ (runs \in [Ids -> Nat])'
           /\ (retries \in [Ids -> Nat])'
           /\ (overrun \subseteq rows)'
           /\ OneRowPerKey'
<1>1. \A j \in Ids : FreshJob(job[j].key, 0) \in JobRecord
  BY DEF FreshJob, Row, JobRecord, TypeOK
<1>2. OneRowPerKey'
  BY RowsStayOne DEF Drop, FreshJob, Row, TypeOK
<1>3. QED
  BY <1>1, <1>2 DEF Drop, TypeOK

\* Going on to the next job of a batch keeps the workers well typed.
LEMMA AdvanceType ==
    ASSUME TypeOK, NEW w \in Workers, Advance(w)
    PROVE  WorkersTyped'
<1>1. IdleWorker \in WorkerRecord
  BY DEF IdleWorker, WorkerRecord, Phases
<1>2. BetweenJobs(worker[w].rest, worker[w].since) \in WorkerRecord
  BY DEF BetweenJobs, TypeOK, WorkerRecord, Phases
<1>3. QED
  BY <1>1, <1>2 DEF Advance, IdleWorker, BetweenJobs, TypeOK, WorkersTyped

\* A minute keeps every row's key, budget and lock holder, and all a worker has in
\* hand but its two clocks.
LEMMA TickFrame ==
    ASSUME TypeOK, Tick
    PROVE  /\ rows' = rows /\ succeeded' = succeeded /\ runs' = runs
           /\ retries' = retries /\ overrun' = overrun
           /\ \A i \in Ids : /\ job'[i].key = job[i].key
                            /\ job'[i].attempts = job[i].attempts
                            /\ job'[i].holder = job[i].holder
           /\ \A v \in Workers : /\ worker'[v].phase = worker[v].phase
                                /\ worker'[v].cur = worker[v].cur
                                /\ worker'[v].rest = worker[v].rest
                                /\ worker'[v].rearmed = worker[v].rearmed
           /\ WorkersTyped'
<1> DEFINE later(v) == [worker[v] EXCEPT !.elapsed = @ + 1, !.since = Older(@)]
<1>1. \A v \in Workers : /\ worker[v] \in WorkerRecord
                        /\ worker[v].elapsed \in Nat /\ worker[v].since \in Nat
  BY DEF TypeOK, WorkerRecord
<1>2. \A t \in Nat : Older(t) \in Nat
  BY JobQueueAssumption DEF Older, Smaller
<1>3. worker' = [v \in Workers |-> IF worker[v].phase = "running" THEN later(v) ELSE worker[v]]
  BY DEF Tick
<1>4. \A v \in Workers : /\ later(v) \in WorkerRecord
                        /\ later(v).phase = worker[v].phase
                        /\ later(v).cur = worker[v].cur
                        /\ later(v).rest = worker[v].rest
                        /\ later(v).rearmed = worker[v].rearmed
  <2> SUFFICES ASSUME NEW v \in Workers
               PROVE  /\ later(v) \in WorkerRecord
                      /\ later(v).phase = worker[v].phase
                      /\ later(v).cur = worker[v].cur
                      /\ later(v).rest = worker[v].rest
                      /\ later(v).rearmed = worker[v].rearmed
    OBVIOUS
  <2>1. PICK a \in Nat, b \in Nat : later(v) = [worker[v] EXCEPT !.elapsed = a, !.since = b]
    <3>1. worker[v].elapsed + 1 \in Nat /\ Older(worker[v].since) \in Nat
      BY <1>1, <1>2
    <3>2. later(v) = [worker[v] EXCEPT !.elapsed = worker[v].elapsed + 1,
                                       !.since = Older(worker[v].since)]
      OBVIOUS
    <3>3. QED
      BY <3>1, <3>2
  <2>2. QED
    BY <1>1, <2>1 DEF WorkerRecord
<1>5. \A v \in Workers : worker'[v] = later(v) \/ worker'[v] = worker[v]
  BY <1>3
<1> HIDE DEF later
<1>6. WorkersTyped'
  <2>1. worker' \in [Workers -> WorkerRecord]
    BY <1>1, <1>3, <1>4
  <2>2. QED
    BY <1>4, <1>5, <2>1 DEF WorkersTyped, TypeOK
<1>7. \A i \in Ids : /\ job'[i].key = job[i].key
                    /\ job'[i].attempts = job[i].attempts
                    /\ job'[i].holder = job[i].holder
  BY DEF Tick, Aged, Row
<1>8. QED
  BY <1>4, <1>5, <1>6, <1>7 DEF Tick, history

\* jobs.go:100-107, migrations/00001_infra.sql:50: every variable keeps its type, and a
\* room or a chain never has two rows, whoever reschedules it and whenever.
THEOREM TypeCorrect == Spec => []TypeOK
<1>1. Init => TypeOK
  BY JobQueueAssumption
     DEF Init, TypeOK, OneRowPerKey, FreshJob, Row, JobRecord, Keys, IdleWorker, WorkerRecord, Phases
<1>2. TypeOK /\ [Next]_vars => TypeOK'
  <2> SUFFICES ASSUME TypeOK, [Next]_vars PROVE TypeOK'
    OBVIOUS
  <2>1. ASSUME NEW k \in Keys, NEW d \in Delays, Schedule(k, d) PROVE TypeOK'
    BY <2>1, UpsertType, UpsertOneRow DEF Schedule, Unused, TypeOK
  <2>2. ASSUME NEW k \in Keys, NEW d \in Delays, ScheduleIfAbsent(k, d)
        PROVE TypeOK'
    BY <2>2, UpsertType, UpsertOneRow DEF ScheduleIfAbsent, Unused, TypeOK
  <2>3. ASSUME NEW k \in Keys, Cancel(k) PROVE TypeOK'
    <3>1. Drop({j \in rows : job[j].key = k}) /\ UNCHANGED worker
      BY <2>3 DEF Cancel
    <3>2. QED
      BY <3>1, DropType DEF TypeOK
  <2>4. ASSUME NEW i \in Ids, Retry(i) PROVE TypeOK'
    <3>1. FreshJob(job[i].key, 0) \in JobRecord
      BY DEF FreshJob, Row, JobRecord, TypeOK
    <3>2. OneRowPerKey'
      BY <2>4, RowsStayOne DEF Retry, FreshJob, Row, TypeOK
    <3>3. QED
      BY <2>4, <3>1, <3>2 DEF Retry, TypeOK
  <2>5. ASSUME NEW i \in Ids, SweepDeadLetter(i) PROVE TypeOK'
    <3>1. Drop({i}) /\ UNCHANGED worker
      BY <2>5 DEF SweepDeadLetter
    <3>2. QED
      BY <3>1, DropType DEF TypeOK
  <2>6. ASSUME NEW w \in Workers, ClaimDue(w) PROVE TypeOK'
    <3>1. \A i \in Ids : Claimed(job[i], w) \in JobRecord
      BY JobQueueAssumption DEF Claimed, Row, JobRecord, TypeOK
    <3>2. \A S \in SUBSET Due : BetweenJobs(S, 0) \in WorkerRecord
      BY DEF BetweenJobs, WorkerRecord, Phases, Due, TypeOK
    <3>3. OneRowPerKey'
      BY <2>6, RowsStayOne DEF ClaimDue, Claimed, Row, TypeOK
    <3>4. QED
      BY <2>6, <3>1, <3>2, <3>3 DEF ClaimDue, BetweenJobs, Due, TypeOK
  <2>7. ASSUME NEW w \in Workers, StartJob(w) PROVE TypeOK'
    <3>1. PICK i \in worker[w].rest :
             /\ worker' = [worker EXCEPT ![w] = Running(worker[w], i)]
             /\ runs' = [runs EXCEPT ![i] =
                         IF i \in rows /\ job[i].key \notin Chains THEN @ + 1 ELSE @]
      BY <2>7 DEF StartJob
    <3>2. i \in Ids
      BY DEF TypeOK, WorkerRecord
    <3>3. WorkersTyped'
      BY <3>1, <3>2, JobQueueAssumption
         DEF Running, TypeOK, WorkersTyped, WorkerRecord, Phases
    <3>4. runs' \in [Ids -> Nat]
      BY <3>1, <3>2 DEF TypeOK
    <3>5. OneRowPerKey'
      BY <2>7, RowsStayOne DEF StartJob, table
    <3>6. QED
      BY <2>7, <3>3, <3>4, <3>5 DEF StartJob, table, TypeOK, WorkersTyped
  <2>8. ASSUME NEW w \in Workers, NEW d \in Delays, Rearm(w, d) PROVE TypeOK'
    <3>1. worker[w].cur \in Ids
      BY <2>8 DEF Rearm, TypeOK, WorkerRecord
    <3>2. CurKey(w) \in Keys
      BY <3>1 DEF CurKey, TypeOK, JobRecord
    <3>3. WorkersTyped'
      BY <2>8 DEF Rearm, TypeOK, WorkersTyped, WorkerRecord
    <3>4. QED
      BY <2>8, <3>2, <3>3, UpsertType, UpsertOneRow DEF Rearm, Unused, TypeOK, WorkersTyped
  <2>9. ASSUME NEW w \in Workers, HandlerOk(w) PROVE TypeOK'
    BY <2>9, RowsStayOne DEF HandlerOk, table, TypeOK, WorkerRecord, Phases
  <2>10. ASSUME NEW w \in Workers, HandlerErr(w) PROVE TypeOK'
    BY <2>10, RowsStayOne DEF HandlerErr, table, history, TypeOK, WorkerRecord, Phases
  <2>11. ASSUME NEW w \in Workers, Complete(w) PROVE TypeOK'
    <3>1. Drop(rows \cap {worker[w].cur}) /\ Advance(w)
      BY <2>11 DEF Complete
    <3>2. QED
      BY <3>1, DropType, AdvanceType DEF WorkersTyped, TypeOK
  <2>12. ASSUME NEW w \in Workers, Fail(w) PROVE TypeOK'
    <3>1. \A i \in Ids : Failed(job[i]) \in JobRecord
      BY JobQueueAssumption DEF Failed, Row, Backoff, JobRecord, TypeOK
    <3>2. job' \in [Ids -> JobRecord]
      BY <2>12, <3>1 DEF Fail, TypeOK
    <3>3. OneRowPerKey'
      BY <2>12, RowsStayOne DEF Fail, Failed, Row, TypeOK
    <3>4. QED
      BY <2>12, <3>2, <3>3, AdvanceType DEF WorkersTyped, Fail, history, TypeOK
  <2>13. ASSUME NEW w \in Workers, Unrecorded(w) PROVE TypeOK'
    BY <2>13, AdvanceType, RowsStayOne DEF WorkersTyped, Unrecorded, table, history, TypeOK
  <2>14. ASSUME NEW w \in Workers, Crash(w) PROVE TypeOK'
    BY <2>14, RowsStayOne DEF Crash, table, history, TypeOK, IdleWorker, WorkerRecord, Phases
  <2>15. ASSUME Tick PROVE TypeOK'
    <3>1. \A i \in Ids : Aged(job[i]) \in JobRecord
      BY JobQueueAssumption DEF Aged, Row, Countdown, Older, Smaller, JobRecord, TypeOK
    <3>2. OneRowPerKey'
      BY <2>15, TickFrame, RowsStayOne DEF TypeOK
    <3>3. QED
      BY <2>15, <3>1, <3>2, TickFrame DEF Tick, TypeOK, WorkersTyped
  <2>16. CASE UNCHANGED vars
    BY <2>16, RowsStayOne DEF vars, TypeOK
  <2>17. QED
    BY <2>1, <2>2, <2>3, <2>4, <2>5, <2>6, <2>7, <2>8, <2>9, <2>10, <2>11,
       <2>12, <2>13, <2>14, <2>15, <2>16 DEF Next, Work, Request
<1>3. QED
  BY <1>1, <1>2, PTL DEF Spec

(***************************************************************************)
(* Chains                                                                  *)
(***************************************************************************)

\* What a worker's memory says of the table: once a handler has rescheduled
\* itself the id it was claimed under is in no row, and a chain's handler has
\* rescheduled itself by the time it has succeeded.  Nothing puts that id back
\* while the worker has it in hand: Upsert takes an id nobody holds.
ChainInv ==
    \A w \in Workers :
        /\ worker[w].rearmed => worker[w].cur \notin rows
        /\ worker[w].phase = "ok" /\ CurKey(w) \in Chains => worker[w].rearmed

\* A new row under an id nobody holds changes no other id's key, and brings
\* no other id back into the table.
LEMMA UpsertFrame ==
    ASSUME TypeOK, NEW i \in Unused, NEW k, NEW d, Upsert(i, k, d)
    PROVE  /\ \A j \in Ids \ {i} : job'[j].key = job[j].key
           /\ rows' \subseteq rows \cup {i}
           /\ \A j \in rows : k # NoKey /\ job[j].key = k => j \notin rows'
           /\ \A j \in rows : job[j].key # k => j \in rows'
           /\ i \in rows' /\ job'[i].key = k
           /\ i \in Ids /\ i \notin rows
           /\ \A w \in Workers : worker[w].cur # i
BY DEF Upsert, Unused, Holds, FreshJob, Row, TypeOK

\* Every step keeps what the workers know of the table true.
LEMMA ChainInductive == TypeOK /\ ChainInv /\ [Next]_vars => ChainInv'
<1> SUFFICES ASSUME TypeOK, ChainInv, [Next]_vars PROVE ChainInv'
  OBVIOUS
<1> DEFINE SameKeys == \A i \in Ids : job'[i].key = job[i].key
<1>a. ASSUME NEW gone, Drop(gone) PROVE SameKeys /\ rows' \subseteq rows
  BY <1>a DEF Drop, FreshJob, Row
<1>b. \A w \in Workers : worker[w].phase \in {"running", "ok", "err"}
                           => worker[w].cur \in Ids
  BY DEF TypeOK, WorkerRecord
<1>c. ASSUME SameKeys, rows' \subseteq rows, UNCHANGED worker PROVE ChainInv'
  BY <1>b, <1>c DEF ChainInv, CurKey
<1>d. ASSUME NEW w \in Workers, SameKeys, rows' \subseteq rows,
             \A v \in Workers \ {w} : worker'[v] = worker[v],
             ~worker'[w].rearmed, worker'[w].phase # "ok"
      PROVE ChainInv'
  BY <1>b, <1>d DEF ChainInv, CurKey
<1>e. ASSUME NEW w \in Workers, Advance(w)
      PROVE  /\ \A v \in Workers \ {w} : worker'[v] = worker[v]
             /\ ~worker'[w].rearmed /\ worker'[w].phase # "ok"
  BY <1>e DEF Advance, IdleWorker, BetweenJobs, TypeOK
<1>f. ASSUME NEW i \in Unused, NEW k, NEW d, Upsert(i, k, d), UNCHANGED worker
      PROVE  ChainInv'
  BY <1>b, <1>f, UpsertFrame DEF ChainInv, CurKey
<1>1. ASSUME NEW k \in Keys, NEW d \in Delays, Schedule(k, d) PROVE ChainInv'
  BY <1>1, <1>f DEF Schedule
<1>2. ASSUME NEW k \in Keys, NEW d \in Delays, ScheduleIfAbsent(k, d)
      PROVE ChainInv'
  BY <1>2, <1>f DEF ScheduleIfAbsent
<1>3. ASSUME NEW k \in Keys, Cancel(k) PROVE ChainInv'
  BY <1>3, <1>a, <1>c DEF Cancel
<1>4. ASSUME NEW i \in Ids, Retry(i) PROVE ChainInv'
  <2>1. SameKeys
    BY <1>4 DEF Retry, FreshJob, Row, TypeOK
  <2>2. QED
    BY <1>4, <2>1, <1>c DEF Retry
<1>5. ASSUME NEW i \in Ids, SweepDeadLetter(i) PROVE ChainInv'
  BY <1>5, <1>a, <1>c DEF SweepDeadLetter
<1>6. ASSUME NEW w \in Workers, ClaimDue(w) PROVE ChainInv'
  <2>1. SameKeys
    BY <1>6 DEF ClaimDue, Claimed, Row
  <2>2. /\ \A v \in Workers \ {w} : worker'[v] = worker[v]
        /\ ~worker'[w].rearmed /\ worker'[w].phase # "ok"
    BY <1>6 DEF ClaimDue, BetweenJobs, TypeOK
  <2>3. QED
    BY <1>6, <2>1, <2>2, <1>d DEF ClaimDue
<1>7. ASSUME NEW w \in Workers, StartJob(w) PROVE ChainInv'
  <2>1. /\ \A v \in Workers \ {w} : worker'[v] = worker[v]
        /\ ~worker'[w].rearmed /\ worker'[w].phase # "ok"
    BY <1>7 DEF StartJob, Running, TypeOK
  <2>2. QED
    BY <1>7, <2>1, <1>d DEF StartJob, table
<1>8. ASSUME NEW w \in Workers, NEW d \in Delays, Rearm(w, d) PROVE ChainInv'
  <2>1. PICK i \in Unused : Upsert(i, CurKey(w), d)
    BY <1>8 DEF Rearm
  <2>2. /\ \A v \in Workers \ {w} : worker'[v] = worker[v]
        /\ worker'[w].cur = worker[w].cur /\ worker'[w].phase = "running"
    BY <1>8 DEF Rearm, TypeOK, WorkerRecord
  <2>3. worker[w].cur \notin rows'
    BY <1>8, <1>b, <2>1, UpsertFrame DEF Rearm, CurKey
  <2>4. ASSUME NEW v \in Workers \ {w}
        PROVE  /\ worker'[v].rearmed => worker'[v].cur \notin rows'
               /\ worker'[v].phase = "ok" /\ CurKey(v)' \in Chains
                    => worker'[v].rearmed
    BY <1>b, <2>1, <2>2, UpsertFrame DEF ChainInv, CurKey, TypeOK, WorkerRecord
  <2>5. QED
    BY <2>2, <2>3, <2>4 DEF ChainInv
<1>9. ASSUME NEW w \in Workers, HandlerOk(w) PROVE ChainInv'
  <2>1. /\ \A v \in Workers \ {w} : worker'[v] = worker[v]
        /\ worker'[w].cur = worker[w].cur
        /\ worker'[w].rearmed = worker[w].rearmed
    BY <1>9 DEF HandlerOk, TypeOK, WorkerRecord
  <2>2. QED
    BY <1>9, <2>1 DEF HandlerOk, table, ChainInv, CurKey
<1>10. ASSUME NEW w \in Workers, HandlerErr(w) PROVE ChainInv'
  <2>1. /\ \A v \in Workers \ {w} : worker'[v] = worker[v]
        /\ worker'[w].cur = worker[w].cur /\ worker'[w].phase = "err"
        /\ worker'[w].rearmed = worker[w].rearmed
    BY <1>10 DEF HandlerErr, TypeOK, WorkerRecord
  <2>2. QED
    BY <1>10, <2>1 DEF HandlerErr, table, ChainInv, CurKey
<1>11. ASSUME NEW w \in Workers, Complete(w) PROVE ChainInv'
  BY <1>11, <1>a, <1>d, <1>e DEF Complete
<1>12. ASSUME NEW w \in Workers, Fail(w) PROVE ChainInv'
  <2>1. SameKeys
    BY <1>12 DEF Fail, Failed, Row, TypeOK
  <2>2. QED
    BY <1>12, <2>1, <1>d, <1>e DEF Fail
<1>13. ASSUME NEW w \in Workers, Unrecorded(w) PROVE ChainInv'
  BY <1>13, <1>d, <1>e DEF Unrecorded, table
<1>14. ASSUME NEW w \in Workers, Crash(w) PROVE ChainInv'
  <2>1. /\ \A v \in Workers \ {w} : worker'[v] = worker[v]
        /\ ~worker'[w].rearmed /\ worker'[w].phase # "ok"
    BY <1>14 DEF Crash, IdleWorker, TypeOK
  <2>2. QED
    BY <1>14, <2>1, <1>d DEF Crash, table
<1>15. ASSUME Tick PROVE ChainInv'
  BY <1>15, <1>b, TickFrame DEF ChainInv, CurKey
<1>16. CASE UNCHANGED vars
  BY <1>16 DEF vars, ChainInv, CurKey
<1>17. QED
  BY <1>1, <1>2, <1>3, <1>4, <1>5, <1>6, <1>7, <1>8, <1>9, <1>10, <1>11,
     <1>12, <1>13, <1>14, <1>15, <1>16 DEF Next, Work, Request

\* No step ends a chain: a worker's Complete could only take the row of the id
\* it claimed, and by ChainInv that row is gone before a chain's handler has
\* succeeded.
LEMMA ChainStep ==
    TypeOK /\ ChainInv /\ [Next]_vars
        => \A k \in Chains : HasRow(k) => HasRow(k)'
<1> SUFFICES ASSUME TypeOK, ChainInv, [Next]_vars, NEW c \in Chains, HasRow(c)
             PROVE  HasRow(c)'
  OBVIOUS
<1> DEFINE SameKeys == \A i \in Ids : job'[i].key = job[i].key
<1>a. ASSUME NEW gone, Drop(gone), \A j \in gone : job[j].key # c
      PROVE  HasRow(c)'
  BY <1>a DEF Drop, FreshJob, Row, HasRow, TypeOK
<1>b. ASSUME NEW i \in Unused, NEW k, NEW d, Upsert(i, k, d) PROVE HasRow(c)'
  <2>1. PICK j \in rows : job[j].key = c
    BY DEF HasRow
  <2>2. CASE k = c
    BY <1>b, <2>2, UpsertFrame DEF HasRow
  <2>3. CASE k # c
    <3>1. j \in rows' /\ job'[j].key = c
      BY <1>b, <2>1, <2>3, UpsertFrame DEF TypeOK
    <3>2. QED
      BY <3>1 DEF HasRow
  <2>4. QED
    BY <2>2, <2>3
<1>c. ASSUME SameKeys, UNCHANGED rows PROVE HasRow(c)'
  BY <1>c DEF HasRow, TypeOK
<1>1. ASSUME NEW k \in Keys, NEW d \in Delays, Schedule(k, d) PROVE HasRow(c)'
  BY <1>1, <1>b DEF Schedule
<1>2. ASSUME NEW k \in Keys, NEW d \in Delays, ScheduleIfAbsent(k, d)
      PROVE HasRow(c)'
  BY <1>2, <1>b DEF ScheduleIfAbsent
<1>3. ASSUME NEW k \in Keys, Cancel(k) PROVE HasRow(c)'
  <2>1. k # c /\ Drop({j \in rows : job[j].key = k})
    BY <1>3, JobQueueAssumption DEF Cancel
  <2>2. QED
    BY <2>1, <1>a
<1>4. ASSUME NEW i \in Ids, Retry(i) PROVE HasRow(c)'
  <2>1. SameKeys
    BY <1>4 DEF Retry, FreshJob, Row, TypeOK
  <2>2. QED
    BY <1>4, <2>1, <1>c DEF Retry
<1>5. ASSUME NEW i \in Ids, SweepDeadLetter(i) PROVE HasRow(c)'
  <2>1. job[i].key # c /\ Drop({i})
    BY <1>5 DEF SweepDeadLetter, Spent
  <2>2. QED
    BY <2>1, <1>a
<1>6. ASSUME NEW w \in Workers, ClaimDue(w) PROVE HasRow(c)'
  <2>1. SameKeys
    BY <1>6 DEF ClaimDue, Claimed, Row
  <2>2. QED
    BY <1>6, <2>1, <1>c DEF ClaimDue
<1>7. ASSUME NEW w \in Workers, NEW d \in Delays, Rearm(w, d) PROVE HasRow(c)'
  BY <1>7, <1>b DEF Rearm
<1>8. ASSUME NEW w \in Workers, Complete(w) PROVE HasRow(c)'
  <2>1. \A j \in rows \cap {worker[w].cur} : job[j].key # c
    BY <1>8 DEF Complete, ChainInv, CurKey
  <2>2. QED
    BY <1>8, <2>1, <1>a DEF Complete
<1>9. ASSUME NEW w \in Workers, Fail(w) PROVE HasRow(c)'
  <2>1. SameKeys
    BY <1>9 DEF Fail, Failed, Row, TypeOK
  <2>2. QED
    BY <1>9, <2>1, <1>c DEF Fail
<1>10. ASSUME Tick PROVE HasRow(c)'
  <2>1. SameKeys
    BY <1>10 DEF Tick, Aged, Row
  <2>2. QED
    BY <1>10, <2>1, <1>c DEF Tick
<1>11. ASSUME UNCHANGED table PROVE HasRow(c)'
  BY <1>11 DEF table, HasRow
<1>12. QED
  BY <1>1, <1>2, <1>3, <1>4, <1>5, <1>6, <1>7, <1>8, <1>9, <1>10, <1>11
     DEF Next, Work, Request, StartJob, HandlerOk, HandlerErr, Unrecorded,
         Crash, table, vars

\* A housekeeping chain that has a row always has one, under every
\* interleaving of replicas, crashes and lost writes.
THEOREM ChainsNeverEnd == Spec => ChainsSurvive
<1>1. Init => ChainInv
  BY DEF Init, ChainInv, IdleWorker
<1>2. QED
  BY <1>1, TypeCorrect, ChainInductive, ChainStep, PTL DEF Spec, ChainsSurvive

(***************************************************************************)
(* Budgets                                                                 *)
(***************************************************************************)

\* The workers that have claimed the job and are still to start its handler.
Waiting(i) == {w \in Workers : i \in worker[w].rest}

\* Every claim counts an attempt, and pays for one start of the handler: the starts
\* so far and those that are claimed already are covered by the attempts counted
\* since the row came and at each of its retries.
Covered(i) ==
    /\ IsFiniteSet(Waiting(i))
    /\ i \notin rows => runs[i] = 0 /\ retries[i] = 0
    /\ i \in rows /\ job[i].key \notin Chains =>
          /\ job[i].attempts <= MaxAttempts
          /\ runs[i] + Cardinality(Waiting(i)) <= MaxAttempts * retries[i] + job[i].attempts

BudgetInv == \A i \in Ids : Covered(i)

\* The workers that wait for a job become fewer unless one claims it.
LEMMA WaitingShrinks ==
    ASSUME NEW i \in Ids, IsFiniteSet(Waiting(i)),
           \A v \in Workers : i \in worker'[v].rest => i \in worker[v].rest
    PROVE  /\ IsFiniteSet(Waiting(i))' /\ Cardinality(Waiting(i))' \in Nat
           /\ Cardinality(Waiting(i)) \in Nat
           /\ Cardinality(Waiting(i))' <= Cardinality(Waiting(i))
<1>1. Waiting(i)' \subseteq Waiting(i)
  BY DEF Waiting
<1>2. QED
  BY <1>1, FS_Subset, FS_CardinalityType

\* A step that claims nothing, starts nothing and grants no retry.
LEMMA CoveredKept ==
    ASSUME TypeOK, NEW i \in Ids, Covered(i),
           \A v \in Workers : i \in worker'[v].rest => i \in worker[v].rest,
           i \in rows' => /\ i \in rows /\ job'[i].key = job[i].key
                          /\ job'[i].attempts = job[i].attempts
                          /\ runs'[i] = runs[i] /\ retries'[i] = retries[i],
           i \notin rows' => runs'[i] = 0 /\ retries'[i] = 0
    PROVE  Covered(i)'
<1>1. /\ IsFiniteSet(Waiting(i))' /\ Cardinality(Waiting(i))' \in Nat
      /\ Cardinality(Waiting(i)) \in Nat
      /\ Cardinality(Waiting(i))' <= Cardinality(Waiting(i))
  BY WaitingShrinks DEF Covered
<1>2. runs[i] \in Nat /\ retries[i] \in Nat /\ job[i].attempts \in Nat /\ MaxAttempts \in Nat
  BY JobQueueAssumption DEF TypeOK, JobRecord
<1>3. MaxAttempts * retries[i] \in Nat
  BY <1>2
<1>4. QED
  BY <1>1, <1>2, <1>3 DEF Covered

\* Nobody waits for an id that is unused, and its counts start from nothing.
LEMMA UpsertCovered ==
    ASSUME TypeOK, BudgetInv, NEW i \in Unused, NEW k \in Keys, NEW d \in Delays,
           Upsert(i, k, d), \A v \in Workers : worker'[v].rest = worker[v].rest
    PROVE  BudgetInv'
<1>1. i \in Ids /\ i \notin rows /\ Waiting(i) = {}
  BY DEF Unused, Waiting, Holds
<1>2. Covered(i)'
  <2>1. Waiting(i)' = {}
    BY <1>1 DEF Waiting
  <2>2. job'[i] = FreshJob(k, d) /\ runs'[i] = 0 /\ retries'[i] = 0 /\ i \in rows'
    BY <1>1 DEF Upsert, BudgetInv, Covered
  <2>3. IsFiniteSet({}) /\ Cardinality({}) = 0
    BY FS_EmptySet
  <2>4. QED
    BY <2>1, <2>2, <2>3, JobQueueAssumption DEF Covered, FreshJob, Row
<1>3. ASSUME NEW j \in Ids \ {i} PROVE Covered(j)'
  BY <1>3, CoveredKept DEF Upsert, BudgetInv, Covered, FreshJob, Row
<1>4. QED
  BY <1>2, <1>3 DEF BudgetInv

LEMMA DropCovered ==
    ASSUME TypeOK, BudgetInv, NEW gone, Drop(gone),
           \A v \in Workers : worker'[v].rest \subseteq worker[v].rest
    PROVE  BudgetInv'
<1> SUFFICES ASSUME NEW j \in Ids PROVE Covered(j)'
  BY DEF BudgetInv
<1>1. QED
  BY CoveredKept DEF Drop, BudgetInv, Covered

\* Steps that leave the table's ids, keys, attempts and histories alone.
LEMMA QuietCovered ==
    ASSUME TypeOK, BudgetInv, UNCHANGED <<rows, runs, retries>>,
           \A j \in Ids : job'[j].key = job[j].key /\ job'[j].attempts = job[j].attempts,
           \A v \in Workers : worker'[v].rest \subseteq worker[v].rest
    PROVE  BudgetInv'
<1> SUFFICES ASSUME NEW j \in Ids PROVE Covered(j)'
  BY DEF BudgetInv
<1>1. QED
  BY CoveredKept DEF BudgetInv, Covered

LEMMA AdvanceRest ==
    ASSUME TypeOK, NEW w \in Workers, Advance(w)
    PROVE  \A v \in Workers : worker'[v].rest \subseteq worker[v].rest
BY DEF Advance, TypeOK, IdleWorker, BetweenJobs

LEMMA ClaimCovered ==
    ASSUME TypeOK, BudgetInv, NEW w \in Workers, ClaimDue(w)
    PROVE  BudgetInv'
<1>1. PICK S \in SUBSET Due :
         /\ job' = [i \in Ids |-> IF i \in S THEN Claimed(job[i], w) ELSE job[i]]
         /\ worker' = [worker EXCEPT ![w] = BetweenJobs(S, 0)]
  BY DEF ClaimDue
<1>2. UNCHANGED <<rows, runs, retries>>
  BY DEF ClaimDue, history
<1>3. \A v \in Workers : worker'[v] = IF v = w THEN BetweenJobs(S, 0) ELSE worker[v]
  BY <1>1 DEF TypeOK
<1> SUFFICES ASSUME NEW i \in Ids PROVE Covered(i)'
  BY DEF BudgetInv
<1>4. CASE i \notin S
  BY <1>1, <1>2, <1>3, <1>4, CoveredKept DEF BudgetInv, Covered, BetweenJobs
<1>5. CASE i \in S
  <2>1. /\ IsFiniteSet(Waiting(i)) /\ i \in rows
        /\ runs[i] \in Nat /\ retries[i] \in Nat /\ job[i].attempts \in Nat /\ MaxAttempts \in Nat
    BY <1>5, JobQueueAssumption DEF BudgetInv, Covered, Due, TypeOK, JobRecord
  <2>2. Waiting(i)' \subseteq Waiting(i) \cup {w}
    BY <1>3 DEF Waiting
  <2>3. /\ IsFiniteSet(Waiting(i) \cup {w})
        /\ Cardinality(Waiting(i) \cup {w}) <= Cardinality(Waiting(i)) + 1
        /\ Cardinality(Waiting(i)) \in Nat
    <3>1. Cardinality(Waiting(i)) \in Nat
      BY <2>1, FS_CardinalityType
    <3>2. /\ IsFiniteSet(Waiting(i) \cup {w})
          /\ \/ Cardinality(Waiting(i) \cup {w}) = Cardinality(Waiting(i))
             \/ Cardinality(Waiting(i) \cup {w}) = Cardinality(Waiting(i)) + 1
      BY <2>1, FS_AddElement
    <3>3. QED
      BY <3>1, <3>2
  <2>4. /\ IsFiniteSet(Waiting(i)') /\ Cardinality(Waiting(i)') \in Nat
        /\ Cardinality(Waiting(i)') <= Cardinality(Waiting(i)) + 1
    <3>1. Cardinality(Waiting(i)') <= Cardinality(Waiting(i) \cup {w}) /\ IsFiniteSet(Waiting(i)')
      BY <2>2, <2>3, FS_Subset
    <3>2. Cardinality(Waiting(i)') \in Nat /\ Cardinality(Waiting(i) \cup {w}) \in Nat
      BY <2>3, <3>1, FS_CardinalityType
    <3>3. QED
      BY <2>3, <3>1, <3>2
  <2>5. ASSUME job[i].key \notin Chains
        PROVE  job[i].attempts < MaxAttempts /\ job'[i].attempts = job[i].attempts + 1
    BY <1>1, <1>5, <2>1, <2>5 DEF Due, Spent, Claimed, Row
  <2>6. job'[i].key = job[i].key
    BY <1>1, <1>5 DEF Claimed, Row
  <2>7. MaxAttempts * retries[i] \in Nat
    BY <2>1
  <2>8. QED
    BY <1>2, <2>1, <2>3, <2>4, <2>5, <2>6, <2>7 DEF BudgetInv, Covered
<1>6. QED
  BY <1>4, <1>5

\* The start of a handler is paid for by the claim the worker no longer holds.
LEMMA StartCovered ==
    ASSUME TypeOK, BudgetInv, NEW w \in Workers, StartJob(w)
    PROVE  BudgetInv'
<1>1. PICK i \in worker[w].rest :
         /\ worker' = [worker EXCEPT ![w] = Running(worker[w], i)]
         /\ runs' = [runs EXCEPT ![i] = IF i \in rows /\ job[i].key \notin Chains
                                        THEN @ + 1 ELSE @]
  BY DEF StartJob
<1>2. UNCHANGED <<rows, job, retries>> /\ i \in Ids
  BY DEF StartJob, table, TypeOK, WorkerRecord
<1>3. \A v \in Workers : worker'[v].rest = IF v = w THEN worker[w].rest \ {i} ELSE worker[v].rest
  BY <1>1 DEF TypeOK, Running
<1>4. \A j \in Ids : runs'[j] = IF j = i /\ i \in rows /\ job[i].key \notin Chains
                                THEN runs[j] + 1 ELSE runs[j]
  BY <1>1, <1>2 DEF TypeOK
<1> SUFFICES ASSUME NEW j \in Ids PROVE Covered(j)'
  BY DEF BudgetInv
<1>5. CASE runs'[j] = runs[j]
  BY <1>2, <1>3, <1>5, CoveredKept DEF BudgetInv, Covered
<1>6. CASE runs'[j] # runs[j]
  <2>1. j = i /\ i \in rows /\ runs'[i] = runs[i] + 1
    BY <1>4, <1>6
  <2>2. Waiting(i)' = Waiting(i) \ {w} /\ w \in Waiting(i)
    BY <1>3 DEF Waiting
  <2>3. /\ runs[i] \in Nat /\ retries[i] \in Nat /\ job[i].attempts \in Nat /\ MaxAttempts \in Nat
    BY <1>2, JobQueueAssumption DEF TypeOK, JobRecord
  <2>4. MaxAttempts * retries[i] \in Nat
    BY <2>3
  <2>5. IsFiniteSet(Waiting(i))
    BY <1>2 DEF BudgetInv, Covered
  <2>6. Cardinality(Waiting(i)) \in Nat
    BY <2>5, FS_CardinalityType
  <2>7. IsFiniteSet(Waiting(i)') /\ Cardinality(Waiting(i)') = Cardinality(Waiting(i)) - 1
    BY <2>2, <2>5, FS_RemoveElement
  <2>8. QED
    BY <1>2, <2>1, <2>3, <2>4, <2>6, <2>7 DEF BudgetInv, Covered
<1>7. QED
  BY <1>5, <1>6

\* A retry gives a new budget, as only a job that has spent one gets it.
LEMMA RetryCovered ==
    ASSUME TypeOK, BudgetInv, NEW i \in Ids, Retry(i)
    PROVE  BudgetInv'
<1>1. /\ job' = [job EXCEPT ![i] = FreshJob(job[i].key, 0)]
      /\ retries' = [retries EXCEPT ![i] = @ + 1]
      /\ UNCHANGED <<rows, worker, runs>> /\ i \in rows
  BY DEF Retry
<1> SUFFICES ASSUME NEW j \in Ids PROVE Covered(j)'
  BY DEF BudgetInv
<1>2. CASE j # i
  BY <1>1, <1>2, CoveredKept DEF BudgetInv, Covered, TypeOK
<1>3. CASE j = i
  <2>1. /\ job'[i].key = job[i].key /\ job'[i].attempts = 0
        /\ retries'[i] = retries[i] + 1
    BY <1>1 DEF TypeOK, FreshJob, Row
  <2>2. /\ runs[i] \in Nat /\ retries[i] \in Nat /\ job[i].attempts \in Nat /\ MaxAttempts \in Nat
    BY JobQueueAssumption DEF TypeOK, JobRecord
  <2>3. /\ MaxAttempts * (retries[i] + 1) = MaxAttempts * retries[i] + MaxAttempts
        /\ MaxAttempts * retries[i] \in Nat
    BY <2>2
  <2>4. IsFiniteSet(Waiting(i)) /\ Waiting(i)' = Waiting(i)
    BY <1>1 DEF BudgetInv, Covered, Waiting
  <2>5. Cardinality(Waiting(i)) \in Nat
    BY <2>4, FS_CardinalityType
  <2>6. QED
    BY <1>1, <1>3, <2>1, <2>2, <2>3, <2>4, <2>5 DEF BudgetInv, Covered
<1>4. QED
  BY <1>2, <1>3

LEMMA BudgetInductive == TypeOK /\ BudgetInv /\ [Next]_vars => BudgetInv'
<1> SUFFICES ASSUME TypeOK, BudgetInv, [Next]_vars PROVE BudgetInv'
  OBVIOUS
<1> DEFINE SameKeys == \A j \in Ids : job'[j].key = job[j].key /\ job'[j].attempts = job[j].attempts
           Fewer == \A v \in Workers : worker'[v].rest \subseteq worker[v].rest
<1>1. ASSUME NEW k \in Keys, NEW d \in Delays, Schedule(k, d) \/ ScheduleIfAbsent(k, d)
      PROVE  BudgetInv'
  BY <1>1, UpsertCovered DEF Schedule, ScheduleIfAbsent
<1>2. ASSUME NEW k \in Keys, Cancel(k) PROVE BudgetInv'
  <2>1. Drop({j \in rows : job[j].key = k}) /\ UNCHANGED worker
    BY <1>2 DEF Cancel
  <2>2. QED
    BY <2>1, DropCovered
<1>3. ASSUME NEW i \in Ids, SweepDeadLetter(i) PROVE BudgetInv'
  BY <1>3, DropCovered DEF SweepDeadLetter
<1>4. ASSUME NEW w \in Workers, NEW d \in Delays, Rearm(w, d) PROVE BudgetInv'
  <2>1. CurKey(w) \in Keys
    BY <1>4 DEF Rearm, CurKey, TypeOK, WorkerRecord, JobRecord
  <2>2. \A v \in Workers : worker'[v].rest = worker[v].rest
    BY <1>4 DEF Rearm, TypeOK, WorkerRecord
  <2>3. QED
    BY <1>4, <2>1, <2>2, UpsertCovered DEF Rearm
<1>5. ASSUME NEW w \in Workers, Complete(w) PROVE BudgetInv'
  BY <1>5, AdvanceRest, DropCovered DEF Complete
<1>6. ASSUME NEW w \in Workers, Fail(w) PROVE BudgetInv'
  <2>1. SameKeys
    BY <1>6 DEF Fail, Failed, Row, TypeOK
  <2>2. QED
    BY <1>6, <2>1, AdvanceRest, QuietCovered DEF Fail, history
<1>7. ASSUME NEW w \in Workers, HandlerOk(w) \/ HandlerErr(w) \/ Unrecorded(w) \/ Crash(w)
      PROVE  BudgetInv'
  <2>1. SameKeys /\ UNCHANGED <<rows, runs, retries>>
    BY <1>7 DEF HandlerOk, HandlerErr, Unrecorded, Crash, table, history
  <2>2. Fewer
    BY <1>7, AdvanceRest
       DEF HandlerOk, HandlerErr, Unrecorded, Crash, IdleWorker, TypeOK, WorkerRecord
  <2>3. QED
    BY <2>1, <2>2, QuietCovered
<1>8. CASE Tick
  <2>1. SameKeys /\ UNCHANGED <<rows, runs, retries>>
    BY <1>8 DEF Tick, Aged, Row, history
  <2>2. Fewer
    BY <1>8 DEF Tick, TypeOK, WorkerRecord
  <2>3. QED
    BY <2>1, <2>2, QuietCovered
<1>9. CASE UNCHANGED vars
  BY <1>9, QuietCovered DEF vars
<1>10. QED
  BY <1>1, <1>2, <1>3, <1>4, <1>5, <1>6, <1>7, <1>8, <1>9,
     ClaimCovered, StartCovered, RetryCovered DEF Next, Work, Request

\* A handler is started at most MaxAttempts times per budget, through crashes, lost
\* outcomes and leases that overlap: ClaimDue counts before the handler runs.
THEOREM RunsStayWithinBudget == Spec => []RunsWithinBudget
<1>1. Init => BudgetInv
  <2> SUFFICES ASSUME Init, NEW i \in Ids PROVE Covered(i)
    BY DEF BudgetInv
  <2>1. Waiting(i) = {}
    BY DEF Init, IdleWorker, Waiting
  <2>2. QED
    BY <2>1, FS_EmptySet DEF Init, Covered
<1>2. TypeOK /\ BudgetInv => RunsWithinBudget
  <2> SUFFICES ASSUME TypeOK, BudgetInv, NEW i \in Ids, job[i].key \notin Chains
               PROVE  runs[i] <= MaxAttempts * (1 + retries[i])
    BY DEF RunsWithinBudget
  <2>1. /\ runs[i] \in Nat /\ retries[i] \in Nat /\ job[i].attempts \in Nat /\ MaxAttempts \in Nat
    BY JobQueueAssumption DEF TypeOK, JobRecord
  <2>2. /\ MaxAttempts * (1 + retries[i]) = MaxAttempts * retries[i] + MaxAttempts
        /\ MaxAttempts * retries[i] \in Nat
    BY <2>1
  <2>3. IsFiniteSet(Waiting(i)) => Cardinality(Waiting(i)) \in Nat
    BY FS_CardinalityType
  <2>4. runs[i] <= MaxAttempts * retries[i] + MaxAttempts
    <3>1. CASE i \in rows
      <4>1. /\ IsFiniteSet(Waiting(i)) /\ job[i].attempts <= MaxAttempts
            /\ runs[i] + Cardinality(Waiting(i)) <= MaxAttempts * retries[i] + job[i].attempts
        BY <3>1 DEF BudgetInv, Covered
      <4>2. QED
        BY <2>1, <2>2, <2>3, <4>1
    <3>2. CASE i \notin rows
      <4>1. runs[i] = 0
        BY <3>2 DEF BudgetInv, Covered
      <4>2. QED
        BY <2>1, <2>2, <4>1
    <3>3. QED
      BY <3>1, <3>2
  <2>5. QED
    BY <2>2, <2>4
<1>3. QED
  BY <1>1, <1>2, TypeCorrect, BudgetInductive, PTL DEF Spec

(***************************************************************************)
(* JobQueue implements JobPromise                                          *)
(***************************************************************************)

\* A worker whose handler has succeeded has that on record for as long as its job
\* has a row.
Recorded ==
    \A w \in Workers : worker[w].phase = "ok" /\ worker[w].cur \in rows
                          => worker[w].cur \in succeeded

PKeyOf     == [i \in Ids |-> job[i].key]
PPerformed == succeeded \cap rows
PSpent     == {i \in rows : Spent(i)}

\* What JobPromise sees of a step that only moves a worker.
SameJobs == /\ rows' = rows /\ succeeded' = succeeded
            /\ \A i \in Ids : job'[i].key = job[i].key /\ job'[i].attempts = job[i].attempts

LEMMA SameJobsStutter ==
    ASSUME TypeOK, SameJobs
    PROVE  UNCHANGED Promise!pvars
<1>1. PKeyOf' = PKeyOf /\ PPerformed' = PPerformed
  BY DEF SameJobs, PKeyOf, PPerformed
<1>2. PSpent' = PSpent
  BY DEF SameJobs, PSpent, Spent, TypeOK
<1>3. QED
  BY <1>1, <1>2 DEF SameJobs, Promise!pvars, PKeyOf, PPerformed, PSpent

\* An insert takes the place of the row its key had.
LEMMA UpsertPromises ==
    ASSUME TypeOK, NEW i \in Unused, NEW k \in Keys, NEW d \in Delays, Upsert(i, k, d)
    PROVE  Promise!Next
<1> DEFINE old == {j \in rows : k # NoKey /\ job[j].key = k}
           kept == {j \in rows : k = NoKey \/ PKeyOf[j] # k}
<1>1. i \in Ids /\ i \notin rows /\ i \notin succeeded /\ rows \subseteq Ids
  BY DEF Unused, TypeOK
<1>2. kept = rows \ old
  BY <1>1 DEF PKeyOf
<1>3. rows' = kept \cup {i} /\ succeeded' = succeeded \ old
  BY <1>2 DEF Upsert
<1>4. job' = [j \in Ids |-> IF j = i THEN FreshJob(k, d)
                            ELSE IF j \in old THEN FreshJob(k, 0) ELSE job[j]]
  BY DEF Upsert
<1>5. PKeyOf' = [PKeyOf EXCEPT ![i] = k]
  BY <1>1, <1>4 DEF PKeyOf, FreshJob, Row
<1>6. PPerformed' = PPerformed \cap kept
  BY <1>1, <1>2, <1>3 DEF PPerformed
<1>7. PSpent' = PSpent \cap kept
  <2>1. \A j \in kept : Spent(j)' <=> Spent(j)
    BY <1>1, <1>2, <1>4 DEF Spent
  <2>2. ~Spent(i)'
    BY <1>1, <1>4, JobQueueAssumption DEF Spent, FreshJob, Row
  <2>3. QED
    BY <1>1, <1>2, <1>3, <2>1, <2>2 DEF PSpent
<1>8. Promise!Promise(i, k)
  BY <1>1, <1>3, <1>5, <1>6, <1>7 DEF Promise!Promise, PKeyOf, PPerformed, PSpent
<1>9. k \in Promise!Keys
  BY DEF Keys, Promise!Keys
<1>10. QED
  BY <1>1, <1>8, <1>9 DEF Promise!Next

\* So does a delete that of a promise.
LEMMA DropSettles ==
    ASSUME TypeOK, NEW gone, Drop(gone)
    PROVE  Promise!Settle(gone)
<1>1. PKeyOf' = PKeyOf
  BY DEF Drop, PKeyOf, FreshJob, Row
<1>2. PPerformed' = PPerformed \ gone
  BY DEF Drop, PPerformed
<1>3. PSpent' = PSpent \ gone
  BY DEF Drop, PSpent, Spent, TypeOK
<1>4. QED
  BY <1>1, <1>2, <1>3 DEF Drop, Promise!Settle, PKeyOf, PPerformed, PSpent

LEMMA RecordedInductive == TypeOK /\ Recorded /\ [Next]_vars => Recorded'
<1> SUFFICES ASSUME TypeOK, Recorded, [Next]_vars PROVE Recorded'
  OBVIOUS
\* A row that stays keeps its record, and a worker's ok is given on record.
<1>a. ASSUME \A j \in rows' : j \in succeeded => j \in succeeded',
             \A v \in Workers : worker'[v].phase = "ok" =>
                 /\ worker[v].phase = "ok" /\ worker'[v].cur = worker[v].cur
                 /\ worker[v].cur \in rows' => worker[v].cur \in rows
      PROVE  Recorded'
  BY <1>a DEF Recorded
<1>b. ASSUME NEW gone, Drop(gone),
             \A v \in Workers : worker'[v].phase = "ok" =>
                 worker[v].phase = "ok" /\ worker'[v].cur = worker[v].cur
      PROVE  Recorded'
  BY <1>a, <1>b DEF Drop
<1>c. ASSUME NEW i \in Unused, NEW k, NEW d, Upsert(i, k, d),
             \A v \in Workers : worker'[v].phase = "ok" =>
                 worker[v].phase = "ok" /\ worker'[v].cur = worker[v].cur
      PROVE  Recorded'
  BY <1>a, <1>c DEF Upsert, Unused, Holds
<1>d. ASSUME NEW w \in Workers, Advance(w)
      PROVE  \A v \in Workers : worker'[v].phase = "ok" =>
                 worker[v].phase = "ok" /\ worker'[v].cur = worker[v].cur
  BY <1>d DEF Advance, IdleWorker, BetweenJobs, TypeOK
<1>e. ASSUME UNCHANGED <<rows, succeeded>>,
             \A v \in Workers : worker'[v].phase = "ok" =>
                 worker[v].phase = "ok" /\ worker'[v].cur = worker[v].cur
      PROVE  Recorded'
  BY <1>a, <1>e
<1>1. ASSUME NEW k \in Keys, NEW d \in Delays, Schedule(k, d) \/ ScheduleIfAbsent(k, d)
      PROVE  Recorded'
  BY <1>1, <1>c DEF Schedule, ScheduleIfAbsent
<1>2. ASSUME NEW k \in Keys, Cancel(k) PROVE Recorded'
  BY <1>2, <1>b DEF Cancel
<1>3. ASSUME NEW i \in Ids, SweepDeadLetter(i) PROVE Recorded'
  BY <1>3, <1>b DEF SweepDeadLetter
<1>4. ASSUME NEW w \in Workers, NEW d \in Delays, Rearm(w, d) PROVE Recorded'
  <2>1. \A v \in Workers : worker'[v].phase = worker[v].phase /\ worker'[v].cur = worker[v].cur
    BY <1>4 DEF Rearm, TypeOK, WorkerRecord
  <2>2. QED
    BY <1>4, <2>1, <1>c DEF Rearm
<1>5. ASSUME NEW w \in Workers, HandlerOk(w) PROVE Recorded'
  <2>1. /\ worker'[w].cur = worker[w].cur
        /\ \A v \in Workers \ {w} : worker'[v] = worker[v]
    BY <1>5 DEF HandlerOk, TypeOK, WorkerRecord
  <2>2. rows' = rows /\ succeeded' = succeeded \cup (rows \cap {worker[w].cur})
    BY <1>5 DEF HandlerOk, table
  <2>3. QED
    BY <2>1, <2>2 DEF Recorded
<1>6. ASSUME NEW w \in Workers, Complete(w) PROVE Recorded'
  BY <1>6, <1>b, <1>d DEF Complete
<1>7. ASSUME NEW w \in Workers, Fail(w) \/ Unrecorded(w) PROVE Recorded'
  BY <1>7, <1>d, <1>e DEF Fail, Unrecorded, table, history
<1>8. ASSUME NEW w \in Workers,
             ClaimDue(w) \/ StartJob(w) \/ HandlerErr(w) \/ Crash(w)
      PROVE  Recorded'
  <2>1. UNCHANGED <<rows, succeeded>>
    BY <1>8 DEF ClaimDue, StartJob, HandlerErr, Crash, table, history
  <2>2. \A v \in Workers : worker'[v].phase = "ok" =>
           worker[v].phase = "ok" /\ worker'[v].cur = worker[v].cur
    BY <1>8 DEF ClaimDue, StartJob, HandlerErr, Crash, BetweenJobs, Running, IdleWorker,
                TypeOK, WorkerRecord
  <2>3. QED
    BY <2>1, <2>2, <1>e
<1>9. CASE Tick
  <2>1. \A v \in Workers : worker'[v].phase = worker[v].phase /\ worker'[v].cur = worker[v].cur
    BY <1>9 DEF Tick, TypeOK, WorkerRecord
  <2>2. QED
    BY <1>9, <2>1, <1>e DEF Tick, history
<1>10. ASSUME NEW i \in Ids, Retry(i) PROVE Recorded'
  BY <1>10, <1>e DEF Retry
<1>11. CASE UNCHANGED vars
  BY <1>11, <1>e DEF vars
<1>12. QED
  BY <1>1, <1>2, <1>3, <1>4, <1>5, <1>6, <1>7, <1>8, <1>9, <1>10, <1>11 DEF Next, Work, Request

\* Each step of the queue is one of JobPromise, or one it does not see.
LEMMA PromiseStep ==
    TypeOK /\ ChainInv /\ Recorded /\ [Next]_vars => [Promise!Next]_(Promise!pvars)
<1> SUFFICES ASSUME TypeOK, ChainInv, Recorded, [Next]_vars
             PROVE  Promise!Next \/ UNCHANGED Promise!pvars
  OBVIOUS
<1>1. ASSUME NEW k \in Keys, NEW d \in Delays, Schedule(k, d) \/ ScheduleIfAbsent(k, d)
      PROVE  Promise!Next
  BY <1>1, UpsertPromises DEF Schedule, ScheduleIfAbsent
<1>2. ASSUME NEW w \in Workers, NEW d \in Delays, Rearm(w, d) PROVE Promise!Next
  <2>1. CurKey(w) \in Keys
    BY <1>2 DEF Rearm, CurKey, TypeOK, WorkerRecord, JobRecord
  <2>2. QED
    BY <1>2, <2>1, UpsertPromises DEF Rearm
<1>3. ASSUME NEW k \in Keys, Cancel(k) PROVE Promise!Next
  <2>1. Promise!Settle({j \in rows : job[j].key = k}) /\ k \in Rooms
    BY <1>3, DropSettles DEF Cancel
  <2>2. {j \in rows : job[j].key = k} = {j \in rows : PKeyOf[j] = k}
    BY DEF PKeyOf, TypeOK
  <2>3. Promise!Withdraw(k)
    BY <2>1, <2>2 DEF Promise!Withdraw, PKeyOf
  <2>4. QED
    BY <2>1, <2>3 DEF Promise!Next
<1>4. ASSUME NEW i \in Ids, SweepDeadLetter(i) PROVE Promise!Next
  <2>1. Promise!Settle({i}) /\ i \in {j \in rows : Spent(j)}
    BY <1>4, DropSettles DEF SweepDeadLetter
  <2>2. Promise!GiveUp(i)
    BY <2>1 DEF Promise!GiveUp
  <2>3. QED
    BY <2>2 DEF Promise!Next
<1>5. ASSUME NEW i \in Ids, Retry(i) PROVE Promise!Next
  <2>1. /\ i \in rows /\ Spent(i)
        /\ job' = [job EXCEPT ![i] = FreshJob(job[i].key, 0)]
        /\ UNCHANGED <<rows, succeeded>>
    BY <1>5 DEF Retry, Spent
  <2>2. PKeyOf' = PKeyOf /\ PPerformed' = PPerformed
    BY <2>1 DEF PKeyOf, PPerformed, FreshJob, Row, TypeOK
  <2>3. PSpent' = PSpent \ {i} /\ i \in PSpent
    <3>1. ~Spent(i)' /\ \A j \in rows \ {i} : Spent(j)' <=> Spent(j)
      BY <2>1, JobQueueAssumption DEF Spent, FreshJob, Row, TypeOK
    <3>2. QED
      BY <2>1, <3>1 DEF PSpent
  <2>4. Promise!Revive(i)
    BY <2>1, <2>2, <2>3 DEF Promise!Revive, PKeyOf, PPerformed, PSpent
  <2>5. QED
    BY <2>4 DEF Promise!Next
<1>6. ASSUME NEW w \in Workers, ClaimDue(w) PROVE Promise!Next
  <2>1. PICK S \in SUBSET Due :
           job' = [i \in Ids |-> IF i \in S THEN Claimed(job[i], w) ELSE job[i]]
    BY <1>6 DEF ClaimDue
  <2>2. UNCHANGED <<rows, succeeded>>
    BY <1>6 DEF ClaimDue, history
  <2>3. PKeyOf' = PKeyOf /\ PPerformed' = PPerformed
    BY <2>1, <2>2 DEF PKeyOf, PPerformed, Claimed, Row
  <2>4. \A i \in rows : Spent(i) => Spent(i)'
    BY <2>1, JobQueueAssumption DEF Spent, Claimed, Row, TypeOK, JobRecord
  <2>5. PSpent \subseteq PSpent'
    BY <2>2, <2>4 DEF PSpent
  <2>6. PSpent' \subseteq {i \in rows : i \in PSpent \/ PKeyOf[i] \notin Chains}
    BY <2>1, <2>2, <2>3 DEF PSpent, PKeyOf, Spent, Claimed, Row, TypeOK
  <2>7. Promise!Spend
    BY <2>2, <2>3, <2>5, <2>6 DEF Promise!Spend, PKeyOf, PPerformed, PSpent
  <2>8. QED
    BY <2>7 DEF Promise!Next
<1>7. ASSUME NEW w \in Workers, HandlerOk(w) PROVE Promise!Next \/ UNCHANGED Promise!pvars
  <2>1. UNCHANGED <<rows, job>> /\ succeeded' = succeeded \cup (rows \cap {worker[w].cur})
    BY <1>7 DEF HandlerOk, table
  <2>2. CASE worker[w].cur \notin rows
    <3>1. SameJobs
      BY <2>1, <2>2 DEF SameJobs
    <3>2. QED
      BY <3>1, SameJobsStutter
  <2>3. CASE worker[w].cur \in rows
    <3>1. PKeyOf' = PKeyOf /\ PSpent' = PSpent
      BY <2>1 DEF PKeyOf, PSpent, Spent
    <3>2. PPerformed' = PPerformed \cup {worker[w].cur}
      BY <2>1, <2>3 DEF PPerformed
    <3>3. Promise!Perform(worker[w].cur)
      BY <2>1, <2>3, <3>1, <3>2 DEF Promise!Perform, PKeyOf, PPerformed, PSpent
    <3>4. QED
      BY <2>3, <3>3 DEF Promise!Next, TypeOK
  <2>4. QED
    BY <2>2, <2>3
<1>8. ASSUME NEW w \in Workers, Complete(w) PROVE Promise!Next \/ UNCHANGED Promise!pvars
  <2>1. Drop(rows \cap {worker[w].cur}) /\ worker[w].phase = "ok"
    BY <1>8 DEF Complete
  <2>2. CASE worker[w].cur \notin rows
    <3>1. SameJobs
      BY <2>1, <2>2 DEF Drop, SameJobs
    <3>2. QED
      BY <3>1, SameJobsStutter
  <2>3. CASE worker[w].cur \in rows
    <3>1. Promise!Settle({worker[w].cur})
      <4>1. rows \cap {worker[w].cur} = {worker[w].cur}
        BY <2>3
      <4>2. QED
        BY <2>1, <4>1, DropSettles
    <3>2. worker[w].cur \in PPerformed /\ PKeyOf[worker[w].cur] \notin Chains
      BY <2>1, <2>3 DEF Recorded, ChainInv, CurKey, PPerformed, PKeyOf, TypeOK
    <3>3. Promise!Discharge(worker[w].cur)
      BY <3>1, <3>2 DEF Promise!Discharge, PPerformed, PKeyOf
    <3>4. QED
      BY <2>3, <3>3 DEF Promise!Next, TypeOK
  <2>4. QED
    BY <2>2, <2>3
<1>9. ASSUME NEW w \in Workers, Fail(w) PROVE UNCHANGED Promise!pvars
  <2>1. SameJobs
    BY <1>9 DEF SameJobs, Fail, Failed, Row, history, TypeOK
  <2>2. QED
    BY <2>1, SameJobsStutter
<1>10. ASSUME NEW w \in Workers,
              StartJob(w) \/ HandlerErr(w) \/ Unrecorded(w) \/ Crash(w)
       PROVE  UNCHANGED Promise!pvars
  <2>1. SameJobs
    BY <1>10 DEF SameJobs, StartJob, HandlerErr, Unrecorded, Crash, table, history
  <2>2. QED
    BY <2>1, SameJobsStutter
<1>11. CASE Tick \/ UNCHANGED vars
  <2>1. SameJobs
    BY <1>11, TickFrame DEF SameJobs, vars
  <2>2. QED
    BY <2>1, SameJobsStutter
<1>12. QED
  BY <1>1, <1>2, <1>3, <1>4, <1>5, <1>6, <1>7, <1>8, <1>9, <1>10, <1>11 DEF Next, Work, Request

\* The queue keeps its promise: a job stays owed until its handler has succeeded, its
\* room withdraws or replaces it, or its attempts are spent and it is swept.
THEOREM QueueKeepsPromise == Spec => KeepsPromise
<1>1. Init => Promise!Init
  BY JobQueueAssumption DEF Init, Promise!Init, Keys, Promise!Keys, FreshJob, Row, Spent
<1>2. Init => ChainInv /\ Recorded
  BY DEF Init, ChainInv, Recorded, IdleWorker
<1>3. QED
  BY <1>1, <1>2, TypeCorrect, ChainInductive, RecordedInductive, PromiseStep, PTL
     DEF Spec, KeepsPromise, Promise!Spec

(***************************************************************************)
(* What keeps two workers off the same job: the lock of a batch, for as    *)
(* long as the batch has not outlived it.  The code's 20 jobs of 2 minutes *)
(* may outlive its 5 minutes; MCJobQueueLease.cfg shows that they do.      *)
(***************************************************************************)

\* An idle worker has nothing in hand.
BatchOk(w) ==
    /\ worker[w].phase = "idle" => worker[w].rest = {}
    /\ worker[w].cur \notin worker[w].rest

\* What a worker has in hand is locked by it, and its lock is no older than its
\* batch: claiming stamps both at once, and nothing else starts them anew.
Leased(w, i) == job[i].holder = w /\ job[i].age <= worker[w].since

LeaseOk(w) ==
    \A i \in rows : Holds(w, i) /\ retries[i] = 0 /\ i \notin overrun => Leased(w, i)

LeaseInv == \A w \in Workers : BatchOk(w) /\ LeaseOk(w)

\* After Advance the batch is what was left of it.
LEMMA AdvanceBatch ==
    ASSUME TypeOK, LeaseInv, NEW w \in Workers, Advance(w)
    PROVE  /\ BatchOk(w)'
           /\ \A i \in rows : Holds(w, i)' =>
                 i \in worker[w].rest /\ i # worker[w].cur /\ worker'[w].since = worker[w].since
           /\ \A v \in Workers \ {w} : worker'[v] = worker[v]
<1>1. BatchOk(w) /\ worker[w] \in WorkerRecord
  BY DEF LeaseInv, TypeOK
<1>2. \A v \in Workers \ {w} : worker'[v] = worker[v]
  BY DEF Advance, TypeOK
<1>3. CASE worker[w].rest = {}
  <2>1. worker'[w] = IdleWorker
    BY <1>3 DEF Advance, TypeOK
  <2>2. BatchOk(w)'
    BY <2>1 DEF BatchOk, IdleWorker
  <2>3. \A i \in rows : ~Holds(w, i)'
    BY <2>1, JobQueueAssumption DEF Holds, IdleWorker, TypeOK
  <2>4. QED
    BY <1>2, <2>2, <2>3
<1>4. CASE worker[w].rest # {}
  <2>1. worker'[w] = BetweenJobs(worker[w].rest, worker[w].since)
    BY <1>4 DEF Advance, TypeOK
  <2>2. None \notin worker[w].rest
    BY <1>1, JobQueueAssumption DEF WorkerRecord
  <2>3. BatchOk(w)'
    BY <2>1, <2>2 DEF BatchOk, BetweenJobs
  <2>4. worker'[w].since = worker[w].since
    BY <2>1 DEF BetweenJobs
  <2>5. \A i \in rows : Holds(w, i)' => i \in worker[w].rest
    BY <2>1, JobQueueAssumption DEF Holds, BetweenJobs, TypeOK
  <2>6. QED
    BY <1>1, <1>2, <2>3, <2>4, <2>5 DEF BatchOk
<1>5. QED
  BY <1>3, <1>4

\* A claim is the one step that could take a job somebody has in hand, and it takes
\* expired locks only, those of a batch that has outlived its lease.
LEMMA LeaseInductive == TypeOK /\ LeaseInv /\ [Next]_vars => LeaseInv'
<1> SUFFICES ASSUME TypeOK, LeaseInv, [Next]_vars PROVE LeaseInv'
  OBVIOUS
<1> DEFINE Ok(v) == BatchOk(v) /\ LeaseOk(v)
           Kept(v) == \A i \in rows' : Holds(v, i) /\ retries'[i] = 0 /\ i \notin overrun' =>
                         /\ i \in rows /\ retries[i] = 0 /\ i \notin overrun
                         /\ job'[i].holder = job[i].holder
                         /\ job'[i].age = job[i].age
<1>f. ASSUME NEW v \in Workers, worker'[v] = worker[v], Kept(v) PROVE Ok(v)'
  <2>1. BatchOk(v)'
    BY <1>f DEF LeaseInv, BatchOk
  <2>2. ASSUME NEW i \in rows', Holds(v, i)', retries'[i] = 0, i \notin overrun'
        PROVE  Leased(v, i)'
    <3>1. Holds(v, i)
      BY <1>f, <2>2 DEF Holds
    <3>2. /\ i \in rows /\ retries[i] = 0 /\ i \notin overrun
          /\ job'[i].holder = job[i].holder /\ job'[i].age = job[i].age
      BY <1>f, <2>2, <3>1
    <3>3. Leased(v, i)
      BY <3>1, <3>2 DEF LeaseInv, LeaseOk
    <3>4. QED
      BY <1>f, <3>2, <3>3 DEF Leased
  <2>3. QED
    BY <2>1, <2>2 DEF LeaseOk
<1>d. ASSUME NEW gone, Drop(gone), NEW v \in Workers PROVE Kept(v)
  BY <1>d DEF Drop, TypeOK
<1>u. ASSUME NEW i \in Unused, NEW k, NEW d, Upsert(i, k, d), NEW v \in Workers
      PROVE Kept(v)
  BY <1>u DEF Upsert, Unused, TypeOK
<1>1. ASSUME NEW k \in Keys, NEW d \in Delays, Schedule(k, d) PROVE LeaseInv'
  BY <1>1, <1>u, <1>f DEF Schedule, LeaseInv
<1>2. ASSUME NEW k \in Keys, NEW d \in Delays, ScheduleIfAbsent(k, d)
      PROVE LeaseInv'
  BY <1>2, <1>u, <1>f DEF ScheduleIfAbsent, LeaseInv
<1>3. ASSUME NEW k \in Keys, Cancel(k) PROVE LeaseInv'
  BY <1>3, <1>d, <1>f DEF Cancel, LeaseInv
<1>4. ASSUME NEW i \in Ids, Retry(i) PROVE LeaseInv'
  <2>1. \A v \in Workers : Kept(v)
    BY <1>4 DEF Retry, TypeOK
  <2>2. QED
    BY <1>4, <2>1, <1>f DEF Retry, LeaseInv
<1>5. ASSUME NEW i \in Ids, SweepDeadLetter(i) PROVE LeaseInv'
  BY <1>5, <1>d, <1>f DEF SweepDeadLetter, LeaseInv
<1>6. ASSUME NEW w \in Workers, ClaimDue(w) PROVE LeaseInv'
  <2>1. PICK S \in SUBSET Due :
          /\ job' = [i \in Ids |-> IF i \in S THEN Claimed(job[i], w)
                                              ELSE job[i]]
          /\ worker' = [worker EXCEPT ![w] = BetweenJobs(S, 0)]
          /\ overrun' = overrun \cup
                {i \in S : \E v \in Workers : Holds(v, i) /\ worker[v].since > Lease}
    BY <1>6 DEF ClaimDue
  <2>2. rows' = rows /\ retries' = retries
    BY <1>6 DEF ClaimDue
  <2>3. worker'[w] = BetweenJobs(S, 0) /\ None \notin S
    BY <2>1, JobQueueAssumption DEF TypeOK, Due
  <2>4. BatchOk(w)'
    BY <2>3 DEF BatchOk, BetweenJobs
  <2>5. LeaseOk(w)'
    <3>1. \A i \in rows' : Holds(w, i)' => i \in S
      BY <2>2, <2>3, JobQueueAssumption DEF Holds, BetweenJobs, TypeOK
    <3>2. \A i \in S : job'[i].holder = w /\ job'[i].age = 0
      BY <2>1 DEF Claimed, Row, Due, TypeOK
    <3>3. worker'[w].since = 0
      BY <2>3 DEF BetweenJobs
    <3>4. QED
      BY <3>1, <3>2, <3>3 DEF LeaseOk, Leased
  <2>6. ASSUME NEW v \in Workers \ {w} PROVE Kept(v)
    <3>1. ASSUME NEW i \in S, Holds(v, i), retries[i] = 0, i \notin overrun
          PROVE  i \in overrun'
      <4>1. job[i].holder = v /\ job[i].age <= worker[v].since
        BY <3>1 DEF LeaseInv, LeaseOk, Leased, Due
      <4>2. job[i].holder # None
        BY <4>1, JobQueueAssumption
      <4>3. job[i].age > Lease
        BY <4>2 DEF Due
      <4>4. job[i].age \in Nat /\ worker[v].since \in Nat /\ Lease \in Nat
        BY JobQueueAssumption DEF TypeOK, Due, JobRecord, WorkerRecord
      <4>5. worker[v].since > Lease
        BY <4>1, <4>3, <4>4
      <4>6. QED
        BY <2>1, <3>1, <4>5
    <3>2. \A i \in rows \ S : job'[i] = job[i]
      BY <2>1 DEF TypeOK
    <3>3. overrun \subseteq overrun'
      BY <2>1
    <3>4. QED
      BY <2>2, <3>1, <3>2, <3>3
  <2>7. \A v \in Workers \ {w} : worker'[v] = worker[v]
    BY <2>1 DEF TypeOK
  <2>8. QED
    BY <2>4, <2>5, <2>6, <2>7, <1>f DEF LeaseInv
<1>7. ASSUME NEW w \in Workers, StartJob(w) PROVE LeaseInv'
  <2>1. PICK i \in worker[w].rest : worker' = [worker EXCEPT ![w] = Running(worker[w], i)]
    BY <1>7 DEF StartJob
  <2>2. /\ worker'[w] = Running(worker[w], i)
        /\ \A v \in Workers \ {w} : worker'[v] = worker[v]
    BY <2>1 DEF TypeOK
  <2>3. BatchOk(w)'
    BY <2>2 DEF BatchOk, Running
  <2>4. LeaseOk(w)'
    <3>1. \A j \in rows : Holds(w, j)' => Holds(w, j)
      BY <2>1, <2>2 DEF Holds, Running
    <3>2. worker'[w].since = worker[w].since
      BY <2>2 DEF Running
    <3>3. QED
      BY <1>7, <3>1, <3>2 DEF StartJob, table, LeaseInv, LeaseOk, Leased
  <2>5. \A v \in Workers : Kept(v)
    BY <1>7 DEF StartJob, table
  <2>6. QED
    BY <2>2, <2>3, <2>4, <2>5, <1>f DEF LeaseInv
<1>8. ASSUME NEW w \in Workers, NEW d \in Delays, Rearm(w, d) PROVE LeaseInv'
  <2>1. PICK i \in Unused : Upsert(i, CurKey(w), d)
    BY <1>8 DEF Rearm
  <2>2. /\ \A v \in Workers \ {w} : worker'[v] = worker[v]
        /\ worker'[w].phase = worker[w].phase /\ worker'[w].cur = worker[w].cur
        /\ worker'[w].rest = worker[w].rest /\ worker'[w].since = worker[w].since
    BY <1>8 DEF Rearm, TypeOK, WorkerRecord
  <2>3. \A v \in Workers : Kept(v)
    BY <2>1, <1>u
  <2>4. BatchOk(w)'
    BY <2>2 DEF LeaseInv, BatchOk
  <2>5. LeaseOk(w)'
    <3>1. \A j : Holds(w, j)' <=> Holds(w, j)
      BY <2>2 DEF Holds
    <3>2. QED
      BY <2>2, <2>3, <3>1 DEF LeaseInv, LeaseOk, Leased
  <2>6. QED
    BY <2>2, <2>3, <2>4, <2>5, <1>f DEF LeaseInv
<1>9. ASSUME NEW w \in Workers, HandlerOk(w) \/ HandlerErr(w) PROVE LeaseInv'
  <2>1. /\ \A v \in Workers \ {w} : worker'[v] = worker[v]
        /\ worker'[w].phase \in {"ok", "err"}
        /\ worker'[w].cur = worker[w].cur /\ worker'[w].rest = worker[w].rest
        /\ worker'[w].since = worker[w].since
    BY <1>9 DEF HandlerOk, HandlerErr, TypeOK, WorkerRecord
  <2>2. rows' = rows /\ job' = job /\ retries' = retries /\ overrun' = overrun
    BY <1>9 DEF HandlerOk, HandlerErr, table, history
  <2>3. BatchOk(w)'
    BY <2>1 DEF LeaseInv, BatchOk
  <2>4. LeaseOk(w)'
    BY <2>1, <2>2 DEF LeaseInv, LeaseOk, Leased, Holds
  <2>5. QED
    BY <2>1, <2>2, <2>3, <2>4, <1>f DEF LeaseInv
<1>a. ASSUME NEW w \in Workers, Advance(w), rows' \subseteq rows,
             \A i \in rows' : /\ retries'[i] = retries[i] /\ (i \in overrun' <=> i \in overrun)
                              /\ i # worker[w].cur => job'[i] = job[i],
             \A v \in Workers \ {w} : Kept(v)
      PROVE  LeaseInv'
  <2>1. BatchOk(w)' /\ \A v \in Workers \ {w} : worker'[v] = worker[v]
    BY <1>a, AdvanceBatch
  <2>2. ASSUME NEW i \in rows', Holds(w, i)', retries'[i] = 0, i \notin overrun'
        PROVE  Leased(w, i)'
    <3>1. /\ i \in worker[w].rest /\ i # worker[w].cur
          /\ worker'[w].since = worker[w].since
      BY <1>a, <2>2, AdvanceBatch
    <3>2. job'[i] = job[i] /\ retries[i] = 0 /\ i \in rows /\ i \notin overrun
      BY <1>a, <2>2, <3>1
    <3>3. job[i].holder = w /\ job[i].age <= worker[w].since
      BY <3>1, <3>2 DEF LeaseInv, LeaseOk, Leased, Holds
    <3>4. QED
      BY <3>1, <3>2, <3>3 DEF Leased
  <2>3. QED
    BY <1>a, <2>1, <2>2, <1>f DEF LeaseInv, LeaseOk
<1>10. ASSUME NEW w \in Workers, Complete(w) PROVE LeaseInv'
  <2>1. Drop(rows \cap {worker[w].cur}) /\ Advance(w)
    BY <1>10 DEF Complete
  <2>2. QED
    BY <2>1, <1>d, <1>a DEF Drop, TypeOK
<1>11. ASSUME NEW w \in Workers, Fail(w) PROVE LeaseInv'
  <2>1. /\ Advance(w) /\ rows' = rows /\ retries' = retries /\ overrun' = overrun
        /\ \A i \in rows : i # worker[w].cur => job'[i] = job[i]
    BY <1>11 DEF Fail, history, TypeOK
  <2>2. \A v \in Workers \ {w} : Kept(v)
    <3>1. ASSUME NEW v \in Workers \ {w}, NEW i \in rows, Holds(v, i),
                 retries[i] = 0, i \notin overrun
          PROVE  i # worker[w].cur
      <4>1. job[i].holder = v
        BY <3>1 DEF LeaseInv, LeaseOk, Leased
      <4>2. i = worker[w].cur => job[i].holder = w
        BY <3>1 DEF LeaseInv, LeaseOk, Leased, Holds
      <4>3. QED
        BY <4>1, <4>2
    <3>2. QED
      BY <2>1, <3>1
  <2>3. QED
    BY <2>1, <2>2, <1>a
<1>12. ASSUME NEW w \in Workers, Unrecorded(w) PROVE LeaseInv'
  BY <1>12, <1>a DEF Unrecorded, table, history
<1>13. ASSUME NEW w \in Workers, Crash(w) PROVE LeaseInv'
  <2>1. worker'[w] = IdleWorker /\ \A v \in Workers \ {w} : worker'[v] = worker[v]
    BY <1>13 DEF Crash, TypeOK
  <2>2. BatchOk(w)' /\ LeaseOk(w)'
    BY <1>13, <2>1, JobQueueAssumption
       DEF Crash, table, TypeOK, BatchOk, LeaseOk, Holds, IdleWorker
  <2>3. QED
    BY <1>13, <2>1, <2>2, <1>f DEF Crash, table, history, LeaseInv
<1>14. ASSUME Tick PROVE LeaseInv'
  <2> SUFFICES ASSUME NEW v \in Workers PROVE Ok(v)'
    BY DEF LeaseInv
  <2>1. /\ worker'[v].phase = worker[v].phase /\ worker'[v].cur = worker[v].cur
        /\ worker'[v].rest = worker[v].rest
    BY <1>14 DEF Tick, TypeOK, WorkerRecord
  <2>2. worker[v].phase = "idle" \/ worker'[v].since = Older(worker[v].since)
    BY <1>14 DEF Tick, TypeOK, WorkerRecord
  <2>3. BatchOk(v) /\ LeaseOk(v) /\ worker[v].since \in Nat /\ Lease \in Nat
    BY JobQueueAssumption DEF TypeOK, WorkerRecord, LeaseInv
  <2>4. BatchOk(v)'
    BY <2>1, <2>3 DEF BatchOk
  <2>5. ASSUME NEW i \in rows, Holds(v, i), retries[i] = 0, i \notin overrun PROVE Leased(v, i)'
    <3>1. worker[v].phase # "idle"
      BY <2>3, <2>5, JobQueueAssumption DEF BatchOk, Holds, TypeOK
    <3>2. job[i].holder = v /\ job[i].age <= worker[v].since /\ job[i].age \in Nat
      BY <2>3, <2>5 DEF LeaseOk, Leased, TypeOK, JobRecord
    <3>3. job'[i].holder = job[i].holder /\ job'[i].age = Older(job[i].age)
      BY <1>14, <3>2, JobQueueAssumption DEF Tick, Aged, Row, TypeOK
    <3>4. Older(job[i].age) <= Older(worker[v].since)
      BY <2>3, <3>2 DEF Older, Smaller
    <3>5. QED
      BY <2>2, <3>1, <3>2, <3>3, <3>4 DEF Leased
  <2>6. /\ rows' = rows /\ retries' = retries /\ overrun' = overrun
        /\ \A i : Holds(v, i)' <=> Holds(v, i)
    BY <1>14, <2>1 DEF Tick, history, Holds
  <2>7. QED
    BY <2>4, <2>5, <2>6 DEF LeaseOk
<1>15. CASE UNCHANGED vars
  BY <1>15, <1>f DEF vars, LeaseInv
<1>16. QED
  BY <1>1, <1>2, <1>3, <1>4, <1>5, <1>6, <1>7, <1>8, <1>9, <1>10, <1>11, <1>12,
     <1>13, <1>14, <1>15 DEF Next, Work, Request

\* jobs.go:26-29: for every number of replicas and every timeout, batch and lease, two
\* workers have the same job in hand only if an admin retried it, or if one claimed it
\* while the batch of another that had it had outlived its lease: crashes, failures and
\* lost writes break no lock early.
THEOREM OverlapsOnlyPastLease == Spec => []OverlapOnlyPastLease
<1>1. Init => LeaseInv
  BY JobQueueAssumption DEF Init, LeaseInv, BatchOk, LeaseOk, IdleWorker
<1>2. TypeOK /\ LeaseInv => OverlapOnlyPastLease
  <2> SUFFICES ASSUME TypeOK, LeaseInv, NEW v \in Workers, NEW w \in Workers,
                      NEW i \in rows, v # w, Holds(v, i), Holds(w, i),
                      ~(retries[i] > 0), i \notin overrun
               PROVE  FALSE
    BY DEF OverlapOnlyPastLease
  <2>1. retries[i] = 0
    BY DEF TypeOK
  <2>2. QED
    BY <2>1 DEF LeaseInv, LeaseOk, Leased
<1>3. QED
  BY <1>1, <1>2, TypeCorrect, LeaseInductive, PTL DEF Spec

=============================================================================
