------------------------------ MODULE Presence ------------------------------
(***************************************************************************)
(* Who is watching a room (rooms/presence.go): each replica counts its     *)
(* connections in its own ws_presence row, whoever changes a row then      *)
(* tells the room the new total, and a job sweeps the rows of replicas     *)
(* that are heard of no more (jobs/housekeeping.go).                       *)
(*                                                                         *)
(* One room.  A process has a replica id of its own and is never started   *)
(* again under it.  Statements commit by themselves; a failing one is      *)
(* logged and forgotten.  Time passes in intervals of a heartbeat.         *)
(***************************************************************************)
EXTENDS Integers, FiniteSets

CONSTANTS
    Replicas,
    Conns,          \* connections of visitors, who may come again
    StaleAfter,     \* intervals without a heartbeat, 90 s, after which a row is stale
    MaxErrors,      \* bound: failing statements and graces that run out
    Gone            \* no row

ASSUME PresenceAssumption ==
    StaleAfter \in Nat \ {0} /\ MaxErrors \in Nat /\ Gone \notin Int

VARIABLES
    up,         \* per replica: running, or how far its shutdown is
    row,        \* its ws_presence row
    age,        \* intervals since the row's heartbeat
    conn,       \* the handlers of ServeWS
    sweep,      \* the presence:sweep job: the replica that has yet to tell a total, or Gone
    owed,       \* the total was changed and nobody has told it since
    lost,       \* history: a total was not told and nobody is going to
    errors

presenceVars == <<up, row, age, conn, sweep, owed, lost, errors>>

Away == [pc |-> "away", at |-> Gone]
At(c, pc) == conn[c].pc = pc
Goes(c, pc) == conn' = [conn EXCEPT ![c].pc = pc]
Of(r) == {c \in Conns : conn[c].at = r}

Fails == errors < MaxErrors /\ errors' = errors + 1

PresenceInit ==
    /\ up = [r \in Replicas |-> "up"]
    /\ row = [r \in Replicas |-> Gone] /\ age = [r \in Replicas |-> 0]
    /\ conn = [c \in Conns |-> Away]
    /\ sweep = Gone
    /\ owed = FALSE /\ lost = FALSE /\ errors = 0

-----------------------------------------------------------------------------
\* BroadcastPresenceTotal.  The total is read and told in one step: what counts here
\* is that it is read after the change, not in which order two frames arrive.
Broadcast ==
    \/ owed' = FALSE /\ UNCHANGED <<lost, errors>>
    \/ Fails /\ lost' = TRUE /\ UNCHANGED owed

\* trackConn: a replica that shuts down takes no more connections.
Connect(c, r) ==
    /\ conn[c] = Away /\ up[r] = "up"
    /\ conn' = [conn EXCEPT ![c] = [pc |-> "join", at |-> r]]
    /\ UNCHANGED <<up, row, age, sweep, owed, lost, errors>>

\* presenceJoin.
Join(c) ==
    /\ At(c, "join")
    /\ LET r == conn[c].at IN
       \/ /\ row' = [row EXCEPT ![r] = IF @ = Gone THEN 1 ELSE @ + 1]
          /\ age' = [age EXCEPT ![r] = 0]
          /\ owed' = TRUE
          /\ Goes(c, "tell") /\ UNCHANGED errors
       \/ Fails /\ Goes(c, "on") /\ UNCHANGED <<row, age, owed>>
    /\ UNCHANGED <<up, sweep, lost>>

\* presenceLeave, also after a join that failed; no row, nothing to count down.
Leave(c) ==
    /\ At(c, "leave")
    /\ LET r == conn[c].at IN
       \/ /\ IF row[r] = Gone THEN UNCHANGED <<row, age, owed>>
             ELSE /\ row' = [row EXCEPT ![r] = IF @ = 0 THEN 0 ELSE @ - 1]
                  /\ age' = [age EXCEPT ![r] = 0]
                  /\ owed' = (owed \/ row[r] # 0)
          /\ Goes(c, "tellLeft") /\ UNCHANGED errors
       \/ Fails /\ conn' = [conn EXCEPT ![c] = Away] /\ UNCHANGED <<row, age, owed>>
    /\ UNCHANGED <<up, sweep, lost>>

\* broadcastPresence, of a join and of a leave.
Tell(c) ==
    /\ \/ At(c, "tell") /\ Goes(c, "on")
       \/ At(c, "tellLeft") /\ conn' = [conn EXCEPT ![c] = Away]
    /\ Broadcast
    /\ UNCHANGED <<up, row, age, sweep>>

\* The peer goes away, or closeAllConns sends it away.
Close(c) ==
    /\ At(c, "on") /\ Goes(c, "leave")
    /\ UNCHANGED <<up, row, age, sweep, owed, lost, errors>>

-----------------------------------------------------------------------------
\* A replica ends.  Another one runs on.

Survives(r) == \E q \in Replicas \ {r} : up[q] = "up"

\* Its handlers die where they are, and so does a sweep that it runs, which has
\* nothing left that would bring it back to telling the total.
Die(r) ==
    /\ up' = [up EXCEPT ![r] = "dead"]
    /\ conn' = [c \in Conns |-> IF conn[c].at = r THEN Away ELSE conn[c]]
    /\ sweep' = IF sweep = r THEN Gone ELSE sweep
    /\ UNCHANGED <<row, age, owed, errors>>

Crash(r) ==
    /\ up[r] # "dead" /\ Survives(r)
    /\ Die(r)
    /\ lost' = (lost \/ sweep = r \/ up[r] \in {"tell", "exit"})

Shutdown(r) ==
    /\ up[r] = "up" /\ Survives(r)
    /\ up' = [up EXCEPT ![r] = "closing"]
    /\ UNCHANGED <<row, age, conn, sweep, owed, lost, errors>>

\* presenceShutdownSweep, once every handler is done or the grace has run out: a
\* total is told only of a row that still counted somebody.
ShutdownSweep(r) ==
    /\ up[r] = "closing"
    /\ IF Of(r) = {} THEN UNCHANGED errors ELSE Fails
    /\ lost' = (lost \/ Of(r) # {})
    /\ row' = [row EXCEPT ![r] = Gone] /\ age' = [age EXCEPT ![r] = 0]
    /\ up' = [up EXCEPT ![r] = IF row[r] \in {Gone, 0} THEN "exit" ELSE "tell"]
    /\ owed' = (owed \/ row[r] \notin {Gone, 0})
    /\ UNCHANGED <<conn, sweep>>

ShutdownTell(r) ==
    /\ up[r] = "tell" /\ Broadcast
    /\ up' = [up EXCEPT ![r] = "exit"]
    /\ UNCHANGED <<row, age, conn, sweep>>

Exit(r) ==
    /\ up[r] = "exit"
    /\ Die(r)
    /\ lost' = (lost \/ sweep = r)

-----------------------------------------------------------------------------
\* Mutant: a row that counts nobody is kept fresh as well.
BeatsAlways(r) == up[r] = "up" /\ row[r] # Gone

\* presenceHeartbeatLoop leaves the rows alone that count nobody.
Beats(r) == up[r] = "up" /\ row[r] \notin {Gone, 0}

\* An interval, with the heartbeat in it unless it fails.
Interval ==
    /\ \E silent \in {r \in Replicas : Beats(r)} \cup {Gone} :
          /\ IF silent = Gone THEN UNCHANGED errors ELSE Fails
          /\ age' = [r \in Replicas |->
                        IF row[r] = Gone \/ (Beats(r) /\ r # silent) THEN 0
                        ELSE IF age[r] < StaleAfter THEN age[r] + 1 ELSE StaleAfter]
    /\ UNCHANGED <<up, row, conn, sweep, owed, lost>>

\* Mutant: as at a shutdown, rooms where nobody was counted are told nothing.
SweepTellsCounted(r) ==
    LET stale == {q \in Replicas : row[q] # Gone /\ age[q] = StaleAfter}
    IN  /\ up[r] = "up" /\ sweep = Gone /\ stale # {}
        /\ row' = [q \in Replicas |-> IF q \in stale THEN Gone ELSE row[q]]
        /\ age' = [q \in Replicas |-> IF q \in stale THEN 0 ELSE age[q]]
        /\ owed' = (owed \/ \E q \in stale : row[q] # 0)
        /\ sweep' = IF \E q \in stale : row[q] # 0 THEN r ELSE Gone
        /\ UNCHANGED <<up, conn, lost, errors>>

\* deleteStalePresenceRows: whatever the rows counted, their rooms are told, unless
\* the rooms cannot be read off the rows that are deleted by then.
Sweep(r) ==
    LET stale == {q \in Replicas : row[q] # Gone /\ age[q] = StaleAfter}
    IN  /\ up[r] = "up" /\ sweep = Gone /\ stale # {}
        /\ row' = [q \in Replicas |-> IF q \in stale THEN Gone ELSE row[q]]
        /\ age' = [q \in Replicas |-> IF q \in stale THEN 0 ELSE age[q]]
        /\ owed' = (owed \/ \E q \in stale : row[q] # 0)
        /\ \/ sweep' = r /\ UNCHANGED <<lost, errors>>
           \/ Fails /\ sweep' = Gone /\ lost' = TRUE
        /\ UNCHANGED <<up, conn>>

SweepTell ==
    /\ sweep # Gone /\ Broadcast
    /\ sweep' = Gone
    /\ UNCHANGED <<up, row, age, conn>>

-----------------------------------------------------------------------------
\* What goes on by itself: handlers, shutdowns, the clock, the queue.
Handler(c)   == Join(c) \/ Leave(c) \/ Tell(c)
SentAway(c)  == conn[c].at # Gone /\ up[conn[c].at] # "up" /\ Close(c)
Shutdowns(r) == ShutdownSweep(r) \/ ShutdownTell(r) \/ Exit(r)
Sweeper      == SweepTell \/ \E r \in Replicas : Sweep(r)

PresenceNext ==
    \/ \E c \in Conns : Handler(c) \/ Close(c) \/ \E r \in Replicas : Connect(c, r)
    \/ \E r \in Replicas : Crash(r) \/ Shutdown(r) \/ Shutdowns(r)
    \/ Interval \/ Sweeper

\* Visitors owe nothing, and nobody has to crash.
PresenceFairness ==
    /\ \A c \in Conns : WF_presenceVars(Handler(c) \/ SentAway(c))
    /\ \A r \in Replicas : WF_presenceVars(Shutdowns(r))
    /\ WF_presenceVars(Interval)
    /\ WF_presenceVars(Sweeper)

-----------------------------------------------------------------------------
\* presence.go:45-57, 159-167, housekeeping.go:186: rows do not pile up.  A row of
\* a process that has ended, or that counts nobody any more, goes in the end.
Idle(r) == row[r] = 0 \/ (up[r] = "dead" /\ row[r] # Gone)
IdleRowsGo == \A r \in Replicas : Idle(r) ~> ~Idle(r)

\* presence.go:69-80, housekeeping.go:97-111: a changed total is told, also if the
\* replica that changed it died before it could; unless telling it failed.
TotalsAreTold == owed ~> ~owed \/ lost

=============================================================================
