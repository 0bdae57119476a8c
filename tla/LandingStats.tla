---------------------------- MODULE LandingStats ----------------------------
(***************************************************************************)
(* The counters of the landing page (rooms/stats.go): one row, counted up  *)
(* after the commit of what is counted, and told to the room at most once  *)
(* a window by each replica, with a trailing frame for what came within.   *)
(*                                                                         *)
(* One of the five counters stands for all.  A call of Record goes on, if  *)
(* it has armed the trailing frame, as the goroutine that sends it.        *)
(***************************************************************************)
EXTENDS Integers, FiniteSets

CONSTANTS
    Processes,      \* replicas, each with a throttle of its own
    Records,        \* calls of Record
    MaxFailures     \* bound: statements that fail, processes that end

ASSUME StatsAssumption == MaxFailures \in Nat

VARIABLES
    counter,    \* the row of room_state
    open,       \* per process: the window since lastEmitAt has passed
    pending,    \* per process: a trailing frame is armed
    call,       \* the calls of Record
    frames,     \* history: the counts that were told
    excused,    \* history: counts up to this one were under way when something failed
    failures

statsVars == <<counter, open, pending, call, frames, excused, failures>>

Uncalled == [pc |-> "none", at |-> "none", count |-> 0]
Is(x, pc) == call[x].pc = pc
Goto(x, pc) == call' = [call EXCEPT ![x].pc = pc]

Fine    == UNCHANGED <<excused, failures>>
Failing == failures < MaxFailures /\ failures' = failures + 1 /\ excused' = counter

StatsInit ==
    /\ counter = 0
    /\ open = [p \in Processes |-> TRUE]
    /\ pending = [p \in Processes |-> FALSE]
    /\ call = [x \in Records |-> Uncalled]
    /\ frames = {} /\ excused = 0 /\ failures = 0

\* One statement: calls that meet wait for each other's row and lose no count.
CountUp == counter' = counter + 1

\* recordStats: the upsert returns what the counter has become.
Record(x, p) ==
    /\ call[x] = Uncalled
    /\ CountUp
    /\ call' = [call EXCEPT ![x] = [pc |-> "counted", at |-> p, count |-> counter + 1]]
    /\ UNCHANGED <<open, pending, frames, excused, failures>>

\* maybeBroadcast, under its mutex: the first frame of a window goes out with what
\* its call has counted; the next call arms the trailing one.
MaybeBroadcast(x) ==
    LET p == call[x].at IN
    /\ Is(x, "counted")
    /\ \/ /\ open[p]
          /\ open' = [open EXCEPT ![p] = FALSE]
          /\ Goto(x, "emit") /\ UNCHANGED pending
       \/ /\ ~open[p] /\ ~pending[p]
          /\ pending' = [pending EXCEPT ![p] = TRUE]
          /\ Goto(x, "armed") /\ UNCHANGED open
       \/ ~open[p] /\ pending[p] /\ Goto(x, "done") /\ UNCHANGED <<open, pending>>
    /\ UNCHANGED <<counter, frames, excused, failures>>

\* statsBroadcastThrottle has passed, for the timer of a trailing frame as well.
WindowPasses(p) ==
    /\ ~open[p]
    /\ open' = [open EXCEPT ![p] = TRUE]
    /\ call' = [x \in Records |-> IF call[x].at = p /\ Is(x, "armed")
                                  THEN [call[x] EXCEPT !.pc = "flush"] ELSE call[x]]
    /\ UNCHANGED <<counter, pending, frames, excused, failures>>

\* flushTrailing, its start: whoever counts from here on arms another.
FlushTrailing(x) ==
    LET p == call[x].at IN
    /\ Is(x, "flush")
    /\ pending' = [pending EXCEPT ![p] = FALSE]
    /\ open' = [open EXCEPT ![p] = FALSE]
    /\ Goto(x, "read")
    /\ UNCHANGED <<counter, frames, excused, failures>>

\* Mutant: what was counted when the frame was armed.
ReadArmed(x) ==
    /\ Is(x, "read") /\ Goto(x, "emit")
    /\ UNCHANGED <<counter, open, pending, frames, excused, failures>>

\* readCurrent.
ReadCurrent(x) ==
    /\ Is(x, "read")
    /\ \/ call' = [call EXCEPT ![x].pc = "emit", ![x].count = counter] /\ Fine
       \/ Goto(x, "done") /\ Failing
    /\ UNCHANGED <<counter, open, pending, frames>>

\* Emit, which may fail.
EmitStats(x) ==
    /\ Is(x, "emit") /\ Goto(x, "done")
    /\ \/ frames' = frames \cup {call[x].count} /\ Fine
       \/ Failing /\ UNCHANGED frames
    /\ UNCHANGED <<counter, open, pending>>

\* A process ends and is started again: what it had armed is gone.
Restart(p) ==
    /\ Failing
    /\ call' = [x \in Records |-> IF call[x].at = p THEN [call[x] EXCEPT !.pc = "done"] ELSE call[x]]
    /\ open' = [open EXCEPT ![p] = TRUE]
    /\ pending' = [pending EXCEPT ![p] = FALSE]
    /\ UNCHANGED <<counter, frames>>

-----------------------------------------------------------------------------
Goroutine(x) == MaybeBroadcast(x) \/ FlushTrailing(x) \/ ReadCurrent(x) \/ EmitStats(x)

StatsNext ==
    \/ \E x \in Records : Goroutine(x) \/ \E p \in Processes : Record(x, p)
    \/ \E p \in Processes : WindowPasses(p) \/ Restart(p)

\* Goroutines run and timers fire; a call does both only so often.
StatsFairness ==
    WF_statsVars((\E x \in Records : Goroutine(x)) \/ \E p \in Processes : WindowPasses(p))

-----------------------------------------------------------------------------
\* stats.go:220-228: "the window's last word always reaches every live subscriber":
\* whatever is counted is in a frame that is sent later, unless a statement failed
\* or a process ended meanwhile; what is counted after that is told again.
CountsAreTold ==
    \A n \in 1 .. Cardinality(Records) : counter >= n ~> excused >= n \/ \E f \in frames : f >= n

\* stats.go:214-217: a frame carries "the LATEST counters at the moment it actually
\* sends".  Not so for the first of a window, which carries what its call counted.
FramesGrow == [][\A f \in frames' \ frames : \A g \in frames : f > g]_statsVars

=============================================================================
