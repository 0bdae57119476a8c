----------------------------- MODULE JobPromise -----------------------------
(***************************************************************************)
(* What internal/jobs promises whoever schedules a job, with no workers,   *)
(* leases, clocks or retries: a job once scheduled stays owed until its    *)
(* handler has succeeded, its room withdraws or replaces it, or its        *)
(* attempts are spent and a sweep gives it up.  A chain is never withdrawn *)
(* and never given up: once owed, something of it is owed for ever.        *)
(***************************************************************************)
EXTENDS Integers

CONSTANTS Ids, Chains, Rooms, NoKey

VARIABLES
    owed,       \* ids scheduled and not yet settled
    keyOf,      \* the key each id was scheduled under
    performed,  \* owed ids whose handler has succeeded
    spent       \* owed ids with no attempts left

pvars == <<owed, keyOf, performed, spent>>

Keys == Chains \cup Rooms \cup {NoKey}

Init ==
    /\ owed = {}
    /\ keyOf \in [Ids -> Keys]
    /\ performed = {}
    /\ spent = {}

\* A key is owed one job: the newest.
Promise(i, k) ==
    LET kept == {j \in owed : k = NoKey \/ keyOf[j] # k}
    IN  /\ i \notin owed
        /\ owed' = kept \cup {i}
        /\ keyOf' = [keyOf EXCEPT ![i] = k]
        /\ performed' = performed \cap kept
        /\ spent' = spent \cap kept

Perform(i) ==
    /\ i \in owed
    /\ performed' = performed \cup {i}
    /\ UNCHANGED <<owed, keyOf, spent>>

\* One claim may be the last attempt of several jobs; no chain runs out of
\* them.
Spend ==
    /\ spent \subseteq spent'
    /\ spent' \subseteq {i \in owed : i \in spent \/ keyOf[i] \notin Chains}
    /\ UNCHANGED <<owed, keyOf, performed>>

Revive(i) ==
    /\ i \in spent
    /\ spent' = spent \ {i}
    /\ UNCHANGED <<owed, keyOf, performed>>

Settle(gone) ==
    /\ owed' = owed \ gone
    /\ performed' = performed \ gone
    /\ spent' = spent \ gone
    /\ UNCHANGED keyOf

\* Only a chain's successor takes the place of a chain's job.
Discharge(i) == i \in performed /\ keyOf[i] \notin Chains /\ Settle({i})

Withdraw(k) == k \in Rooms /\ Settle({i \in owed : keyOf[i] = k})

GiveUp(i) == i \in spent /\ Settle({i})

Next ==
    \/ \E i \in Ids, k \in Keys : Promise(i, k)
    \/ \E i \in Ids : Perform(i) \/ Revive(i) \/ Discharge(i) \/ GiveUp(i)
    \/ Spend
    \/ \E k \in Rooms : Withdraw(k)

Spec == Init /\ [][Next]_pvars

=============================================================================
