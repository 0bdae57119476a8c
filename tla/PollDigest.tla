----------------------------- MODULE PollDigest -----------------------------
(***************************************************************************)
(* The digest of a poll's activity (polls/timers.go): the pending          *)
(* poll.digest row of scheduled_jobs is the accumulator, and its worker    *)
(* takes the items and queues the mails in one transaction.                *)
(*                                                                         *)
(* Both sides hold the poll's advisory lock for all of their transaction,  *)
(* so each transaction is one step.  Workers are those that may hold the   *)
(* job at the same time: one while leases do not overlap, more when a      *)
(* lease runs out under its holder.  A worker may die anywhere.            *)
(***************************************************************************)
EXTENDS Integers, Sequences, FiniteSets

CONSTANTS
    Followers,      \* who follows the poll and is a member
    Events,         \* digestEvents
    Wants,          \* the followers' e-mail channels: pairs of follower and event
    Workers,        \* who may hold the job at a time
    MaxItems,       \* bound: items in all
    MaxDeaths       \* bound: deaths of the worker

ASSUME DigestAssumption == MaxItems \in Nat /\ MaxDeaths \in Nat

VARIABLES
    poll,       \* "open", "closed" or "gone": deleted or suspended
    row,        \* the poll.digest row: its items, and whether run_at has passed
    batch,      \* per worker: the payload it claimed, and whether the row keeps that id
    enqueued,   \* history: the items enqueued so far
    heard,      \* history: how often each follower's mails told of each item
    dropped,    \* history: items taken while the poll was gone
    shared,     \* history: items claimed while another worker had them in hand
    deaths

digestVars == <<row, batch, enqueued, heard, dropped, shared, deaths>>

NoRow   == [items |-> <<>>, due |-> FALSE, there |-> FALSE]
NoBatch == [items |-> <<>>, own |-> FALSE, pc |-> "idle"]

DigestInit ==
    /\ row = NoRow
    /\ batch = [w \in Workers |-> NoBatch]
    /\ enqueued = <<>>
    /\ heard = [u \in Followers |-> [i \in 1 .. MaxItems |-> 0]]
    /\ dropped = {} /\ shared = {} /\ deaths = 0

-----------------------------------------------------------------------------
\* EnqueueDigestItem.  Items that wait keep their run_at; an emptied row starts a
\* new window.  The row gets a new id in either case.
Enqueue(item) ==
    /\ row' = IF row.items = <<>>
              THEN [items |-> <<item>>, due |-> FALSE, there |-> TRUE]
              ELSE [row EXCEPT !.items = Append(@, item)]
    /\ batch' = [w \in Workers |-> [batch[w] EXCEPT !.own = FALSE]]
    /\ enqueued' = Append(enqueued, item)

\* The window of ten minutes passes.
WindowEnds ==
    /\ row.there /\ ~row.due
    /\ row' = [row EXCEPT !.due = TRUE]
    /\ UNCHANGED <<poll, batch, enqueued, heard, dropped, shared, deaths>>

-----------------------------------------------------------------------------
\* A worker is about to send the payload of the row that is there.
Handles(w) == batch[w].own /\ batch[w].pc = "process"

\* The queue hands the row out, to a second worker if the lease of the first is over.
ClaimDigest(w) ==
    /\ batch[w] = NoBatch /\ row.due
    /\ batch' = [batch EXCEPT ![w] = [items |-> row.items, own |-> TRUE, pc |-> "process"]]
    /\ shared' = IF \E v \in Workers : Handles(v)
                 THEN shared \cup {row.items[k].id : k \in DOMAIN row.items} ELSE shared
    /\ UNCHANGED <<poll, row, enqueued, heard, dropped, deaths>>

\* Whom resolveRecipients finds for an item.
Hears(u, item) == item.actor # u /\ <<u, item.event>> \in Wants

\* How many of the items tell u of the item i.
Tellings(items, u, i) == Cardinality({k \in DOMAIN items : items[k].id = i /\ Hears(u, items[k])})

\* fanOutDigestItems: nothing for a poll that is gone; what a follower did
\* himself is kept from him.
FanOut(items) ==
    \/ /\ poll = "gone" /\ UNCHANGED heard
       /\ dropped' = dropped \cup {items[k].id : k \in DOMAIN items}
    \/ /\ poll # "gone" /\ UNCHANGED dropped
       /\ heard' = [u \in Followers |-> [i \in 1 .. MaxItems |->
              heard[u][i] + Tellings(items, u, i)]]

Finishes(w) == batch' = [batch EXCEPT ![w].pc = "complete"]

\* Mutant: the claimed payload is sent whatever became of its row.
ProcessAnyway(w) ==
    /\ batch[w].pc = "process"
    /\ row' = IF batch[w].own THEN [row EXCEPT !.items = <<>>] ELSE row
    /\ FanOut(batch[w].items)
    /\ Finishes(w)
    /\ UNCHANGED <<poll, enqueued, shared, deaths>>

\* processDigestJob: the claimed payload is sent only if its row could be emptied.
Process(w) ==
    /\ batch[w].pc = "process"
    /\ IF batch[w].own
       THEN FanOut(batch[w].items) /\ row' = [row EXCEPT !.items = <<>>]
       ELSE UNCHANGED <<row, heard, dropped>>
    /\ Finishes(w)
    /\ UNCHANGED <<poll, enqueued, shared, deaths>>

\* The queue deletes the row by the id that was claimed.
CompleteDigest(w) ==
    /\ batch[w].pc = "complete"
    /\ row' = IF batch[w].own THEN NoRow ELSE row
    /\ batch' = [v \in Workers |-> IF v = w THEN NoBatch ELSE
                    [batch[v] EXCEPT !.own = @ /\ ~batch[w].own]]
    /\ UNCHANGED <<poll, enqueued, heard, dropped, shared, deaths>>

\* The worker dies, or the fan-out fails and is rolled back with the emptying.
WorkerDies(w) ==
    /\ batch[w] # NoBatch /\ deaths < MaxDeaths
    /\ deaths' = deaths + 1
    /\ batch' = [batch EXCEPT ![w] = NoBatch]
    /\ UNCHANGED <<poll, row, enqueued, heard, dropped, shared>>

DigestWorker == \E w \in Workers : ClaimDigest(w) \/ Process(w) \/ CompleteDigest(w)

-----------------------------------------------------------------------------
Meant(u) == {i \in DOMAIN enqueued : enqueued[i].actor # u /\ <<u, enqueued[i].event>> \in Wants}

Waits(i) == \E k \in DOMAIN row.items : row.items[k].id = i

\* How often an item has to have been told by now: until it is told it waits in the row,
\* also while a worker holds a payload that an enqueue has overtaken.  Items taken from
\* a poll that is gone are dropped.
Due(i) == IF Waits(i) \/ i \in dropped THEN 0 ELSE 1

\* timers.go:168-170: "every item is sent exactly once".
EveryItemOnce == \A u \in Followers : \A i \in Meant(u) : heard[u][i] = Due(i)

\* No item is lost, and none is told twice unless two workers had its payload in hand
\* together, one of them past its lease: neither an enqueue that overtakes a worker,
\* nor a death before or after the fan-out, nor a second lease after it does.
OnceUnlessShared ==
    \A u \in Followers : \A i \in Meant(u) :
        /\ heard[u][i] >= Due(i)
        /\ heard[u][i] > Due(i) => i \in shared /\ ~Waits(i)

=============================================================================
