---------------------------- MODULE SignupClaims ----------------------------
(***************************************************************************)
(* One sign-up sheet: requests that claim slots, and the organiser's edits *)
(* they race with (internal/polls: claims.go, and Update/replaceOptions of *)
(* service.go).                                                            *)
(*                                                                         *)
(* Each request is one READ COMMITTED transaction.  A statement sees what  *)
(* is committed when it runs; what a transaction writes is seen by others  *)
(* when it commits, so a transaction's writes are its commit step.  A row  *)
(* lock (SELECT ... FOR UPDATE, UPDATE, DELETE) is held until the          *)
(* transaction ends, and whoever waited for it then reads the row as it    *)
(* has become.  A claim locks its option and then its participant, an edit *)
(* the poll row and then every option it touches.                          *)
(***************************************************************************)
EXTENDS Integers, FiniteSets, Functions

CONSTANTS
    Requests,      \* request slots: how many transactions run at a time
    Options,       \* ids of option rows
    Participants,  \* ids of participant rows
    Users,         \* signed-in users
    Guest,         \* the caller who is not signed in
    Poll,          \* the lock on the poll's own row
    None,
    Budgets,       \* values of signup_max_claims
    Capacities,    \* values of an option's capacity
    Unlimited,     \* the NULL capacity
    LimitParticipants,
    MaxNews        \* bound: announcements counted

ASSUME SignupClaimsAssumption ==
    /\ IsFiniteSet(Options) /\ IsFiniteSet(Participants)
    /\ Options \cap Participants = {}
    /\ Poll \notin Options \cup Participants
    /\ None \notin Options \cup Participants \cup Users \cup {Guest}
    /\ Guest \notin Users
    /\ Budgets # {} /\ Budgets \subseteq Nat \ {0}
    /\ Unlimited \notin Nat
    /\ Capacities # {} /\ Capacities \subseteq (Nat \ {0}) \cup {Unlimited}
    /\ MaxNews \in Nat
    /\ LimitParticipants \in Nat

VARIABLES
    open,      \* poll.status = "open"
    budget,    \* poll.signup_max_claims
    capacity,  \* the option rows, each with its capacity
    people,    \* the participant rows, each with its user_id
    votes,     \* the votes: <<participant, option>>
    request,   \* the transaction each request slot is running
    news       \* history: signup.full items since the sheet was last not full

rows == <<open, budget, capacity, people, votes>>
vars == <<open, budget, capacity, people, votes, request, news>>

Sheets == UNION {[S -> Capacities] : S \in SUBSET Options}

ClaimSteps == {"lockOption", "resolve", "lockParticipant", "checkBudget",
               "checkCapacity", "commit"}

Transaction ==
    [pc      : ClaimSteps \cup {"idle", "announce", "checkEdit", "edit"},
     option  : Options \cup {None},       \* the option claimed
     user    : Users \cup {Guest, None},  \* the claimant, unless it is given
     who     : Participants \cup {None},  \* the participant, once resolved
     fresh   : BOOLEAN,                   \* who is still to be inserted
     budget  : Budgets \cup {0},          \* signup_max_claims, read or wanted
     room    : Capacities \cup {0},       \* the capacity read under the lock
     wanted  : Sheets,                    \* an edit's options; none: untouched
     todo    : SUBSET Options,            \* option rows it has still to write
     locks   : SUBSET (Options \cup Participants \cup {Poll})]

TypeOK ==
    /\ open \in BOOLEAN
    /\ budget \in Budgets
    /\ capacity \in Sheets
    /\ people \in UNION {[S -> Users \cup {Guest}] : S \in SUBSET Participants}
    /\ votes \subseteq (DOMAIN people) \X (DOMAIN capacity)
    /\ request \in [Requests -> Transaction]
    /\ \A r, s \in Requests : r # s => request[r].locks \cap request[s].locks = {}
    /\ news \in Nat

Idle == [pc |-> "idle", option |-> None, user |-> None, who |-> None,
         fresh |-> FALSE, budget |-> 0, room |-> 0, wanted |-> <<>>,
         todo |-> {}, locks |-> {}]

Init ==
    /\ open = TRUE
    /\ budget \in Budgets
    /\ capacity \in [Options -> Capacities]
    /\ people = <<>>
    /\ votes = {}
    /\ request = [r \in Requests |-> Idle]
    /\ news = 0

-----------------------------------------------------------------------------
(***************************************************************************)
(* Reading the sheet                                                       *)
(***************************************************************************)

ClaimsOf(p) == {o \in Options : <<p, o>> \in votes}

Claimants(o) == {p \in Participants : <<p, o>> \in votes}

Fits(n, c) == c = Unlimited \/ n <= c

\* SignupFull: no unlimited option, and every option claimed to its capacity.
Full ==
    /\ capacity # <<>>
    /\ \A o \in DOMAIN capacity :
          /\ capacity[o] # Unlimited
          /\ Cardinality(Claimants(o)) >= capacity[o]

\* Only while the sheet stays full is an earlier announcement still news.
FullOrNoNews == news' = IF Full' THEN news ELSE 0

-----------------------------------------------------------------------------
(***************************************************************************)
(* Row locks and transactions                                              *)
(***************************************************************************)

Free(row) == \A r \in Requests : row \notin request[r].locks

\* The request goes on with the given fields changed and one more row locked.
Goto(r, pc, row) ==
    request' = [request EXCEPT ![r].pc = pc, ![r].locks = @ \cup row]

\* Mutation: a refused claim returns without its deferred Rollback.
ReturnLocked(r) ==
    request' = [request EXCEPT ![r] = [Idle EXCEPT !.locks = request[r].locks]]

\* The transaction ends, and its locks with it.
Return(r) == request' = [request EXCEPT ![r] = Idle]

Refuse(r) == Return(r) /\ UNCHANGED <<rows, news>>

-----------------------------------------------------------------------------
(***************************************************************************)
(* Claim                                                                   *)
(***************************************************************************)

\* requireSignupPollTx: the poll is open, by a read that locks nothing.  The
\* caller claims for a participant already on the sheet, or as a user or guest.
BeginClaim(r, o, u, p) ==
    /\ request[r].pc = "idle"
    /\ open
    /\ o \in DOMAIN capacity
    /\ IF p = None THEN u # None ELSE u = None /\ p \in DOMAIN people
    /\ request' = [request EXCEPT ![r] =
          [Idle EXCEPT !.pc = "lockOption", !.option = o, !.user = u,
                       !.who = p, !.budget = budget]]
    /\ UNCHANGED <<rows, news>>

\* Mutation: the option is read without FOR UPDATE.
ReadOption(r) ==
    /\ request[r].pc = "lockOption"
    /\ request[r].option \in DOMAIN capacity
    /\ request' = [request EXCEPT ![r].pc = "resolve",
                                  ![r].room = capacity[request[r].option]]
    /\ UNCHANGED <<rows, news>>

\* GetPollOptionForUpdate: waits for the option's row, then reads it.
LockOption(r) ==
    LET o == request[r].option
    IN  /\ request[r].pc = "lockOption"
        /\ Free(o)
        /\ IF o \in DOMAIN capacity
           THEN /\ request' = [request EXCEPT ![r].pc = "resolve",
                                              ![r].room = capacity[o],
                                              ![r].locks = @ \cup {o}]
                /\ UNCHANGED <<rows, news>>
           ELSE Refuse(r)

Own(u) == {p \in DOMAIN people : u \in Users /\ people[p] = u}

UnusedId == {p \in Participants : /\ p \notin DOMAIN people
                                  /\ \A r \in Requests : request[r].who # p}

\* resolveClaimant: the participant given, else the user's own, else a new one
\* that only the commit will insert, while the poll has fewer than its limit.
Resolve(r) ==
    LET p == request[r].who
        u == request[r].user
    IN  /\ request[r].pc = "resolve"
        /\ \/ p # None /\ p \in DOMAIN people /\ Goto(r, "lockParticipant", {})
           \/ p # None /\ p \notin DOMAIN people /\ Return(r)
           \/ /\ p = None
              /\ \E q \in Own(u) :
                    request' = [request EXCEPT ![r].pc = "lockParticipant",
                                               ![r].who = q]
           \/ /\ p = None /\ Own(u) = {}
              /\ Cardinality(DOMAIN people) >= LimitParticipants
              /\ Return(r)
           \/ /\ p = None /\ Own(u) = {}
              /\ Cardinality(DOMAIN people) < LimitParticipants
              /\ \E q \in UnusedId :
                    request' = [request EXCEPT ![r].pc = "checkBudget",
                                               ![r].who = q, ![r].fresh = TRUE]
        /\ UNCHANGED <<rows, news>>

\* Mutation: the existing participant's row is not locked.
ReadParticipant(r) ==
    /\ request[r].pc = "lockParticipant"
    /\ IF request[r].who \in DOMAIN people THEN Goto(r, "checkBudget", {})
                                           ELSE Return(r)
    /\ UNCHANGED <<rows, news>>

\* GetParticipantForUpdate; removed meanwhile, the claim fails.
LockParticipant(r) ==
    /\ request[r].pc = "lockParticipant"
    /\ Free(request[r].who)
    /\ IF request[r].who \in DOMAIN people
       THEN Goto(r, "checkBudget", {request[r].who})
       ELSE Return(r)
    /\ UNCHANGED <<rows, news>>

\* The participant's claims against the budget read at the start.  A slot it
\* already has is answered as it is, and one claim too many refused.
CheckBudget(r) ==
    LET claimed == ClaimsOf(request[r].who)
    IN  /\ request[r].pc = "checkBudget"
        /\ IF \/ request[r].option \in claimed
              \/ Cardinality(claimed) >= request[r].budget
           THEN Return(r)
           ELSE Goto(r, "checkCapacity", {})
        /\ UNCHANGED <<rows, news>>

\* The option's claims against the capacity read under its lock.
CheckCapacity(r) ==
    /\ request[r].pc = "checkCapacity"
    /\ IF Fits(Cardinality(Claimants(request[r].option)) + 1, request[r].room)
       THEN Goto(r, "commit", {})
       ELSE Return(r)
    /\ UNCHANGED <<rows, news>>

\* The participant, if new, and the vote become visible, and the locks go.
CommitClaim(r) ==
    LET p == request[r].who
        t == request[r]
    IN  /\ t.pc = "commit"
        /\ people' = IF t.fresh
                     THEN [q \in DOMAIN people \cup {p} |->
                              IF q = p THEN t.user ELSE people[q]]
                     ELSE people
        /\ votes' = votes \cup {<<p, t.option>>}
        /\ request' = [request EXCEPT ![r] = [Idle EXCEPT !.pc = "announce"]]
        /\ UNCHANGED <<open, budget, capacity>>
        /\ FullOrNoNews

\* The handler, after the commit, looks whether the sheet is full and queues
\* signup.full if it is.
Announce(r) ==
    /\ request[r].pc = "announce"
    /\ Return(r)
    /\ news' = IF Full /\ news < MaxNews THEN news + 1 ELSE news
    /\ UNCHANGED rows

-----------------------------------------------------------------------------
(***************************************************************************)
(* The organiser's edit, and what other requests do in one statement       *)
(***************************************************************************)

\* Update writes the poll's scalars first, which locks the poll row against
\* every other Update and status change.
BeginUpdate(r, b, wanted) ==
    /\ request[r].pc = "idle"
    /\ Free(Poll)
    /\ request' = [request EXCEPT ![r] =
          [Idle EXCEPT !.pc = "checkEdit", !.budget = b, !.wanted = wanted,
                       !.locks = {Poll}]]
    /\ UNCHANGED <<rows, news>>

\* replaceOptions reads the claims, without any option's lock, and rejects a
\* capacity below them.  An edit that names no options leaves them alone.
CheckEdit(r) ==
    LET wanted == request[r].wanted
        kept   == DOMAIN wanted \cap DOMAIN capacity
    IN  /\ request[r].pc = "checkEdit"
        /\ IF \A o \in kept : Fits(Cardinality(Claimants(o)), wanted[o])
           THEN request' = [request EXCEPT
                   ![r].pc = "edit",
                   ![r].todo = IF wanted = <<>> THEN {} ELSE DOMAIN capacity]
           ELSE Return(r)
        /\ UNCHANGED <<rows, news>>

\* It updates or deletes the option rows one by one, waiting for each.
WriteOption(r, o) ==
    /\ request[r].pc = "edit"
    /\ o \in request[r].todo
    /\ Free(o)
    /\ request' = [request EXCEPT ![r].todo = @ \ {o}, ![r].locks = @ \cup {o}]
    /\ UNCHANGED <<rows, news>>

\* An option that goes takes its votes along.
CommitUpdate(r) ==
    LET wanted == request[r].wanted
    IN  /\ request[r].pc = "edit"
        /\ request[r].todo = {}
        /\ budget' = request[r].budget
        /\ capacity' = IF wanted = <<>> THEN capacity ELSE wanted
        /\ votes' = {v \in votes : v[2] \in DOMAIN capacity'}
        /\ Return(r)
        /\ UNCHANGED <<open, people>>
        /\ FullOrNoNews

\* SetStatus, and CloseExpired at the deadline.
SetStatus(s) ==
    /\ open # s
    /\ Free(Poll)
    /\ open' = s
    /\ UNCHANGED <<budget, capacity, people, votes, request, news>>

\* Unclaim: its DELETE waits for no lock of a claim's or an edit's.  A manager
\* may do it whatever the status.
Unclaim(p, o) ==
    /\ <<p, o>> \in votes
    /\ votes' = votes \ {<<p, o>>}
    /\ UNCHANGED <<open, budget, capacity, people, request>>
    /\ FullOrNoNews

\* Mutation: without the votes' ON DELETE CASCADE.
RemoveKeepingVotes(p) ==
    /\ p \in DOMAIN people
    /\ Free(p)
    /\ people' = Restrict(people, DOMAIN people \ {p})
    /\ UNCHANGED <<open, budget, capacity, votes, request, news>>

\* RemoveParticipant waits for the participant's row; its votes go with it.
RemoveParticipant(p) ==
    /\ p \in DOMAIN people
    /\ Free(p)
    /\ people' = Restrict(people, DOMAIN people \ {p})
    /\ votes' = {v \in votes : v[1] # p}
    /\ UNCHANGED <<open, budget, capacity, request>>
    /\ FullOrNoNews

\* The client hangs up or the connection breaks: nothing of it is committed,
\* and after the commit only the announcement is lost.
Abort(r) ==
    /\ request[r].pc # "idle"
    /\ Refuse(r)

-----------------------------------------------------------------------------

Step(r) ==
    \/ LockOption(r) \/ Resolve(r) \/ LockParticipant(r) \/ CheckBudget(r)
    \/ CheckCapacity(r) \/ CommitClaim(r) \/ Announce(r)
    \/ CheckEdit(r) \/ CommitUpdate(r)
    \/ \E o \in Options : WriteOption(r, o)

Next ==
    \/ \E r \in Requests : Step(r) \/ Abort(r)
    \/ \E r \in Requests, o \in Options, u \in Users \cup {Guest, None},
          p \in Participants \cup {None} : BeginClaim(r, o, u, p)
    \/ \E r \in Requests, b \in Budgets, w \in Sheets : BeginUpdate(r, b, w)
    \/ \E s \in BOOLEAN : SetStatus(s)
    \/ \E p \in Participants, o \in Options : Unclaim(p, o)
    \/ \E p \in Participants : RemoveParticipant(p)

Spec == Init /\ [][Next]_vars

\* Postgres grants a row lock in the order of its queue, so a transaction that
\* could go on again and again does.
FairSpec == Spec /\ \A r \in Requests : SF_vars(Step(r))

-----------------------------------------------------------------------------
(***************************************************************************)
(* Properties                                                              *)
(***************************************************************************)

\* A claim never takes an option beyond the capacity it has when the vote
\* becomes visible, whatever runs beside it: counting and inserting happen
\* under the option's row lock (claims.go, "THE atomicity contract").
ClaimsWithinCapacity ==
    [][\A o \in Options : Claimants(o)' \ Claimants(o) # {}
          => /\ o \in DOMAIN capacity'
             /\ Fits(Cardinality(Claimants(o)'), capacity'[o])]_vars

\* Nor a participant beyond the budget its request read: two claims of the
\* same participant for different options meet at the participant's row.
ClaimsWithinBudget ==
    [][\A r \in Requests, p \in Participants :
          /\ request[r].pc = "commit" /\ request'[r].pc = "announce"
          /\ request[r].who = p
          => Cardinality(ClaimsOf(p)') <= request[r].budget]_vars

\* Every request is answered: lock order option, participant and poll, options
\* closes no cycle, and no refused request leaves a lock behind.
RequestsAnswered ==
    \A r \in Requests : request[r].pc # "idle" ~> request[r].pc = "idle"

\* "A signed-in caller always reuses their own participant row on this poll"
\* (resolveClaimant), so that nobody gets a second budget.
OneParticipantPerUser ==
    \A p, q \in DOMAIN people : p # q /\ people[p] = people[q] => people[p] = Guest

\* "Lowering a retained option's capacity below its current claim count is
\* rejected" (replaceOptions).
NoCapacityBelowClaims ==
    [][\A o \in DOMAIN capacity \cap DOMAIN capacity' :
          capacity'[o] # capacity[o]
             => Fits(Cardinality(Claimants(o)'), capacity'[o])]_vars

\* "Exactly one signup.full per fill" (SignupFull).
FullAnnouncedOnce == news <= 1

=============================================================================
