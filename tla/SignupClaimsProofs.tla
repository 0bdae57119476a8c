------------------------- MODULE SignupClaimsProofs -------------------------
(***************************************************************************)
(* No claim oversells an option or a participant's budget: for every       *)
(* number of concurrent requests, options and participants.                *)
(*                                                                         *)
(* What a claim has read stays true until it commits, because it holds the *)
(* rows it read from: the capacity and the count of the option's claims    *)
(* under the option's lock, the count of the participant's claims under    *)
(* the participant's, or under nobody knowing the participant yet.         *)
(***************************************************************************)
EXTENDS SignupClaims, FiniteSetTheorems, TLAPS

\* Past LockOption: the option's row is locked, and still as it was read.
OptionHeld(t, C) ==
    t.pc \in {"resolve", "lockParticipant", "checkBudget", "checkCapacity", "commit"}
        => /\ t.option \in t.locks
           /\ t.option \in DOMAIN C
           /\ t.room = C[t.option]

\* Past Resolve and LockParticipant: the participant's row is locked, or not
\* there yet and its user known.
ClaimantHeld(t, P) ==
    /\ t.pc \in {"lockOption", "resolve"} /\ t.who = None => t.user # None
    /\ t.fresh => /\ t.pc \in {"checkBudget", "checkCapacity", "commit"}
                  /\ t.user # None
    /\ t.pc \in {"checkBudget", "checkCapacity", "commit"}
          => /\ t.who \in Participants
             /\ IF t.fresh THEN t.who \notin DOMAIN P
                           ELSE t.who \in t.locks /\ t.who \in DOMAIN P

BudgetLeft(t, V) ==
    t.pc \in {"checkCapacity", "commit"}
        => Cardinality({o \in Options : <<t.who, o>> \in V}) + 1 <= t.budget

RoomLeft(t, V) ==
    t.pc = "commit"
        => Fits(Cardinality({p \in Participants : <<p, t.option>> \in V}) + 1, t.room)

\* An edit holds the poll's row, and one that replaces the options each of
\* them, or has it still to write.
SheetHeld(t, C) ==
    /\ t.pc \in {"checkEdit", "edit"} => Poll \in t.locks /\ t.budget \in Budgets
    /\ t.pc = "edit" /\ t.wanted # <<>> => DOMAIN C \subseteq t.todo \cup t.locks

Sound(t, C, P, V) ==
    /\ OptionHeld(t, C)
    /\ ClaimantHeld(t, P)
    /\ BudgetLeft(t, V)
    /\ RoomLeft(t, V)
    /\ SheetHeld(t, C)

\* Nobody else knows a participant that is still to be inserted.
FreshApart ==
    \A r, s \in Requests :
        r # s /\ request[r].fresh => request[s].who # request[r].who

ClaimInv ==
    /\ FreshApart
    /\ \A r \in Requests : Sound(request[r], capacity, people, votes)

People == UNION {[S -> Users \cup {Guest}] : S \in SUBSET Participants}

-----------------------------------------------------------------------------
(***************************************************************************)
(* Types                                                                   *)
(***************************************************************************)

LEMMA SheetType ==
    \A f : f \in Sheets <=> DOMAIN f \subseteq Options /\ f \in [DOMAIN f -> Capacities]
BY DEF Sheets

LEMMA PeopleType ==
    \A f : f \in People <=> /\ DOMAIN f \subseteq Participants
                            /\ f \in [DOMAIN f -> Users \cup {Guest}]
BY DEF People

LEMMA IdleType == Idle \in Transaction
<1>1. <<>> \in [{} -> Capacities]
  OBVIOUS
<1>2. DOMAIN <<>> = {}
  OBVIOUS
<1>3. <<>> \in Sheets
  BY <1>1, <1>2, SheetType
<1>4. QED
  BY <1>3 DEF Idle, Transaction

\* An idle request has nothing to be sound about.
LEMMA IdleSound == \A C, P, V : Sound(Idle, C, P, V) /\ Idle.locks = {} /\ ~Idle.fresh
BY DEF Sound, OptionHeld, ClaimantHeld, BudgetLeft, RoomLeft, SheetHeld, Idle

-----------------------------------------------------------------------------
(***************************************************************************)
(* One request moves on, the rows stay                                     *)
(***************************************************************************)

\* What a step of r to the transaction t has to respect.
Moves(r, t) ==
    /\ request' = [request EXCEPT ![r] = t]
    /\ t \in Transaction
    /\ \A s \in Requests \ {r} : t.locks \cap request[s].locks = {}
    /\ \A s \in Requests \ {r} :
          /\ request[s].fresh => t.who # request[s].who
          /\ t.fresh => request[s].who # t.who

LEMMA MovesApart ==
    ASSUME TypeOK, FreshApart, NEW r \in Requests, NEW t, Moves(r, t)
    PROVE  /\ request' \in [Requests -> Transaction]
           /\ \A u, v \in Requests : u # v => request'[u].locks \cap request'[v].locks = {}
           /\ FreshApart'
           /\ request'[r] = t
           /\ \A s \in Requests \ {r} : request'[s] = request[s]
<1>1. request \in [Requests -> Transaction]
  BY DEF TypeOK
<1>2. request'[r] = t /\ \A s \in Requests \ {r} : request'[s] = request[s]
  BY <1>1 DEF Moves
<1>3. request' \in [Requests -> Transaction]
  BY <1>1 DEF Moves
<1>4. FreshApart'
  BY <1>2 DEF FreshApart, Moves
<1>5. \A u, v \in Requests : u # v => request'[u].locks \cap request'[v].locks = {}
  BY <1>2 DEF TypeOK, Moves
<1>6. QED
  BY <1>2, <1>3, <1>4, <1>5

LEMMA MovesInv ==
    ASSUME TypeOK, ClaimInv, NEW r \in Requests, NEW t, Moves(r, t),
           UNCHANGED rows, news' \in Nat, Sound(t, capacity, people, votes)
    PROVE  TypeOK' /\ ClaimInv'
<1>1. /\ request' \in [Requests -> Transaction]
      /\ \A u, v \in Requests : u # v => request'[u].locks \cap request'[v].locks = {}
      /\ FreshApart'
      /\ request'[r] = t
      /\ \A s \in Requests \ {r} : request'[s] = request[s]
  BY MovesApart DEF ClaimInv
<1>2. TypeOK'
  BY <1>1 DEF TypeOK, rows
<1>3. \A s \in Requests : Sound(request'[s], capacity, people, votes)
  BY <1>1 DEF ClaimInv
<1>4. ClaimInv'
  BY <1>1, <1>3 DEF ClaimInv, rows
<1>5. QED
  BY <1>2, <1>4

\* A request that ends gives everything back.
LEMMA ReturnMoves ==
    ASSUME NEW r \in Requests, Return(r), TypeOK, ClaimInv
    PROVE  Moves(r, Idle)
<1>1. \A s \in Requests : request[s].fresh => request[s].who \in Participants
  BY DEF ClaimInv, Sound, ClaimantHeld
<1>2. Idle.who = None /\ Idle.locks = {} /\ ~Idle.fresh
  BY DEF Idle
<1>3. None \notin Participants
  BY SignupClaimsAssumption
<1>4. QED
  BY <1>1, <1>2, <1>3, IdleType DEF Return, Moves

LEMMA ReturnInv ==
    ASSUME NEW r \in Requests, Return(r), TypeOK, ClaimInv, UNCHANGED rows,
           news' \in Nat
    PROVE  TypeOK' /\ ClaimInv'
BY ReturnMoves, IdleSound, MovesInv

\* The transaction of r further on, with what a step may change of it.
At(r, pc, room, todo, locks) ==
    [pc |-> pc, option |-> request[r].option, user |-> request[r].user,
     who |-> request[r].who, fresh |-> request[r].fresh,
     budget |-> request[r].budget, room |-> room,
     wanted |-> request[r].wanted, todo |-> todo, locks |-> locks]

LEMMA GotoAt ==
    ASSUME TypeOK, NEW r \in Requests, NEW pc, NEW row, Goto(r, pc, row)
    PROVE  request' = [request EXCEPT ![r] =
              At(r, pc, request[r].room, request[r].todo, request[r].locks \cup row)]
<1>0. request \in [Requests -> Transaction]
  BY DEF TypeOK
<1>1. /\ request'[r] = At(r, pc, request[r].room, request[r].todo, request[r].locks \cup row)
      /\ \A s \in Requests \ {r} : request'[s] = request[s]
  BY <1>0 DEF Goto, Transaction, At
<1>2. request' = [s \in Requests |-> request'[s]]
  BY <1>0 DEF Goto
<1>3. QED
  BY <1>0, <1>1, <1>2

LEMMA AtMoves ==
    ASSUME TypeOK, ClaimInv, NEW r \in Requests, NEW pc, NEW room, NEW todo, NEW row,
           request' = [request EXCEPT ![r] =
               At(r, pc, room, todo, request[r].locks \cup row)],
           pc \in ClaimSteps \cup {"idle", "announce", "checkEdit", "edit"},
           room \in Capacities \cup {0},
           todo \subseteq Options,
           row \subseteq Options \cup Participants,
           \A l \in row : Free(l)
    PROVE  Moves(r, At(r, pc, room, todo, request[r].locks \cup row))
<1> DEFINE t == At(r, pc, room, todo, request[r].locks \cup row)
<1>1. request[r] \in Transaction
  BY DEF TypeOK
<1>2. t \in Transaction
  BY <1>1 DEF Transaction, At
<1>3. \A s \in Requests \ {r} : t.locks \cap request[s].locks = {}
  BY DEF At, TypeOK, Free
<1>4. t.who = request[r].who /\ t.fresh = request[r].fresh
  BY DEF At
<1>5. \A s \in Requests \ {r} :
         /\ request[s].fresh => t.who # request[s].who
         /\ t.fresh => request[s].who # t.who
  BY <1>4 DEF ClaimInv, FreshApart
<1>6. QED
  BY <1>2, <1>3, <1>5 DEF Moves

LEMMA GotoMoves ==
    ASSUME TypeOK, ClaimInv, NEW r \in Requests, NEW pc \in ClaimSteps,
           NEW row \in SUBSET (Options \cup Participants),
           Goto(r, pc, row), \A l \in row : Free(l)
    PROVE  Moves(r, At(r, pc, request[r].room, request[r].todo, request[r].locks \cup row))
<1>1. request[r] \in Transaction
  BY DEF TypeOK
<1>2. request[r].room \in Capacities \cup {0} /\ request[r].todo \subseteq Options
  BY <1>1 DEF Transaction
<1>3. request' = [request EXCEPT ![r] =
         At(r, pc, request[r].room, request[r].todo, request[r].locks \cup row)]
  BY GotoAt
<1>4. QED
  BY <1>2, <1>3, AtMoves

-----------------------------------------------------------------------------
(***************************************************************************)
(* The steps of a claim up to its commit                                   *)
(***************************************************************************)

LEMMA Replaced ==
    ASSUME TypeOK, NEW r \in Requests, NEW t,
           request' = [s \in Requests |-> request'[s]], request'[r] = t,
           \A s \in Requests \ {r} : request'[s] = request[s]
    PROVE  request' = [request EXCEPT ![r] = t]
BY DEF TypeOK

\* What the steps below may be asked about the request they move.
LEMMA RequestFacts ==
    ASSUME TypeOK, ClaimInv, NEW r \in Requests
    PROVE  /\ request \in [Requests -> Transaction]
           /\ request[r] \in Transaction
           /\ Sound(request[r], capacity, people, votes)
           /\ DOMAIN capacity \subseteq Options /\ capacity \in [DOMAIN capacity -> Capacities]
           /\ DOMAIN people \subseteq Participants
           /\ news \in Nat
BY SheetType, PeopleType DEF TypeOK, ClaimInv, People

LEMMA BeginClaimInv ==
    ASSUME TypeOK, ClaimInv, NEW r \in Requests, NEW o \in Options,
           NEW u \in Users \cup {Guest, None}, NEW p \in Participants \cup {None},
           BeginClaim(r, o, u, p)
    PROVE  TypeOK' /\ ClaimInv'
<1> DEFINE t == [pc |-> "lockOption", option |-> o, user |-> u, who |-> p,
                 fresh |-> FALSE, budget |-> budget, room |-> 0, wanted |-> <<>>,
                 todo |-> {}, locks |-> {}]
<1>1. request' = [request EXCEPT ![r] = t]
  <2>1. request'[r] = t /\ \A s \in Requests \ {r} : request'[s] = request[s]
    BY RequestFacts DEF BeginClaim, Idle
  <2>2. request' = [s \in Requests |-> request'[s]]
    BY RequestFacts DEF BeginClaim
  <2>3. QED
    BY <2>1, <2>2, Replaced
<1>2. t \in Transaction
  <2>1. Idle.wanted \in Sheets
    BY IdleType DEF Transaction
  <2>2. QED
    BY <2>1 DEF Transaction, TypeOK, ClaimSteps, Idle
<1>3. \A s \in Requests \ {r} : request[s].fresh => p # request[s].who
  <2>1. \A s \in Requests : request[s].fresh
                => request[s].who \in Participants /\ request[s].who \notin DOMAIN people
    BY DEF ClaimInv, Sound, ClaimantHeld
  <2>2. p = None \/ p \in DOMAIN people
    BY DEF BeginClaim
  <2>3. QED
    BY <2>1, <2>2, SignupClaimsAssumption
<1>4. Moves(r, t)
  BY <1>1, <1>2, <1>3 DEF Moves
<1>5. Sound(t, capacity, people, votes)
  <2>1. p = None => u # None
    BY DEF BeginClaim
  <2>2. QED
    BY <2>1 DEF Sound, OptionHeld, ClaimantHeld, BudgetLeft, RoomLeft, SheetHeld
<1>6. UNCHANGED rows /\ news' \in Nat
  BY RequestFacts DEF BeginClaim
<1>7. QED
  BY <1>4, <1>5, <1>6, MovesInv

LEMMA LockOptionInv ==
    ASSUME TypeOK, ClaimInv, NEW r \in Requests, LockOption(r)
    PROVE  TypeOK' /\ ClaimInv'
<1> DEFINE o == request[r].option
           t == At(r, "resolve", capacity[o], request[r].todo, request[r].locks \cup {o})
<1>1. CASE o \notin DOMAIN capacity
  BY <1>1, ReturnInv, RequestFacts DEF LockOption, Refuse
<1>2. CASE o \in DOMAIN capacity
  <2>1. request' = [request EXCEPT ![r].pc = "resolve", ![r].room = capacity[o],
                                   ![r].locks = @ \cup {o}]
    BY <1>2 DEF LockOption
  <2>2. request' = [request EXCEPT ![r] = t]
    <3>1. request'[r] = t /\ \A s \in Requests \ {r} : request'[s] = request[s]
      BY <2>1, RequestFacts DEF Transaction, At
    <3>2. request' = [s \in Requests |-> request'[s]]
      BY <2>1, RequestFacts
    <3>3. QED
      BY <3>1, <3>2, Replaced
  <2>3. Moves(r, t)
    <3>1. o \in Options /\ capacity[o] \in Capacities /\ request[r].todo \subseteq Options
      BY <1>2, RequestFacts DEF Transaction
    <3>2. Free(o)
      BY DEF LockOption
    <3>3. QED
      BY <2>2, <3>1, <3>2, AtMoves DEF ClaimSteps
  <2>4. Sound(t, capacity, people, votes)
    <3>1. /\ request[r].pc = "lockOption" /\ ~request[r].fresh
          /\ request[r].who = None => request[r].user # None
      BY RequestFacts DEF LockOption, Sound, ClaimantHeld
    <3>2. QED
      BY <1>2, <3>1 DEF At, Sound, OptionHeld, ClaimantHeld, BudgetLeft, RoomLeft, SheetHeld
  <2>5. UNCHANGED rows /\ news' \in Nat
    BY <1>2, RequestFacts DEF LockOption
  <2>6. QED
    BY <2>3, <2>4, <2>5, MovesInv
<1>3. QED
  BY <1>1, <1>2

LEMMA ResolveInv ==
    ASSUME TypeOK, ClaimInv, NEW r \in Requests, Resolve(r)
    PROVE  TypeOK' /\ ClaimInv'
<1> DEFINE p == request[r].who
           u == request[r].user
           t == request[r]
           To(pc, q, f) ==
              [pc |-> pc, option |-> t.option, user |-> t.user, who |-> q,
               fresh |-> f, budget |-> t.budget, room |-> t.room,
               wanted |-> t.wanted, todo |-> t.todo, locks |-> t.locks]
<1>0. /\ t \in Transaction /\ Sound(t, capacity, people, votes)
      /\ t.pc = "resolve" /\ ~t.fresh
      /\ UNCHANGED rows /\ news' \in Nat
  BY RequestFacts DEF Resolve, Sound, ClaimantHeld
<1>a. \A s \in Requests : request[s].fresh
         => request[s].who \in Participants /\ request[s].who \notin DOMAIN people
  BY DEF ClaimInv, Sound, ClaimantHeld
<1>1. CASE Return(r)
  BY <1>0, <1>1, ReturnInv
<1>2. CASE p # None /\ p \in DOMAIN people /\ Goto(r, "lockParticipant", {})
  <2> DEFINE a == At(r, "lockParticipant", t.room, t.todo, t.locks \cup {})
  <2>1. Moves(r, a)
    BY <1>0, <1>2, GotoMoves DEF ClaimSteps
  <2>2. Sound(a, capacity, people, votes)
    BY <1>0 DEF At, Sound, OptionHeld, ClaimantHeld, BudgetLeft, RoomLeft, SheetHeld
  <2>3. QED
    BY <1>0, <2>1, <2>2, MovesInv
<1>3. ASSUME NEW q \in Own(u),
             request' = [request EXCEPT ![r].pc = "lockParticipant", ![r].who = q]
      PROVE  TypeOK' /\ ClaimInv'
  <2> DEFINE a == To("lockParticipant", q, FALSE)
  <2>1. q \in DOMAIN people /\ q \in Participants
    BY RequestFacts DEF Own
  <2>2. request' = [request EXCEPT ![r] = a]
    <3>1. request'[r] = a /\ \A s \in Requests \ {r} : request'[s] = request[s]
      BY <1>0, <1>3, RequestFacts DEF Transaction
    <3>2. request' = [s \in Requests |-> request'[s]]
      BY <1>3, RequestFacts
    <3>3. QED
      BY <3>1, <3>2, Replaced
  <2>3. a \in Transaction
    BY <1>0, <2>1 DEF Transaction, ClaimSteps
  <2>4. Moves(r, a)
    BY <1>a, <2>1, <2>2, <2>3 DEF Moves, TypeOK
  <2>5. Sound(a, capacity, people, votes)
    BY <1>0 DEF Sound, OptionHeld, ClaimantHeld, BudgetLeft, RoomLeft, SheetHeld
  <2>6. QED
    BY <1>0, <2>4, <2>5, MovesInv
<1>4. ASSUME p = None, NEW q \in UnusedId,
             request' = [request EXCEPT ![r].pc = "checkBudget",
                                        ![r].who = q, ![r].fresh = TRUE]
      PROVE  TypeOK' /\ ClaimInv'
  <2> DEFINE a == To("checkBudget", q, TRUE)
  <2>1. /\ q \in Participants /\ q \notin DOMAIN people
        /\ \A s \in Requests : request[s].who # q
    BY DEF UnusedId
  <2>2. request' = [request EXCEPT ![r] = a]
    <3>1. request'[r] = a /\ \A s \in Requests \ {r} : request'[s] = request[s]
      BY <1>0, <1>4, RequestFacts DEF Transaction
    <3>2. request' = [s \in Requests |-> request'[s]]
      BY <1>4, RequestFacts
    <3>3. QED
      BY <3>1, <3>2, Replaced
  <2>3. a \in Transaction
    BY <1>0, <2>1 DEF Transaction, ClaimSteps
  <2>4. Moves(r, a)
    BY <2>1, <2>2, <2>3 DEF Moves, TypeOK
  <2>5. Sound(a, capacity, people, votes)
    BY <1>0, <1>4, <2>1 DEF Sound, OptionHeld, ClaimantHeld, BudgetLeft, RoomLeft, SheetHeld
  <2>6. QED
    BY <1>0, <2>4, <2>5, MovesInv
<1>5. QED
  BY <1>1, <1>2, <1>3, <1>4 DEF Resolve

LEMMA LockParticipantInv ==
    ASSUME TypeOK, ClaimInv, NEW r \in Requests, LockParticipant(r)
    PROVE  TypeOK' /\ ClaimInv'
<1> DEFINE t == request[r]
           a == At(r, "checkBudget", t.room, t.todo, t.locks \cup {t.who})
<1>0. /\ t \in Transaction /\ Sound(t, capacity, people, votes)
      /\ t.pc = "lockParticipant" /\ ~t.fresh /\ Free(t.who)
      /\ UNCHANGED rows /\ news' \in Nat
  BY RequestFacts DEF LockParticipant, Sound, ClaimantHeld
<1>1. CASE Return(r)
  BY <1>0, <1>1, ReturnInv
<1>2. CASE t.who \in DOMAIN people /\ Goto(r, "checkBudget", {t.who})
  <2>1. t.who \in Participants
    BY <1>2, RequestFacts
  <2>2. Moves(r, a)
    BY <1>0, <1>2, <2>1, GotoMoves DEF ClaimSteps
  <2>3. Sound(a, capacity, people, votes)
    BY <1>0, <1>2, <2>1 DEF At, Sound, OptionHeld, ClaimantHeld, BudgetLeft, RoomLeft, SheetHeld
  <2>4. QED
    BY <1>0, <2>2, <2>3, MovesInv
<1>3. QED
  BY <1>1, <1>2 DEF LockParticipant

LEMMA CheckBudgetInv ==
    ASSUME TypeOK, ClaimInv, NEW r \in Requests, CheckBudget(r)
    PROVE  TypeOK' /\ ClaimInv'
<1> DEFINE t == request[r]
           a == At(r, "checkCapacity", t.room, t.todo, t.locks \cup {})
<1>0. /\ t \in Transaction /\ Sound(t, capacity, people, votes)
      /\ t.pc = "checkBudget"
      /\ UNCHANGED rows /\ news' \in Nat
  BY RequestFacts DEF CheckBudget
<1>1. CASE Return(r)
  BY <1>0, <1>1, ReturnInv
<1>2. CASE ~(Cardinality(ClaimsOf(t.who)) >= t.budget) /\ Goto(r, "checkCapacity", {})
  <2>1. Cardinality(ClaimsOf(t.who)) + 1 <= t.budget
    <3>1. IsFiniteSet(ClaimsOf(t.who))
      BY FS_Subset, SignupClaimsAssumption DEF ClaimsOf
    <3>2. Cardinality(ClaimsOf(t.who)) \in Nat
      BY <3>1, FS_CardinalityType
    <3>3. t.budget \in Nat
      <4>1. t.budget \in Budgets \cup {0}
        BY <1>0 DEF Transaction
      <4>2. \A b \in Budgets : b \in Nat
        BY SignupClaimsAssumption
      <4>3. QED
        BY <4>1, <4>2
    <3>4. QED
      BY <1>2, <3>2, <3>3
  <2>2. Moves(r, a)
    BY <1>0, <1>2, GotoMoves DEF ClaimSteps
  <2>3. Sound(a, capacity, people, votes)
    BY <1>0, <2>1 DEF At, Sound, OptionHeld, ClaimantHeld, BudgetLeft, RoomLeft, SheetHeld, ClaimsOf
  <2>4. QED
    BY <1>0, <2>2, <2>3, MovesInv
<1>3. QED
  BY <1>1, <1>2 DEF CheckBudget

LEMMA CheckCapacityInv ==
    ASSUME TypeOK, ClaimInv, NEW r \in Requests, CheckCapacity(r)
    PROVE  TypeOK' /\ ClaimInv'
<1> DEFINE t == request[r]
           a == At(r, "commit", t.room, t.todo, t.locks \cup {})
<1>0. /\ t \in Transaction /\ Sound(t, capacity, people, votes)
      /\ t.pc = "checkCapacity"
      /\ UNCHANGED rows /\ news' \in Nat
  BY RequestFacts DEF CheckCapacity
<1>1. CASE Return(r)
  BY <1>0, <1>1, ReturnInv
<1>2. CASE /\ Fits(Cardinality(Claimants(t.option)) + 1, t.room)
           /\ Goto(r, "commit", {})
  <2>1. Moves(r, a)
    BY <1>0, <1>2, GotoMoves DEF ClaimSteps
  <2>2. Sound(a, capacity, people, votes)
    BY <1>0, <1>2 DEF At, Sound, OptionHeld, ClaimantHeld, BudgetLeft, RoomLeft, SheetHeld, Claimants
  <2>3. QED
    BY <1>0, <2>1, <2>2, MovesInv
<1>3. QED
  BY <1>1, <1>2 DEF CheckCapacity

-----------------------------------------------------------------------------
(***************************************************************************)
(* The steps of an edit up to its commit                                   *)
(***************************************************************************)

LEMMA BeginUpdateInv ==
    ASSUME TypeOK, ClaimInv, NEW r \in Requests, NEW b \in Budgets,
           NEW w \in Sheets, BeginUpdate(r, b, w)
    PROVE  TypeOK' /\ ClaimInv'
<1> DEFINE a == [pc |-> "checkEdit", option |-> None, user |-> None, who |-> None,
                 fresh |-> FALSE, budget |-> b, room |-> 0, wanted |-> w,
                 todo |-> {}, locks |-> {Poll}]
<1>1. request' = [request EXCEPT ![r] = a]
  <2>1. request'[r] = a /\ \A s \in Requests \ {r} : request'[s] = request[s]
    BY RequestFacts DEF BeginUpdate, Idle
  <2>2. request' = [s \in Requests |-> request'[s]]
    BY RequestFacts DEF BeginUpdate
  <2>3. QED
    BY <2>1, <2>2, Replaced
<1>2. a \in Transaction
  BY DEF Transaction
<1>3. \A s \in Requests : request[s].fresh => request[s].who \in Participants
  BY DEF ClaimInv, Sound, ClaimantHeld
<1>4. Moves(r, a)
  BY <1>1, <1>2, <1>3, SignupClaimsAssumption DEF Moves, BeginUpdate, Free
<1>5. Sound(a, capacity, people, votes)
  BY DEF Sound, OptionHeld, ClaimantHeld, BudgetLeft, RoomLeft, SheetHeld
<1>6. UNCHANGED rows /\ news' \in Nat
  BY RequestFacts DEF BeginUpdate
<1>7. QED
  BY <1>4, <1>5, <1>6, MovesInv

LEMMA CheckEditInv ==
    ASSUME TypeOK, ClaimInv, NEW r \in Requests, CheckEdit(r)
    PROVE  TypeOK' /\ ClaimInv'
<1> DEFINE t == request[r]
           todo == IF t.wanted = <<>> THEN {} ELSE DOMAIN capacity
           a == At(r, "edit", t.room, todo, t.locks \cup {})
<1>0. /\ t \in Transaction /\ Sound(t, capacity, people, votes)
      /\ t.pc = "checkEdit" /\ ~t.fresh
      /\ UNCHANGED rows /\ news' \in Nat
  BY RequestFacts DEF CheckEdit, Sound, ClaimantHeld
<1>1. CASE Return(r)
  BY <1>0, <1>1, ReturnInv
<1>2. CASE request' = [request EXCEPT ![r].pc = "edit", ![r].todo = todo]
  <2>1. request' = [request EXCEPT ![r] = a]
    <3>1. request'[r] = a /\ \A s \in Requests \ {r} : request'[s] = request[s]
      BY <1>0, <1>2, RequestFacts DEF Transaction, At
    <3>2. request' = [s \in Requests |-> request'[s]]
      BY <1>2, RequestFacts
    <3>3. QED
      BY <3>1, <3>2, Replaced
  <2>2. Moves(r, a)
    <3>1. todo \subseteq Options
      BY RequestFacts
    <3>2. t.room \in Capacities \cup {0}
      BY <1>0 DEF Transaction
    <3>3. QED
      BY <2>1, <3>1, <3>2, AtMoves
  <2>3. Sound(a, capacity, people, votes)
    BY <1>0 DEF At, Sound, OptionHeld, ClaimantHeld, BudgetLeft, RoomLeft, SheetHeld
  <2>4. QED
    BY <1>0, <2>2, <2>3, MovesInv
<1>3. QED
  BY <1>1, <1>2 DEF CheckEdit

LEMMA WriteOptionInv ==
    ASSUME TypeOK, ClaimInv, NEW r \in Requests, NEW o \in Options, WriteOption(r, o)
    PROVE  TypeOK' /\ ClaimInv'
<1> DEFINE t == request[r]
           a == At(r, "edit", t.room, t.todo \ {o}, t.locks \cup {o})
<1>0. /\ t \in Transaction /\ Sound(t, capacity, people, votes)
      /\ t.pc = "edit" /\ ~t.fresh /\ Free(o)
      /\ UNCHANGED rows /\ news' \in Nat
  BY RequestFacts DEF WriteOption, Sound, ClaimantHeld
<1>1. request' = [request EXCEPT ![r] = a]
  <2>1. request'[r] = a /\ \A s \in Requests \ {r} : request'[s] = request[s]
    BY <1>0, RequestFacts DEF Transaction, At, WriteOption
  <2>2. request' = [s \in Requests |-> request'[s]]
    BY RequestFacts DEF WriteOption
  <2>3. QED
    BY <2>1, <2>2, Replaced
<1>2. Moves(r, a)
  <2>1. t.todo \ {o} \subseteq Options /\ t.room \in Capacities \cup {0}
    BY <1>0 DEF Transaction
  <2>2. QED
    BY <1>0, <1>1, <2>1, AtMoves
<1>3. Sound(a, capacity, people, votes)
  BY <1>0 DEF At, Sound, OptionHeld, ClaimantHeld, BudgetLeft, RoomLeft, SheetHeld
<1>4. QED
  BY <1>0, <1>2, <1>3, MovesInv

-----------------------------------------------------------------------------
(***************************************************************************)
(* The steps that change the rows                                          *)
(***************************************************************************)

\* Fewer votes leave room for whoever there was room for.
LEMMA FewerVotes ==
    ASSUME NEW t \in Transaction, NEW V, NEW W \in SUBSET V,
           BudgetLeft(t, V), RoomLeft(t, V)
    PROVE  BudgetLeft(t, W) /\ RoomLeft(t, W)
<1> DEFINE oV == {o \in Options : <<t.who, o>> \in V}
           oW == {o \in Options : <<t.who, o>> \in W}
           pV == {p \in Participants : <<p, t.option>> \in V}
           pW == {p \in Participants : <<p, t.option>> \in W}
<1>1. IsFiniteSet(oV) /\ IsFiniteSet(pV)
  BY FS_Subset, SignupClaimsAssumption
<1>2. oW \subseteq oV /\ pW \subseteq pV
  OBVIOUS
<1>3. /\ Cardinality(oW) <= Cardinality(oV) /\ Cardinality(pW) <= Cardinality(pV)
      /\ IsFiniteSet(oW) /\ IsFiniteSet(pW)
  BY <1>1, <1>2, FS_Subset
<1>4. /\ Cardinality(oW) \in Nat /\ Cardinality(oV) \in Nat
      /\ Cardinality(pW) \in Nat /\ Cardinality(pV) \in Nat
  BY <1>1, <1>3, FS_CardinalityType
<1>5. \A c \in Capacities \cup {0} : c # Unlimited => c \in Nat
  BY SignupClaimsAssumption
<1>6. t.room \in Capacities \cup {0} /\ t.budget \in Budgets \cup {0}
  BY DEF Transaction
<1>7. \A b \in Budgets : b \in Nat
  BY SignupClaimsAssumption
<1>8. t.budget \in Nat
  BY <1>6, <1>7
<1>9. t.room # Unlimited => t.room \in Nat
  BY <1>5, <1>6
<1>10. BudgetLeft(t, W)
  <2>1. Cardinality(oV) + 1 <= t.budget => Cardinality(oW) + 1 <= t.budget
    BY <1>3, <1>4, <1>8
  <2>2. QED
    BY <2>1 DEF BudgetLeft
<1>11. RoomLeft(t, W)
  <2>1. Fits(Cardinality(pV) + 1, t.room) => Fits(Cardinality(pW) + 1, t.room)
    BY <1>3, <1>4, <1>9 DEF Fits
  <2>2. QED
    BY <2>1 DEF RoomLeft
<1>12. QED
  BY <1>10, <1>11

\* Requests wait while rows come loose: nothing they hold goes.
LEMMA LooseRows ==
    ASSUME TypeOK, ClaimInv, UNCHANGED <<capacity, request>>, votes' \subseteq votes,
           DOMAIN people' \subseteq DOMAIN people,
           \A p \in DOMAIN people : p \in DOMAIN people' \/ Free(p)
    PROVE  ClaimInv'
<1> SUFFICES ASSUME NEW s \in Requests
             PROVE  Sound(request[s], capacity, people', votes')
  BY DEF ClaimInv, FreshApart
<1>1. request[s] \in Transaction /\ Sound(request[s], capacity, people, votes)
  BY RequestFacts
<1>2. BudgetLeft(request[s], votes') /\ RoomLeft(request[s], votes')
  BY <1>1, FewerVotes DEF Sound
<1>3. ClaimantHeld(request[s], people')
  BY <1>1 DEF Sound, ClaimantHeld, Free
<1>4. QED
  BY <1>1, <1>2, <1>3 DEF Sound

LEMMA NewsType ==
    ASSUME TypeOK, FullOrNoNews PROVE news' \in Nat
BY DEF TypeOK, FullOrNoNews

LEMMA SetStatusInv ==
    ASSUME TypeOK, ClaimInv, NEW s \in BOOLEAN, SetStatus(s)
    PROVE  TypeOK' /\ ClaimInv'
<1>1. ClaimInv'
  BY LooseRows DEF SetStatus
<1>2. TypeOK'
  BY DEF TypeOK, SetStatus
<1>3. QED
  BY <1>1, <1>2

LEMMA UnclaimInv ==
    ASSUME TypeOK, ClaimInv, NEW p, NEW o, Unclaim(p, o)
    PROVE  TypeOK' /\ ClaimInv'
<1>1. ClaimInv'
  BY LooseRows DEF Unclaim
<1>2. TypeOK'
  BY NewsType DEF TypeOK, Unclaim
<1>3. QED
  BY <1>1, <1>2

LEMMA RemoveParticipantInv ==
    ASSUME TypeOK, ClaimInv, NEW p, RemoveParticipant(p)
    PROVE  TypeOK' /\ ClaimInv'
<1>1. /\ DOMAIN people' = DOMAIN people \ {p}
      /\ people' = [q \in DOMAIN people \ {p} |-> people[q]]
  BY DEF RemoveParticipant, Restrict
<1>2. ClaimInv'
  BY <1>1, LooseRows DEF RemoveParticipant
<1>3. people' \in People
  <2>1. DOMAIN people \subseteq Participants /\ people \in [DOMAIN people -> Users \cup {Guest}]
    BY PeopleType DEF TypeOK, People
  <2>2. people' \in [DOMAIN people \ {p} -> Users \cup {Guest}]
    BY <1>1, <2>1
  <2>3. QED
    BY <1>1, <2>1, <2>2, PeopleType
<1>4. votes' \subseteq (DOMAIN people') \X (DOMAIN capacity)
  BY <1>1 DEF RemoveParticipant, TypeOK
<1>5. TypeOK'
  BY <1>3, <1>4, NewsType DEF TypeOK, RemoveParticipant, People
<1>6. QED
  BY <1>2, <1>5

\* The edit holds every option it replaces, so no claim is past LockOption.
LEMMA CommitUpdateInv ==
    ASSUME TypeOK, ClaimInv, NEW r \in Requests, CommitUpdate(r)
    PROVE  TypeOK' /\ ClaimInv'
<1> DEFINE t == request[r]
<1>0. /\ t \in Transaction /\ Sound(t, capacity, people, votes)
      /\ t.pc = "edit" /\ t.todo = {} /\ Return(r)
      /\ capacity' = IF t.wanted = <<>> THEN capacity ELSE t.wanted
      /\ votes' \subseteq votes /\ UNCHANGED <<open, people>>
      /\ \A v \in votes' : v[2] \in DOMAIN capacity'
      /\ budget' = t.budget
      /\ news' \in Nat
  BY RequestFacts, NewsType DEF CommitUpdate
<1>1. Moves(r, Idle)
  BY <1>0, ReturnMoves
<1>2. /\ request' \in [Requests -> Transaction]
      /\ \A u, v \in Requests : u # v => request'[u].locks \cap request'[v].locks = {}
      /\ FreshApart'
      /\ request'[r] = Idle
      /\ \A s \in Requests \ {r} : request'[s] = request[s]
  BY <1>1, MovesApart DEF ClaimInv
<1>3. ASSUME NEW s \in Requests \ {r}
      PROVE  OptionHeld(request[s], capacity') /\ SheetHeld(request[s], capacity')
  <2>1. request[s].locks \cap t.locks = {} /\ Sound(request[s], capacity, people, votes)
    BY DEF TypeOK, ClaimInv
  <2>2. request[s].pc \notin {"checkEdit", "edit"}
    BY <1>0, <2>1 DEF Sound, SheetHeld
  <2>3. t.wanted # <<>> => DOMAIN capacity \subseteq t.locks
    BY <1>0 DEF Sound, SheetHeld
  <2>4. OptionHeld(request[s], capacity')
    BY <1>0, <2>1, <2>3 DEF Sound, OptionHeld
  <2>5. QED
    BY <2>2, <2>4 DEF SheetHeld
<1>4. ASSUME NEW s \in Requests \ {r}
      PROVE  Sound(request[s], capacity', people', votes')
  <2>1. request[s] \in Transaction /\ Sound(request[s], capacity, people, votes)
    BY RequestFacts
  <2>2. BudgetLeft(request[s], votes') /\ RoomLeft(request[s], votes')
    BY <1>0, <2>1, FewerVotes DEF Sound
  <2>3. QED
    BY <1>0, <1>3, <2>1, <2>2 DEF Sound
<1>5. ClaimInv'
  BY <1>2, <1>4, IdleSound DEF ClaimInv
<1>6. capacity' \in Sheets
  BY <1>0 DEF Transaction, TypeOK
<1>7. votes' \subseteq (DOMAIN people) \X (DOMAIN capacity')
  BY <1>0 DEF TypeOK
<1>8. budget' \in Budgets
  BY <1>0 DEF Sound, SheetHeld
<1>9. QED
  BY <1>0, <1>2, <1>5, <1>6, <1>7, <1>8 DEF TypeOK

\* The commit of a claim: another claim that has come as far is for another
\* option and of another participant.
LEMMA CommitClaimInv ==
    ASSUME TypeOK, ClaimInv, NEW r \in Requests, CommitClaim(r)
    PROVE  TypeOK' /\ ClaimInv'
<1> DEFINE t == request[r]
           a == [Idle EXCEPT !.pc = "announce"]
<1>0. /\ t \in Transaction /\ Sound(t, capacity, people, votes)
      /\ t.pc = "commit"
      /\ request' = [request EXCEPT ![r] = a]
      /\ people' = IF t.fresh THEN [q \in DOMAIN people \cup {t.who} |->
                                       IF q = t.who THEN t.user ELSE people[q]]
                   ELSE people
      /\ votes' = votes \cup {<<t.who, t.option>>}
      /\ UNCHANGED <<open, budget, capacity>>
      /\ news' \in Nat
  BY RequestFacts, NewsType DEF CommitClaim
<1>a. /\ t.who \in Participants /\ t.option \in t.locks /\ t.option \in DOMAIN capacity
      /\ IF t.fresh THEN t.who \notin DOMAIN people
                    ELSE t.who \in t.locks /\ t.who \in DOMAIN people
  BY <1>0 DEF Sound, OptionHeld, ClaimantHeld
<1>1. /\ a \in Transaction
      /\ Sound(a, capacity', people', votes')
      /\ a.locks = {} /\ ~a.fresh /\ a.who = None
  <2>1. a \in Transaction
    BY IdleType DEF Idle, Transaction
  <2>2. a.pc = "announce" /\ a.locks = {} /\ ~a.fresh /\ a.who = None
    BY DEF Idle
  <2>3. QED
    BY <2>1, <2>2 DEF Sound, OptionHeld, ClaimantHeld, BudgetLeft, RoomLeft, SheetHeld
<1>2. Moves(r, a)
  <2>1. \A s \in Requests : request[s].fresh => request[s].who \in Participants
    BY DEF ClaimInv, Sound, ClaimantHeld
  <2>2. QED
    BY <1>0, <1>1, <2>1, SignupClaimsAssumption DEF Moves
<1>3. /\ request' \in [Requests -> Transaction]
      /\ \A u, v \in Requests : u # v => request'[u].locks \cap request'[v].locks = {}
      /\ FreshApart'
      /\ request'[r] = a
      /\ \A s \in Requests \ {r} : request'[s] = request[s]
  BY <1>2, MovesApart DEF ClaimInv
<1>4. DOMAIN people' = DOMAIN people \cup {t.who}
  BY <1>0, <1>a
<1>5. ASSUME NEW s \in Requests \ {r}
      PROVE  Sound(request[s], capacity', people', votes')
  <2>1. /\ request[s] \in Transaction /\ Sound(request[s], capacity, people, votes)
        /\ request[s].locks \cap t.locks = {}
    BY RequestFacts DEF TypeOK
  <2>2. request[s].fresh \/ t.fresh => request[s].who # t.who
    BY DEF ClaimInv, FreshApart
  <2>3. request[s].pc \in {"checkBudget", "checkCapacity", "commit"}
           => request[s].who # t.who
    BY <1>a, <2>1, <2>2 DEF Sound, ClaimantHeld
  <2>4. request[s].pc = "commit" => request[s].option # t.option
    BY <1>a, <2>1 DEF Sound, OptionHeld
  <2>5. BudgetLeft(request[s], votes')
    <3>1. request[s].who # t.who
             => {o \in Options : <<request[s].who, o>> \in votes'}
                = {o \in Options : <<request[s].who, o>> \in votes}
      BY <1>0
    <3>2. QED
      BY <2>1, <2>3, <3>1 DEF Sound, BudgetLeft
  <2>6. RoomLeft(request[s], votes')
    <3>1. request[s].option # t.option
             => {p \in Participants : <<p, request[s].option>> \in votes'}
                = {p \in Participants : <<p, request[s].option>> \in votes}
      BY <1>0
    <3>2. QED
      BY <2>1, <2>4, <3>1 DEF Sound, RoomLeft
  <2>7. ClaimantHeld(request[s], people')
    BY <1>4, <2>1, <2>3 DEF Sound, ClaimantHeld
  <2>8. QED
    BY <1>0, <2>1, <2>5, <2>6, <2>7 DEF Sound
<1>6. ClaimInv'
  BY <1>1, <1>3, <1>5 DEF ClaimInv
<1>7. people' \in People
  <2>1. DOMAIN people \subseteq Participants /\ people \in [DOMAIN people -> Users \cup {Guest}]
    BY PeopleType DEF TypeOK, People
  <2>2. CASE ~t.fresh
    BY <1>0, <2>1, <2>2, PeopleType
  <2>3. CASE t.fresh
    <3>1. t.user \in Users \cup {Guest}
      BY <1>0, <2>3 DEF Sound, ClaimantHeld, Transaction
    <3>2. QED
      BY <1>0, <1>a, <2>1, <2>3, <3>1, PeopleType
  <2>4. QED
    BY <2>2, <2>3
<1>8. votes' \subseteq (DOMAIN people') \X (DOMAIN capacity')
  BY <1>0, <1>4, <1>a DEF TypeOK
<1>9. QED
  BY <1>0, <1>3, <1>6, <1>7, <1>8 DEF TypeOK, People

-----------------------------------------------------------------------------
(***************************************************************************)
(* The theorems                                                            *)
(***************************************************************************)

LEMMA InitInv == Init => TypeOK /\ ClaimInv
<1> SUFFICES ASSUME Init PROVE TypeOK /\ ClaimInv
  OBVIOUS
<1>1. \A r \in Requests : request[r] = Idle
  BY DEF Init
<1>2. ClaimInv
  BY <1>1, IdleSound DEF ClaimInv, FreshApart
<1>3. <<>> \in [{} -> Users \cup {Guest}] /\ DOMAIN <<>> = {}
  OBVIOUS
<1>4. people \in People
  BY <1>3, PeopleType DEF Init
<1>5. capacity \in Sheets
  BY SheetType DEF Init
<1>6. request \in [Requests -> Transaction]
  BY IdleType DEF Init
<1>7. \A r, s \in Requests : r # s => request[r].locks \cap request[s].locks = {}
  BY <1>1, IdleSound
<1>8. QED
  BY <1>2, <1>4, <1>5, <1>6, <1>7 DEF Init, TypeOK, People

LEMMA NextInv == TypeOK /\ ClaimInv /\ [Next]_vars => TypeOK' /\ ClaimInv'
<1> SUFFICES ASSUME TypeOK, ClaimInv, [Next]_vars PROVE TypeOK' /\ ClaimInv'
  OBVIOUS
<1>1. ASSUME NEW r \in Requests, Step(r) PROVE TypeOK' /\ ClaimInv'
  <2>1. CASE Announce(r)
    <3>1. news' \in Nat
      BY <2>1, RequestFacts DEF Announce
    <3>2. QED
      BY <2>1, <3>1, ReturnInv DEF Announce
  <2>2. CASE \E o \in Options : WriteOption(r, o)
    BY <2>2, WriteOptionInv
  <2>3. QED
    BY <1>1, <2>1, <2>2, LockOptionInv, ResolveInv, LockParticipantInv,
       CheckBudgetInv, CheckCapacityInv, CommitClaimInv, CheckEditInv,
       CommitUpdateInv DEF Step
<1>2. ASSUME NEW r \in Requests, Abort(r) PROVE TypeOK' /\ ClaimInv'
  BY <1>2, ReturnInv, RequestFacts DEF Abort, Refuse
<1>3. CASE UNCHANGED vars
  BY <1>3 DEF vars, TypeOK, ClaimInv, FreshApart
<1>4. QED
  BY <1>1, <1>2, <1>3, BeginClaimInv, BeginUpdateInv, SetStatusInv, UnclaimInv,
     RemoveParticipantInv DEF Next

\* The sheet's state is well typed; above all every vote belongs to a
\* participant and an option that exist, and no row is locked twice.
THEOREM SheetTypeCorrect == Spec => []TypeOK
<1>1. QED
  BY InitInv, NextInv, PTL DEF Spec

\* One participant more or less.
LEMMA OneMore ==
    ASSUME NEW S, IsFiniteSet(S), NEW e
    PROVE  /\ IsFiniteSet(S \cup {e})
           /\ Cardinality(S) \in Nat /\ Cardinality(S \cup {e}) \in Nat
           /\ Cardinality(S \cup {e}) <= Cardinality(S) + 1
BY FS_AddElement, FS_CardinalityType

LEMMA CapacityStep ==
    TypeOK /\ ClaimInv /\ [Next]_vars
        => \A o \in Options : Claimants(o)' \ Claimants(o) # {}
              => /\ o \in DOMAIN capacity'
                 /\ Fits(Cardinality(Claimants(o)'), capacity'[o])
<1> SUFFICES ASSUME TypeOK, ClaimInv, [Next]_vars, NEW o \in Options,
                    Claimants(o)' \ Claimants(o) # {}
             PROVE  /\ o \in DOMAIN capacity'
                    /\ Fits(Cardinality(Claimants(o)'), capacity'[o])
  OBVIOUS
<1>1. ~(votes' \subseteq votes)
  BY DEF Claimants
<1>2. PICK r \in Requests : CommitClaim(r)
  BY <1>1 DEF Next, Step, vars, rows, Abort, Refuse, BeginClaim, BeginUpdate,
     LockOption, Resolve, LockParticipant, CheckBudget, CheckCapacity, Announce,
     CheckEdit, CommitUpdate, WriteOption, SetStatus, Unclaim, RemoveParticipant
<1> DEFINE t == request[r]
<1>3. /\ t \in Transaction /\ Sound(t, capacity, people, votes) /\ t.pc = "commit"
      /\ votes' = votes \cup {<<t.who, t.option>>} /\ capacity' = capacity
  BY <1>2, RequestFacts DEF CommitClaim
<1>4. o = t.option /\ Claimants(o)' = Claimants(o) \cup {t.who}
  BY <1>3 DEF Claimants, Sound, ClaimantHeld
<1>5. o \in DOMAIN capacity /\ t.room = capacity[o]
  BY <1>3, <1>4 DEF Sound, OptionHeld
<1>6. Fits(Cardinality(Claimants(o)) + 1, capacity[o])
  BY <1>3, <1>4, <1>5 DEF Sound, RoomLeft, Claimants
<1>7. capacity[o] # Unlimited => capacity[o] \in Nat
  BY <1>5, RequestFacts, SignupClaimsAssumption
<1>8. IsFiniteSet(Claimants(o))
  BY FS_Subset, SignupClaimsAssumption DEF Claimants
<1>9. Cardinality(Claimants(o)') <= Cardinality(Claimants(o)) + 1
      /\ Cardinality(Claimants(o)) \in Nat /\ Cardinality(Claimants(o)') \in Nat
  BY <1>4, <1>8, OneMore
<1>10. QED
  BY <1>3, <1>5, <1>6, <1>7, <1>9 DEF Fits

\* No claim takes an option beyond its capacity, for every number of
\* requests at a time, options and participants.
THEOREM NeverOversold == Spec => ClaimsWithinCapacity
<1>1. QED
  BY InitInv, NextInv, CapacityStep, PTL DEF Spec, ClaimsWithinCapacity

\* Only its own commit takes a request from there to the announcement.
LEMMA OnlyCommit ==
    ASSUME TypeOK, [Next]_vars, NEW r \in Requests,
           request[r].pc = "commit", request'[r].pc = "announce"
    PROVE  CommitClaim(r)
<1>0. request \in [Requests -> Transaction]
  BY DEF TypeOK
<1>1. ASSUME NEW s \in Requests, Step(s) \/ Abort(s), s # r PROVE FALSE
  BY <1>0, <1>1 DEF Step, Abort, Refuse, Return, Goto, LockOption, Resolve, LockParticipant,
     CheckBudget, CheckCapacity, CommitClaim, Announce, CheckEdit, CommitUpdate, WriteOption
<1>2. CASE Step(r)
  BY <1>2 DEF Step, LockOption, Resolve, LockParticipant, CheckBudget, CheckCapacity,
     Announce, CheckEdit, CommitUpdate, WriteOption
<1>3. CASE Abort(r)
  BY <1>0, <1>3 DEF Abort, Refuse, Return, Idle
<1>4. ASSUME NEW s \in Requests, NEW o, NEW u, NEW p, BeginClaim(s, o, u, p) PROVE FALSE
  BY <1>0, <1>4 DEF BeginClaim
<1>5. ASSUME NEW s \in Requests, NEW b, NEW w, BeginUpdate(s, b, w) PROVE FALSE
  BY <1>0, <1>5 DEF BeginUpdate
<1>6. request' # request
  OBVIOUS
<1>7. QED
  BY <1>1, <1>2, <1>3, <1>4, <1>5, <1>6
     DEF Next, vars, SetStatus, Unclaim, RemoveParticipant

LEMMA BudgetStep ==
    TypeOK /\ ClaimInv /\ [Next]_vars
        => \A r \in Requests, p \in Participants :
              /\ request[r].pc = "commit" /\ request'[r].pc = "announce"
              /\ request[r].who = p
              => Cardinality(ClaimsOf(p)') <= request[r].budget
<1> SUFFICES ASSUME TypeOK, ClaimInv, [Next]_vars, NEW r \in Requests,
                    NEW p \in Participants, request[r].who = p,
                    request[r].pc = "commit", request'[r].pc = "announce"
             PROVE  Cardinality(ClaimsOf(p)') <= request[r].budget
  OBVIOUS
<1> DEFINE t == request[r]
<1>1. t \in Transaction /\ Sound(t, capacity, people, votes)
  BY RequestFacts
<1>2. votes' = votes \cup {<<p, t.option>>} /\ t.option \in Options
  BY <1>1, OnlyCommit, RequestFacts DEF CommitClaim, Sound, OptionHeld
<1>3. ClaimsOf(p)' = ClaimsOf(p) \cup {t.option}
  BY <1>2 DEF ClaimsOf
<1>4. Cardinality(ClaimsOf(p)) + 1 <= t.budget
  BY <1>1 DEF Sound, BudgetLeft, ClaimsOf
<1>5. t.budget \in Nat
  <2>1. t.budget \in Budgets \cup {0}
    BY <1>1 DEF Transaction
  <2>2. \A b \in Budgets : b \in Nat
    BY SignupClaimsAssumption
  <2>3. QED
    BY <2>1, <2>2
<1>6. IsFiniteSet(ClaimsOf(p))
  BY FS_Subset, SignupClaimsAssumption DEF ClaimsOf
<1>7. /\ Cardinality(ClaimsOf(p)') <= Cardinality(ClaimsOf(p)) + 1
      /\ Cardinality(ClaimsOf(p)) \in Nat /\ Cardinality(ClaimsOf(p)') \in Nat
  BY <1>3, <1>6, OneMore
<1>8. QED
  BY <1>4, <1>5, <1>7

\* Nor a participant beyond the budget its request has read.
THEOREM NeverOverclaimed == Spec => ClaimsWithinBudget
<1>1. QED
  BY InitInv, NextInv, BudgetStep, PTL DEF Spec, ClaimsWithinBudget

=============================================================================
