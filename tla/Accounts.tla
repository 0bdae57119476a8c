------------------------------ MODULE Accounts ------------------------------
(***************************************************************************)
(* Who a request acts for and in which organisation (auth/session.go,      *)
(* auth/auth.go), what locks a user out (admin/users.go), and what goes    *)
(* with a deleted account (auth/cascade.go).                               *)
(*                                                                         *)
(* A personal organisation is named by its user: its slug is made of his   *)
(* address and his id, and slugs are unique.  Limen, which keeps sessions  *)
(* and memberships, is a library: its routes are modelled by what the code *)
(* relies on.  Requests resolve their session statement by statement; a    *)
(* deletion is one transaction whose writes show at its commit.            *)
(***************************************************************************)
EXTENDS Integers, Sequences, SequencesExt, FiniteSets

CONSTANTS
    Users,
    Requests,       \* requests under way at a time
    MaxMoves,       \* bound: memberships changed through Limen's routes
    MaxBegun,     \* bound: sign-ins and requests
    None

ASSUME AccountsAssumption ==
    /\ MaxMoves \in Nat /\ MaxBegun \in Nat
    /\ IsFiniteSet(Users) /\ None \notin Users

VARIABLES
    users,      \* rows of users
    orgs,       \* rows of organizations, by the user whose slug they have
    members,    \* organization_members by age: pairs of organisation and user
    owners,     \* those with the role of an owner
    session,    \* Limen's session of each user: whether there is one, its active organisation
    ensured,    \* personalOrgEnsured: the cache of the process
    locked,     \* rows of locked_users
    req,        \* requests
    del,        \* per user, the transaction that deletes him
    moves, begun

vars == <<users, orgs, members, owners, session, ensured, locked, req, del, moves, begun>>
rows == <<orgs, members, owners>>

NoSession == [on |-> FALSE, active |-> None]
SignedIn  == [on |-> TRUE, active |-> None]
NoReq == [pc |-> "idle", u |-> None, active |-> None, org |-> None, healed |-> FALSE,
          barred |-> FALSE, kept |-> FALSE, why |-> {}, seen |-> {}]
NoDel == [pc |-> "none", own |-> FALSE, todo |-> {}, org |-> None, heir |-> None,
          heirs |-> {}, drops |-> {}, quiet |-> TRUE]

\* All have signed in.  They are new; or one has an organisation that others have
\* joined after him, some as owners, and that he may have left to them.
Init ==
    /\ users = Users
    /\ \/ orgs = {} /\ members = <<>> /\ owners = {}
       \/ \E u \in Users, them \in SetToAllKPermutations(Users) \ {<<>>} :
             /\ u \notin Range(Tail(them))
             /\ orgs = {u}
             /\ members = [k \in DOMAIN them |-> <<u, them[k]>>]
             /\ owners \in (SUBSET Range(members)) \ {{}}
    /\ session = [u \in Users |-> SignedIn]
    /\ ensured = {} /\ locked = {}
    /\ req = [q \in Requests |-> NoReq]
    /\ del = [u \in Users |-> NoDel]
    /\ moves = 0 /\ begun = 0

-----------------------------------------------------------------------------
\* Memberships.

Belongs(ms, o, u) == \E k \in DOMAIN ms : ms[k] = <<o, u>>
OrgsOf(ms, u)     == {o \in Users : Belongs(ms, o, u)}
IsMember(o, u)    == Belongs(members, o, u)

\* oldestMembership.
OldestMembership(u) ==
    LET his == {k \in DOMAIN members : members[k][2] = u}
    IN  IF his = {} THEN None ELSE members[Min(his)][1]

\* The member who has been in an organisation longest, but u.
OldestOther(o, u) ==
    LET others == {k \in DOMAIN members : members[k][1] = o /\ members[k][2] # u}
    IN  IF others = {} THEN None ELSE members[Min(others)][2]

\* Mutant: the user who leaves is taken for another owner.
OtherOwnerCountingHim(o, u) == \E v \in Users : <<o, v>> \in owners

OtherOwner(o, u) == \E v \in Users \ {u} : <<o, v>> \in owners

Because(r, reason) == [r EXCEPT !.why = @ \cup {reason}]

\* A request that is being resolved, once memberships are ms: it notes what its user
\* belongs to and whether he loses the last of it.
Noting(r, ms) ==
    LET now == OrgsOf(ms, r.u)
        saw == [r EXCEPT !.seen = @ \cup now]
    IN  IF r.pc \in {"idle", "granted"} THEN r
        ELSE IF now = {} /\ OrgsOf(members, r.u) # {} THEN Because(saw, "lost") ELSE saw

\* Memberships become ms, roles os, organisations rs: requests note it, deletions
\* that they are not alone.
Reorganise(rs, ms, os, rq, ds) ==
    /\ orgs' = rs /\ members' = ms /\ owners' = os
    /\ req' = [q \in Requests |-> Noting(rq[q], ms)]
    /\ del' = [u \in Users |-> IF ds[u].pc = "none" THEN ds[u] ELSE
                  [ds[u] EXCEPT !.quiet = FALSE]]

-----------------------------------------------------------------------------
\* resolveSession.

At(q, pc)   == req[q].pc = pc
Goes(q, pc) == req' = [req EXCEPT ![q].pc = pc]
Ends(q)     == req' = [req EXCEPT ![q] = NoReq]
User(q)     == req[q].u

\* Limen signs in whoever knows his password, locked or not.
SignIn(u) ==
    /\ u \in users /\ ~session[u].on /\ begun < MaxBegun
    /\ session' = [session EXCEPT ![u] = SignedIn]
    /\ begun' = begun + 1
    /\ UNCHANGED <<users, rows, ensured, locked, req, del, moves>>

\* Limen's GetSession.
Begin(q, u) ==
    /\ req[q] = NoReq /\ session[u].on /\ begun < MaxBegun
    /\ begun' = begun + 1
    /\ req' = [req EXCEPT ![q] = [NoReq EXCEPT !.pc = "lock", !.u = u,
                  !.active = session[u].active, !.barred = u \in locked,
                  !.seen = OrgsOf(members, u)]]
    /\ UNCHANGED <<users, rows, session, ensured, locked, del, moves>>

\* Mutant: a lock is left to the revocation of the sessions.
CheckLockNowhere(q) ==
    /\ At(q, "lock") /\ Goes(q, "ensure")
    /\ UNCHANGED <<users, rows, session, ensured, locked, del, moves, begun>>

\* A locked user is anonymous, and so is everyone while the query fails.
CheckLock(q) ==
    /\ At(q, "lock")
    /\ \/ User(q) \notin locked /\ Goes(q, "ensure")
       \/ Ends(q)
    /\ UNCHANGED <<users, rows, session, ensured, locked, del, moves, begun>>

AfterEnsure(q) == IF req[q].healed THEN "default" ELSE "active"

\* One of its statements fails: it is logged, and the request goes on to pc.
FailsTo(q, pc) == req' = [req EXCEPT ![q] = [Because(@, "failed") EXCEPT !.pc = pc]]

\* ensurePersonalOrgOnce: once per user and process.  What fails is not cached.
Ensure(q) ==
    /\ At(q, "ensure")
    /\ LET known == User(q) \in ensured
           has   == OrgsOf(members, User(q)) # {}
       IN  \/ /\ Goes(q, IF known \/ has THEN AfterEnsure(q) ELSE "create")
              /\ ensured' = IF has THEN ensured \cup {User(q)} ELSE ensured
           \/ ~known /\ FailsTo(q, AfterEnsure(q)) /\ UNCHANGED ensured
    /\ UNCHANGED <<users, rows, session, locked, del, moves, begun>>

\* createPersonalOrgIfMissing.  A slug that is taken counts as success; any other
\* error, as for a user who has gone, does not.
CreateOrg(q) ==
    /\ At(q, "create")
    /\ LET u  == User(q)
           on == [req EXCEPT ![q].pc = AfterEnsure(q)]
       IN  \/ /\ FailsTo(q, AfterEnsure(q))
              /\ UNCHANGED <<rows, ensured, del>>
           \/ /\ u \in users /\ u \in orgs
              /\ req' = [p \in Requests |-> IF on[p].u = u THEN Because(on[p], "taken") ELSE on[p]]
              /\ ensured' = ensured \cup {u}
              /\ UNCHANGED <<rows, del>>
           \/ /\ u \in users /\ u \notin orgs
              /\ Reorganise(orgs \cup {u}, Append(members, <<u, u>>), owners \cup {<<u, u>>}, on, del)
              /\ ensured' = ensured \cup {u}
    /\ UNCHANGED <<users, session, locked, moves, begun>>

\* What is left of a request once it is resolved, its history as far as it matters.
Resolved(r, o) ==
    [NoReq EXCEPT !.pc = "granted", !.u = r.u, !.org = o, !.barred = r.barred, !.kept = r.kept,
                  !.seen = r.seen \cap {o}, !.why = IF o = None THEN r.why ELSE {}]

Grants(rq, q, o) == [rq EXCEPT ![q] = Resolved(rq[q], o)]

\* A statement fails, and the request does without an organisation.
GivesUp(q) == req' = Grants([req EXCEPT ![q] = Because(@, "failed")], q, None)

\* Mutant: the session's choice is taken as it is.
ReadActiveTrusting(q) ==
    /\ At(q, "active")
    /\ req' = IF req[q].active # None THEN Grants(req, q, req[q].active)
              ELSE [req EXCEPT ![q].pc = "default"]
    /\ UNCHANGED <<users, rows, session, ensured, locked, del, moves, begun>>

\* membershipDangling: the session's choice stands if he belongs to it, or if
\* nobody can tell.  If it cannot be read, the request does without.
ReadActive(q) ==
    /\ At(q, "active")
    /\ LET o == req[q].active IN
       \/ o # None /\ IsMember(o, User(q)) /\ req' = Grants(req, q, o)
       \/ (o = None \/ ~IsMember(o, User(q))) /\ Goes(q, "default")
       \/ o # None /\ req' = [Grants(req, q, o) EXCEPT ![q].kept = TRUE]
       \/ GivesUp(q)
    /\ UNCHANGED <<users, rows, session, ensured, locked, del, moves, begun>>

\* Mutant: what the cache says of him is believed.
DefaultUnhealed(q) ==
    /\ At(q, "default")
    /\ req' = Grants(req, q, OldestMembership(User(q)))
    /\ UNCHANGED <<users, rows, session, ensured, locked, del, moves, begun>>

\* The oldest membership becomes the active one, unless the session cannot be
\* written.  Without any, or if it cannot be read (or is gone before it is loaded),
\* the cache is forgotten and a personal organisation ensured once more; what went
\* wrong before no longer counts.
Default(q) ==
    /\ At(q, "default")
    /\ LET u == User(q)
           o == OldestMembership(u)
       IN  \/ /\ o # None
              /\ session' = IF session[u].on THEN [session EXCEPT ![u].active = o] ELSE session
              /\ req' = Grants(req, q, o)
              /\ UNCHANGED ensured
           \/ /\ ~req[q].healed
              /\ ensured' = ensured \ {u}
              /\ req' = [req EXCEPT ![q].pc = "ensure", ![q].healed = TRUE, ![q].why = {}]
              /\ UNCHANGED session
           \/ /\ o # None /\ GivesUp(q)
              /\ UNCHANGED <<session, ensured>>
           \/ /\ o = None /\ req[q].healed
              /\ req' = Grants(req, q, None)
              /\ UNCHANGED <<session, ensured>>
    /\ UNCHANGED <<users, rows, locked, del, moves, begun>>

-----------------------------------------------------------------------------
\* What a resolved request may go on to do.

Serves(q, o) == At(q, "granted") /\ o \in orgs /\ User(q) \in users

\* SwitchOrganization.
Switch(q, o) ==
    /\ Serves(q, o) /\ IsMember(o, User(q))
    /\ session' = IF session[User(q)].on THEN [session EXCEPT ![User(q)].active = o] ELSE session
    /\ Ends(q)
    /\ UNCHANGED <<users, rows, ensured, locked, del, moves, begun>>

\* AuthMountGuard: Limen's routes ask for the session and the lock once more.
IsUserLocked(u) == u \in locked
PassesGuard(q)  == session[User(q)].on /\ ~IsUserLocked(User(q))

\* A row a deletion has written and not committed holds others up.
Dropping(o)    == \E u \in Users : o \in del[u].drops
Inherits(o, u) == \E v \in Users \ {u} : <<o, u>> \in del[v].heirs

\* Those that stay, in their order.
Without(ms, gone) ==
    LET stay     == {k \in DOMAIN ms : ms[k] \notin gone}
        place(k) == Cardinality({j \in stay : j <= k})
    IN  [i \in 1 .. Cardinality(stay) |-> ms[CHOOSE k \in stay : place(k) = i]]

\* An invitation is accepted, a member made an owner, a member leaves or is
\* removed: Limen keeps an organisation its last owner.
Move(q) == \E o \in orgs, v \in users :
    /\ Serves(q, o) /\ PassesGuard(q) /\ moves < MaxMoves /\ ~Dropping(o)
    /\ LET u == User(q)
           after == [req EXCEPT ![q] = NoReq]
       IN  \/ /\ u = v /\ ~IsMember(o, u) /\ \E w \in Users : <<o, w>> \in owners
              /\ Reorganise(orgs, Append(members, <<o, u>>), owners, after, del)
           \/ /\ <<o, u>> \in owners /\ IsMember(o, v) /\ <<o, v>> \notin owners
              /\ Reorganise(orgs, members, owners \cup {<<o, v>>}, after, del)
           \/ /\ IsMember(o, v) /\ ~Inherits(o, v)
              /\ u = v \/ <<o, u>> \in owners
              /\ OtherOwner(o, v)
              /\ Reorganise(orgs, Without(members, {<<o, v>>}), owners \ {<<o, v>>}, after, del)
    /\ moves' = moves + 1
    /\ UNCHANGED <<users, session, ensured, locked, begun>>

\* Anything else, or a refusal.
Return(q) ==
    /\ At(q, "granted")
    /\ Ends(q)
    /\ UNCHANGED <<users, rows, session, ensured, locked, del, moves, begun>>

-----------------------------------------------------------------------------
\* Staff.

\* Limen's call, best effort.
RevokeUserSessions(u) == session' \in {session, [session EXCEPT ![u] = NoSession]}

\* LockUser: the row with its audit entry; the sessions are revoked afterwards.
LockUser(u) ==
    /\ u \in users /\ u \notin locked
    /\ locked' = locked \cup {u}
    /\ RevokeUserSessions(u)
    /\ UNCHANGED <<users, rows, ensured, req, del, moves, begun>>

\* UnlockUser.
UnlockUser(u) ==
    /\ u \in locked
    /\ locked' = locked \ {u}
    /\ req' = [q \in Requests |-> [req[q] EXCEPT !.barred = @ /\ req[q].u # u]]
    /\ UNCHANGED <<users, rows, session, ensured, del, moves, begun>>

-----------------------------------------------------------------------------
\* Deletions, all by CascadeDeleteUser.

DelAt(u, pc)  == del[u].pc = pc
KeepsAll(u)   == UNCHANGED <<users, rows, session, ensured, locked, req, moves, begun>>

Owned(u) == {o \in orgs : <<o, u>> \in owners}

\* The sessions are revoked, and then it is read what he owns; what happens between
\* the two may as well have happened before or after both.  Bounds: one deletion of
\* a user at a time, and none before there is an organisation.
BeginDelete(u, own) ==
    /\ u \in users /\ del[u] = NoDel /\ orgs # {}
    /\ del' = [del EXCEPT ![u].pc = "orgs", ![u].own = own, ![u].todo = Owned(u)]
    /\ RevokeUserSessions(u)

\* DeleteUser, by staff: they are not among Users, as none may delete himself here.
DeleteUser(u) ==
    /\ BeginDelete(u, FALSE)
    /\ UNCHANGED <<users, rows, ensured, locked, req, moves, begun>>

\* DeleteOwnAccount: a resolved request of one who knows his password, if any.
DeleteOwnAccount(q) ==
    /\ At(q, "granted")
    /\ BeginDelete(User(q), TRUE)
    /\ Ends(q)
    /\ UNCHANGED <<users, rows, ensured, locked, moves, begun>>

\* Another owner leaves the organisation alone; else the oldest other member is to
\* inherit it; else it is to go.
CheckOrg(u) == \E o \in del[u].todo :
    /\ DelAt(u, "orgs")
    /\ LET heir == OldestOther(o, u)
           d    == [del[u] EXCEPT !.todo = @ \ {o}, !.org = o, !.heir = heir]
       IN  del' = [del EXCEPT ![u] =
               IF OtherOwner(o, u) THEN [del[u] EXCEPT !.todo = @ \ {o}]
               ELSE IF heir # None THEN [d EXCEPT !.pc = "promote"] ELSE [d EXCEPT !.pc = "drop"]]
    /\ KeepsAll(u)

\* The role of an heir who is no longer a member is refused, and all is rolled back.
Promote(u) ==
    /\ DelAt(u, "promote")
    /\ LET o == del[u].org
           v == del[u].heir
           d == [del[u] EXCEPT !.pc = "orgs", !.heirs = @ \cup {<<o, v>>},
                               !.org = None, !.heir = None]
       IN  /\ ~Dropping(o)
           /\ del' = [del EXCEPT ![u] = IF IsMember(o, v) THEN d ELSE NoDel]
    /\ KeepsAll(u)

DropOrg(u) ==
    /\ DelAt(u, "drop")
    /\ LET o == del[u].org
           d == [del[u] EXCEPT !.pc = "orgs", !.drops = @ \cup {o}, !.org = None]
       IN  /\ \A v \in Users \ {u} : \A h \in del[v].heirs : h[1] # o
           /\ del' = [del EXCEPT ![u] = d]
    /\ KeepsAll(u)

\* Mutant: the sessions are left to the revocation before.
CommitDeleteAfterRevoking(u) ==
    /\ DelAt(u, "orgs") /\ del[u].todo = {}
    /\ \A o \in Users : ~Inherits(o, u)
    /\ \A v \in Users \ {u} : \A o \in del[v].drops : ~IsMember(o, u)
    /\ users' = users \ {u}
    /\ UNCHANGED session
    /\ locked' = locked \ {u}
    /\ ensured' = IF del[u].own THEN ensured \ {u} ELSE ensured
    /\ LET Gone == {m \in Users \X Users : m[2] = u \/ m[1] \in del[u].drops}
       IN  Reorganise(orgs \ del[u].drops, Without(members, Gone),
                      (owners \cup del[u].heirs) \ Gone, req, [del EXCEPT ![u] = NoDel])
    /\ UNCHANGED <<moves, begun>>

\* Sessions, accounts, the user: memberships and roles go with him.  The cache
\* forgets only one who has deleted himself.
CommitDelete(u) ==
    /\ DelAt(u, "orgs") /\ del[u].todo = {}
    /\ \A o \in Users : ~Inherits(o, u)
    /\ \A v \in Users \ {u} : \A o \in del[v].drops : ~IsMember(o, u)
    /\ users' = users \ {u}
    /\ session' = [session EXCEPT ![u] = NoSession]
    /\ locked' = locked \ {u}
    /\ ensured' = IF del[u].own THEN ensured \ {u} ELSE ensured
    /\ LET Gone == {m \in Users \X Users : m[2] = u \/ m[1] \in del[u].drops}
       IN  Reorganise(orgs \ del[u].drops, Without(members, Gone),
                      (owners \cup del[u].heirs) \ Gone, req, [del EXCEPT ![u] = NoDel])
    /\ UNCHANGED <<moves, begun>>

\* An error, or a cycle of waits that Postgres breaks.
AbortDelete(u) ==
    /\ del[u] # NoDel
    /\ del' = [del EXCEPT ![u] = NoDel]
    /\ KeepsAll(u)

-----------------------------------------------------------------------------
Resolve(q) == (\E u \in Users : Begin(q, u)) \/ CheckLock(q) \/ Ensure(q) \/ CreateOrg(q)
              \/ ReadActive(q) \/ Default(q)
Serve(q)   == (\E o \in Users : Switch(q, o)) \/ Move(q) \/ DeleteOwnAccount(q) \/ Return(q)
Staff(u)   == LockUser(u) \/ UnlockUser(u) \/ DeleteUser(u)
Delete(u)  == CheckOrg(u) \/ Promote(u) \/ DropOrg(u)
              \/ CommitDelete(u) \/ AbortDelete(u)

Next == \/ \E q \in Requests : Resolve(q) \/ Serve(q)
        \/ \E u \in Users : SignIn(u) \/ Staff(u) \/ Delete(u)

Spec == Init /\ [][Next]_vars

-----------------------------------------------------------------------------
\* Rows refer to rows; only sessions of users who exist, whatever was revoked.
TypeOK ==
    /\ users \subseteq Users /\ orgs \subseteq Users
    /\ \A u \in Users : session[u].on => u \in users
    /\ \A k \in DOMAIN members : members[k] \in orgs \X users
    /\ owners \subseteq Range(members)
    /\ locked \subseteq users
    /\ moves \in 0 .. MaxMoves /\ begun \in 0 .. MaxBegun

\* session.go:56-66: no request that begins while its user is locked, and is
\* resolved before he is unlocked or deleted, is ever served, be its session from
\* before the lock or minted since.
LockHolds ==
    \A q \in Requests : At(q, "granted") /\ User(q) \in users => ~req[q].barred

\* session.go:134-140: a session that still names an organisation its user has
\* left never brings a request there: it acts where its user belonged at some
\* moment of the request, unless the check itself failed.
ActsWhereItBelongs ==
    \A q \in Requests :
        At(q, "granted") /\ req[q].org # None => req[q].org \in req[q].seen \/ req[q].kept

\* session.go:131-181: whatever the cache says, and whatever failed in a first try,
\* a request of a user who exists is served without an organisation only because in
\* its last try a statement failed, another organisation kept the slug of his own, or
\* he lost the last one he belonged to.
HealsUnlessHindered ==
    \A q \in Requests :
        At(q, "granted") /\ req[q].org = None => req[q].why # {} \/ User(q) \notin users

\* auth.go:512-516: with a slug that is taken "the invariant this function exists to
\* enforce (at least one organization) is already satisfied": that never leaves a
\* request without one.
AlwaysSomewhere ==
    \A q \in Requests :
        At(q, "granted") /\ req[q].org = None =>
            req[q].why \cap {"failed", "lost"} # {} \/ User(q) \notin users

\* auth.go:604-610: that a user has no membership is the only reason to heal; "routing
\* a fault into the self-heal branch would needlessly clear the personalOrgEnsured
\* cache entry": nobody who belongs somewhere is forgotten.
ForgetsOnlyTheHomeless ==
    [][\A u \in ensured \ ensured' : OrgsOf(members, u) = {} \/ u \notin users']_vars

\* What has become of the organisations of a user whose deletion nothing interfered
\* with, the deletion being committed.
HandedOver ==
    \A u \in users \ users' : del[u].quiet =>
       \A o \in orgs :
           LET rest == {v \in Users : <<o, v>> \in owners} \ {u}
               now  == {v \in Users : <<o, v>> \in owners'}
           IN  IF o \in orgs'
               THEN now = IF rest # {} \/ <<o, u>> \notin owners THEN rest
                          ELSE {OldestOther(o, u)}
               ELSE <<o, u>> \in owners /\ OldestOther(o, u) = None

\* cascade.go:13-19: a deletion that nothing interferes with takes the
\* organisations its user was alone in, hands those he owned alone to the oldest
\* other member, and touches no others.
HandsOver == [][HandedOver]_vars

\* cascade.go:13-19: an organisation is never left without an owner.
OrgsHaveOwners == \A o \in orgs : \E u \in users : <<o, u>> \in owners

=============================================================================
