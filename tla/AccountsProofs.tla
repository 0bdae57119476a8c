--------------------------- MODULE AccountsProofs ---------------------------
(***************************************************************************)
(* What holds of sessions, locks, memberships and deletions, whatever      *)
(* requests, staff and deletions have crossed.                             *)
(***************************************************************************)
EXTENDS Accounts, FiniteSetTheorems, TLAPS

-----------------------------------------------------------------------------
\* Types.

Pairs == Users \X Users

RequestRecord == [pc : {"idle", "lock", "ensure", "create", "active", "default", "granted"},
                  u : Users \cup {None}, active : Users \cup {None}, org : Users \cup {None},
                  healed : BOOLEAN, barred : BOOLEAN, kept : BOOLEAN,
                  why : SUBSET {"failed", "taken", "lost"}, seen : SUBSET Users]

DeletionRecord == [pc : {"none", "orgs", "promote", "drop"}, own : BOOLEAN, todo : SUBSET Users,
                   org : Users \cup {None}, heir : Users \cup {None},
                   heirs : SUBSET Pairs, drops : SUBSET Users, quiet : BOOLEAN]

SessionRecord == [on : BOOLEAN, active : Users \cup {None}]

Types ==
    /\ users \subseteq Users /\ orgs \subseteq Users /\ ensured \subseteq Users
    /\ members \in Seq(Pairs)
    /\ session \in [Users -> SessionRecord]
    /\ req \in [Requests -> RequestRecord]
    /\ del \in [Users -> DeletionRecord]
    /\ moves \in 0 .. MaxMoves /\ begun \in 0 .. MaxBegun

\* Rows refer to rows.
RowsRefer ==
    /\ \A o, u \in Users : IsMember(o, u) => o \in orgs /\ u \in users
    /\ owners \subseteq Range(members)
    /\ locked \subseteq users
    /\ \A u \in Users : session[u].on => u \in users

-----------------------------------------------------------------------------
\* Requests.

\* Why one may be left without an organisation, and what keeps the others from it.
Excused(r) == r.why # {} \/ r.u \notin users
Settled(r) == OrgsOf(members, r.u) # {} \/ Excused(r)

RequestOK(r) ==
    /\ r.pc # "idle" => r.u \in Users
    /\ r.pc # "granted" => r.org = None
    /\ r.pc \notin {"idle", "granted"} => OrgsOf(members, r.u) \subseteq r.seen
    /\ r.barred /\ r.u \in users => r.u \in locked /\ r.pc = "lock"
    /\ r.pc \in {"lock", "active"} => ~r.healed
    /\ r.healed /\ (r.pc = "default" \/ (r.pc \in {"ensure", "create"} /\ r.u \in ensured)) => Settled(r)
    /\ r.pc = "granted" /\ r.org = None => Excused(r)
    /\ r.pc = "granted" /\ r.org # None => r.org \in r.seen \/ r.kept

RequestsOK == \A q \in Requests : RequestOK(req[q])

-----------------------------------------------------------------------------
\* Deletions.

\* Whoever is to inherit is another member of an organisation that nobody drops.
HeirsOK == \A u \in Users :
    /\ del[u].pc \in {"promote", "drop"} => del[u].org \in Users
    /\ del[u].pc = "promote" => del[u].heir \in Users \ {u}
    /\ \A o, v \in Users : <<o, v>> \in del[u].heirs =>
          v # u /\ IsMember(o, v) /\ \A w \in Users \ {u} : o \notin del[w].drops

Sole(o, u) == <<o, u>> \in owners /\ ~OtherOwner(o, u)

\* While nothing interferes, a deletion has decided on the organisations it has
\* looked at as they are.
Decided(u, d) ==
    /\ \A o \in Owned(u) : \/ o \in d.todo \/ OtherOwner(o, u)
                           \/ d.pc \in {"promote", "drop"} /\ d.org = o
                           \/ <<o, OldestOther(o, u)>> \in d.heirs
                           \/ o \in d.drops
    /\ d.todo \subseteq Owned(u)
    /\ \A o, v \in Users : <<o, v>> \in d.heirs => Sole(o, u) /\ v = OldestOther(o, u)
    /\ \A o \in d.drops : Sole(o, u) /\ OldestOther(o, u) = None
    /\ d.pc = "promote" => Sole(d.org, u) /\ d.heir = OldestOther(d.org, u)
    /\ d.pc = "drop" => Sole(d.org, u) /\ OldestOther(d.org, u) = None

QuietDecide == \A u \in Users : del[u].pc # "none" /\ del[u].quiet => Decided(u, del[u])

AccountsInv == Types /\ RowsRefer /\ RequestsOK /\ HeirsOK /\ QuietDecide

-----------------------------------------------------------------------------
\* Memberships.

\* The places of those who stay are their new indexes.
LEMMA PlacesFill ==
    ASSUME NEW n \in Nat, NEW K \in SUBSET (1 .. n), NEW i \in 1 .. Cardinality(K)
    PROVE  \E k \in K : Cardinality({j \in K : j <= k}) = i
<1> DEFINE below(k) == {j \in K : j <= k}
           place == [k \in K |-> Cardinality(below(k))]
           c == Cardinality(K)
<1>1. IsFiniteSet(K) /\ c \in Nat
  <2>1. IsFiniteSet(1 .. n)
    BY FS_Interval
  <2>2. QED
    BY <2>1, FS_Subset, FS_CardinalityType
<1>2. \A k \in K : IsFiniteSet(below(k)) /\ Cardinality(below(k)) \in Nat /\ Cardinality(below(k)) <= c
  <2> SUFFICES ASSUME NEW k \in K
               PROVE IsFiniteSet(below(k)) /\ Cardinality(below(k)) \in Nat /\ Cardinality(below(k)) <= c
    OBVIOUS
  <2>1. below(k) \in SUBSET K
    OBVIOUS
  <2>2. QED
    BY <1>1, <2>1, FS_Subset, FS_CardinalityType
<1>3. \A k \in K : Cardinality(below(k)) # 0
  <2> SUFFICES ASSUME NEW k \in K PROVE Cardinality(below(k)) # 0
    OBVIOUS
  <2>1. k \in below(k)
    OBVIOUS
  <2>2. QED
    BY <1>2, <2>1, FS_EmptySet
<1>4. \A k, l \in K : k < l => Cardinality(below(k)) # Cardinality(below(l))
  <2> SUFFICES ASSUME NEW k \in K, NEW l \in K, k < l
               PROVE  Cardinality(below(k)) # Cardinality(below(l))
    OBVIOUS
  <2>1. below(k) \in SUBSET below(l) /\ l \in below(l) /\ l \notin below(k)
    <3>1. \A j \in K : j \in Nat
      OBVIOUS
    <3>2. \A j \in K : j <= k => j <= l
      BY <3>1
    <3>3. l <= l /\ ~(l <= k)
      BY <3>1
    <3>4. QED
      BY <3>2, <3>3
  <2>2. QED
    BY <1>2, <2>1, FS_Subset
<1>5. place \in Injection(K, 1 .. c)
  <2>1. \A k \in K : place[k] = Cardinality(below(k))
    OBVIOUS
  <2>2. \A k \in K : place[k] \in 1 .. c
    BY <1>1, <1>2, <1>3, <2>1
  <2>3. \A k, l \in K : place[k] = place[l] => k = l
    BY <1>4, <2>1
  <2>4. QED
    BY <2>2, <2>3 DEF Injection, IsInjective
<1>6. IsFiniteSet(1 .. c) /\ Cardinality(1 .. c) = c
  BY <1>1, FS_Interval
<1>7. place \in Surjection(K, 1 .. c)
  <2> HIDE DEF place
  <2>1. QED
    BY <1>5, <1>6, FS_Injection
<1>8. PICK k \in K : place[k] = i
  BY <1>7 DEF Surjection
<1>9. QED
  BY <1>8

\* There is a first of any.
LEMMA Least ==
    ASSUME NEW n \in Nat, NEW K \in SUBSET (1 .. n), K # {}
    PROVE  Min(K) \in K
<1>1. IsFiniteSet(K)
  <2>1. IsFiniteSet(1 .. n)
    BY FS_Interval
  <2>2. QED
    BY <2>1, FS_Subset
<1>2. Cardinality(K) \in Nat /\ Cardinality(K) # 0
  BY <1>1, FS_CardinalityType, FS_EmptySet
<1>3. 1 \in 1 .. Cardinality(K)
  BY <1>2
<1>4. PICK x \in K : Cardinality({j \in K : j <= x}) = 1
  BY <1>3, PlacesFill
<1>5. IsFiniteSet({j \in K : j <= x})
  <2>1. {j \in K : j <= x} \in SUBSET K
    OBVIOUS
  <2>2. QED
    BY <1>1, <2>1, FS_Subset
<1>6. PICK y : {j \in K : j <= x} = {y}
  BY <1>4, <1>5, FS_Singleton
<1>7. \A j \in K : x <= j
  BY <1>6
<1>8. QED
  BY <1>7 DEF Min

LEMMA OldestMembershipIs ==
    ASSUME Types, NEW u \in Users
    PROVE  /\ OldestMembership(u) \in OrgsOf(members, u) \cup {None}
           /\ OrgsOf(members, u) # {} => OldestMembership(u) # None
<1> DEFINE his == {k \in DOMAIN members : members[k][2] = u}
<1>1. his \in SUBSET (1 .. Len(members)) /\ Len(members) \in Nat /\ \A k \in his : members[k] \in Pairs
  BY DEF Types
<1>2. \A k \in his : members[k] = <<members[k][1], u>> /\ members[k][1] \in Users
  BY <1>1 DEF Pairs
<1>3. his = {} => OrgsOf(members, u) = {}
  BY DEF OrgsOf, Belongs
<1>4. OldestMembership(u) = IF his = {} THEN None ELSE members[Min(his)][1]
  BY DEF OldestMembership
<1>5. CASE his = {}
  BY <1>3, <1>4, <1>5
<1>6. CASE his # {}
  <2>1. Min(his) \in his
    BY <1>1, <1>6, Least
  <2>2. members[Min(his)] = <<members[Min(his)][1], u>> /\ members[Min(his)][1] \in Users
    BY <1>2, <2>1
  <2>3. members[Min(his)][1] \in OrgsOf(members, u)
    BY <2>1, <2>2 DEF OrgsOf, Belongs
  <2>4. QED
    BY <1>4, <1>6, <2>2, <2>3, AccountsAssumption
<1>7. QED
  BY <1>5, <1>6

LEMMA OldestOtherIs ==
    ASSUME Types, NEW o, NEW u
    PROVE  OldestOther(o, u) \in (Users \ {u}) \cup {None}
<1> DEFINE others == {k \in DOMAIN members : members[k][1] = o /\ members[k][2] # u}
<1>1. others \in SUBSET (1 .. Len(members)) /\ Len(members) \in Nat /\ \A k \in others : members[k][2] \in Users \ {u}
  BY DEF Types, Pairs
<1>2. OldestOther(o, u) = IF others = {} THEN None ELSE members[Min(others)][2]
  BY DEF OldestOther
<1>3. CASE others # {}
  BY <1>1, <1>2, <1>3, Least
<1>4. QED
  BY <1>2, <1>3

\* Who joins is a member besides the others.
LEMMA JoinIs ==
    ASSUME NEW ms \in Seq(Pairs), NEW o \in Users, NEW u \in Users
    PROVE  /\ Append(ms, <<o, u>>) \in Seq(Pairs)
           /\ Range(Append(ms, <<o, u>>)) = Range(ms) \cup {<<o, u>>}
<1>1. <<o, u>> \in Pairs
  BY DEF Pairs
<1>2. PICK m : m = <<o, u>>
  OBVIOUS
<1>3. /\ Append(ms, m) \in Seq(Pairs)
      /\ DOMAIN Append(ms, m) = DOMAIN ms \cup {Len(ms) + 1}
      /\ Append(ms, m)[Len(ms) + 1] = m
      /\ \A k \in DOMAIN ms : Append(ms, m)[k] = ms[k]
  BY <1>1, <1>2
<1>4. Range(Append(ms, m)) = Range(ms) \cup {m}
  BY <1>3 DEF Range
<1>5. QED
  BY <1>2, <1>3, <1>4

\* Who leaves is no member, and the others stay.
LEMMA WithoutIs ==
    ASSUME NEW ms \in Seq(Pairs), NEW gone
    PROVE  /\ Without(ms, gone) \in Seq(Pairs)
           /\ Range(Without(ms, gone)) = Range(ms) \ gone
<1> DEFINE stay == {k \in DOMAIN ms : ms[k] \notin gone}
           place(k) == Cardinality({j \in stay : j <= k})
           c == Cardinality(stay)
           at(i) == CHOOSE k \in stay : place(k) = i
<1>1. Len(ms) \in Nat /\ DOMAIN ms = 1 .. Len(ms)
  OBVIOUS
<1>2. stay \in SUBSET (1 .. Len(ms))
  BY <1>1
<1>3. IsFiniteSet(stay) /\ c \in Nat
  <2>1. IsFiniteSet(1 .. Len(ms))
    BY <1>1, FS_Interval
  <2>2. QED
    BY <1>2, <2>1, FS_Subset, FS_CardinalityType
<1>4. \A i \in 1 .. c : at(i) \in stay /\ place(at(i)) = i
  <2> SUFFICES ASSUME NEW i \in 1 .. c PROVE at(i) \in stay /\ place(at(i)) = i
    OBVIOUS
  <2>1. \E k \in stay : place(k) = i
    BY <1>1, <1>2, PlacesFill
  <2>2. QED
    BY <2>1
<1>5. Without(ms, gone) = [i \in 1 .. c |-> ms[at(i)]]
  BY DEF Without
<1>6. Without(ms, gone) \in [1 .. c -> Pairs]
  <2>1. \A k \in stay : ms[k] \in Pairs
    OBVIOUS
  <2> HIDE DEF stay, at, c
  <2>2. \A i \in 1 .. c : ms[at(i)] \in Pairs
    BY <1>4, <2>1
  <2>3. QED
    BY <1>5, <2>2
<1>7. Range(Without(ms, gone)) \subseteq Range(ms) \ gone
  <2>1. \A k \in stay : ms[k] \in Range(ms) \ gone
    BY DEF Range
  <2> HIDE DEF stay, at, c
  <2>2. \A i \in 1 .. c : ms[at(i)] \in Range(ms) \ gone
    BY <1>4, <2>1
  <2>3. QED
    BY <1>5, <2>2 DEF Range
<1>8. \A k \in stay : place(k) \in 1 .. c
  <2> SUFFICES ASSUME NEW k \in stay PROVE place(k) \in 1 .. c
    OBVIOUS
  <2>1. {j \in stay : j <= k} \in SUBSET stay /\ k \in {j \in stay : j <= k}
    BY <1>2
  <2>2. /\ IsFiniteSet({j \in stay : j <= k}) /\ place(k) \in Nat /\ place(k) <= c
    BY <1>3, <2>1, FS_Subset, FS_CardinalityType
  <2>3. place(k) # 0
    BY <2>1, <2>2, FS_EmptySet
  <2>4. QED
    BY <1>3, <2>2, <2>3
<1>9. \A k, l \in stay : k < l => place(k) # place(l)
  <2> SUFFICES ASSUME NEW k \in stay, NEW l \in stay, k < l PROVE place(k) # place(l)
    OBVIOUS
  <2> DEFINE K == {j \in stay : j <= k}
             L == {j \in stay : j <= l}
  <2>1. K \in SUBSET L /\ L \in SUBSET stay /\ l \in L /\ l \notin K
    BY <1>2
  <2>2. IsFiniteSet(L)
    BY <1>3, <2>1, FS_Subset
  <2> HIDE DEF K, L
  <2>3. Cardinality(K) # Cardinality(L)
    BY <2>1, <2>2, FS_Subset
  <2>4. QED
    BY <2>3 DEF K, L
<1>10. \A k \in stay : at(place(k)) = k
  <2> SUFFICES ASSUME NEW k \in stay PROVE at(place(k)) = k
    OBVIOUS
  <2>1. PICK l : l = at(place(k))
    OBVIOUS
  <2>2. l \in stay /\ place(l) = place(k)
    BY <1>4, <1>8, <2>1
  <2>3. l \in Nat /\ k \in Nat
    BY <1>2, <2>2
  <2>4. ~(l < k) /\ ~(k < l)
    BY <1>9, <2>2
  <2>5. QED
    BY <2>1, <2>3, <2>4
<1>11. Range(ms) \ gone \subseteq Range(Without(ms, gone))
  <2> SUFFICES ASSUME NEW m \in Range(ms) \ gone PROVE m \in Range(Without(ms, gone))
    OBVIOUS
  <2>1. PICK k \in stay : ms[k] = m
    BY DEF Range
  <2>2. place(k) \in 1 .. c /\ at(place(k)) = k
    BY <1>8, <1>10
  <2>3. PICK i \in 1 .. c : at(i) = k
    BY <2>2
  <2>4. Without(ms, gone)[i] = m
    BY <1>5, <2>1, <2>3
  <2>5. QED
    BY <1>6, <2>4 DEF Range
<1>12. Without(ms, gone) \in Seq(Pairs)
  <2> HIDE DEF c
  <2>1. QED
    BY <1>3, <1>6
<1>13. QED
  BY <1>7, <1>11, <1>12


-----------------------------------------------------------------------------
\* One request moves.

LEMMA BelongsIs == \A ms, o, u : Belongs(ms, o, u) <=> <<o, u>> \in Range(ms)
BY DEF Belongs, Range

LEMMA NoReqOK == NoReq \in RequestRecord /\ RequestOK(NoReq) /\ RequestOK(NoReq)'
BY AccountsAssumption DEF NoReq, RequestRecord, RequestOK

LEMMA OneMoves ==
    ASSUME RequestsOK, NEW q \in Requests, \A p \in Requests \ {q} : req'[p] = req[p],
           RequestOK(req[q])', UNCHANGED <<users, members, locked>>, ensured' \subseteq ensured
    PROVE  RequestsOK'
<1> SUFFICES ASSUME NEW p \in Requests PROVE RequestOK(req[p])'
  BY DEF RequestsOK
<1>1. CASE p # q
  <2>1. req'[p] = req[p] /\ RequestOK(req[p])
    BY <1>1 DEF RequestsOK
  <2>2. QED
    BY <2>1 DEF RequestOK, Settled, Excused
<1>2. QED
  BY <1>1

\* What a request leaves alone.
LEMMA RowsRest ==
    ASSUME AccountsInv, UNCHANGED <<users, rows, del>>, Types', RequestsOK', locked' \subseteq users,
           \A u \in Users : session'[u].on => session[u].on \/ u \in users
    PROVE  AccountsInv'
<1>1. RowsRefer'
  BY DEF AccountsInv, RowsRefer, rows, IsMember
<1>2. HeirsOK'
  BY DEF AccountsInv, HeirsOK, rows, IsMember
<1>3. /\ \A o, u : OldestOther(o, u)' = OldestOther(o, u)
      /\ \A u : Owned(u)' = Owned(u)
      /\ \A o, u : OtherOwner(o, u)' = OtherOwner(o, u)
      /\ \A o, u : Sole(o, u)' = Sole(o, u)
  BY DEF OldestOther, Owned, OtherOwner, Sole, rows
<1>4. QuietDecide'
  BY <1>3 DEF AccountsInv, QuietDecide, Decided, rows
<1>5. QED
  BY <1>1, <1>2, <1>4 DEF AccountsInv

LEMMA SignInKeeps ==
    ASSUME AccountsInv, NEW u \in Users, SignIn(u)
    PROVE  AccountsInv'
<1>1. UNCHANGED <<users, rows, del, req, ensured, locked, moves>> /\ u \in users
      /\ session' = [session EXCEPT ![u] = SignedIn]
      /\ begun' = begun + 1 /\ begun < MaxBegun
  BY DEF SignIn
<1>2. session' \in [Users -> SessionRecord]
  BY <1>1 DEF AccountsInv, Types, SessionRecord, SignedIn
<1>3. Types'
  BY <1>1, <1>2, AccountsAssumption DEF AccountsInv, Types, rows
<1>4. RequestsOK'
  BY <1>1 DEF AccountsInv, RequestsOK, RequestOK, Settled, Excused, rows
<1>5. QED
  BY <1>1, <1>3, <1>4, RowsRest DEF AccountsInv, Types, RowsRefer

LEMMA BeginKeeps ==
    ASSUME AccountsInv, NEW q \in Requests, NEW u \in Users, Begin(q, u)
    PROVE  AccountsInv'
<1>1. /\ UNCHANGED <<users, rows, del, session, ensured, locked, moves>>
      /\ session[u].on /\ begun' = begun + 1 /\ begun < MaxBegun
  BY DEF Begin
<1> DEFINE r == [NoReq EXCEPT !.pc = "lock", !.u = u, !.active = session[u].active,
                              !.barred = u \in locked, !.seen = OrgsOf(members, u)]
<1>2. req' = [req EXCEPT ![q] = r]
  BY DEF Begin
<1>3. /\ r.pc = "lock" /\ r.u = u /\ r.active = session[u].active /\ (r.barred <=> u \in locked)
      /\ r.seen = OrgsOf(members, u) /\ ~r.healed /\ r.org = None
  BY DEF NoReq
<1>4. r \in RequestRecord
  <2>1. session[u].active \in Users \cup {None} /\ OrgsOf(members, u) \subseteq Users
    BY DEF AccountsInv, Types, SessionRecord, OrgsOf
  <2>2. \A a \in Users \cup {None}, seen \in SUBSET Users, b \in BOOLEAN :
           [NoReq EXCEPT !.pc = "lock", !.u = u, !.active = a, !.barred = b, !.seen = seen]
              \in RequestRecord
    BY DEF NoReq, RequestRecord
  <2>3. (u \in locked) \in BOOLEAN
    OBVIOUS
  <2>4. QED
    BY <2>1, <2>2, <2>3
<1> HIDE DEF r
<1>5. req'[q] = r /\ \A p \in Requests \ {q} : req'[p] = req[p]
  BY <1>2 DEF AccountsInv, Types
<1>6. RequestOK(req[q])'
  BY <1>1, <1>3, <1>5 DEF RequestOK, rows
<1>7. RequestsOK'
  BY <1>1, <1>5, <1>6, OneMoves DEF AccountsInv, rows
<1>8. Types'
  BY <1>1, <1>2, <1>4, AccountsAssumption DEF AccountsInv, Types, rows
<1>9. QED
  BY <1>1, <1>7, <1>8, RowsRest DEF AccountsInv, RowsRefer

\* A request ends, or moves by its counter alone.
LEMMA EndMoves ==
    ASSUME AccountsInv, NEW q \in Requests, Ends(q), UNCHANGED <<users, members, locked>>,
           ensured' \subseteq ensured
    PROVE  req' \in [Requests -> RequestRecord] /\ RequestsOK'
<1>1. req' = [req EXCEPT ![q] = NoReq]
  BY DEF Ends
<1>2. req'[q] = NoReq /\ \A p \in Requests \ {q} : req'[p] = req[p]
  BY <1>1 DEF AccountsInv, Types
<1>3. RequestOK(req[q])'
  BY <1>2, NoReqOK DEF RequestOK
<1>4. QED
  BY <1>1, <1>2, <1>3, NoReqOK, OneMoves DEF AccountsInv, Types

LEMMA GoFacts ==
    ASSUME Types, NEW q \in Requests, NEW pc \in {"lock", "ensure", "create", "active", "default"},
           Goes(q, pc)
    PROVE  /\ req' \in [Requests -> RequestRecord]
           /\ \A p \in Requests \ {q} : req'[p] = req[p]
           /\ req'[q].pc = pc
           /\ req'[q].u = req[q].u /\ req'[q].healed = req[q].healed /\ req'[q].barred = req[q].barred
           /\ req'[q].why = req[q].why /\ req'[q].seen = req[q].seen /\ req'[q].org = req[q].org
<1>1. req' = [req EXCEPT ![q] = [req[q] EXCEPT !.pc = pc]]
  BY DEF Goes
<1>2. req[q] \in RequestRecord
  BY DEF Types
<1>3. [req[q] EXCEPT !.pc = pc] \in RequestRecord
  BY <1>2 DEF RequestRecord
<1>4. req'[q] = [req[q] EXCEPT !.pc = pc] /\ \A p \in Requests \ {q} : req'[p] = req[p]
  BY <1>1 DEF Types
<1>5. QED
  BY <1>1, <1>2, <1>3, <1>4 DEF Types, RequestRecord

\* A request whose statement fails remembers that.
LEMMA FailFacts ==
    ASSUME Types, NEW q \in Requests, NEW pc \in {"default", "active"}, FailsTo(q, pc)
    PROVE  /\ req' \in [Requests -> RequestRecord]
           /\ \A p \in Requests \ {q} : req'[p] = req[p]
           /\ req'[q].pc = pc /\ req'[q].why # {}
           /\ req'[q].u = req[q].u /\ req'[q].healed = req[q].healed /\ req'[q].barred = req[q].barred
           /\ req'[q].seen = req[q].seen /\ req'[q].org = req[q].org
<1> DEFINE r == [req[q] EXCEPT !.why = @ \cup {"failed"}, !.pc = pc]
<1>1. req[q] \in RequestRecord /\ req \in [Requests -> RequestRecord]
  BY DEF Types
<1>2. req' = [req EXCEPT ![q] = r]
  BY <1>1 DEF FailsTo, Because, RequestRecord
<1>3. /\ r \in RequestRecord /\ r.pc = pc /\ "failed" \in r.why
      /\ r.u = req[q].u /\ r.healed = req[q].healed /\ r.barred = req[q].barred
      /\ r.seen = req[q].seen /\ r.org = req[q].org
  BY <1>1 DEF RequestRecord
<1> HIDE DEF r
<1>4. req'[q] = r /\ \A p \in Requests \ {q} : req'[p] = req[p]
  BY <1>1, <1>2
<1>5. QED
  BY <1>1, <1>2, <1>3, <1>4

\* It may go on, as whatever comes of it is excused.
LEMMA FailureIsExcused ==
    ASSUME AccountsInv, NEW q \in Requests, NEW pc \in {"default", "active"}, FailsTo(q, pc),
           req[q].pc \in {"ensure", "create"}, pc = "active" => ~req[q].healed,
           UNCHANGED <<users, rows, session, ensured, locked, del, moves, begun>>
    PROVE  AccountsInv'
<1>1. Types /\ RequestOK(req[q])
  BY DEF AccountsInv, RequestsOK
<1>2. /\ req' \in [Requests -> RequestRecord]
      /\ \A p \in Requests \ {q} : req'[p] = req[p]
      /\ req'[q].pc = pc /\ req'[q].why # {}
      /\ req'[q].u = req[q].u /\ req'[q].healed = req[q].healed /\ req'[q].barred = req[q].barred
      /\ req'[q].seen = req[q].seen /\ req'[q].org = req[q].org
  BY <1>1, FailFacts
<1>3. RequestOK(req[q])'
  BY <1>1, <1>2 DEF RequestOK, Settled, Excused, rows
<1>4. RequestsOK'
  BY <1>2, <1>3, OneMoves DEF AccountsInv, rows
<1>5. QED
  BY <1>2, <1>4, RowsRest DEF AccountsInv, Types, RowsRefer, rows

LEMMA CheckLockKeeps ==
    ASSUME AccountsInv, NEW q \in Requests, CheckLock(q)
    PROVE  AccountsInv'
<1>1. UNCHANGED <<users, rows, session, ensured, locked, del, moves, begun>> /\ req[q].pc = "lock"
  BY DEF CheckLock, At
<1>2. CASE User(q) \notin locked /\ Goes(q, "ensure")
  <2>1. /\ req' \in [Requests -> RequestRecord]
        /\ \A p \in Requests \ {q} : req'[p] = req[p]
        /\ req'[q].pc = "ensure"
        /\ req'[q].u = req[q].u /\ req'[q].healed = req[q].healed /\ req'[q].barred = req[q].barred
        /\ req'[q].why = req[q].why /\ req'[q].seen = req[q].seen /\ req'[q].org = req[q].org
    BY <1>2, GoFacts DEF AccountsInv
  <2>2. RequestOK(req[q])'
    BY <1>1, <1>2, <2>1 DEF AccountsInv, RequestsOK, RequestOK, User, rows
  <2>3. RequestsOK'
    BY <1>1, <2>1, <2>2, OneMoves DEF AccountsInv, rows
  <2>4. QED
    BY <1>1, <2>1, <2>3, RowsRest DEF AccountsInv, Types, RowsRefer, rows
<1>3. CASE Ends(q)
  <2>1. req' \in [Requests -> RequestRecord] /\ RequestsOK'
    BY <1>1, <1>3, EndMoves DEF rows
  <2>2. QED
    BY <1>1, <2>1, RowsRest DEF AccountsInv, Types, RowsRefer, rows
<1>4. QED
  BY <1>2, <1>3 DEF CheckLock

\* Whoever is put into the cache has an organisation.
LEMMA EnsureKeeps ==
    ASSUME AccountsInv, NEW q \in Requests, Ensure(q)
    PROVE  AccountsInv'
<1> DEFINE has == OrgsOf(members, User(q)) # {}
           to  == IF User(q) \in ensured \/ has THEN AfterEnsure(q) ELSE "create"
<1>1. UNCHANGED <<users, rows, session, locked, del, moves, begun>> /\ req[q].pc = "ensure"
  BY DEF Ensure, At
<1>2. CASE FailsTo(q, AfterEnsure(q)) /\ UNCHANGED ensured
  <2>1. /\ AfterEnsure(q) \in {"default", "active"}
        /\ AfterEnsure(q) = "active" => ~req[q].healed
    BY DEF AfterEnsure
  <2>2. QED
    BY <1>1, <1>2, <2>1, FailureIsExcused
<1>3. CASE Goes(q, to) /\ ensured' = IF has THEN ensured \cup {User(q)} ELSE ensured
  <2>1. to \in {"create", "default", "active"}
    BY DEF AfterEnsure
  <2>2. RequestOK(req[q]) /\ User(q) = req[q].u /\ req[q].u \in Users
    BY <1>1 DEF AccountsInv, RequestsOK, RequestOK, User
  <2>3. /\ to = "default" => req[q].healed /\ (User(q) \in ensured \/ has)
        /\ to = "active" => ~req[q].healed
        /\ to = "create" => ~has
    BY DEF AfterEnsure
  <2> HIDE DEF to
  <2>4. /\ req' \in [Requests -> RequestRecord]
        /\ \A p \in Requests \ {q} : req'[p] = req[p]
        /\ req'[q].pc = to
        /\ req'[q].u = req[q].u /\ req'[q].healed = req[q].healed /\ req'[q].barred = req[q].barred
        /\ req'[q].why = req[q].why /\ req'[q].seen = req[q].seen /\ req'[q].org = req[q].org
    BY <1>3, <2>1, GoFacts DEF AccountsInv
  <2>5. UNCHANGED <<users, members, locked>>
    BY <1>1 DEF rows
  <2>6. RequestOK(req[q])'
    <3>1. /\ req'[q].pc \in {"create", "default", "active"} /\ req'[q].u \in Users
          /\ req'[q].org = None
          /\ OrgsOf(members, req'[q].u) \subseteq req'[q].seen
          /\ ~(req'[q].barred /\ req'[q].u \in users)
      BY <1>1, <2>1, <2>2, <2>4 DEF RequestOK
    <3>2. req'[q].pc = "default" => Settled(req[q])'
      BY <1>1, <2>2, <2>3, <2>4, <2>5 DEF RequestOK, Settled, Excused
    <3>3. req'[q].pc = "active" => ~req'[q].healed
      BY <2>3, <2>4
    <3>4. req'[q].pc = "create" /\ req'[q].healed /\ req'[q].u \in ensured' => Settled(req[q])'
      BY <1>1, <1>3, <2>2, <2>3, <2>4, <2>5 DEF RequestOK, Settled, Excused
    <3>5. QED
      BY <2>5, <3>1, <3>2, <3>3, <3>4 DEF RequestOK
  <2>7. \A p \in Requests \ {q} : RequestOK(req[p])'
    <3> SUFFICES ASSUME NEW p \in Requests \ {q} PROVE RequestOK(req[p])'
      OBVIOUS
    <3>1. req'[p] = req[p] /\ RequestOK(req[p])
      BY <2>4 DEF AccountsInv, RequestsOK
    <3>2. req[p].u \in ensured' \ ensured => Settled(req[p])'
      BY <1>3, <2>5, <3>1 DEF Settled, User
    <3>3. Settled(req[p]) => Settled(req[p])'
      BY <2>5, <3>1 DEF Settled, Excused
    <3>4. QED
      BY <2>5, <3>1, <3>2, <3>3 DEF RequestOK, Excused
  <2>8. RequestsOK'
    BY <2>6, <2>7 DEF RequestsOK
  <2>9. ensured' \subseteq Users
    BY <1>3, <2>2 DEF AccountsInv, Types
  <2>10. Types'
    BY <1>1, <2>4, <2>9 DEF AccountsInv, Types, rows
  <2>11. QED
    BY <1>1, <2>8, <2>10, RowsRest DEF AccountsInv, RowsRefer
<1>4. QED
  BY <1>2, <1>3 DEF Ensure


\* A request is granted an organisation or none.
LEMMA ResolvedFacts ==
    ASSUME NEW r \in RequestRecord, NEW o \in Users \cup {None}
    PROVE  /\ Resolved(r, o) \in RequestRecord
           /\ Resolved(r, o).pc = "granted" /\ Resolved(r, o).u = r.u /\ Resolved(r, o).org = o
           /\ Resolved(r, o).kept = r.kept /\ Resolved(r, o).barred = r.barred
           /\ ~Resolved(r, o).healed
           /\ Resolved(r, o).seen = r.seen \cap {o}
           /\ o = None => Resolved(r, o).why = r.why
<1>1. PICK w \in SUBSET {"failed", "taken", "lost"} : w = IF o = None THEN r.why ELSE {}
  <2>1. r.why \in SUBSET {"failed", "taken", "lost"}
    BY DEF RequestRecord
  <2>2. QED
    BY <2>1
<1>2. PICK s \in SUBSET Users : s = r.seen \cap {o}
  <2>1. r.seen \in SUBSET Users
    BY DEF RequestRecord
  <2>2. QED
    BY <2>1
<1>3. Resolved(r, o) = [NoReq EXCEPT !.pc = "granted", !.u = r.u, !.org = o, !.barred = r.barred,
                                     !.kept = r.kept, !.seen = s, !.why = w]
  BY <1>1, <1>2 DEF Resolved
<1>4. QED
  BY <1>1, <1>2, <1>3 DEF NoReq, RequestRecord

LEMMA GrantFacts ==
    ASSUME Types, NEW q \in Requests, NEW o \in Users \cup {None}, NEW k \in BOOLEAN,
           \/ req' = [Grants(req, q, o) EXCEPT ![q].kept = k]
           \/ req' = Grants(req, q, o) /\ k = req[q].kept
    PROVE  /\ req' \in [Requests -> RequestRecord]
           /\ \A p \in Requests \ {q} : req'[p] = req[p]
           /\ req'[q].pc = "granted" /\ req'[q].org = o /\ req'[q].kept = k
           /\ req'[q].u = req[q].u /\ req'[q].barred = req[q].barred /\ ~req'[q].healed
           /\ req'[q].seen = req[q].seen \cap {o}
           /\ o = None => req'[q].why = req[q].why
<1>1. req[q] \in RequestRecord /\ req \in [Requests -> RequestRecord]
  BY DEF Types
<1>2. PICK r \in RequestRecord : r = Resolved(req[q], o)
  BY <1>1, ResolvedFacts
<1>3. /\ r.pc = "granted" /\ r.org = o /\ r.kept = req[q].kept
      /\ r.u = req[q].u /\ r.barred = req[q].barred /\ ~r.healed
      /\ r.seen = req[q].seen \cap {o}
      /\ o = None => r.why = req[q].why
  BY <1>1, <1>2, ResolvedFacts
<1>4. Grants(req, q, o) = [req EXCEPT ![q] = r]
  BY <1>2 DEF Grants
<1>5. CASE req' = Grants(req, q, o) /\ k = req[q].kept
  <2>1. req'[q] = r /\ (\A p \in Requests \ {q} : req'[p] = req[p])
    BY <1>1, <1>4, <1>5
  <2>2. QED
    BY <1>1, <1>3, <1>4, <1>5, <2>1
<1>6. CASE req' = [Grants(req, q, o) EXCEPT ![q].kept = k]
  <2> DEFINE s == [r EXCEPT !.kept = k]
  <2>1. /\ s \in RequestRecord /\ s.kept = k
        /\ s.pc = r.pc /\ s.org = r.org /\ s.u = r.u /\ s.barred = r.barred /\ s.healed = r.healed
        /\ s.seen = r.seen /\ s.why = r.why
    BY DEF RequestRecord
  <2>2. req' = [req EXCEPT ![q] = s]
    BY <1>1, <1>4, <1>6
  <2> HIDE DEF s
  <2>3. req'[q] = s /\ (\A p \in Requests \ {q} : req'[p] = req[p])
    BY <1>1, <2>2
  <2>4. QED
    BY <1>1, <1>3, <2>1, <2>2, <2>3
<1>7. QED
  BY <1>5, <1>6

\* One that does without has a reason.
LEMMA GivingUpKeeps ==
    ASSUME AccountsInv, NEW q \in Requests, GivesUp(q), req[q].pc \in {"active", "default"},
           UNCHANGED <<users, rows, session, ensured, locked, del, moves, begun>>
    PROVE  AccountsInv'
<1> DEFINE f == [req[q] EXCEPT !.why = @ \cup {"failed"}]
           r == Resolved(f, None)
<1>1. RequestOK(req[q]) /\ req[q] \in RequestRecord /\ req \in [Requests -> RequestRecord]
  BY DEF AccountsInv, RequestsOK, Types
<1>2. /\ f \in RequestRecord /\ f.u = req[q].u /\ f.barred = req[q].barred /\ "failed" \in f.why
  BY <1>1 DEF RequestRecord
<1>3. req' = [req EXCEPT ![q] = r]
  BY <1>1 DEF GivesUp, Grants, Because
<1> HIDE DEF f
<1>4. /\ r \in RequestRecord /\ r.pc = "granted" /\ r.u = req[q].u /\ r.org = None
      /\ r.barred = req[q].barred /\ r.why # {} /\ ~r.healed
  BY <1>2, ResolvedFacts
<1> HIDE DEF r
<1>5. req'[q] = r /\ (\A p \in Requests \ {q} : req'[p] = req[p])
  BY <1>1, <1>3
<1>6. RequestOK(req[q])'
  BY <1>1, <1>4, <1>5 DEF RequestOK, Excused, rows
<1>7. RequestsOK'
  BY <1>5, <1>6, OneMoves DEF AccountsInv, rows
<1>8. req' \in [Requests -> RequestRecord]
  BY <1>1, <1>3, <1>4
<1>9. QED
  BY <1>7, <1>8, RowsRest DEF AccountsInv, Types, RowsRefer, rows

\* A session's choice that is granted was his, or could not be checked.
LEMMA ReadActiveKeeps ==
    ASSUME AccountsInv, NEW q \in Requests, ReadActive(q)
    PROVE  AccountsInv'
<1>1. UNCHANGED <<users, rows, session, ensured, locked, del, moves, begun>> /\ req[q].pc = "active"
  BY DEF ReadActive, At
<1>2. RequestOK(req[q]) /\ req[q] \in RequestRecord /\ Types
  BY DEF AccountsInv, RequestsOK, Types
<1>3. /\ req[q].u \in Users /\ OrgsOf(members, req[q].u) \subseteq req[q].seen /\ ~req[q].healed
      /\ req[q].org = None
      /\ ~(req[q].barred /\ req[q].u \in users) /\ req[q].active \in Users \cup {None}
  BY <1>1, <1>2 DEF RequestOK, RequestRecord
<1> DEFINE o == req[q].active
<1>4. CASE Goes(q, "default")
  <2>1. /\ req' \in [Requests -> RequestRecord]
        /\ \A p \in Requests \ {q} : req'[p] = req[p]
        /\ req'[q].pc = "default"
        /\ req'[q].u = req[q].u /\ req'[q].healed = req[q].healed /\ req'[q].barred = req[q].barred
        /\ req'[q].why = req[q].why /\ req'[q].seen = req[q].seen /\ req'[q].org = req[q].org
    BY <1>2, <1>4, GoFacts
  <2>2. RequestOK(req[q])'
    BY <1>1, <1>3, <2>1 DEF RequestOK, rows
  <2>3. RequestsOK'
    BY <1>1, <2>1, <2>2, OneMoves DEF AccountsInv, rows
  <2>4. QED
    BY <1>1, <2>1, <2>3, RowsRest DEF AccountsInv, Types, RowsRefer, rows
<1>5. ASSUME NEW k \in BOOLEAN, o # None, k \/ IsMember(o, User(q)),
             \/ req' = [Grants(req, q, o) EXCEPT ![q].kept = k]
             \/ req' = Grants(req, q, o) /\ k = req[q].kept
      PROVE  AccountsInv'
  <2>1. /\ req' \in [Requests -> RequestRecord]
        /\ \A p \in Requests \ {q} : req'[p] = req[p]
        /\ req'[q].pc = "granted" /\ req'[q].org = o /\ req'[q].kept = k
        /\ req'[q].u = req[q].u /\ req'[q].barred = req[q].barred /\ ~req'[q].healed
        /\ req'[q].seen = req[q].seen \cap {o}
    BY <1>2, <1>3, <1>5, GrantFacts
  <2>2. k \/ o \in req[q].seen
    BY <1>3, <1>5 DEF IsMember, OrgsOf, User
  <2>3. RequestOK(req[q])'
    BY <1>1, <1>3, <1>5, <2>1, <2>2 DEF RequestOK, rows
  <2>4. RequestsOK'
    BY <1>1, <2>1, <2>3, OneMoves DEF AccountsInv, rows
  <2>5. QED
    BY <1>1, <2>1, <2>4, RowsRest DEF AccountsInv, Types, RowsRefer, rows
<1>6. CASE o # None /\ IsMember(o, User(q)) /\ req' = Grants(req, q, o)
  <2>1. req[q].kept \in BOOLEAN
    BY <1>2 DEF RequestRecord
  <2>2. QED
    BY <1>5, <1>6, <2>1
<1>7. CASE o # None /\ req' = [Grants(req, q, o) EXCEPT ![q].kept = TRUE]
  BY <1>5, <1>7
<1>8. CASE GivesUp(q)
  BY <1>1, <1>8, GivingUpKeeps
<1>9. QED
  BY <1>4, <1>6, <1>7, <1>8 DEF ReadActive

\* The oldest membership is one he has; who has none has tried to be healed.
LEMMA DefaultKeeps ==
    ASSUME AccountsInv, NEW q \in Requests, Default(q)
    PROVE  AccountsInv'
<1> DEFINE u == User(q)
           o == OldestMembership(u)
<1>1. UNCHANGED <<users, rows, locked, del, moves, begun>> /\ req[q].pc = "default"
  BY DEF Default, At
<1>2. RequestOK(req[q]) /\ req[q] \in RequestRecord /\ Types
  BY DEF AccountsInv, RequestsOK, Types
<1>3. /\ u \in Users /\ req[q].u = u /\ OrgsOf(members, u) \subseteq req[q].seen
      /\ ~(req[q].barred /\ u \in users)
      /\ req[q].healed => Settled(req[q])
      /\ req[q].org = None
  BY <1>1, <1>2 DEF RequestOK, User
<1>4. o \in OrgsOf(members, u) \cup {None} /\ o \in Users \cup {None}
  BY <1>2, <1>3, OldestMembershipIs DEF OrgsOf
<1>5. CASE /\ ensured' = ensured \ {u}
           /\ req' = [req EXCEPT ![q].pc = "ensure", ![q].healed = TRUE, ![q].why = {}]
           /\ UNCHANGED session
  <2>1. [req[q] EXCEPT !.pc = "ensure", !.healed = TRUE, !.why = {}] \in RequestRecord
    BY <1>2 DEF RequestRecord
  <2>2. req' = [req EXCEPT ![q] = [req[q] EXCEPT !.pc = "ensure", !.healed = TRUE, !.why = {}]]
    BY <1>2, <1>5 DEF Types
  <2>3. /\ req' \in [Requests -> RequestRecord]
        /\ \A p \in Requests \ {q} : req'[p] = req[p]
        /\ req'[q] = [req[q] EXCEPT !.pc = "ensure", !.healed = TRUE, !.why = {}]
    BY <1>2, <2>1, <2>2 DEF Types
  <2>4. /\ req'[q].pc = "ensure" /\ req'[q].u = u /\ req'[q].seen = req[q].seen
        /\ req'[q].barred = req[q].barred /\ req'[q].org = None
    BY <1>2, <1>3, <2>3 DEF RequestRecord
  <2>5. RequestOK(req[q])'
    <3>1. req'[q].u \notin ensured'
      BY <1>5, <2>4
    <3>2. UNCHANGED <<users, members, locked>>
      BY <1>1 DEF rows
    <3> HIDE DEF u
    <3>3. QED
      BY <1>3, <2>4, <3>1, <3>2 DEF RequestOK
  <2>6. RequestsOK'
    BY <1>1, <1>5, <2>3, <2>5, OneMoves DEF AccountsInv, rows
  <2>7. Types'
    BY <1>1, <1>5, <2>3 DEF AccountsInv, Types, rows
  <2>8. QED
    BY <1>1, <1>5, <2>6, <2>7, RowsRest DEF AccountsInv, RowsRefer
<1>6. CASE /\ req' = Grants(req, q, o) /\ UNCHANGED ensured
           /\ o # None \/ req[q].healed
           /\ session' \in {session, [session EXCEPT ![u].active = o]}
  <2>1. req[q].kept \in BOOLEAN
    BY <1>2 DEF RequestRecord
  <2> HIDE DEF o, u
  <2>2. /\ req' \in [Requests -> RequestRecord]
        /\ \A p \in Requests \ {q} : req'[p] = req[p]
        /\ req'[q].pc = "granted" /\ req'[q].org = o /\ req'[q].kept = req[q].kept
        /\ req'[q].u = req[q].u /\ req'[q].barred = req[q].barred /\ ~req'[q].healed
        /\ req'[q].seen = req[q].seen \cap {o}
        /\ o = None => req'[q].why = req[q].why
    BY <1>2, <1>4, <1>6, <2>1, GrantFacts
  <2>3. o # None => o \in req'[q].seen
    BY <1>3, <1>4, <2>2
  <2>4. RequestOK(req[q])'
    <3>1. o = None => OrgsOf(members, u) = {}
      BY <1>2, <1>3, OldestMembershipIs DEF o
    <3>2. UNCHANGED <<users, members, locked>>
      BY <1>1 DEF rows
    <3>3. o = None => Excused(req[q])'
      BY <1>3, <1>6, <2>2, <3>1, <3>2 DEF Settled, Excused
    <3>4. QED
      BY <1>3, <1>4, <2>2, <2>3, <3>2, <3>3 DEF RequestOK
  <2>5. RequestsOK'
    BY <1>1, <1>6, <2>2, <2>4, OneMoves DEF AccountsInv, rows
  <2>6. /\ session' \in [Users -> SessionRecord]
        /\ \A v \in Users : session'[v].on = session[v].on
    BY <1>3, <1>4, <1>6 DEF AccountsInv, Types, SessionRecord
  <2>7. Types'
    BY <1>1, <1>6, <2>2, <2>6 DEF AccountsInv, Types, rows
  <2>8. QED
    BY <1>1, <2>5, <2>6, <2>7, RowsRest DEF AccountsInv, RowsRefer
<1>7. CASE GivesUp(q) /\ UNCHANGED <<session, ensured>>
  BY <1>1, <1>7, GivingUpKeeps
<1>8. QED
  BY <1>5, <1>6, <1>7 DEF Default

LEMMA SwitchKeeps ==
    ASSUME AccountsInv, NEW q \in Requests, NEW o \in Users, Switch(q, o)
    PROVE  AccountsInv'
<1>1. /\ UNCHANGED <<users, rows, ensured, locked, del, moves, begun>> /\ req[q].pc = "granted"
      /\ Ends(q) /\ session' \in {session, [session EXCEPT ![User(q)].active = o]}
  BY DEF Switch, Serves, At
<1>2. User(q) \in Users
  BY <1>1 DEF AccountsInv, RequestsOK, RequestOK, User
<1>3. req' \in [Requests -> RequestRecord] /\ RequestsOK'
  BY <1>1, EndMoves DEF rows
<1>4. /\ session' \in [Users -> SessionRecord]
      /\ \A v \in Users : session'[v].on = session[v].on
  BY <1>1, <1>2 DEF AccountsInv, Types, SessionRecord
<1>5. QED
  BY <1>1, <1>3, <1>4, RowsRest DEF AccountsInv, Types, RowsRefer, rows

LEMMA ReturnKeeps ==
    ASSUME AccountsInv, NEW q \in Requests, Return(q)
    PROVE  AccountsInv'
<1>1. UNCHANGED <<users, rows, session, ensured, locked, del, moves, begun>> /\ Ends(q)
  BY DEF Return
<1>2. req' \in [Requests -> RequestRecord] /\ RequestsOK'
  BY <1>1, EndMoves DEF rows
<1>3. QED
  BY <1>1, <1>2, RowsRest DEF AccountsInv, Types, RowsRefer, rows

-----------------------------------------------------------------------------
\* Staff lock and unlock.

LEMMA RevocationFacts ==
    ASSUME Types, NEW u \in Users, RevokeUserSessions(u)
    PROVE  /\ session' \in [Users -> SessionRecord]
           /\ \A v \in Users : session'[v].on => session[v].on
<1>1. NoSession \in SessionRecord /\ ~NoSession.on
  BY DEF SessionRecord, NoSession
<1>2. session \in [Users -> SessionRecord]
  BY DEF Types
<1>3. CASE session' = session
  BY <1>2, <1>3
<1>4. CASE session' = [session EXCEPT ![u] = NoSession]
  BY <1>1, <1>2, <1>4
<1>5. QED
  BY <1>3, <1>4 DEF RevokeUserSessions

LEMMA LockUserKeeps ==
    ASSUME AccountsInv, NEW u \in Users, LockUser(u)
    PROVE  AccountsInv'
<1>1. /\ UNCHANGED <<users, rows, ensured, req, del, moves, begun>>
      /\ u \in users /\ locked' = locked \cup {u}
  BY DEF LockUser
<1>2. /\ session' \in [Users -> SessionRecord]
      /\ \A v \in Users : session'[v].on => session[v].on
  BY RevocationFacts DEF LockUser, AccountsInv
<1>3. RequestsOK'
  BY <1>1 DEF AccountsInv, RequestsOK, RequestOK, Settled, Excused, rows
<1>4. QED
  BY <1>1, <1>2, <1>3, RowsRest DEF AccountsInv, Types, RowsRefer, rows

LEMMA UnlockUserKeeps ==
    ASSUME AccountsInv, NEW u \in Users, UnlockUser(u)
    PROVE  AccountsInv'
<1>1. /\ UNCHANGED <<users, rows, session, ensured, del, moves, begun>> /\ locked' = locked \ {u}
      /\ req' = [q \in Requests |-> [req[q] EXCEPT !.barred = @ /\ req[q].u # u]]
  BY DEF UnlockUser
<1>2. ASSUME NEW q \in Requests PROVE req'[q] \in RequestRecord /\ RequestOK(req[q])'
  <2>1. req[q] \in RequestRecord /\ RequestOK(req[q])
    BY DEF AccountsInv, RequestsOK, Types
  <2>2. PICK b \in BOOLEAN : b = (req[q].barred /\ req[q].u # u)
    OBVIOUS
  <2>3. req'[q] = [req[q] EXCEPT !.barred = b]
    BY <1>1, <2>1, <2>2 DEF RequestRecord
  <2>4. req'[q] \in RequestRecord
    BY <2>1, <2>3 DEF RequestRecord
  <2>5. /\ req'[q].pc = req[q].pc /\ req'[q].u = req[q].u /\ req'[q].seen = req[q].seen
        /\ req'[q].healed = req[q].healed /\ req'[q].why = req[q].why /\ req'[q].org = req[q].org
        /\ req'[q].kept = req[q].kept /\ req'[q].barred = b
    BY <2>1, <2>3 DEF RequestRecord
  <2>6. req'[q].barred => req[q].barred /\ req[q].u # u
    BY <2>2, <2>5
  <2>7. /\ req'[q].barred /\ req'[q].u \in users => req'[q].u \in locked'
        /\ req'[q].barred /\ req'[q].u \in users => req'[q].pc = "lock"
    BY <1>1, <2>1, <2>5, <2>6 DEF RequestOK
  <2>8. RequestOK(req[q])'
    BY <1>1, <2>1, <2>5, <2>7 DEF RequestOK, Settled, Excused, rows
  <2>9. QED
    BY <2>4, <2>8
<1>3. RequestsOK' /\ req' \in [Requests -> RequestRecord]
  BY <1>1, <1>2 DEF RequestsOK
<1>4. QED
  BY <1>1, <1>3, RowsRest DEF AccountsInv, Types, RowsRefer, rows


-----------------------------------------------------------------------------
\* Memberships change: requests note it, deletions are no longer alone.

\* What a request notes of a change, and that it stays as it is else.
LEMMA NotingFacts ==
    ASSUME NEW r \in RequestRecord, NEW ms
    PROVE  /\ Noting(r, ms) \in RequestRecord
           /\ Noting(r, ms).pc = r.pc /\ Noting(r, ms).u = r.u /\ Noting(r, ms).healed = r.healed
           /\ Noting(r, ms).org = r.org /\ Noting(r, ms).kept = r.kept /\ Noting(r, ms).barred = r.barred
           /\ r.seen \subseteq Noting(r, ms).seen /\ r.why \subseteq Noting(r, ms).why
           /\ r.pc \notin {"idle", "granted"} =>
                 /\ OrgsOf(ms, r.u) \subseteq Noting(r, ms).seen
                 /\ OrgsOf(members, r.u) # {} => OrgsOf(ms, r.u) # {} \/ Noting(r, ms).why # {}
<1> DEFINE now == OrgsOf(ms, r.u)
           saw == [r EXCEPT !.seen = @ \cup now]
           sad == [saw EXCEPT !.why = @ \cup {"lost"}]
<1>1. now \subseteq Users
  BY DEF OrgsOf
<1>2. Noting(r, ms) = IF r.pc \in {"idle", "granted"} THEN r
                      ELSE IF now = {} /\ OrgsOf(members, r.u) # {} THEN sad ELSE saw
  BY DEF Noting, Because
<1> HIDE DEF now
<1>3. /\ saw \in RequestRecord
      /\ saw.pc = r.pc /\ saw.u = r.u /\ saw.healed = r.healed /\ saw.org = r.org /\ saw.kept = r.kept
      /\ saw.barred = r.barred /\ saw.seen = r.seen \cup now /\ saw.why = r.why
  BY <1>1 DEF RequestRecord
<1> HIDE DEF saw
<1>4. /\ sad \in RequestRecord
      /\ sad.pc = r.pc /\ sad.u = r.u /\ sad.healed = r.healed /\ sad.org = r.org /\ sad.kept = r.kept
      /\ sad.barred = r.barred /\ sad.seen = r.seen \cup now /\ sad.why = r.why \cup {"lost"}
  BY <1>3 DEF RequestRecord
<1> HIDE DEF sad
<1>5. QED
  BY <1>2, <1>3, <1>4 DEF now

LEMMA RequestsSee ==
    ASSUME Types, RequestsOK, NEW rq \in [Requests -> RequestRecord],
           req' = [p \in Requests |-> Noting(rq[p], members')],
           users' \subseteq users, \A u \in locked : u \in users' => u \in locked',
           \A u \in ensured' : u \in ensured \/ OrgsOf(members', u) # {},
           \A p \in Requests :
              \/ RequestOK(rq[p])
              \/ /\ rq[p].pc \in {"default", "active"} /\ rq[p].u \in Users /\ rq[p].org = None
                 /\ OrgsOf(members', rq[p].u) # {}
                 /\ ~(rq[p].barred /\ rq[p].u \in users)
                 /\ rq[p].pc = "active" => ~rq[p].healed
    PROVE  req' \in [Requests -> RequestRecord] /\ RequestsOK'
<1>1. ASSUME NEW p \in Requests PROVE req'[p] \in RequestRecord /\ RequestOK(req[p])'
  <2>1. PICK r \in RequestRecord : r = rq[p]
    OBVIOUS
  <2>2. PICK n : n = Noting(r, members')
    OBVIOUS
  <2>3. PICK now : now = OrgsOf(members', r.u)
    OBVIOUS
  <2>4. req'[p] = n
    BY <2>1, <2>2
  <2>5. /\ n \in RequestRecord
        /\ n.pc = r.pc /\ n.u = r.u /\ n.healed = r.healed
        /\ n.org = r.org /\ n.kept = r.kept /\ n.barred = r.barred
        /\ r.seen \subseteq n.seen /\ r.why \subseteq n.why
        /\ r.pc \notin {"idle", "granted"} =>
              now \subseteq n.seen /\ (OrgsOf(members, r.u) # {} => now # {} \/ n.why # {})
    BY <2>1, <2>2, <2>3, NotingFacts
  <2>6. OrgsOf(members, n.u)' = now
    BY <2>3, <2>5 DEF OrgsOf, Belongs
  <2>7. r.u \in ensured' => r.u \in ensured \/ now # {}
    BY <2>3
  <2>8. Settled(n)' <=> now # {} \/ n.why # {} \/ n.u \notin users'
    BY <2>6 DEF Settled, Excused, OrgsOf, Belongs
  <2>9. CASE RequestOK(r)
    <3>1. Excused(r) => n.why # {} \/ n.u \notin users'
      BY <2>5 DEF Excused
    <3>2. r.pc \notin {"idle", "granted"} /\ Settled(r) => Settled(n)'
      BY <2>5, <2>8, <3>1 DEF Settled
    <3>3. r.healed => r.pc \in {"ensure", "create", "default", "granted", "idle"}
      BY <2>9 DEF RequestOK, RequestRecord
    <3>4. n.healed /\ (n.pc = "default" \/ (n.pc \in {"ensure", "create"} /\ n.u \in ensured'))
             => Settled(n)'
      BY <2>5, <2>7, <2>8, <2>9, <3>2 DEF RequestOK
    <3>5. n.pc = "granted" /\ n.org = None => Excused(n)'
      BY <2>5, <2>9, <3>1 DEF RequestOK, Excused
    <3>6. OrgsOf(members, n.u)' \subseteq n.seen \/ n.pc \in {"idle", "granted"}
      BY <2>5, <2>6
    <3>7. n.barred /\ n.u \in users' => n.u \in locked' /\ n.pc = "lock"
      BY <2>5, <2>9 DEF RequestOK
    <3>8. RequestOK(n)'
      BY <2>5, <2>9, <3>4, <3>5, <3>6, <3>7 DEF RequestOK, Excused
    <3>9. QED
      BY <2>4, <2>5, <3>8
  <2>10. CASE /\ r.pc \in {"default", "active"} /\ r.u \in Users /\ r.org = None /\ now # {}
              /\ ~(r.barred /\ r.u \in users)
              /\ r.pc = "active" => ~r.healed
    <3>1. RequestOK(n)'
      BY <2>5, <2>6, <2>8, <2>10 DEF RequestOK
    <3>2. QED
      BY <2>4, <2>5, <3>1
  <2>11. QED
    BY <2>1, <2>3, <2>9, <2>10
<1>2. QED
  BY <1>1 DEF RequestsOK

LEMMA DeletionsDisturbed ==
    ASSUME Types, HeirsOK, NEW ds \in [Users -> DeletionRecord],
           del' = [u \in Users |-> IF ds[u].pc = "none" THEN ds[u] ELSE [ds[u] EXCEPT !.quiet = FALSE]],
           \A u \in Users : ds[u] = del[u] \/ ds[u] = NoDel,
           \A w, o, v \in Users : <<o, v>> \in ds[w].heirs => IsMember(o, v)'
    PROVE  del' \in [Users -> DeletionRecord] /\ HeirsOK' /\ QuietDecide'
<1>1. ASSUME NEW u \in Users
      PROVE  /\ del'[u] \in DeletionRecord
             /\ del'[u].pc = ds[u].pc /\ del'[u].org = ds[u].org /\ del'[u].heir = ds[u].heir
             /\ del'[u].heirs = ds[u].heirs /\ del'[u].drops = ds[u].drops
             /\ del'[u].pc # "none" => ~del'[u].quiet
  <2>1. PICK d \in DeletionRecord : d = ds[u]
    OBVIOUS
  <2>2. del'[u] = IF d.pc = "none" THEN d ELSE [d EXCEPT !.quiet = FALSE]
    BY <2>1
  <2>3. QED
    BY <2>1, <2>2 DEF DeletionRecord
<1>2. \A u \in Users : ds[u].heirs \subseteq del[u].heirs /\ ds[u].drops \subseteq del[u].drops
  BY DEF NoDel
<1>3. \A u \in Users : ds[u].pc \in {"promote", "drop"} => ds[u] = del[u]
  BY DEF NoDel
<1>4. HeirsOK'
  <2> SUFFICES ASSUME NEW u \in Users
               PROVE  /\ del'[u].pc \in {"promote", "drop"} => del'[u].org \in Users
                      /\ del'[u].pc = "promote" => del'[u].heir \in Users \ {u}
                      /\ \A o, v \in Users : <<o, v>> \in del'[u].heirs =>
                            v # u /\ IsMember(o, v)' /\ \A w \in Users \ {u} : o \notin del'[w].drops
    BY DEF HeirsOK
  <2>1. /\ del'[u].pc \in {"promote", "drop"} => del'[u].org \in Users
        /\ del'[u].pc = "promote" => del'[u].heir \in Users \ {u}
    BY <1>1, <1>3 DEF HeirsOK
  <2>2. ASSUME NEW o \in Users, NEW v \in Users, <<o, v>> \in del'[u].heirs
        PROVE  v # u /\ IsMember(o, v)' /\ \A w \in Users \ {u} : o \notin del'[w].drops
    <3>1. <<o, v>> \in ds[u].heirs /\ <<o, v>> \in del[u].heirs
      BY <1>1, <1>2, <2>2
    <3>2. v # u /\ \A w \in Users \ {u} : o \notin del[w].drops
      BY <3>1 DEF HeirsOK
    <3>3. IsMember(o, v)'
      BY <3>1
    <3>4. QED
      BY <1>1, <1>2, <3>2, <3>3
  <2>3. QED
    BY <2>1, <2>2
<1>5. QuietDecide'
  BY <1>1 DEF QuietDecide
<1>6. del' \in [Users -> DeletionRecord]
  BY <1>1
<1>7. QED
  BY <1>4, <1>5, <1>6

\* An error, a slug that is taken, or a new organisation of his own.
LEMMA CreateOrgKeeps ==
    ASSUME AccountsInv, NEW q \in Requests, CreateOrg(q)
    PROVE  AccountsInv'
<1> DEFINE u  == User(q)
           to == AfterEnsure(q)
           on == [req EXCEPT ![q].pc = to]
<1>1. UNCHANGED <<users, session, locked, moves, begun>> /\ req[q].pc = "create"
  BY DEF CreateOrg, At
<1>2. RequestOK(req[q]) /\ req[q] \in RequestRecord /\ Types
  BY DEF AccountsInv, RequestsOK, Types
<1>3. /\ u \in Users /\ req[q].u = u /\ OrgsOf(members, u) \subseteq req[q].seen
      /\ ~(req[q].barred /\ u \in users) /\ req[q].org = None
  BY <1>1, <1>2 DEF RequestOK, User
<1>4. /\ to \in {"default", "active"} /\ (to = "active" => ~req[q].healed)
  BY DEF AfterEnsure
<1>5. /\ on \in [Requests -> RequestRecord]
      /\ \A p \in Requests \ {q} : on[p] = req[p]
      /\ on[q].pc = to /\ on[q].u = u /\ on[q].healed = req[q].healed /\ on[q].barred = req[q].barred
      /\ on[q].org = None /\ on[q].why = req[q].why /\ on[q].seen = req[q].seen
  <2>1. [req[q] EXCEPT !.pc = to] \in RequestRecord
    BY <1>2, <1>4 DEF RequestRecord
  <2>2. req \in [Requests -> RequestRecord]
    BY <1>2 DEF Types
  <2> HIDE DEF to
  <2>3. on = [req EXCEPT ![q] = [req[q] EXCEPT !.pc = to]]
    BY <2>2
  <2>4. on[q] = [req[q] EXCEPT !.pc = to] /\ \A p \in Requests \ {q} : on[p] = req[p]
    BY <2>2, <2>3
  <2> HIDE DEF on
  <2>5. on \in [Requests -> RequestRecord]
    BY <2>1, <2>2, <2>4, <2>3
  <2>6. QED
    BY <1>2, <1>3, <2>4, <2>5 DEF RequestRecord
<1>6. CASE FailsTo(q, to) /\ UNCHANGED <<rows, ensured, del>>
  BY <1>1, <1>4, <1>6, FailureIsExcused
<1>7. CASE /\ req' = [p \in Requests |-> IF on[p].u = u THEN Because(on[p], "taken") ELSE on[p]]
           /\ ensured' = ensured \cup {u} /\ UNCHANGED <<rows, del>>
  <2> HIDE DEF to, on, u
  <2>1. ASSUME NEW p \in Requests PROVE req'[p] \in RequestRecord /\ RequestOK(req[p])'
    <3>1. PICK r \in RequestRecord : r = on[p]
      BY <1>5
    <3>2. PICK w \in SUBSET {"failed", "taken", "lost"} :
             w = IF r.u = u THEN r.why \cup {"taken"} ELSE r.why
      <4>1. r.why \in SUBSET {"failed", "taken", "lost"}
        BY DEF RequestRecord
      <4>2. QED
        BY <4>1
    <3>3. req'[p] = [r EXCEPT !.why = w]
      BY <1>7, <3>1, <3>2 DEF RequestRecord, Because
    <3>4. /\ req'[p] \in RequestRecord
          /\ req'[p].pc = r.pc /\ req'[p].u = r.u /\ req'[p].seen = r.seen
          /\ req'[p].healed = r.healed /\ req'[p].org = r.org
          /\ req'[p].kept = r.kept /\ req'[p].barred = r.barred /\ req'[p].why = w
      BY <3>3 DEF RequestRecord
    <3>5. (r.why # {} => w # {}) /\ (r.u = u => w # {})
      BY <3>2
    <3>6. CASE p # q
      <4>1. RequestOK(r)
        BY <1>5, <3>1, <3>6 DEF AccountsInv, RequestsOK
      <4>2. r.u \in ensured' => r.u \in ensured \/ w # {}
        BY <1>7, <3>5
      <4>3. QED
        BY <1>1, <1>7, <3>4, <3>5, <4>1, <4>2 DEF RequestOK, Settled, Excused, rows
    <3>7. CASE p = q
      <4>1. w # {} /\ r.pc = to /\ r.u = u /\ r.seen = req[q].seen /\ r.org = None
              /\ r.barred = req[q].barred /\ r.healed = req[q].healed
        BY <1>3, <1>5, <3>1, <3>5, <3>7
      <4>2. /\ req'[p].pc \in {"default", "active"} /\ req'[p].u = u
            /\ req'[p].pc = "active" => ~req'[p].healed
            /\ req'[p].seen = req[q].seen /\ req'[p].org = None
        BY <1>4, <3>4, <4>1
      <4>3. Excused(req[p])'
        BY <3>4, <4>1 DEF Excused
      <4>4. users' = users /\ members' = members
        BY <1>1, <1>7 DEF rows
      <4>5. ~(req'[p].barred /\ req'[p].u \in users')
        BY <1>3, <3>4, <4>1, <4>4
      <4>6. req'[p].u \in Users /\ OrgsOf(members', req'[p].u) \subseteq req'[p].seen
        BY <1>3, <4>2, <4>4
      <4>7. QED
        BY <3>4, <4>2, <4>3, <4>5, <4>6 DEF RequestOK, Settled
    <3>8. QED
      BY <3>4, <3>6, <3>7
  <2>2. req' \in [Requests -> RequestRecord] /\ RequestsOK'
    BY <1>7, <2>1 DEF RequestsOK
  <2>3. Types'
    BY <1>1, <1>3, <1>7, <2>2 DEF AccountsInv, Types, rows
  <2>4. QED
    BY <1>1, <1>7, <2>2, <2>3, RowsRest DEF AccountsInv, RowsRefer
<1>8. CASE /\ u \in users
           /\ Reorganise(orgs \cup {u}, Append(members, <<u, u>>), owners \cup {<<u, u>>}, on, del)
           /\ ensured' = ensured \cup {u}
  <2> HIDE DEF to, on, u
  <2>1. /\ orgs' = orgs \cup {u} /\ members' = Append(members, <<u, u>>)
        /\ owners' = owners \cup {<<u, u>>}
        /\ del' = [v \in Users |-> IF del[v].pc = "none" THEN del[v] ELSE
                     [del[v] EXCEPT !.quiet = FALSE]]
    BY <1>8 DEF Reorganise
  <2>2. /\ members' \in Seq(Pairs)
        /\ Range(members') = Range(members) \cup {<<u, u>>}
    BY <1>2, <1>3, <2>1, JoinIs DEF Types
  <2>3. \A o, v \in Users : IsMember(o, v)' <=> (IsMember(o, v) \/ <<o, v>> = <<u, u>>)
    BY <2>2, BelongsIs DEF IsMember
  <2>4. u \in OrgsOf(members', u)
    BY <1>3, <2>2, BelongsIs DEF OrgsOf
  <2>5. PICK rq \in [Requests -> RequestRecord] : rq = on
    BY <1>5
  <2>6. req' = [p \in Requests |-> Noting(rq[p], members')]
    BY <1>8, <2>5 DEF Reorganise
  <2>7. \A p \in Requests \ {q} : RequestOK(rq[p])
    BY <1>5, <2>5 DEF AccountsInv, RequestsOK
  <2>8. /\ rq[q].pc \in {"default", "active"} /\ rq[q].u \in Users /\ rq[q].org = None
        /\ OrgsOf(members', rq[q].u) # {}
        /\ ~(rq[q].barred /\ rq[q].u \in users)
        /\ rq[q].pc = "active" => ~rq[q].healed
    BY <1>3, <1>4, <1>5, <2>4, <2>5
  <2>9. req' \in [Requests -> RequestRecord] /\ RequestsOK'
    <3>1. \A v \in ensured' : v \in ensured \/ OrgsOf(members', v) # {}
      BY <1>8, <2>4
    <3>2. users' \subseteq users /\ \A v \in locked : v \in users' => v \in locked'
      BY <1>1
    <3>3. QED
      BY <1>2, <2>6, <2>7, <2>8, <3>1, <3>2, RequestsSee DEF AccountsInv
  <2>10. del' \in [Users -> DeletionRecord] /\ HeirsOK' /\ QuietDecide'
    <3>1. PICK ds \in [Users -> DeletionRecord] : ds = del
      BY <1>2 DEF Types
    <3>2. \A w, o, v \in Users : <<o, v>> \in ds[w].heirs => IsMember(o, v)'
      BY <2>3, <3>1 DEF AccountsInv, HeirsOK
    <3>3. QED
      BY <1>2, <2>1, <3>1, <3>2, DeletionsDisturbed DEF AccountsInv
  <2>11. RowsRefer'
    <3>1. \A o, v \in Users : IsMember(o, v)' => o \in orgs' /\ v \in users'
      BY <1>1, <1>8, <2>1, <2>3 DEF AccountsInv, RowsRefer
    <3>2. owners' \subseteq Range(members')
      BY <2>1, <2>2 DEF AccountsInv, RowsRefer
    <3>3. QED
      BY <1>1, <3>1, <3>2 DEF AccountsInv, RowsRefer
  <2>12. Types'
    BY <1>1, <1>3, <1>8, <2>1, <2>2, <2>9, <2>10 DEF AccountsInv, Types
  <2>13. QED
    BY <2>9, <2>10, <2>11, <2>12 DEF AccountsInv
<1>9. QED
  BY <1>6, <1>7, <1>8 DEF CreateOrg


\* What a membership's change leaves to be shown: the rows, and that nobody who is
\* to inherit has gone.
LEMMA MembershipsMove ==
    ASSUME AccountsInv, NEW rq \in [Requests -> RequestRecord], NEW ds \in [Users -> DeletionRecord],
           \A p \in Requests : RequestOK(rq[p]),
           \A u \in Users : ds[u] = del[u] \/ ds[u] = NoDel,
           req' = [p \in Requests |-> Noting(rq[p], members')],
           del' = [u \in Users |-> IF ds[u].pc = "none" THEN ds[u] ELSE [ds[u] EXCEPT !.quiet = FALSE]],
           members' \in Seq(Pairs), RowsRefer', orgs' \subseteq Users,
           users' \subseteq users, \A u \in locked : u \in users' => u \in locked',
           ensured' \subseteq ensured, session' \in [Users -> SessionRecord],
           moves' \in 0 .. MaxMoves, begun' \in 0 .. MaxBegun,
           \A w, o, v \in Users : <<o, v>> \in ds[w].heirs => IsMember(o, v)'
    PROVE  AccountsInv'
<1>1. req' \in [Requests -> RequestRecord] /\ RequestsOK'
  BY RequestsSee DEF AccountsInv
<1>2. del' \in [Users -> DeletionRecord] /\ HeirsOK' /\ QuietDecide'
  BY DeletionsDisturbed DEF AccountsInv
<1>3. Types'
  BY <1>1, <1>2 DEF AccountsInv, Types
<1>4. QED
  BY <1>1, <1>2, <1>3 DEF AccountsInv

\* Limen's routes: whoever is to inherit an organisation is held in it.
LEMMA MoveKeeps ==
    ASSUME AccountsInv, NEW q \in Requests, Move(q)
    PROVE  AccountsInv'
<1>1. Types /\ RowsRefer /\ HeirsOK /\ req \in [Requests -> RequestRecord]
  BY DEF AccountsInv, Types
<1>2. PICK o \in orgs, v \in users :
        /\ Serves(q, o) /\ moves < MaxMoves
        /\ \/ /\ User(q) = v /\ ~IsMember(o, User(q))
              /\ Reorganise(orgs, Append(members, <<o, User(q)>>), owners, [req EXCEPT ![q] = NoReq], del)
           \/ /\ IsMember(o, v)
              /\ Reorganise(orgs, members, owners \cup {<<o, v>>}, [req EXCEPT ![q] = NoReq], del)
           \/ /\ ~Inherits(o, v)
              /\ Reorganise(orgs, Without(members, {<<o, v>>}), owners \ {<<o, v>>},
                            [req EXCEPT ![q] = NoReq], del)
        /\ moves' = moves + 1
        /\ UNCHANGED <<users, session, ensured, locked, begun>>
  BY DEF Move
<1>3. o \in Users /\ v \in Users
  BY <1>1 DEF Types
<1>4. PICK rq \in [Requests -> RequestRecord] : rq = [req EXCEPT ![q] = NoReq]
  BY <1>1, NoReqOK
<1>5. \A p \in Requests : RequestOK(rq[p])
  BY <1>1, <1>4, NoReqOK DEF AccountsInv, RequestsOK
<1>6. PICK ds \in [Users -> DeletionRecord] : ds = del
  BY <1>1 DEF Types
<1>7. /\ orgs' = orgs
      /\ req' = [p \in Requests |-> Noting(rq[p], members')]
      /\ del' = [u \in Users |-> IF ds[u].pc = "none" THEN ds[u] ELSE [ds[u] EXCEPT !.quiet = FALSE]]
  BY <1>2, <1>4, <1>6 DEF Reorganise
<1>8. moves' \in 0 .. MaxMoves /\ begun' \in 0 .. MaxBegun
  BY <1>1, <1>2, AccountsAssumption DEF Types
<1>9. ASSUME members' \in Seq(Pairs), owners' \subseteq Range(members'),
             \A x, y \in Users : IsMember(x, y)' => IsMember(x, y) \/ <<x, y>> = <<o, v>>,
             \A w, x, y \in Users : <<x, y>> \in del[w].heirs => IsMember(x, y)'
      PROVE  AccountsInv'
  <2>1. \A x, y \in Users : IsMember(x, y)' => x \in orgs' /\ y \in users'
    BY <1>1, <1>2, <1>7, <1>9 DEF RowsRefer
  <2>2. RowsRefer'
    BY <1>1, <1>2, <1>9, <2>1 DEF RowsRefer
  <2>3. QED
    BY <1>1, <1>2, <1>5, <1>6, <1>7, <1>8, <1>9, <2>2, MembershipsMove DEF Types
<1>10. CASE /\ User(q) = v
            /\ Reorganise(orgs, Append(members, <<o, User(q)>>), owners, [req EXCEPT ![q] = NoReq], del)
  <2>1. members' = Append(members, <<o, v>>) /\ owners' = owners
    BY <1>10 DEF Reorganise
  <2>2. members' \in Seq(Pairs) /\ Range(members') = Range(members) \cup {<<o, v>>}
    BY <1>1, <1>3, <2>1, JoinIs DEF Types
  <2>3. owners' \subseteq Range(members')
    BY <1>1, <2>1, <2>2 DEF RowsRefer
  <2>4. \A x, y \in Users : IsMember(x, y)' <=> (IsMember(x, y) \/ <<x, y>> = <<o, v>>)
    BY <2>2, BelongsIs DEF IsMember
  <2>5. \A w, x, y \in Users : <<x, y>> \in del[w].heirs => IsMember(x, y)'
    BY <1>1, <2>4 DEF HeirsOK
  <2>6. QED
    BY <1>9, <2>2, <2>3, <2>4, <2>5
<1>11. CASE /\ IsMember(o, v)
            /\ Reorganise(orgs, members, owners \cup {<<o, v>>}, [req EXCEPT ![q] = NoReq], del)
  <2>1. members' = members /\ owners' = owners \cup {<<o, v>>}
    BY <1>11 DEF Reorganise
  <2>2. members' \in Seq(Pairs)
    BY <1>1, <2>1 DEF Types
  <2>3. owners' \subseteq Range(members')
    BY <1>1, <1>11, <2>1, BelongsIs DEF RowsRefer, IsMember
  <2>4. \A x, y \in Users : IsMember(x, y)' <=> IsMember(x, y)
    BY <2>1 DEF IsMember
  <2>5. \A w, x, y \in Users : <<x, y>> \in del[w].heirs => IsMember(x, y)'
    BY <1>1, <2>4 DEF HeirsOK
  <2>6. QED
    BY <1>9, <2>2, <2>3, <2>4, <2>5
<1>12. CASE /\ ~Inherits(o, v)
            /\ Reorganise(orgs, Without(members, {<<o, v>>}), owners \ {<<o, v>>},
                          [req EXCEPT ![q] = NoReq], del)
  <2>1. members' = Without(members, {<<o, v>>}) /\ owners' = owners \ {<<o, v>>}
    BY <1>12 DEF Reorganise
  <2>2. members' \in Seq(Pairs) /\ Range(members') = Range(members) \ {<<o, v>>}
    BY <1>1, <2>1, WithoutIs DEF Types
  <2>3. owners' \subseteq Range(members')
    BY <1>1, <2>1, <2>2 DEF RowsRefer
  <2>4. \A x, y \in Users : IsMember(x, y)' <=> (IsMember(x, y) /\ <<x, y>> # <<o, v>>)
    BY <2>2, BelongsIs DEF IsMember
  <2>5. ASSUME NEW w \in Users, NEW x \in Users, NEW y \in Users, <<x, y>> \in del[w].heirs
        PROVE  IsMember(x, y)'
    <3>1. y # w /\ IsMember(x, y)
      BY <1>1, <2>5 DEF HeirsOK
    <3>2. <<x, y>> # <<o, v>>
      BY <1>12, <2>5, <3>1 DEF Inherits
    <3>3. QED
      BY <2>4, <3>1, <3>2
  <2>6. QED
    BY <1>9, <2>2, <2>3, <2>4, <2>5
<1>13. QED
  BY <1>2, <1>10, <1>11, <1>12

\* The user goes with all that is his, and his organisations with all that are in them.
LEMMA CommitDeleteKeeps ==
    ASSUME AccountsInv, NEW u \in Users, CommitDelete(u)
    PROVE  AccountsInv'
<1> DEFINE Gone == {m \in Users \X Users : m[2] = u \/ m[1] \in del[u].drops}
<1>1. Types /\ RowsRefer /\ HeirsOK
  BY DEF AccountsInv
<1>2. /\ \A o \in Users : ~Inherits(o, u)
      /\ users' = users \ {u} /\ locked' = locked \ {u}
      /\ session' = [session EXCEPT ![u] = NoSession]
      /\ ensured' \subseteq ensured
      /\ Reorganise(orgs \ del[u].drops, Without(members, Gone),
                    (owners \cup del[u].heirs) \ Gone, req, [del EXCEPT ![u] = NoDel])
      /\ UNCHANGED <<moves, begun>>
  BY DEF CommitDelete
<1>3. PICK rq \in [Requests -> RequestRecord] : rq = req
  BY <1>1 DEF Types
<1>4. NoDel \in DeletionRecord
  BY DEF NoDel, DeletionRecord
<1>5. PICK ds \in [Users -> DeletionRecord] : ds = [del EXCEPT ![u] = NoDel]
  BY <1>1, <1>4 DEF Types
<1>6. ds[u] = NoDel /\ \A w \in Users \ {u} : ds[w] = del[w]
  BY <1>1, <1>5 DEF Types
<1>7. PICK gone : gone = Gone
  OBVIOUS
<1>8. \A o, v \in Users : <<o, v>> \in gone <=> (v = u \/ o \in del[u].drops)
  BY <1>7
<1> HIDE DEF Gone
<1>9. /\ orgs' = orgs \ del[u].drops /\ members' = Without(members, gone)
      /\ owners' = (owners \cup del[u].heirs) \ gone
      /\ req' = [p \in Requests |-> Noting(rq[p], members')]
      /\ del' = [w \in Users |-> IF ds[w].pc = "none" THEN ds[w] ELSE [ds[w] EXCEPT !.quiet = FALSE]]
  BY <1>2, <1>3, <1>5, <1>7 DEF Reorganise
<1>10. members' \in Seq(Pairs) /\ Range(members') = Range(members) \ gone
  BY <1>1, <1>9, WithoutIs DEF Types
<1>11. \A o, v \in Users : IsMember(o, v)' <=> (IsMember(o, v) /\ v # u /\ o \notin del[u].drops)
  BY <1>8, <1>10, BelongsIs DEF IsMember
<1>12. \A o, v \in Users : IsMember(o, v)' => o \in orgs' /\ v \in users'
  BY <1>1, <1>2, <1>9, <1>11 DEF RowsRefer
<1>13. owners' \subseteq Range(members')
  <2>1. del[u].heirs \subseteq Range(members)
    <3> SUFFICES ASSUME NEW h \in del[u].heirs PROVE h \in Range(members)
      OBVIOUS
    <3>1. h \in Pairs
      BY <1>1 DEF Types, DeletionRecord
    <3>2. PICK o \in Users, v \in Users : h = <<o, v>>
      BY <3>1 DEF Pairs
    <3>3. IsMember(o, v)
      BY <1>1, <3>2 DEF HeirsOK
    <3>4. QED
      BY <3>2, <3>3, BelongsIs DEF IsMember
  <2>2. QED
    BY <1>1, <1>9, <1>10, <2>1 DEF RowsRefer
<1>14. /\ session' \in [Users -> SessionRecord]
       /\ \A v \in Users : session'[v].on => v # u /\ session[v].on
  <2>1. NoSession \in SessionRecord /\ ~NoSession.on
    BY DEF NoSession, SessionRecord
  <2>2. QED
    BY <1>1, <1>2, <2>1 DEF Types
<1>15. RowsRefer'
  BY <1>1, <1>2, <1>12, <1>13, <1>14 DEF RowsRefer
<1>16. \A w, o, v \in Users : <<o, v>> \in ds[w].heirs => IsMember(o, v)'
  <2> SUFFICES ASSUME NEW w \in Users, NEW o \in Users, NEW v \in Users, <<o, v>> \in ds[w].heirs
               PROVE  IsMember(o, v)'
    OBVIOUS
  <2>1. w # u /\ <<o, v>> \in del[w].heirs
    BY <1>6 DEF NoDel
  <2>2. IsMember(o, v) /\ v # w /\ o \notin del[u].drops
    BY <1>1, <2>1 DEF HeirsOK
  <2>3. v # u
    BY <1>2, <2>1, <2>2 DEF Inherits
  <2>4. QED
    BY <1>11, <2>2, <2>3
<1>17. \A p \in Requests : RequestOK(rq[p])
  BY <1>3 DEF AccountsInv, RequestsOK
<1>18. orgs' \subseteq Users /\ moves' \in 0 .. MaxMoves /\ begun' \in 0 .. MaxBegun
  BY <1>1, <1>2, <1>9 DEF Types
<1>19. users' \subseteq users /\ \A v \in locked : v \in users' => v \in locked'
  BY <1>2
<1>20. \A w \in Users : ds[w] = del[w] \/ ds[w] = NoDel
  BY <1>6
<1>21. QED
  BY <1>2, <1>9, <1>10, <1>14, <1>15, <1>16, <1>17, <1>18, <1>19, <1>20, MembershipsMove

-----------------------------------------------------------------------------
\* One deletion moves and writes nothing yet.

LEMMA DeletionMoves ==
    ASSUME AccountsInv, NEW u \in Users, UNCHANGED <<users, rows>>,
           \A w \in Users \ {u} : del'[w] = del[w],
           del'[u].pc \in {"promote", "drop"} => del'[u].org \in Users,
           del'[u].pc = "promote" => del'[u].heir \in Users \ {u},
           \A o, v \in Users : <<o, v>> \in del'[u].heirs =>
              v # u /\ IsMember(o, v) /\ \A w \in Users \ {u} : o \notin del[w].drops,
           \A o \in del'[u].drops, w \in Users \ {u}, v \in Users : <<o, v>> \notin del[w].heirs,
           del'[u].pc # "none" /\ del'[u].quiet => Decided(u, del'[u])
    PROVE  HeirsOK' /\ QuietDecide'
<1>1. /\ \A o, v : OldestOther(o, v)' = OldestOther(o, v)
      /\ \A v : Owned(v)' = Owned(v)
      /\ \A o, v : OtherOwner(o, v)' = OtherOwner(o, v)
      /\ \A o, v : Sole(o, v)' = Sole(o, v)
      /\ \A o, v : IsMember(o, v)' = IsMember(o, v)
  BY DEF OldestOther, Owned, OtherOwner, Sole, IsMember, rows
<1>2. ASSUME NEW d, NEW w PROVE Decided(w, d)' <=> Decided(w, d)
  BY <1>1 DEF Decided
<1>3. QuietDecide'
  <2> SUFFICES ASSUME NEW w \in Users, del'[w].pc # "none", del'[w].quiet
               PROVE  Decided(w, del[w])'
    BY DEF QuietDecide
  <2>1. PICK d : d = del'[w]
    OBVIOUS
  <2>2. Decided(w, d)
    <3>1. CASE w = u
      BY <2>1, <3>1
    <3>2. CASE w # u
      BY <2>1, <3>2 DEF AccountsInv, QuietDecide
    <3>3. QED
      BY <3>1, <3>2
  <2>3. Decided(w, d)'
    BY <1>2, <2>2
  <2>4. QED
    BY <2>1, <2>3 DEF Decided
<1>4. HeirsOK'
  <2> SUFFICES ASSUME NEW w \in Users
               PROVE  /\ del'[w].pc \in {"promote", "drop"} => del'[w].org \in Users
                      /\ del'[w].pc = "promote" => del'[w].heir \in Users \ {w}
                      /\ \A o, v \in Users : <<o, v>> \in del'[w].heirs =>
                            v # w /\ IsMember(o, v) /\ \A x \in Users \ {w} : o \notin del'[x].drops
    BY <1>1 DEF HeirsOK
  <2>1. CASE w = u
    BY <2>1
  <2>2. CASE w # u
    BY <2>2 DEF AccountsInv, HeirsOK
  <2>3. QED
    BY <2>1, <2>2
<1>5. QED
  BY <1>3, <1>4


\* What a deletion under way leaves alone.
LEMMA DeletionRests ==
    ASSUME AccountsInv, UNCHANGED <<users, rows, ensured, locked, moves, begun>>,
           del' \in [Users -> DeletionRecord], HeirsOK', QuietDecide',
           req' \in [Requests -> RequestRecord], RequestsOK', session' \in [Users -> SessionRecord],
           \A v \in Users : session'[v].on => session[v].on
    PROVE  AccountsInv'
<1>1. Types'
  BY DEF AccountsInv, Types, rows
<1>2. RowsRefer'
  BY DEF AccountsInv, RowsRefer, rows, IsMember
<1>3. QED
  BY <1>1, <1>2 DEF AccountsInv

\* A deletion that has begun has decided nothing.
LEMMA BeginDeleteFacts ==
    ASSUME AccountsInv, NEW u \in Users, NEW own \in BOOLEAN, BeginDelete(u, own),
           UNCHANGED <<users, rows>>
    PROVE  /\ del' \in [Users -> DeletionRecord] /\ HeirsOK' /\ QuietDecide'
           /\ session' \in [Users -> SessionRecord]
           /\ \A v \in Users : session'[v].on => session[v].on
<1>1. /\ del \in [Users -> DeletionRecord] /\ del[u] = NoDel
      /\ del' = [del EXCEPT ![u].pc = "orgs", ![u].own = own, ![u].todo = Owned(u)]
  BY DEF BeginDelete, AccountsInv, Types
<1>2. PICK mine \in SUBSET Users : mine = Owned(u)
  BY DEF Owned, AccountsInv, Types
<1> DEFINE d == [NoDel EXCEPT !.pc = "orgs", !.own = own, !.todo = mine]
<1>3. /\ d \in DeletionRecord /\ d.pc = "orgs" /\ d.todo = mine /\ d.heirs = {} /\ d.drops = {}
  BY DEF NoDel, DeletionRecord
<1>4. del' = [del EXCEPT ![u] = d]
  BY <1>1, <1>2
<1> HIDE DEF d
<1>5. del'[u] = d /\ \A w \in Users \ {u} : del'[w] = del[w]
  BY <1>1, <1>4
<1>6. del' \in [Users -> DeletionRecord]
  BY <1>1, <1>3, <1>4
<1>7. Decided(u, d)
  BY <1>2, <1>3 DEF Decided
<1>8. HeirsOK' /\ QuietDecide'
  BY <1>3, <1>5, <1>7, DeletionMoves
<1>9. QED
  BY <1>6, <1>8, RevocationFacts DEF BeginDelete, AccountsInv

LEMMA DeleteUserKeeps ==
    ASSUME AccountsInv, NEW u \in Users, DeleteUser(u)
    PROVE  AccountsInv'
<1>1. BeginDelete(u, FALSE) /\ UNCHANGED <<users, rows, ensured, locked, req, moves, begun>>
  BY DEF DeleteUser
<1>2. /\ del' \in [Users -> DeletionRecord] /\ HeirsOK' /\ QuietDecide'
      /\ session' \in [Users -> SessionRecord]
      /\ \A v \in Users : session'[v].on => session[v].on
  BY <1>1, BeginDeleteFacts
<1>3. RequestsOK' /\ req' \in [Requests -> RequestRecord]
  BY <1>1 DEF AccountsInv, Types, RequestsOK, RequestOK, Settled, Excused, rows
<1>4. QED
  BY <1>1, <1>2, <1>3, DeletionRests

LEMMA DeleteOwnAccountKeeps ==
    ASSUME AccountsInv, NEW q \in Requests, DeleteOwnAccount(q)
    PROVE  AccountsInv'
<1>1. /\ req[q].pc = "granted" /\ BeginDelete(User(q), TRUE) /\ Ends(q)
      /\ UNCHANGED <<users, rows, ensured, locked, moves, begun>>
  BY DEF DeleteOwnAccount, At
<1>2. User(q) \in Users
  BY <1>1 DEF AccountsInv, RequestsOK, RequestOK, User
<1>3. /\ del' \in [Users -> DeletionRecord] /\ HeirsOK' /\ QuietDecide'
      /\ session' \in [Users -> SessionRecord]
      /\ \A v \in Users : session'[v].on => session[v].on
  BY <1>1, <1>2, BeginDeleteFacts
<1>4. RequestsOK' /\ req' \in [Requests -> RequestRecord]
  BY <1>1, EndMoves DEF rows
<1>5. QED
  BY <1>1, <1>3, <1>4, DeletionRests

\* A step of a deletion that only decides.
LEMMA DeletionDecides ==
    ASSUME AccountsInv, NEW u \in Users, KeepsAll(u), NEW d \in DeletionRecord,
           del' = [del EXCEPT ![u] = d],
           d.pc \in {"promote", "drop"} => d.org \in Users,
           d.pc = "promote" => d.heir \in Users \ {u},
           \A o, v \in Users : <<o, v>> \in d.heirs =>
              v # u /\ IsMember(o, v) /\ \A w \in Users \ {u} : o \notin del[w].drops,
           \A o \in d.drops, w \in Users \ {u}, v \in Users : <<o, v>> \notin del[w].heirs,
           d.pc # "none" /\ d.quiet => Decided(u, d)
    PROVE  AccountsInv'
<1>1. UNCHANGED <<users, rows, session, ensured, locked, req, moves, begun>>
  BY DEF KeepsAll
<1>2. /\ del' \in [Users -> DeletionRecord] /\ del'[u] = d
      /\ \A w \in Users \ {u} : del'[w] = del[w]
  BY DEF AccountsInv, Types
<1>3. HeirsOK' /\ QuietDecide'
  BY <1>1, <1>2, DeletionMoves
<1>4. RequestsOK' /\ req' \in [Requests -> RequestRecord]
  BY <1>1 DEF AccountsInv, Types, RequestsOK, RequestOK, Settled, Excused, rows
<1>5. QED
  BY <1>1, <1>2, <1>3, <1>4, DeletionRests DEF AccountsInv, Types

\* What is known of a deletion under way.
LEMMA DeletionFacts ==
    ASSUME AccountsInv, NEW u \in Users
    PROVE  /\ del[u] \in DeletionRecord
           /\ del[u].pc \in {"promote", "drop"} => del[u].org \in Users
           /\ del[u].pc = "promote" => del[u].heir \in Users \ {u}
           /\ \A o, v \in Users : <<o, v>> \in del[u].heirs =>
                 v # u /\ IsMember(o, v) /\ \A w \in Users \ {u} : o \notin del[w].drops
           /\ \A o \in del[u].drops, w \in Users \ {u}, v \in Users : <<o, v>> \notin del[w].heirs
           /\ del[u].pc # "none" /\ del[u].quiet => Decided(u, del[u])
<1>1. del[u] \in DeletionRecord
  BY DEF AccountsInv, Types
<1>2. \A o \in del[u].drops, w \in Users \ {u}, v \in Users : <<o, v>> \notin del[w].heirs
  BY <1>1 DEF AccountsInv, HeirsOK, DeletionRecord
<1>3. QED
  BY <1>1, <1>2 DEF AccountsInv, HeirsOK, QuietDecide

LEMMA CheckOrgKeeps ==
    ASSUME AccountsInv, NEW u \in Users, CheckOrg(u)
    PROVE  AccountsInv'
<1>1. PICK e \in DeletionRecord : e = del[u]
  BY DeletionFacts
<1>2. PICK o \in e.todo :
        /\ e.pc = "orgs" /\ KeepsAll(u)
        /\ del' = [del EXCEPT ![u] =
               IF OtherOwner(o, u) THEN [e EXCEPT !.todo = @ \ {o}]
               ELSE IF OldestOther(o, u) # None
                    THEN [e EXCEPT !.todo = @ \ {o}, !.org = o, !.heir = OldestOther(o, u), !.pc = "promote"]
                    ELSE [e EXCEPT !.todo = @ \ {o}, !.org = o, !.heir = OldestOther(o, u), !.pc = "drop"]]
  BY <1>1 DEF CheckOrg, DelAt, DeletionRecord
<1>3. o \in Users
  BY DEF DeletionRecord
<1>4. PICK heir \in (Users \ {u}) \cup {None} : heir = OldestOther(o, u)
  BY OldestOtherIs DEF AccountsInv
<1>5. /\ \A x, v \in Users : <<x, v>> \in e.heirs =>
            v # u /\ IsMember(x, v) /\ \A w \in Users \ {u} : x \notin del[w].drops
      /\ \A x \in e.drops, w \in Users \ {u}, v \in Users : <<x, v>> \notin del[w].heirs
      /\ e.quiet => Decided(u, e)
  BY <1>1, <1>2, DeletionFacts
<1>6. CASE OtherOwner(o, u)
  <2> DEFINE d == [e EXCEPT !.todo = @ \ {o}]
  <2>1. /\ d \in DeletionRecord /\ d.pc = "orgs" /\ d.todo = e.todo \ {o}
        /\ d.heirs = e.heirs /\ d.drops = e.drops /\ d.quiet = e.quiet
    BY <1>2 DEF DeletionRecord
  <2>2. del' = [del EXCEPT ![u] = d]
    BY <1>2, <1>6
  <2> HIDE DEF d
  <2>3. d.quiet => Decided(u, d)
    <3> SUFFICES ASSUME d.quiet PROVE Decided(u, d)
      OBVIOUS
    <3>1. Decided(u, e)
      BY <1>5, <2>1
    <3>2. \A x \in Owned(u) : \/ x \in d.todo \/ OtherOwner(x, u)
                              \/ <<x, OldestOther(x, u)>> \in d.heirs
                              \/ x \in d.drops
      BY <1>2, <1>6, <2>1, <3>1 DEF Decided
    <3>3. /\ d.todo \subseteq Owned(u)
          /\ \A x, v \in Users : <<x, v>> \in d.heirs => Sole(x, u) /\ v = OldestOther(x, u)
          /\ \A x \in d.drops : Sole(x, u) /\ OldestOther(x, u) = None
      BY <2>1, <3>1 DEF Decided
    <3>4. QED
      BY <2>1, <3>2, <3>3 DEF Decided
  <2>4. /\ \A x, v \in Users : <<x, v>> \in d.heirs =>
              v # u /\ IsMember(x, v) /\ \A w \in Users \ {u} : x \notin del[w].drops
        /\ \A x \in d.drops, w \in Users \ {u}, v \in Users : <<x, v>> \notin del[w].heirs
    BY <1>5, <2>1
  <2>5. QED
    BY <1>2, <2>1, <2>2, <2>3, <2>4, DeletionDecides
<1>7. CASE ~OtherOwner(o, u) /\ heir # None
  <2> DEFINE d == [e EXCEPT !.todo = @ \ {o}, !.org = o, !.heir = heir, !.pc = "promote"]
  <2>1. /\ d \in DeletionRecord /\ d.pc = "promote" /\ d.todo = e.todo \ {o} /\ d.org = o /\ d.heir = heir
        /\ d.heirs = e.heirs /\ d.drops = e.drops /\ d.quiet = e.quiet
    BY <1>3 DEF DeletionRecord
  <2>2. del' = [del EXCEPT ![u] = d]
    BY <1>2, <1>4, <1>7
  <2> HIDE DEF d
  <2>3. d.quiet => Decided(u, d)
    BY <1>2, <1>4, <1>5, <1>7, <2>1 DEF Decided, Sole, Owned
  <2>4. QED
    BY <1>2, <1>3, <1>5, <1>7, <2>1, <2>2, <2>3, DeletionDecides
<1>8. CASE ~OtherOwner(o, u) /\ heir = None
  <2> DEFINE d == [e EXCEPT !.todo = @ \ {o}, !.org = o, !.heir = heir, !.pc = "drop"]
  <2>1. /\ d \in DeletionRecord /\ d.pc = "drop" /\ d.todo = e.todo \ {o} /\ d.org = o
        /\ d.heirs = e.heirs /\ d.drops = e.drops /\ d.quiet = e.quiet
    BY <1>3 DEF DeletionRecord
  <2>2. del' = [del EXCEPT ![u] = d]
    BY <1>2, <1>4, <1>8
  <2> HIDE DEF d
  <2>3. d.quiet => Decided(u, d)
    BY <1>2, <1>4, <1>5, <1>8, <2>1 DEF Decided, Sole, Owned
  <2>4. QED
    BY <1>2, <1>3, <1>5, <1>8, <2>1, <2>2, <2>3, DeletionDecides
<1>9. QED
  BY <1>6, <1>7, <1>8

LEMMA NoDelKeeps ==
    ASSUME AccountsInv, NEW u \in Users, KeepsAll(u), del' = [del EXCEPT ![u] = NoDel]
    PROVE  AccountsInv'
<1>1. NoDel \in DeletionRecord
  BY DEF NoDel, DeletionRecord
<1>2. NoDel.pc = "none" /\ NoDel.heirs = {} /\ NoDel.drops = {}
  BY DEF NoDel
<1>3. PICK d \in DeletionRecord : d = NoDel
  BY <1>1
<1>4. d.pc = "none" /\ d.heirs = {} /\ d.drops = {}
  BY <1>2, <1>3
<1>5. QED
  BY <1>3, <1>4, DeletionDecides

\* An heir is held from here on.
LEMMA PromoteKeeps ==
    ASSUME AccountsInv, NEW u \in Users, Promote(u)
    PROVE  AccountsInv'
<1>1. PICK e \in DeletionRecord : e = del[u]
  BY DeletionFacts
<1>2. PICK o, v : o = e.org /\ v = e.heir
  OBVIOUS
<1>3. /\ e.pc = "promote" /\ KeepsAll(u) /\ ~Dropping(o)
      /\ del' = [del EXCEPT ![u] =
                 IF IsMember(o, v)
                 THEN [e EXCEPT !.pc = "orgs", !.heirs = @ \cup {<<o, v>>}, !.org = None, !.heir = None]
                 ELSE NoDel]
  <2>1. /\ del[u].pc = "promote" /\ KeepsAll(u) /\ ~Dropping(del[u].org)
        /\ del' = [del EXCEPT ![u] =
                   IF IsMember(del[u].org, del[u].heir)
                   THEN [del[u] EXCEPT !.pc = "orgs", !.heirs = @ \cup {<<del[u].org, del[u].heir>>},
                                       !.org = None, !.heir = None]
                   ELSE NoDel]
    BY DEF Promote, DelAt
  <2>2. del[u] = e /\ del[u].org = o /\ del[u].heir = v
    BY <1>1, <1>2
  <2>3. QED
    BY <2>1, <2>2
<1>4. /\ o \in Users /\ v \in Users \ {u}
      /\ \A x, y \in Users : <<x, y>> \in e.heirs =>
            y # u /\ IsMember(x, y) /\ \A w \in Users \ {u} : x \notin del[w].drops
      /\ \A x \in e.drops, w \in Users \ {u}, y \in Users : <<x, y>> \notin del[w].heirs
      /\ e.quiet => Decided(u, e)
  BY <1>1, <1>2, <1>3, DeletionFacts
<1>5. CASE IsMember(o, v)
  <2> DEFINE d == [e EXCEPT !.pc = "orgs", !.heirs = @ \cup {<<o, v>>}, !.org = None, !.heir = None]
  <2>1. <<o, v>> \in Pairs
    BY <1>4 DEF Pairs
  <2>2. /\ d \in DeletionRecord /\ d.pc = "orgs" /\ d.todo = e.todo
        /\ d.heirs = e.heirs \cup {<<o, v>>} /\ d.drops = e.drops /\ d.quiet = e.quiet
    BY <2>1 DEF DeletionRecord
  <2>3. del' = [del EXCEPT ![u] = d]
    BY <1>3, <1>5
  <2> HIDE DEF d
  <2>4. d.quiet => Decided(u, d)
    BY <1>2, <1>3, <1>4, <2>2 DEF Decided
  <2>5. \A x, y \in Users : <<x, y>> \in d.heirs =>
           y # u /\ IsMember(x, y) /\ \A w \in Users \ {u} : x \notin del[w].drops
    BY <1>3, <1>4, <1>5, <2>2 DEF Dropping
  <2>6. QED
    BY <1>3, <1>4, <2>2, <2>3, <2>4, <2>5, DeletionDecides
<1>6. CASE ~IsMember(o, v)
  BY <1>3, <1>6, NoDelKeeps
<1>7. QED
  BY <1>5, <1>6

LEMMA DropOrgKeeps ==
    ASSUME AccountsInv, NEW u \in Users, DropOrg(u)
    PROVE  AccountsInv'
<1>1. PICK e \in DeletionRecord : e = del[u]
  BY DeletionFacts
<1>2. PICK o : o = e.org
  OBVIOUS
<1>3. /\ e.pc = "drop" /\ KeepsAll(u)
      /\ \A v \in Users \ {u} : \A h \in del[v].heirs : h[1] # o
      /\ del' = [del EXCEPT ![u] = [e EXCEPT !.pc = "orgs", !.drops = @ \cup {o}, !.org = None]]
  <2>1. /\ del[u].pc = "drop" /\ KeepsAll(u)
        /\ \A v \in Users \ {u} : \A h \in del[v].heirs : h[1] # del[u].org
        /\ del' = [del EXCEPT ![u] = [del[u] EXCEPT !.pc = "orgs", !.drops = @ \cup {del[u].org},
                                                   !.org = None]]
    BY DEF DropOrg, DelAt
  <2>2. del[u] = e /\ del[u].org = o
    BY <1>1, <1>2
  <2>3. QED
    BY <2>1, <2>2
<1>4. /\ o \in Users
      /\ \A x, y \in Users : <<x, y>> \in e.heirs =>
            y # u /\ IsMember(x, y) /\ \A w \in Users \ {u} : x \notin del[w].drops
      /\ \A x \in e.drops, w \in Users \ {u}, y \in Users : <<x, y>> \notin del[w].heirs
      /\ e.quiet => Decided(u, e)
  BY <1>1, <1>2, <1>3, DeletionFacts
<1> DEFINE d == [e EXCEPT !.pc = "orgs", !.drops = @ \cup {o}, !.org = None]
<1>5. /\ d \in DeletionRecord /\ d.pc = "orgs" /\ d.todo = e.todo
      /\ d.heirs = e.heirs /\ d.drops = e.drops \cup {o} /\ d.quiet = e.quiet
  BY <1>4 DEF DeletionRecord
<1>6. del' = [del EXCEPT ![u] = d]
  BY <1>3
<1> HIDE DEF d
<1>7. d.quiet => Decided(u, d)
  BY <1>2, <1>3, <1>4, <1>5 DEF Decided
<1>8. \A x \in d.drops, w \in Users \ {u}, y \in Users : <<x, y>> \notin del[w].heirs
  <2> SUFFICES ASSUME NEW x \in d.drops, NEW w \in Users \ {u}, NEW y \in Users
               PROVE  <<x, y>> \notin del[w].heirs
    OBVIOUS
  <2>1. CASE x \in e.drops
    BY <1>4, <2>1
  <2>2. CASE x = o
    BY <1>3, <2>2
  <2>3. QED
    BY <1>5, <2>1, <2>2
<1>9. \A x, y \in Users : <<x, y>> \in d.heirs =>
        y # u /\ IsMember(x, y) /\ \A w \in Users \ {u} : x \notin del[w].drops
  BY <1>4, <1>5
<1>10. QED
  BY <1>3, <1>5, <1>6, <1>7, <1>8, <1>9, DeletionDecides

-----------------------------------------------------------------------------
LEMMA AccountsInductive == AccountsInv /\ [Next]_vars => AccountsInv'
<1> SUFFICES ASSUME AccountsInv, [Next]_vars PROVE AccountsInv'
  OBVIOUS
<1>1. ASSUME NEW q \in Requests, Resolve(q) \/ Serve(q) PROVE AccountsInv'
  BY <1>1, BeginKeeps, CheckLockKeeps, EnsureKeeps, CreateOrgKeeps, ReadActiveKeeps, DefaultKeeps,
     SwitchKeeps, MoveKeeps, DeleteOwnAccountKeeps, ReturnKeeps DEF Resolve, Serve
<1>2. ASSUME NEW u \in Users, SignIn(u) \/ Staff(u) \/ Delete(u) PROVE AccountsInv'
  BY <1>2, SignInKeeps, LockUserKeeps, UnlockUserKeeps, DeleteUserKeeps, CheckOrgKeeps, PromoteKeeps,
     DropOrgKeeps, CommitDeleteKeeps, NoDelKeeps DEF Staff, Delete, AbortDelete
<1>3. CASE UNCHANGED vars
  <2>1. UNCHANGED <<users, rows, del, session, ensured, locked, req, moves, begun>>
    BY <1>3 DEF vars, rows
  <2>2. Types'
    BY <2>1 DEF AccountsInv, Types, rows
  <2>3. RequestsOK'
    BY <2>1 DEF AccountsInv, RequestsOK, RequestOK, Settled, Excused, rows
  <2>4. QED
    BY <2>1, <2>2, <2>3, RowsRest DEF AccountsInv, RowsRefer
<1>4. QED
  BY <1>1, <1>2, <1>3 DEF Next

LEMMA AccountsInitially == Init => AccountsInv
<1> SUFFICES ASSUME Init PROVE AccountsInv
  OBVIOUS
<1>1. /\ users = Users /\ ensured = {} /\ locked = {} /\ moves = 0 /\ begun = 0
      /\ session = [u \in Users |-> SignedIn] /\ req = [q \in Requests |-> NoReq]
      /\ del = [u \in Users |-> NoDel]
  BY DEF Init
<1>2. /\ orgs \subseteq Users /\ members \in Seq(Pairs) /\ owners \subseteq Range(members)
      /\ \A o, u \in Users : IsMember(o, u) => o \in orgs
  <2>1. CASE orgs = {} /\ members = <<>> /\ owners = {}
    BY <2>1 DEF IsMember, Belongs
  <2>2. ASSUME NEW u \in Users, NEW them \in SetToAllKPermutations(Users) \ {<<>>},
               orgs = {u}, members = [k \in DOMAIN them |-> <<u, them[k]>>],
               owners \in (SUBSET Range(members)) \ {{}}
        PROVE  /\ orgs \subseteq Users /\ members \in Seq(Pairs) /\ owners \subseteq Range(members)
               /\ \A o, v \in Users : IsMember(o, v) => o \in orgs
    <3>1. PICK s \in SUBSET Users : them \in [1 .. Cardinality(s) -> s]
      BY <2>2 DEF SetToAllKPermutations, SetToSeqs
    <3>2. Cardinality(s) \in Nat
      BY AccountsAssumption, FS_Subset, FS_CardinalityType
    <3>3. \A k \in 1 .. Cardinality(s) : <<u, them[k]>> \in Pairs
      BY <3>1 DEF Pairs
    <3>4. members \in [1 .. Cardinality(s) -> Pairs]
      BY <2>2, <3>1, <3>3
    <3>5. members \in Seq(Pairs)
      BY <3>2, <3>4
    <3>6. \A o, v \in Users : IsMember(o, v) => o = u
      BY <2>2 DEF IsMember, Belongs
    <3>7. QED
      BY <2>2, <3>5, <3>6
  <2>3. QED
    BY <2>1, <2>2 DEF Init
<1>3. SignedIn \in SessionRecord /\ NoDel \in DeletionRecord
  BY DEF SignedIn, SessionRecord, NoDel, DeletionRecord
<1>4. Types
  BY <1>1, <1>2, <1>3, NoReqOK, AccountsAssumption DEF Types
<1>5. RowsRefer
  BY <1>1, <1>2, <1>3 DEF RowsRefer
<1>6. RequestsOK
  BY <1>1, NoReqOK DEF RequestsOK
<1>7. HeirsOK /\ QuietDecide
  BY <1>1 DEF HeirsOK, QuietDecide, NoDel
<1>8. QED
  BY <1>4, <1>5, <1>6, <1>7 DEF AccountsInv

LEMMA AccountsCorrect == Spec => []AccountsInv
BY AccountsInitially, AccountsInductive, PTL DEF Spec

\* cascade.go, admin/users.go: memberships and roles are of organisations and users
\* that exist, locks and sessions of users that exist, whatever was deleted meanwhile.
THEOREM RowsAlwaysRefer == Spec => []TypeOK
<1>1. AccountsInv => TypeOK
  <2> SUFFICES ASSUME AccountsInv PROVE TypeOK
    OBVIOUS
  <2>1. ASSUME NEW k \in DOMAIN members PROVE members[k] \in orgs \X users
    <3>1. members[k] \in Pairs
      BY DEF AccountsInv, Types
    <3>2. PICK o \in Users, u \in Users : members[k] = <<o, u>>
      BY <3>1 DEF Pairs
    <3>3. IsMember(o, u)
      BY <3>2 DEF IsMember, Belongs
    <3>4. QED
      BY <3>2, <3>3 DEF AccountsInv, RowsRefer
  <2>2. QED
    BY <2>1 DEF AccountsInv, Types, RowsRefer, TypeOK
<1>2. QED
  BY <1>1, AccountsCorrect, PTL

\* session.go:56-66: whoever is locked when his request begins is not served, as long
\* as the lock stands, however many sessions he has and gets.
THEOREM LocksAlwaysHold == Spec => []LockHolds
<1>1. AccountsInv => LockHolds
  BY DEF AccountsInv, RequestsOK, RequestOK, LockHolds, At, User
<1>2. QED
  BY <1>1, AccountsCorrect, PTL

\* session.go:134-140: an organisation a request acts for is one its user belonged to
\* while the request was under way, unless the check of it failed.
THEOREM AlwaysActsWhereItBelongs == Spec => []ActsWhereItBelongs
<1>1. AccountsInv => ActsWhereItBelongs
  BY DEF AccountsInv, RequestsOK, RequestOK, ActsWhereItBelongs, At
<1>2. QED
  BY <1>1, AccountsCorrect, PTL

\* session.go:131-181: whatever the cache says and whatever failed in a first try, a
\* request of a user who exists is left without an organisation only because in its
\* last try a statement failed, another organisation kept the slug, or he lost his last.
THEOREM AlwaysHealsUnlessHindered == Spec => []HealsUnlessHindered
<1>1. AccountsInv => HealsUnlessHindered
  BY DEF AccountsInv, RequestsOK, RequestOK, Excused, HealsUnlessHindered, At, User
<1>2. QED
  BY <1>1, AccountsCorrect, PTL

-----------------------------------------------------------------------------
\* Users go by the commit of their deletion only.
LEMMA UsersStay ==
    ASSUME [Next]_vars
    PROVE  users' = users \/ \E u \in Users : CommitDelete(u)
<1>1. ASSUME NEW q \in Requests, Resolve(q) PROVE users' = users
  BY <1>1 DEF Resolve, Begin, CheckLock, Ensure, CreateOrg, ReadActive, Default
<1>2. ASSUME NEW q \in Requests, Serve(q) PROVE users' = users
  BY <1>2 DEF Serve, Switch, Move, DeleteOwnAccount, Return
<1>3. ASSUME NEW u \in Users, SignIn(u) \/ Staff(u) PROVE users' = users
  BY <1>3 DEF SignIn, Staff, LockUser, UnlockUser, DeleteUser
<1>4. ASSUME NEW u \in Users, Delete(u) PROVE users' = users \/ CommitDelete(u)
  BY <1>4 DEF Delete, CheckOrg, Promote, DropOrg, AbortDelete, KeepsAll
<1>5. QED
  BY <1>1, <1>2, <1>3, <1>4 DEF Next, vars

\* What is decided while nothing interferes is what is right at the commit.
LEMMA CommitHandsOver ==
    ASSUME AccountsInv, NEW u \in Users, CommitDelete(u), del[u].quiet, NEW o \in orgs
    PROVE  LET rest == {v \in Users : <<o, v>> \in owners} \ {u}
               now  == {v \in Users : <<o, v>> \in owners'}
           IN  IF o \in orgs'
               THEN now = IF rest # {} \/ <<o, u>> \notin owners THEN rest
                          ELSE {OldestOther(o, u)}
               ELSE <<o, u>> \in owners /\ OldestOther(o, u) = None
<1> DEFINE rest == {v \in Users : <<o, v>> \in owners} \ {u}
           now  == {v \in Users : <<o, v>> \in owners'}
           Gone == {m \in Users \X Users : m[2] = u \/ m[1] \in del[u].drops}
<1>1. /\ del[u].pc = "orgs" /\ del[u].todo = {}
      /\ orgs' = orgs \ del[u].drops /\ owners' = (owners \cup del[u].heirs) \ Gone
  BY DEF CommitDelete, Reorganise, DelAt
<1>2. Decided(u, del[u]) /\ o \in Users
  BY <1>1, DeletionFacts DEF AccountsInv, Types
<1>3. \A v \in Users : <<o, v>> \in Gone <=> (v = u \/ o \in del[u].drops)
  BY <1>2
<1>4. \A v \in Users : <<o, v>> \in del[u].heirs => Sole(o, u) /\ v = OldestOther(o, u) /\ v # u
  BY <1>2, DeletionFacts DEF Decided
<1>5. OtherOwner(o, u) <=> rest # {}
  BY DEF OtherOwner
<1> HIDE DEF Gone
<1>6. CASE o \in del[u].drops
  <2>1. Sole(o, u) /\ OldestOther(o, u) = None
    BY <1>2, <1>6 DEF Decided
  <2>2. QED
    BY <1>1, <1>6, <2>1 DEF Sole
<1>7. CASE o \notin del[u].drops
  <2>1. \A v \in Users : v \in now <=> v # u /\ (<<o, v>> \in owners \/ <<o, v>> \in del[u].heirs)
    BY <1>1, <1>3, <1>7
  <2>2. CASE rest # {} \/ <<o, u>> \notin owners
    <3>1. \A v \in Users : <<o, v>> \notin del[u].heirs
      BY <1>4, <1>5, <2>2 DEF Sole
    <3>2. now = rest
      BY <2>1, <3>1
    <3>3. QED
      BY <1>1, <1>7, <2>2, <3>2
  <2>3. CASE rest = {} /\ <<o, u>> \in owners
    <3>1. o \in Owned(u)
      BY <2>3 DEF Owned
    <3>2. <<o, OldestOther(o, u)>> \in del[u].heirs
      BY <1>1, <1>2, <1>5, <1>7, <2>3, <3>1 DEF Decided
    <3>3. PICK v \in Users : v = OldestOther(o, u)
      <4>1. <<o, OldestOther(o, u)>> \in Pairs
        BY <3>2, DeletionFacts DEF DeletionRecord
      <4>2. QED
        BY <4>1 DEF Pairs
    <3>4. v \in now
      BY <1>4, <2>1, <3>2, <3>3
    <3>5. \A w \in now : w = v
      BY <1>4, <2>1, <2>3, <3>3
    <3>6. now = {OldestOther(o, u)}
      BY <3>3, <3>4, <3>5
    <3>7. QED
      BY <1>1, <1>7, <2>3, <3>6
  <2>4. QED
    BY <2>2, <2>3
<1>8. QED
  BY <1>6, <1>7

\* cascade.go:13-19: a deletion that nothing interferes with takes the organisations
\* its user was alone in, hands those he owned alone to the oldest other member, and
\* leaves the others as they are.
THEOREM DeletionsHandOver == Spec => HandsOver
<1>1. AccountsInv /\ [Next]_vars => [HandedOver]_vars
  <2> SUFFICES ASSUME AccountsInv, [Next]_vars, NEW u \in users \ users', del[u].quiet, NEW o \in orgs
               PROVE  LET rest == {v \in Users : <<o, v>> \in owners} \ {u}
                          now  == {v \in Users : <<o, v>> \in owners'}
                      IN  IF o \in orgs'
                          THEN now = IF rest # {} \/ <<o, u>> \notin owners THEN rest
                                     ELSE {OldestOther(o, u)}
                          ELSE <<o, u>> \in owners /\ OldestOther(o, u) = None
    BY DEF HandedOver
  <2>1. PICK w \in Users : CommitDelete(w)
    BY UsersStay
  <2>2. w = u /\ u \in Users
    BY <2>1 DEF CommitDelete
  <2>3. QED
    BY <2>1, <2>2, CommitHandsOver
<1>2. QED
  BY <1>1, AccountsCorrect, PTL DEF Spec, HandsOver

=============================================================================
