------------------------- MODULE PollResponsesProofs -------------------------
(***************************************************************************)
(* What holds of the responses to a poll and of its digest, whatever       *)
(* requests, edits, workers and losses of connection have crossed.         *)
(***************************************************************************)
EXTENDS PollResponses, FiniteSetTheorems, TLAPS

-----------------------------------------------------------------------------
\* Types.

Actors == Followers \cup {None} \cup {Account[p] : p \in People}

RequestRecord == [op : {"none", "add", "update", "remove", "edit", "comment"},
                  pc : {"idle", "name", "clear", "cast", "row", "cascade", "drop", "link", "notify"},
                  p : People \cup Options \cup {None}, by : Actors,
                  say : ResponsesTo(Options), todo : SUBSET Options, gone : SUBSET Options]

CommentRecord == [from : People \cup {None}, by : Actors, deleted : BOOLEAN]

RowTypes ==
    /\ options \subseteq Options /\ participants \subseteq People
    /\ votes \in [People -> [Options -> Answers \cup {None}]]
    /\ said \in [People -> ResponsesTo(Options) \cup {None}]
    /\ comments \in Seq(CommentRecord)
    /\ req \in [Requests -> RequestRecord]
    /\ poll \in {"open", "closed", "gone"}
    /\ used \in 0 .. MaxRequests

\* Which request is where, and what it knows by then.
Named(q) == q.p \in People

RequestOK(q) ==
    /\ q.pc \in {"idle", "row", "cascade", "drop", "link", "notify"} => q.gone = {}
    /\ q.pc = "idle" => q.op = "none"
    /\ q.pc \in {"name", "clear"} => q.op = "update" /\ Named(q) /\ q.todo = DOMAIN q.say /\ q.gone = {}
    /\ q.pc = "cast" => q.op \in {"add", "update"} /\ Named(q) /\ q.todo \subseteq DOMAIN q.say
    /\ q.pc = "cast" /\ q.op = "add" => q.gone = {}
    /\ q.pc = "row" => q.op = "remove" /\ Named(q)
    /\ q.pc = "cascade" => q.op \in {"remove", "edit"}
    /\ q.pc = "cascade" /\ q.op = "remove" => Named(q)
    /\ q.pc = "drop" => q.op = "edit"
    /\ q.pc = "link" => q.op = "comment" /\ q.p \in People \cup {None}
    /\ q.pc = "notify" => q.op \in {"add", "update", "remove", "comment"}
    /\ q.op = "edit" => q.pc \in {"drop", "cascade"}

-----------------------------------------------------------------------------
\* Rows.

PeopleHaveSaid == \A p \in participants : said[p] # None
VotesRefer     == \A p \in People : Voted(p) # {} => p \in participants /\ Voted(p) \subseteq options
CommentsRefer  == \A k \in DOMAIN comments : comments[k].from \in participants \cup {None}

-----------------------------------------------------------------------------
\* Requests under way.

Adds(r, p)    == req[r].op = "add" /\ req[r].pc = "cast" /\ req[r].p = p
Changes(r, p) == /\ req[r].op \in {"update", "remove"} /\ req[r].pc # "notify"
                 /\ req[r].p = p

\* Somebody who is being added is new, and added once.
Newcomers == \A r \in Requests, p \in People :
                Adds(r, p) => said[p] = None /\ \A s \in Requests \ {r} : ~Adds(s, p)

\* Who is changed has been there.
Oldtimers == \A r \in Requests, p \in People : Changes(r, p) => said[p] # None

\* A participant's row is one request's at a time.
OneHolder == \A r, s \in Requests, p \in People : HoldsPerson(r, p) /\ HoldsPerson(s, p) => r = s

\* An update deletes every vote there is.
ClearsAll == \A r \in Requests :
                req[r].op = "update" /\ req[r].pc = "cast" => Voted(req[r].p) \subseteq req[r].gone

\* The new votes of an update have their participant, and all new votes their option.
CastRefers == \A r \in Requests : req[r].pc = "cast" =>
                /\ req[r].op = "update" /\ Cast(r) # {} => req[r].p \in participants
                /\ Cast(r) \subseteq options
                /\ \A s \in Requests : \A o \in Cast(r) : ~DropsOption(s, o)

\* One edit at a time, and it leaves an option.
EditLeaves == /\ options # {}
              /\ \A r \in Requests : req[r].op = "edit" =>
                    /\ options \ {req[r].p} # {}
                    /\ \A s \in Requests \ {r} : req[s].op # "edit"

ResponseInv ==
    /\ RowTypes
    /\ \A r \in Requests : RequestOK(req[r])
    /\ PeopleHaveSaid /\ VotesRefer /\ CommentsRefer
    /\ Newcomers /\ Oldtimers /\ OneHolder /\ ClearsAll /\ CastRefers /\ EditLeaves
    /\ VotesAreOneSubmission

-----------------------------------------------------------------------------
\* The digest.

Items == [id : 1 .. MaxItems,
          event : {"response.created", "response.updated", "response.withdrawn", "comment.created"},
          actor : Actors]

\* A payload holds items that were enqueued, each once.
Sound(items) ==
    /\ \A k \in DOMAIN items : items[k].id \in DOMAIN enqueued /\ enqueued[items[k].id] = items[k]
    /\ \A k, l \in DOMAIN items : items[k].id = items[l].id => k = l

DigestTypes ==
    /\ row \in [items : Seq(Items), due : BOOLEAN, there : BOOLEAN]
    /\ batch \in [Workers -> [items : Seq(Items), own : BOOLEAN, pc : {"idle", "process", "complete"}]]
    /\ enqueued \in Seq(Items) /\ Len(enqueued) <= MaxItems
    /\ \A i \in DOMAIN enqueued : enqueued[i].id = i
    /\ heard \in [Followers -> [1 .. MaxItems -> Nat]]
    /\ dropped \subseteq DOMAIN enqueued
    /\ deaths \in 0 .. MaxDeaths
    /\ row.due => row.there

\* A worker that still owns the row has the items the row has, unless they have
\* been taken; one that is done has taken them.
HolderKnows == \A w \in Workers : batch[w].own =>
    /\ row.items # <<>> => batch[w].items = row.items
    /\ batch[w].pc = "complete" => row.items = <<>>
Unheard     == \A u \in Followers, i \in 1 .. MaxItems : i \notin Meant(u) => heard[u][i] = 0
WaitsOrGone == \A i \in dropped : ~Waits(i)

\* An item that is not waiting and was not dropped has been told.
NothingLost == \A u \in Followers : \A i \in Meant(u) :
                  Waits(i) \/ i \in dropped \/ heard[u][i] >= 1

DigestInv == /\ DigestTypes /\ Sound(row.items) /\ \A w \in Workers : Sound(batch[w].items)
             /\ HolderKnows /\ Unheard /\ WaitsOrGone /\ NothingLost

Has(items, i) == \E k \in DOMAIN items : items[k].id = i

\* Two workers about to send one item have shared it, and what only one of them is about
\* to send is still in the row.
SharedKnown == \A v, w \in Workers : \A i :
    v # w /\ Handles(v) /\ Handles(w) /\ Has(batch[v].items, i) /\ Has(batch[w].items, i)
        => i \in shared

TakesWhatIsThere == \A w \in Workers : \A i :
    Handles(w) /\ Has(batch[w].items, i) => Waits(i) \/ i \in shared

ToldAtMostOnce == \A u \in Followers, i \in 1 .. MaxItems :
    /\ Waits(i) => heard[u][i] = 0
    /\ i \notin shared => heard[u][i] <= 1 /\ (i \in dropped => heard[u][i] = 0)

ExactInv == SharedKnown /\ TakesWhatIsThere /\ ToldAtMostOnce

-----------------------------------------------------------------------------
\* Responses: one request moves.

LEMMA NothingSaid == <<>> \in ResponsesTo(Options)
<1>1. <<>> \in [{} -> Answers]
  OBVIOUS
<1>2. QED
  BY <1>1 DEF ResponsesTo

LEMMA NoReqOK == NoReq \in RequestRecord /\ RequestOK(NoReq)
BY NothingSaid DEF NoReq, RequestRecord, RequestOK, Actors

\* What the others require of a request before it may be q.
Admissible(r, q) ==
    /\ q \in RequestRecord /\ RequestOK(q)
    /\ q.op = "add" /\ q.pc = "cast" =>
          said[q.p] = None /\ \A s \in Requests \ {r} : ~Adds(s, q.p)
    /\ q.op \in {"update", "remove"} /\ q.pc # "notify" => said[q.p] # None
    /\ q.pc = "clear" \/ (q.pc = "cast" /\ q.op = "update") \/ (q.pc = "cascade" /\ q.op = "remove") =>
          \A s \in Requests \ {r} : ~HoldsPerson(s, q.p)
    /\ q.pc = "cast" /\ q.op = "update" =>
          Voted(q.p) \subseteq q.gone /\ (DOMAIN q.say \ q.todo # {} => q.p \in participants)
    /\ q.pc = "cast" =>
          /\ DOMAIN q.say \ q.todo \subseteq options
          /\ \A o \in DOMAIN q.say \ q.todo, s \in Requests \ {r} : ~DropsOption(s, o)
    /\ q.pc = "cascade" /\ q.op = "edit" => \A s \in Requests \ {r} : ~KeepsOption(s, q.p)
    /\ q.op = "edit" => options \ {q.p} # {} /\ \A s \in Requests \ {r} : req[s].op # "edit"

\* A request that has ended or only has to tell.
LEMMA RestAdmissible ==
    ASSUME NEW r \in Requests, NEW q \in RequestRecord, RequestOK(q), q.pc \in {"idle", "notify"}
    PROVE  Admissible(r, q)
BY DEF Admissible, RequestOK

LEMMA RequestMoves ==
    ASSUME ResponseInv, NEW r \in Requests, NEW q, Admissible(r, q),
           req' = [req EXCEPT ![r] = q],
           UNCHANGED <<options, participants, votes, said>>
    PROVE  /\ req' \in [Requests -> RequestRecord]
           /\ \A s \in Requests : RequestOK(req'[s])
           /\ (Newcomers /\ Oldtimers /\ OneHolder /\ ClearsAll /\ CastRefers /\ EditLeaves)'
<1>1. req \in [Requests -> RequestRecord] /\ q \in RequestRecord /\ RequestOK(q)
  BY DEF ResponseInv, RowTypes, Admissible
<1>2. req'[r] = q /\ \A s \in Requests \ {r} : req'[s] = req[s]
  BY <1>1
<1>3. req' \in [Requests -> RequestRecord] /\ \A s \in Requests : RequestOK(req'[s])
  BY <1>1, <1>2 DEF ResponseInv
<1>4. ASSUME NEW s \in Requests \ {r}, NEW x
      PROVE  /\ Adds(s, x)' <=> Adds(s, x)
             /\ Changes(s, x)' <=> Changes(s, x)
             /\ HoldsPerson(s, x)' <=> HoldsPerson(s, x)
             /\ KeepsOption(s, x)' <=> KeepsOption(s, x)
             /\ DropsOption(s, x)' <=> DropsOption(s, x)
  BY <1>2 DEF Adds, Changes, HoldsPerson, Removes, KeepsOption, Cast, DropsOption
<1>5. \A x : Voted(x)' = Voted(x)
  BY DEF Voted
<1>6. Newcomers'
  <2> SUFFICES ASSUME NEW s \in Requests, NEW x \in People, Adds(s, x)'
               PROVE  said[x] = None /\ \A t \in Requests \ {s} : ~Adds(t, x)'
    BY DEF Newcomers
  <2>1. Adds(r, x)' <=> (q.op = "add" /\ q.pc = "cast" /\ q.p = x)
    BY <1>2 DEF Adds
  <2>2. CASE s = r
    BY <1>4, <2>1, <2>2 DEF Admissible
  <2>3. CASE s # r
    <3>1. Adds(s, x)
      BY <1>4, <2>3
    <3>2. ~Adds(r, x)'
      BY <2>1, <2>3, <3>1 DEF Admissible
    <3>3. QED
      BY <1>4, <3>1, <3>2 DEF ResponseInv, Newcomers
  <2>4. QED
    BY <2>2, <2>3
<1>7. Oldtimers'
  <2> SUFFICES ASSUME NEW s \in Requests, NEW x \in People, Changes(s, x)'
               PROVE  said[x] # None
    BY DEF Oldtimers
  <2>1. CASE s = r
    BY <1>2, <2>1 DEF Changes, Admissible
  <2>2. CASE s # r
    BY <1>4, <2>2 DEF ResponseInv, Oldtimers
  <2>3. QED
    BY <2>1, <2>2
<1>8. OneHolder'
  <2>1. ASSUME NEW x \in People, HoldsPerson(r, x)', NEW s \in Requests \ {r}
        PROVE  ~HoldsPerson(s, x)
    <3>1. /\ q.p = x
          /\ q.pc = "clear" \/ (q.pc = "cast" /\ q.op = "update") \/ (q.pc = "cascade" /\ q.op = "remove")
      BY <1>2, <2>1 DEF HoldsPerson, Removes
    <3>2. QED
      BY <3>1 DEF Admissible
  <2>2. QED
    BY <1>4, <2>1 DEF ResponseInv, OneHolder
<1>9. ClearsAll'
  BY <1>2, <1>5 DEF ResponseInv, ClearsAll, Admissible
<1>10. CastRefers'
  <2> SUFFICES ASSUME NEW s \in Requests, req'[s].pc = "cast"
               PROVE  /\ req'[s].op = "update" /\ Cast(s)' # {} => req'[s].p \in participants
                      /\ Cast(s)' \subseteq options
                      /\ \A t \in Requests : \A o \in Cast(s)' : ~DropsOption(t, o)'
    BY DEF CastRefers
  <2>1. CASE s = r
    <3>1. Cast(s)' = DOMAIN q.say \ q.todo /\ req'[s] = q
      BY <1>2, <2>1 DEF Cast
    <3>2. \A o : ~DropsOption(r, o)'
      BY <1>2, <2>1 DEF DropsOption
    <3>3. QED
      BY <1>4, <2>1, <3>1, <3>2 DEF Admissible
  <2>2. CASE s # r
    <3>1. Cast(s)' = Cast(s) /\ req'[s] = req[s]
      BY <1>2, <2>2 DEF Cast
    <3>2. \A o \in Cast(s) : KeepsOption(s, o)
      BY <3>1 DEF KeepsOption
    <3>3. \A o \in Cast(s) : ~DropsOption(r, o)'
      <4>1. ASSUME NEW o \in Cast(s), DropsOption(r, o)' PROVE FALSE
        <5>1. q.pc = "cascade" /\ q.op = "edit" /\ q.p = o
          BY <1>2, <4>1 DEF DropsOption
        <5>2. QED
          BY <2>2, <3>2, <4>1, <5>1 DEF Admissible
      <4>2. QED
        BY <4>1
    <3>4. QED
      BY <1>4, <3>1, <3>3 DEF ResponseInv, CastRefers
  <2>3. QED
    BY <2>1, <2>2
<1>11. EditLeaves'
  BY <1>2 DEF ResponseInv, EditLeaves, Admissible
<1>12. QED
  BY <1>3, <1>6, <1>7, <1>8, <1>9, <1>10, <1>11

\* Such a step, which leaves the rows as they are, keeps the invariant.
LEMMA MovesKeep ==
    ASSUME ResponseInv, NEW r \in Requests, NEW q, Admissible(r, q),
           req' = [req EXCEPT ![r] = q], used' \in 0 .. MaxRequests,
           UNCHANGED <<poll, options, participants, votes, said, comments>>
    PROVE  ResponseInv'
<1>1. RowTypes'
  BY RequestMoves DEF ResponseInv, RowTypes
<1>2. PeopleHaveSaid' /\ VotesRefer' /\ CommentsRefer' /\ VotesAreOneSubmission'
  BY DEF ResponseInv, PeopleHaveSaid, VotesRefer, Voted, CommentsRefer, VotesAreOneSubmission
<1>3. QED
  BY <1>1, <1>2, RequestMoves DEF ResponseInv

-----------------------------------------------------------------------------
\* Requests begin.

LEMMA BeginKeeps ==
    ASSUME ResponseInv, NEW r \in Requests, NEW q, Admissible(r, q), Begin(r, q)
    PROVE  ResponseInv'
<1>1. used' \in 0 .. MaxRequests
  BY ResponsesAssumption DEF Begin, ResponseInv, RowTypes
<1>2. QED
  BY <1>1, MovesKeep DEF Begin, Other

LEMMA BeginAddKeeps ==
    ASSUME ResponseInv, NEW r \in Requests, BeginAdd(r)
    PROVE  ResponseInv'
<1>1. PICK p \in People, say \in Responses :
        /\ said[p] = None /\ \A s \in Requests : req[s].op = "add" => req[s].p # p
        /\ Begin(r, [NoReq EXCEPT !.op = "add", !.pc = "cast", !.p = p, !.by = Account[p],
                                  !.say = say, !.todo = DOMAIN say])
  BY DEF BeginAdd
<1> DEFINE q == [NoReq EXCEPT !.op = "add", !.pc = "cast", !.p = p, !.by = Account[p],
                              !.say = say, !.todo = DOMAIN say]
<1>2. say \in ResponsesTo(Options) /\ DOMAIN say \subseteq Options
  BY DEF Responses, ResponsesTo, ResponseInv, RowTypes
<1>3. /\ q.op = "add" /\ q.pc = "cast" /\ q.p = p /\ q.say = say /\ q.todo = DOMAIN say
      /\ q.gone = {}
  BY DEF NoReq
<1>4. q \in RequestRecord
  BY <1>2 DEF NoReq, RequestRecord, Actors
<1>5. \A s \in Requests : ~Adds(s, p)
  BY <1>1 DEF Adds
<1> HIDE DEF q
<1>6. RequestOK(q)
  BY <1>3 DEF RequestOK, Named
<1>7. Admissible(r, q)
  BY <1>1, <1>3, <1>4, <1>5, <1>6 DEF Admissible
<1>8. Begin(r, q)
  BY <1>1 DEF q
<1>9. QED
  BY <1>7, <1>8, BeginKeeps

LEMMA BeginUpdateKeeps ==
    ASSUME ResponseInv, NEW r \in Requests, BeginUpdate(r)
    PROVE  ResponseInv'
<1>1. PICK p \in participants, say \in Responses, u \in Followers \cup {None} :
        Begin(r, [NoReq EXCEPT !.op = "update", !.pc = "name", !.p = p, !.by = u,
                               !.say = say, !.todo = DOMAIN say])
  BY DEF BeginUpdate
<1> DEFINE q == [NoReq EXCEPT !.op = "update", !.pc = "name", !.p = p, !.by = u,
                              !.say = say, !.todo = DOMAIN say]
<1>2. say \in ResponsesTo(Options) /\ DOMAIN say \subseteq Options /\ p \in People
  BY DEF Responses, ResponsesTo, ResponseInv, RowTypes
<1>3. /\ q.op = "update" /\ q.pc = "name" /\ q.p = p /\ q.say = say /\ q.todo = DOMAIN say
      /\ q.gone = {}
  BY DEF NoReq
<1>4. q \in RequestRecord
  BY <1>2 DEF NoReq, RequestRecord, Actors
<1>5. said[p] # None
  BY DEF ResponseInv, PeopleHaveSaid
<1> HIDE DEF q
<1>6. RequestOK(q)
  BY <1>2, <1>3 DEF RequestOK, Named
<1>7. Admissible(r, q)
  BY <1>3, <1>4, <1>5, <1>6 DEF Admissible
<1>8. Begin(r, q)
  BY <1>1 DEF q
<1>9. QED
  BY <1>7, <1>8, BeginKeeps

LEMMA BeginRemoveKeeps ==
    ASSUME ResponseInv, NEW r \in Requests, BeginRemove(r)
    PROVE  ResponseInv'
<1>1. PICK p \in participants, u \in Followers \cup {None} :
        Begin(r, [NoReq EXCEPT !.op = "remove", !.pc = "row", !.p = p, !.by = u])
  BY DEF BeginRemove
<1> DEFINE q == [NoReq EXCEPT !.op = "remove", !.pc = "row", !.p = p, !.by = u]
<1>2. q.op = "remove" /\ q.pc = "row" /\ q.p = p /\ q.gone = {} /\ p \in People
  BY DEF NoReq, ResponseInv, RowTypes
<1>3. q \in RequestRecord
  BY <1>2, NothingSaid DEF NoReq, RequestRecord, Actors
<1>4. said[p] # None
  BY DEF ResponseInv, PeopleHaveSaid
<1> HIDE DEF q
<1>5. RequestOK(q)
  BY <1>2 DEF RequestOK, Named
<1>6. Admissible(r, q)
  BY <1>2, <1>3, <1>4, <1>5 DEF Admissible
<1>7. Begin(r, q)
  BY <1>1 DEF q
<1>8. QED
  BY <1>6, <1>7, BeginKeeps

LEMMA BeginEditKeeps ==
    ASSUME ResponseInv, NEW r \in Requests, BeginEdit(r)
    PROVE  ResponseInv'
<1>1. PICK o \in options :
        /\ options # {o} /\ \A s \in Requests : req[s].op # "edit"
        /\ Begin(r, [NoReq EXCEPT !.op = "edit", !.pc = "drop", !.p = o])
  BY DEF BeginEdit
<1> DEFINE q == [NoReq EXCEPT !.op = "edit", !.pc = "drop", !.p = o]
<1>2. q.op = "edit" /\ q.pc = "drop" /\ q.p = o /\ q.gone = {} /\ o \in Options
  BY DEF NoReq, ResponseInv, RowTypes
<1>3. q \in RequestRecord
  BY <1>2, NothingSaid DEF NoReq, RequestRecord, Actors
<1>4. options \ {o} # {}
  BY <1>1
<1> HIDE DEF q
<1>5. RequestOK(q)
  BY <1>2 DEF RequestOK
<1>6. Admissible(r, q)
  BY <1>1, <1>2, <1>3, <1>4, <1>5 DEF Admissible
<1>7. Begin(r, q)
  BY <1>1 DEF q
<1>8. QED
  BY <1>6, <1>7, BeginKeeps

LEMMA BeginCommentKeeps ==
    ASSUME ResponseInv, NEW r \in Requests, BeginComment(r)
    PROVE  ResponseInv'
<1>1. PICK p \in People \cup {None}, u \in Followers \cup {None} :
        Begin(r, [NoReq EXCEPT !.op = "comment", !.pc = "link", !.p = p, !.by = u])
  BY DEF BeginComment, ResponseInv, RowTypes
<1> DEFINE q == [NoReq EXCEPT !.op = "comment", !.pc = "link", !.p = p, !.by = u]
<1>2. q.op = "comment" /\ q.pc = "link" /\ q.p = p /\ q.gone = {}
  BY DEF NoReq
<1>3. q \in RequestRecord
  BY <1>2, NothingSaid DEF NoReq, RequestRecord, Actors
<1> HIDE DEF q
<1>4. RequestOK(q)
  BY <1>2 DEF RequestOK
<1>5. Admissible(r, q)
  BY <1>2, <1>3, <1>4 DEF Admissible
<1>6. Begin(r, q)
  BY <1>1 DEF q
<1>7. QED
  BY <1>5, <1>6, BeginKeeps

-----------------------------------------------------------------------------
\* Statements that write nothing for others to see.

LEMMA EndKeeps ==
    ASSUME ResponseInv, NEW r \in Requests, Ends(r),
           UNCHANGED <<poll, options, participants, votes, said, comments, used>>
    PROVE  ResponseInv'
<1>1. Admissible(r, NoReq)
  BY NoReqOK, RestAdmissible DEF NoReq
<1>2. used' \in 0 .. MaxRequests
  BY DEF ResponseInv, RowTypes
<1>3. QED
  BY <1>1, <1>2, MovesKeep DEF Ends

LEMMA GoKeeps ==
    ASSUME ResponseInv, NEW r \in Requests, NEW pc, Goes(r, pc),
           Admissible(r, [req[r] EXCEPT !.pc = pc]),
           UNCHANGED <<Other, options, participants, votes, comments, said, used>>
    PROVE  ResponseInv'
<1>1. req' = [req EXCEPT ![r] = [req[r] EXCEPT !.pc = pc]]
  BY DEF Goes, ResponseInv, RowTypes, RequestRecord
<1>2. used' \in 0 .. MaxRequests
  BY DEF ResponseInv, RowTypes
<1>3. QED
  BY <1>1, <1>2, MovesKeep DEF Other

LEMMA NameKeeps ==
    ASSUME ResponseInv, NEW r \in Requests, Name(r)
    PROVE  ResponseInv'
<1> DEFINE q == [req[r] EXCEPT !.pc = "clear"]
<1>1. req[r] \in RequestRecord /\ RequestOK(req[r])
  BY DEF ResponseInv, RowTypes
<1>2. req[r].op = "update" /\ req[r].pc = "name" /\ WaitsFor(r) = {} /\ Goes(r, "clear")
  BY DEF Name, At, Blocked
<1>3. /\ q \in RequestRecord /\ q.op = "update" /\ q.pc = "clear" /\ q.p = req[r].p
      /\ q.say = req[r].say /\ q.todo = req[r].todo /\ q.gone = req[r].gone
  BY <1>1, <1>2 DEF RequestRecord
<1>4. said[req[r].p] # None
  <2>1. Changes(r, req[r].p) /\ req[r].p \in People
    BY <1>1, <1>2 DEF Changes, RequestOK, Named
  <2>2. QED
    BY <2>1 DEF ResponseInv, Oldtimers
<1>5. \A s \in Requests \ {r} : ~HoldsPerson(s, req[r].p)
  BY <1>2 DEF WaitsFor
<1> HIDE DEF q
<1>6. RequestOK(q)
  BY <1>1, <1>2, <1>3 DEF RequestOK, Named
<1>7. Admissible(r, q)
  BY <1>3, <1>4, <1>5, <1>6 DEF Admissible
<1>8. QED
  BY <1>2, <1>7, GoKeeps DEF Name, q

LEMMA ClearKeeps ==
    ASSUME ResponseInv, NEW r \in Requests, Clear(r)
    PROVE  ResponseInv'
<1> DEFINE q == [req[r] EXCEPT !.pc = "cast", !.gone = Voted(req[r].p)]
<1>1. req[r] \in RequestRecord /\ RequestOK(req[r])
  BY DEF ResponseInv, RowTypes
<1>2. req[r].op = "update" /\ req[r].pc = "clear" /\ req[r].p \in People
      /\ req[r].todo = DOMAIN req[r].say
  BY <1>1 DEF Clear, At, RequestOK, Named
<1>3. Voted(req[r].p) \subseteq Options
  BY DEF Voted
<1>4. /\ q \in RequestRecord /\ q.op = "update" /\ q.pc = "cast" /\ q.p = req[r].p
      /\ q.say = req[r].say /\ q.todo = req[r].todo /\ q.gone = Voted(req[r].p)
  BY <1>1, <1>2, <1>3 DEF RequestRecord
<1>5. said[req[r].p] # None
  <2>1. Changes(r, req[r].p)
    BY <1>2 DEF Changes
  <2>2. QED
    BY <1>2, <2>1 DEF ResponseInv, Oldtimers
<1>6. \A s \in Requests \ {r} : ~HoldsPerson(s, req[r].p)
  <2> SUFFICES ASSUME NEW s \in Requests \ {r}, HoldsPerson(s, req[r].p) PROVE FALSE
    OBVIOUS
  <2>1. HoldsPerson(r, req[r].p)
    BY <1>2 DEF HoldsPerson
  <2>2. QED
    BY <1>2, <2>1 DEF ResponseInv, OneHolder
<1>7. req' = [req EXCEPT ![r] = q] /\ used' \in 0 .. MaxRequests
  BY <1>1 DEF Clear, ResponseInv, RowTypes, RequestRecord
<1> HIDE DEF q
<1>8. RequestOK(q)
  BY <1>2, <1>4 DEF RequestOK, Named
<1>9. DOMAIN q.say \ q.todo = {}
  BY <1>2, <1>4
<1>10. Admissible(r, q)
  BY <1>4, <1>5, <1>6, <1>8, <1>9 DEF Admissible
<1>11. QED
  BY <1>7, <1>10, MovesKeep DEF Clear, Other

LEMMA CastKeeps ==
    ASSUME ResponseInv, NEW r \in Requests, CastVote(r)
    PROVE  ResponseInv'
<1>1. PICK o \in req[r].todo :
        /\ req[r].pc = "cast" /\ \A s \in Requests \ {r} : ~DropsOption(s, o)
        /\ IF o \in options /\ (req[r].op = "add" \/ req[r].p \in participants)
           THEN req' = [req EXCEPT ![r].todo = @ \ {o}]
           ELSE Ends(r)
        /\ UNCHANGED <<Other, options, participants, votes, comments, said, used>>
  BY DEF CastVote
<1>2. CASE Ends(r)
  BY <1>1, <1>2, EndKeeps DEF Other
<1>3. CASE /\ req' = [req EXCEPT ![r].todo = @ \ {o}]
           /\ o \in options /\ (req[r].op = "add" \/ req[r].p \in participants)
  <2> DEFINE q == [req[r] EXCEPT !.todo = @ \ {o}]
  <2>1. req[r] \in RequestRecord /\ RequestOK(req[r])
    BY DEF ResponseInv, RowTypes
  <2>2. /\ req[r].pc = "cast" /\ req[r].op \in {"add", "update"} /\ req[r].p \in People
        /\ req[r].todo \subseteq DOMAIN req[r].say
    BY <1>1, <2>1 DEF RequestOK, Named
  <2>3. /\ q \in RequestRecord /\ q.op = req[r].op /\ q.pc = "cast" /\ q.p = req[r].p
        /\ q.say = req[r].say /\ q.todo = req[r].todo \ {o} /\ q.gone = req[r].gone
    BY <2>1, <2>2 DEF RequestRecord
  <2>4. req' = [req EXCEPT ![r] = q] /\ used' \in 0 .. MaxRequests
    BY <1>1, <1>3, <2>1 DEF ResponseInv, RowTypes, RequestRecord
  <2> HIDE DEF q
  <2>5. RequestOK(q)
    BY <2>1, <2>2, <2>3 DEF RequestOK, Named
  <2>6. DOMAIN q.say \ q.todo = Cast(r) \cup {o}
    BY <1>1, <2>2, <2>3 DEF Cast
  <2>7. /\ Cast(r) \subseteq options
        /\ \A s \in Requests : \A x \in Cast(r) : ~DropsOption(s, x)
    BY <2>2 DEF ResponseInv, CastRefers
  <2>8. CASE req[r].op = "add"
    <3>1. Adds(r, req[r].p)
      BY <2>2, <2>8 DEF Adds
    <3>2. said[req[r].p] = None /\ \A s \in Requests \ {r} : ~Adds(s, req[r].p)
      BY <2>2, <3>1 DEF ResponseInv, Newcomers
    <3>3. Admissible(r, q)
      BY <1>1, <1>3, <2>3, <2>5, <2>6, <2>7, <2>8, <3>2 DEF Admissible
    <3>4. QED
      BY <1>1, <2>4, <3>3, MovesKeep DEF Other
  <2>9. CASE req[r].op = "update"
    <3>1. req[r].p \in participants
      BY <1>3, <2>9
    <3>2. Changes(r, req[r].p) /\ HoldsPerson(r, req[r].p)
      BY <2>2, <2>9, <3>1 DEF Changes, HoldsPerson
    <3>3. said[req[r].p] # None
      BY <2>2, <3>2 DEF ResponseInv, Oldtimers
    <3>4. \A s \in Requests \ {r} : ~HoldsPerson(s, req[r].p)
      BY <2>2, <3>2 DEF ResponseInv, OneHolder
    <3>5. Voted(req[r].p) \subseteq req[r].gone
      BY <2>2, <2>9 DEF ResponseInv, ClearsAll
    <3>6. Admissible(r, q)
      BY <1>1, <1>3, <2>3, <2>5, <2>6, <2>7, <2>9, <3>1, <3>3, <3>4, <3>5 DEF Admissible
    <3>7. QED
      BY <1>1, <2>4, <3>6, MovesKeep DEF Other
  <2>10. QED
    BY <2>2, <2>8, <2>9
<1>4. QED
  BY <1>1, <1>2, <1>3

LEMMA DeleteParticipantKeeps ==
    ASSUME ResponseInv, NEW r \in Requests, DeleteParticipant(r)
    PROVE  ResponseInv'
<1> DEFINE q == [req[r] EXCEPT !.pc = "cascade"]
<1>1. req[r] \in RequestRecord /\ RequestOK(req[r])
  BY DEF ResponseInv, RowTypes
<1>2. req[r].op = "remove" /\ req[r].pc = "row" /\ WaitsFor(r) = {} /\ Goes(r, "cascade")
  BY DEF DeleteParticipant, At, Blocked
<1>3. /\ q \in RequestRecord /\ q.op = "remove" /\ q.pc = "cascade" /\ q.p = req[r].p
      /\ q.gone = req[r].gone
  BY <1>1, <1>2 DEF RequestRecord
<1>4. said[req[r].p] # None
  <2>1. Changes(r, req[r].p) /\ req[r].p \in People
    BY <1>1, <1>2 DEF Changes, RequestOK, Named
  <2>2. QED
    BY <2>1 DEF ResponseInv, Oldtimers
<1>5. \A s \in Requests \ {r} : ~HoldsPerson(s, req[r].p)
  BY <1>2 DEF WaitsFor
<1> HIDE DEF q
<1>6. RequestOK(q)
  BY <1>1, <1>2, <1>3 DEF RequestOK, Named
<1>7. Admissible(r, q)
  BY <1>3, <1>4, <1>5, <1>6 DEF Admissible
<1>8. QED
  BY <1>2, <1>7, GoKeeps DEF DeleteParticipant, q

LEMMA DeleteOptionKeeps ==
    ASSUME ResponseInv, NEW r \in Requests, DeleteOption(r)
    PROVE  ResponseInv'
<1> DEFINE q == [req[r] EXCEPT !.pc = "cascade"]
<1>1. req[r] \in RequestRecord /\ RequestOK(req[r])
  BY DEF ResponseInv, RowTypes
<1>2. req[r].op = "edit" /\ req[r].pc = "drop" /\ WaitsFor(r) = {} /\ Goes(r, "cascade")
  BY DEF DeleteOption, At, Blocked
<1>3. /\ q \in RequestRecord /\ q.op = "edit" /\ q.pc = "cascade" /\ q.p = req[r].p
      /\ q.gone = req[r].gone
  BY <1>1, <1>2 DEF RequestRecord
<1>4. options \ {req[r].p} # {} /\ \A s \in Requests \ {r} : req[s].op # "edit"
  BY <1>2 DEF ResponseInv, EditLeaves
<1>5. \A s \in Requests \ {r} : ~KeepsOption(s, req[r].p)
  BY <1>2 DEF WaitsFor
<1> HIDE DEF q
<1>6. RequestOK(q)
  BY <1>1, <1>2, <1>3 DEF RequestOK, Named
<1>7. Admissible(r, q)
  BY <1>3, <1>4, <1>5, <1>6 DEF Admissible
<1>8. QED
  BY <1>2, <1>7, GoKeeps DEF DeleteOption, q

-----------------------------------------------------------------------------
\* Commits.

\* A request that has done its work, and what is left to the others.
Rested(r, q) == /\ q \in RequestRecord /\ RequestOK(q) /\ q.pc \in {"idle", "notify"}
                /\ req' = [req EXCEPT ![r] = q]

LEMMA RestedOthers ==
    ASSUME ResponseInv, NEW r \in Requests, NEW q, Rested(r, q)
    PROVE  /\ req' \in [Requests -> RequestRecord]
           /\ \A s \in Requests : RequestOK(req'[s])
           /\ \A s \in Requests : req'[s].pc \notin {"idle", "notify"} => s # r /\ req'[s] = req[s]
BY DEF Rested, ResponseInv, RowTypes

LEMMA CommitRests ==
    ASSUME ResponseInv, NEW r \in Requests, Commits(r),
           req[r].op \in {"add", "update", "remove", "comment"}
    PROVE  \E q : Rested(r, q)
<1> DEFINE q == [NoReq EXCEPT !.op = req[r].op, !.by = req[r].by, !.pc = "notify"]
<1>1. req[r].by \in Actors
  BY DEF ResponseInv, RowTypes, RequestRecord
<1>2. q \in RequestRecord /\ q.pc = "notify" /\ q.op = req[r].op /\ q.gone = {}
  BY <1>1, NothingSaid DEF NoReq, RequestRecord
<1>3. req' = [req EXCEPT ![r] = q]
  BY DEF Commits
<1> HIDE DEF q
<1>4. RequestOK(q)
  BY <1>2 DEF RequestOK
<1>5. QED
  BY <1>2, <1>3, <1>4 DEF Rested

LEMMA EndRests ==
    ASSUME NEW r \in Requests, Ends(r)
    PROVE  \E q : Rested(r, q)
<1>1. Rested(r, NoReq)
  BY NoReqOK DEF Rested, Ends, NoReq
<1>2. QED
  BY <1>1

LEMMA CommitResponseKeeps ==
    ASSUME ResponseInv, NEW r \in Requests, CommitResponse(r)
    PROVE  ResponseInv'
<1>1. req[r] \in RequestRecord /\ RequestOK(req[r])
  BY DEF ResponseInv, RowTypes
<1>0. PICK p, say : p = req[r].p /\ say = req[r].say
  OBVIOUS
<1>2. /\ req[r].pc = "cast" /\ req[r].todo = {} /\ req[r].op \in {"add", "update"} /\ p \in People
      /\ say \in ResponsesTo(Options) /\ req[r].gone \subseteq Options
  BY <1>0, <1>1 DEF CommitResponse, RequestOK, Named, RequestRecord
<1>3. PICK q : Rested(r, q)
  BY <1>2, CommitRests DEF CommitResponse
<1>4. \A s \in Requests : req'[s].pc \notin {"idle", "notify"} => s # r /\ req'[s] = req[s]
  BY <1>3, RestedOthers
<1>5. /\ participants' = IF req[r].op = "add" THEN participants \cup {p} ELSE participants
      /\ votes' = [votes EXCEPT ![p] = [o \in Options |->
              IF o \in DOMAIN say THEN say[o]
              ELSE IF o \in req[r].gone THEN None ELSE votes[p][o]]]
      /\ said' = [said EXCEPT ![p] = say]
      /\ UNCHANGED <<poll, options, comments, used>>
  BY <1>0 DEF CommitResponse, Other
<1>6. /\ Cast(r) = DOMAIN say /\ DOMAIN say \subseteq options /\ DOMAIN say \subseteq Options
      /\ req[r].op = "update" /\ DOMAIN say # {} => p \in participants
  BY <1>0, <1>2 DEF ResponseInv, RowTypes, CastRefers, Cast
\* The votes that stand are those of this response.
<1>7. /\ req[r].op = "add" => p \notin participants /\ said[p] = None
      /\ Voted(p) \subseteq req[r].gone
  <2>1. CASE req[r].op = "add"
    <3>1. said[p] = None
      BY <1>0, <1>2, <2>1 DEF ResponseInv, Newcomers, Adds
    <3>2. p \notin participants
      BY <1>2, <3>1 DEF ResponseInv, PeopleHaveSaid
    <3>3. Voted(p) = {}
      BY <1>2, <3>2 DEF ResponseInv, VotesRefer
    <3>4. QED
      BY <3>1, <3>2, <3>3
  <2>2. CASE req[r].op = "update"
    BY <1>0, <1>2, <2>2 DEF ResponseInv, ClearsAll
  <2>3. QED
    BY <1>2, <2>1, <2>2
<1>8. \A o \in Options : votes'[p][o] = IF o \in DOMAIN say THEN say[o] ELSE None
  <2> SUFFICES ASSUME NEW o \in Options
               PROVE  votes'[p][o] = IF o \in DOMAIN say THEN say[o] ELSE None
    OBVIOUS
  <2>1. votes'[p][o] = IF o \in DOMAIN say THEN say[o]
                       ELSE IF o \in req[r].gone THEN None ELSE votes[p][o]
    BY <1>2, <1>5 DEF ResponseInv, RowTypes
  <2>2. o \notin req[r].gone => votes[p][o] = None
    BY <1>7 DEF Voted
  <2>3. QED
    BY <2>1, <2>2
<1>9. \A x \in People \ {p} : votes'[x] = votes[x] /\ said'[x] = said[x] /\ Voted(x)' = Voted(x)
  BY <1>2, <1>5 DEF ResponseInv, RowTypes, Voted
<1>10. said'[p] = say /\ say # None
  BY <1>2, <1>5, ResponsesAssumption DEF ResponseInv, RowTypes
<1>11. Voted(p)' \subseteq DOMAIN say
  BY <1>6, <1>8 DEF Voted
<1>12. p \in participants' \/ DOMAIN say = {}
  BY <1>2, <1>5, <1>6
<1>13. participants \subseteq participants' /\ participants' \subseteq participants \cup {p}
  BY <1>5
<1>14. RowTypes'
  <2>1. \A o \in DOMAIN say : say[o] \in Answers
    BY <1>2 DEF ResponsesTo
  <2>2. votes' \in [People -> [Options -> Answers \cup {None}]]
    <3> DEFINE ballot == [o \in Options |-> IF o \in DOMAIN say THEN say[o]
                                   ELSE IF o \in req[r].gone THEN None ELSE votes[p][o]]
    <3>1. \A o \in Options : votes[p][o] \in Answers \cup {None}
      BY <1>2 DEF ResponseInv, RowTypes
    <3>2. ballot \in [Options -> Answers \cup {None}]
      BY <2>1, <3>1
    <3>3. votes' = [votes EXCEPT ![p] = ballot]
      BY <1>5
    <3> HIDE DEF ballot
    <3>4. QED
      BY <3>2, <3>3 DEF ResponseInv, RowTypes
  <2>3. said' \in [People -> ResponsesTo(Options) \cup {None}]
    BY <1>2, <1>5 DEF ResponseInv, RowTypes
  <2>4. QED
    BY <1>2, <1>3, <1>5, <1>13, <2>2, <2>3, RestedOthers DEF ResponseInv, RowTypes
<1>15. PeopleHaveSaid'
  BY <1>9, <1>10, <1>13 DEF ResponseInv, RowTypes, PeopleHaveSaid
<1>16. VotesRefer'
  <2> SUFFICES ASSUME NEW x \in People, Voted(x)' # {}
               PROVE  x \in participants' /\ Voted(x)' \subseteq options
    BY <1>5 DEF VotesRefer
  <2>1. CASE x = p
    BY <1>6, <1>11, <1>12, <2>1
  <2>2. CASE x # p
    BY <1>9, <1>13, <2>2 DEF ResponseInv, VotesRefer
  <2>3. QED
    BY <2>1, <2>2
<1>17. CommentsRefer'
  BY <1>5, <1>13 DEF ResponseInv, CommentsRefer
<1>18. Newcomers'
  <2> SUFFICES ASSUME NEW s \in Requests, NEW x \in People, Adds(s, x)'
               PROVE  said'[x] = None /\ \A t \in Requests \ {s} : ~Adds(t, x)'
    BY DEF Newcomers
  <2>1. s # r /\ Adds(s, x)
    BY <1>4 DEF Adds
  <2>2. x # p
    <3>1. CASE req[r].op = "add"
      BY <1>0, <1>2, <2>1, <3>1 DEF ResponseInv, Newcomers, Adds
    <3>2. CASE req[r].op = "update"
      BY <1>0, <1>2, <2>1, <3>2 DEF ResponseInv, Newcomers, Oldtimers, Changes
    <3>3. QED
      BY <1>2, <3>1, <3>2
  <2>3. \A t \in Requests \ {s} : ~Adds(t, x)'
    BY <1>4, <2>1 DEF ResponseInv, Newcomers, Adds
  <2>4. QED
    BY <1>9, <2>1, <2>2, <2>3 DEF ResponseInv, Newcomers
<1>19. Oldtimers'
  <2> SUFFICES ASSUME NEW s \in Requests, NEW x \in People, Changes(s, x)'
               PROVE  said'[x] # None
    BY DEF Oldtimers
  <2>1. Changes(s, x)
    <3>1. req'[s].pc \notin {"idle", "notify"}
      <4>1. RequestOK(req'[s])
        BY <1>3, RestedOthers
      <4>2. QED
        BY <4>1 DEF Changes, RequestOK
    <3>2. QED
      BY <1>4, <3>1 DEF Changes
  <2>2. QED
    BY <1>9, <1>10, <2>1 DEF ResponseInv, Oldtimers
<1>20. \A s \in Requests : \A x \in People : HoldsPerson(s, x)' => s # r /\ HoldsPerson(s, x)
  <2> SUFFICES ASSUME NEW s \in Requests, NEW x \in People, HoldsPerson(s, x)'
               PROVE  s # r /\ HoldsPerson(s, x)
    OBVIOUS
  <2>1. s # r /\ req'[s] = req[s] /\ Changes(s, x)
    BY <1>4 DEF HoldsPerson, Removes, Changes
  <2>2. x \in participants
    <3>1. said[x] # None
      BY <2>1 DEF ResponseInv, Oldtimers
    <3>2. QED
      BY <1>5, <1>7, <3>1 DEF HoldsPerson
  <2>3. QED
    BY <2>1, <2>2 DEF HoldsPerson, Removes
<1>21. OneHolder'
  BY <1>20 DEF ResponseInv, OneHolder
<1>22. ClearsAll'
  <2> SUFFICES ASSUME NEW s \in Requests, req'[s].op = "update", req'[s].pc = "cast"
               PROVE  \A x : x = req'[s].p => Voted(x)' \subseteq req'[s].gone
    BY DEF ClearsAll
  <2>1. s # r /\ req'[s] = req[s]
    BY <1>4
  <2>2. req[s].p \in People /\ Voted(req[s].p) \subseteq req[s].gone
    BY <2>1 DEF ResponseInv, ClearsAll, RequestOK, Named
  <2>3. CASE req[s].p # p
    BY <1>9, <2>1, <2>2, <2>3
  <2>4. CASE req[s].p = p
    <3>1. said[p] # None
      BY <2>1, <2>2, <2>4 DEF ResponseInv, Oldtimers, Changes
    <3>2. req[r].op = "update"
      BY <1>2, <1>7, <3>1
    <3>3. p \notin participants
      BY <1>0, <1>2, <2>1, <2>2, <2>4, <3>2 DEF ResponseInv, OneHolder, HoldsPerson
    <3>4. Voted(p)' = {}
      BY <1>6, <1>11, <3>2, <3>3
    <3>5. QED
      BY <2>1, <2>4, <3>4
  <2>5. QED
    BY <2>3, <2>4
<1>23. CastRefers'
  <2> SUFFICES ASSUME NEW s \in Requests, req'[s].pc = "cast"
               PROVE  /\ req'[s].op = "update" /\ Cast(s)' # {} => req'[s].p \in participants'
                      /\ Cast(s)' \subseteq options'
                      /\ \A t \in Requests : \A o \in Cast(s)' : ~DropsOption(t, o)'
    BY DEF CastRefers
  <2>1. req'[s] = req[s] /\ Cast(s)' = Cast(s)
    BY <1>4 DEF Cast
  <2>2. \A t \in Requests : \A o : DropsOption(t, o)' => DropsOption(t, o)
    BY <1>4 DEF DropsOption
  <2>3. QED
    BY <1>5, <1>13, <2>1, <2>2 DEF ResponseInv, CastRefers
<1>24. EditLeaves'
  <2>1. \A s \in Requests : req'[s].op = "edit" => req'[s] = req[s]
    <3> SUFFICES ASSUME NEW s \in Requests, req'[s].op = "edit" PROVE req'[s] = req[s]
      OBVIOUS
    <3>1. RequestOK(req'[s])
      BY <1>3, RestedOthers
    <3>2. QED
      BY <1>4, <3>1 DEF RequestOK
  <2>2. QED
    BY <1>5, <2>1 DEF ResponseInv, EditLeaves
<1>25. VotesAreOneSubmission'
  <2> SUFFICES ASSUME NEW x \in participants', NEW o \in options
               PROVE  votes'[x][o] = IF o \in DOMAIN said'[x] THEN said'[x][o] ELSE None
    BY <1>5 DEF VotesAreOneSubmission
  <2>1. o \in Options /\ x \in People
    BY <1>2, <1>13 DEF ResponseInv, RowTypes
  <2>2. CASE x = p
    BY <1>8, <1>10, <2>1, <2>2
  <2>3. CASE x # p
    BY <1>9, <1>13, <2>1, <2>3 DEF ResponseInv, VotesAreOneSubmission
  <2>4. QED
    BY <2>2, <2>3
<1>26. QED
  BY <1>3, <1>14, <1>15, <1>16, <1>17, <1>18, <1>19, <1>21, <1>22, <1>23, <1>24, <1>25, RestedOthers
     DEF ResponseInv

LEMMA CommitRemoveKeeps ==
    ASSUME ResponseInv, NEW r \in Requests, CommitRemove(r)
    PROVE  ResponseInv'
<1>1. req[r] \in RequestRecord /\ RequestOK(req[r])
  BY DEF ResponseInv, RowTypes
<1>2. PICK p : p = req[r].p
  OBVIOUS
<1>3. req[r].op = "remove" /\ req[r].pc = "cascade" /\ p \in People
  BY <1>1, <1>2 DEF CommitRemove, At, RequestOK, Named
<1>4. PICK q : Rested(r, q)
  BY <1>3, CommitRests DEF CommitRemove
<1>5. \A s \in Requests : req'[s].pc \notin {"idle", "notify"} => s # r /\ req'[s] = req[s]
  BY <1>4, RestedOthers
<1>6. /\ participants' = participants \ {p}
      /\ votes' = [votes EXCEPT ![p] = [o \in Options |-> None]]
      /\ comments' = [k \in DOMAIN comments |->
                          IF comments[k].from = p THEN [comments[k] EXCEPT !.from = None]
                          ELSE comments[k]]
      /\ UNCHANGED <<poll, options, said, used>>
  BY <1>2 DEF CommitRemove, Other
<1>7. \A x \in People \ {p} : votes'[x] = votes[x] /\ Voted(x)' = Voted(x)
  BY <1>3, <1>6 DEF ResponseInv, RowTypes, Voted
<1>8. Voted(p)' = {}
  BY <1>3, <1>6 DEF ResponseInv, RowTypes, Voted
<1>9. \A x \in People : Voted(x)' \subseteq Voted(x)
  BY <1>7, <1>8
<1>10. RowTypes'
  <2>1. votes' \in [People -> [Options -> Answers \cup {None}]]
    BY <1>3, <1>6 DEF ResponseInv, RowTypes
  <2>2. comments' \in Seq(CommentRecord)
    <3>1. PICK n \in Nat : comments \in [1 .. n -> CommentRecord]
      BY DEF ResponseInv, RowTypes
    <3>2. \A k \in 1 .. n : [comments[k] EXCEPT !.from = None] \in CommentRecord
      BY <3>1 DEF CommentRecord
    <3>3. comments' \in [1 .. n -> CommentRecord]
      BY <1>6, <3>1, <3>2
    <3>4. QED
      BY <3>3
  <2>3. QED
    BY <1>4, <1>6, <2>1, <2>2, RestedOthers DEF ResponseInv, RowTypes
<1>11. PeopleHaveSaid'
  BY <1>6 DEF ResponseInv, PeopleHaveSaid
<1>12. VotesRefer'
  BY <1>6, <1>7, <1>8 DEF ResponseInv, VotesRefer
<1>13. CommentsRefer'
  <2>1. \A k \in DOMAIN comments : comments[k] \in CommentRecord
    BY DEF ResponseInv, RowTypes
  <2>2. \A k \in DOMAIN comments :
           comments'[k].from = IF comments[k].from = p THEN None ELSE comments[k].from
    BY <1>6, <2>1 DEF CommentRecord
  <2>3. DOMAIN comments' = DOMAIN comments
    BY <1>6
  <2>4. QED
    BY <1>6, <2>2, <2>3 DEF ResponseInv, CommentsRefer
<1>14. Newcomers'
  BY <1>5, <1>6 DEF ResponseInv, Newcomers, Adds
<1>15. Oldtimers'
  <2> SUFFICES ASSUME NEW s \in Requests, NEW x \in People, Changes(s, x)'
               PROVE  said[x] # None
    BY <1>6 DEF Oldtimers
  <2>1. RequestOK(req'[s])
    BY <1>4, RestedOthers
  <2>2. req'[s].pc \notin {"idle", "notify"}
    BY <2>1 DEF Changes, RequestOK
  <2>3. Changes(s, x)
    BY <1>5, <2>2 DEF Changes
  <2>4. QED
    BY <2>3 DEF ResponseInv, Oldtimers
<1>16. \A s \in Requests : \A x \in People : HoldsPerson(s, x)' => s # r /\ HoldsPerson(s, x)
  BY <1>5, <1>6 DEF HoldsPerson, Removes
<1>17. OneHolder'
  BY <1>16 DEF ResponseInv, OneHolder
<1>18. ClearsAll'
  <2> SUFFICES ASSUME NEW s \in Requests, req'[s].op = "update", req'[s].pc = "cast"
               PROVE  \A x : x = req'[s].p => Voted(x)' \subseteq req'[s].gone
    BY DEF ClearsAll
  <2>1. s # r /\ req'[s] = req[s]
    BY <1>5
  <2>2. req[s].p \in People /\ Voted(req[s].p) \subseteq req[s].gone
    BY <2>1 DEF ResponseInv, ClearsAll, RequestOK, Named
  <2>3. QED
    BY <1>9, <2>1, <2>2
\* The participant of an update that has cast a vote is not the one removed.
<1>19. CastRefers'
  <2> SUFFICES ASSUME NEW s \in Requests, req'[s].pc = "cast"
               PROVE  /\ req'[s].op = "update" /\ Cast(s)' # {} => req'[s].p \in participants'
                      /\ Cast(s)' \subseteq options'
                      /\ \A t \in Requests : \A o \in Cast(s)' : ~DropsOption(t, o)'
    BY DEF CastRefers
  <2>1. s # r /\ req'[s] = req[s] /\ Cast(s)' = Cast(s)
    BY <1>5 DEF Cast
  <2>2. \A t \in Requests : \A o : DropsOption(t, o)' => DropsOption(t, o)
    BY <1>5 DEF DropsOption
  <2>3. ASSUME req[s].op = "update", Cast(s) # {} PROVE req[s].p \in participants'
    <3>1. req[s].p \in participants
      BY <2>1, <2>3 DEF ResponseInv, CastRefers
    <3>2. HoldsPerson(s, req[s].p)
      BY <2>1, <2>3, <3>1 DEF HoldsPerson
    <3>3. req[s].p # p
      <4>1. SUFFICES ASSUME req[s].p = p PROVE FALSE
        OBVIOUS
      <4>2. HoldsPerson(r, p) /\ HoldsPerson(s, p)
        BY <1>2, <1>3, <3>1, <3>2, <4>1 DEF HoldsPerson, Removes
      <4>3. QED
        BY <1>3, <2>1, <4>2 DEF ResponseInv, OneHolder
    <3>4. QED
      BY <1>6, <3>1, <3>3
  <2>4. QED
    BY <1>6, <2>1, <2>2, <2>3 DEF ResponseInv, CastRefers
<1>20. EditLeaves'
  <2>1. \A s \in Requests : req'[s].op = "edit" => req'[s] = req[s]
    <3> SUFFICES ASSUME NEW s \in Requests, req'[s].op = "edit" PROVE req'[s] = req[s]
      OBVIOUS
    <3>1. RequestOK(req'[s])
      BY <1>4, RestedOthers
    <3>2. QED
      BY <1>5, <3>1 DEF RequestOK
  <2>2. QED
    BY <1>6, <2>1 DEF ResponseInv, EditLeaves
<1>21. VotesAreOneSubmission'
  BY <1>6, <1>7 DEF ResponseInv, RowTypes, VotesAreOneSubmission
<1>22. QED
  BY <1>4, <1>10, <1>11, <1>12, <1>13, <1>14, <1>15, <1>17, <1>18, <1>19, <1>20, <1>21, RestedOthers
     DEF ResponseInv

LEMMA CommitEditKeeps ==
    ASSUME ResponseInv, NEW r \in Requests, CommitEdit(r)
    PROVE  ResponseInv'
<1>1. PICK o : o = req[r].p
  OBVIOUS
<1>2. req[r].op = "edit" /\ req[r].pc = "cascade" /\ Ends(r)
  BY DEF CommitEdit, At
<1>3. PICK q : Rested(r, q)
  BY <1>2, EndRests
<1>4. \A s \in Requests : req'[s].pc \notin {"idle", "notify"} => s # r /\ req'[s] = req[s]
  BY <1>3, RestedOthers
<1>5. /\ options' = options \ {o}
      /\ votes' = [p \in People |-> [votes[p] EXCEPT ![o] = None]]
      /\ UNCHANGED <<poll, participants, comments, said, used>>
  BY <1>1 DEF CommitEdit, Other
<1>6. \A x \in People : votes[x] \in [Options -> Answers \cup {None}]
  BY DEF ResponseInv, RowTypes
<1>7. \A x \in People : Voted(x)' = Voted(x) \ {o}
  BY <1>5, <1>6 DEF Voted
<1>8. RowTypes'
  <2>1. votes' \in [People -> [Options -> Answers \cup {None}]]
    BY <1>5, <1>6
  <2>2. QED
    BY <1>3, <1>5, <2>1, RestedOthers DEF ResponseInv, RowTypes
<1>9. PeopleHaveSaid' /\ CommentsRefer'
  BY <1>5 DEF ResponseInv, PeopleHaveSaid, CommentsRefer
<1>10. VotesRefer'
  BY <1>5, <1>7 DEF ResponseInv, VotesRefer
<1>11. Newcomers'
  BY <1>4, <1>5 DEF ResponseInv, Newcomers, Adds
<1>12. Oldtimers'
  <2> SUFFICES ASSUME NEW s \in Requests, NEW x \in People, Changes(s, x)'
               PROVE  said[x] # None
    BY <1>5 DEF Oldtimers
  <2>1. RequestOK(req'[s])
    BY <1>3, RestedOthers
  <2>2. req'[s].pc \notin {"idle", "notify"}
    BY <2>1 DEF Changes, RequestOK
  <2>3. Changes(s, x)
    BY <1>4, <2>2 DEF Changes
  <2>4. QED
    BY <2>3 DEF ResponseInv, Oldtimers
<1>13. \A s \in Requests : \A x \in People : HoldsPerson(s, x)' => HoldsPerson(s, x)
  BY <1>4, <1>5 DEF HoldsPerson, Removes
<1>14. OneHolder'
  BY <1>13 DEF ResponseInv, OneHolder
<1>15. ClearsAll'
  <2> SUFFICES ASSUME NEW s \in Requests, req'[s].op = "update", req'[s].pc = "cast"
               PROVE  \A x : x = req'[s].p => Voted(x)' \subseteq req'[s].gone
    BY DEF ClearsAll
  <2>1. s # r /\ req'[s] = req[s]
    BY <1>4
  <2>2. req[s].p \in People /\ Voted(req[s].p) \subseteq req[s].gone
    BY <2>1 DEF ResponseInv, ClearsAll, RequestOK, Named
  <2>3. QED
    BY <1>7, <2>1, <2>2
\* No new vote is for the option that goes.
<1>16. CastRefers'
  <2> SUFFICES ASSUME NEW s \in Requests, req'[s].pc = "cast"
               PROVE  /\ req'[s].op = "update" /\ Cast(s)' # {} => req'[s].p \in participants'
                      /\ Cast(s)' \subseteq options'
                      /\ \A t \in Requests : \A x \in Cast(s)' : ~DropsOption(t, x)'
    BY DEF CastRefers
  <2>1. req'[s] = req[s] /\ Cast(s)' = Cast(s)
    BY <1>4 DEF Cast
  <2>2. \A t \in Requests : \A x : DropsOption(t, x)' => DropsOption(t, x)
    BY <1>4 DEF DropsOption
  <2>3. DropsOption(r, o)
    BY <1>1, <1>2 DEF DropsOption
  <2>4. o \notin Cast(s)
    BY <2>1, <2>3 DEF ResponseInv, CastRefers
  <2>5. QED
    BY <1>5, <2>1, <2>2, <2>4 DEF ResponseInv, CastRefers
<1>17. EditLeaves'
  <2>1. options' # {} /\ \A s \in Requests \ {r} : req[s].op # "edit"
    BY <1>1, <1>2, <1>5 DEF ResponseInv, EditLeaves
  <2>2. \A s \in Requests : req'[s].op # "edit"
    <3> SUFFICES ASSUME NEW s \in Requests, req'[s].op = "edit" PROVE FALSE
      OBVIOUS
    <3>1. RequestOK(req'[s])
      BY <1>3, RestedOthers
    <3>2. QED
      BY <1>4, <2>1, <3>1 DEF RequestOK
  <2>3. QED
    BY <2>1, <2>2 DEF EditLeaves
<1>18. VotesAreOneSubmission'
  <2> SUFFICES ASSUME NEW x \in participants, NEW y \in options'
               PROVE  votes'[x][y] = IF y \in DOMAIN said[x] THEN said[x][y] ELSE None
    BY <1>5 DEF VotesAreOneSubmission
  <2>1. x \in People /\ y \in options /\ y # o
    BY <1>5 DEF ResponseInv, RowTypes
  <2>2. votes'[x][y] = votes[x][y]
    BY <1>5, <1>6, <2>1
  <2>3. QED
    BY <2>1, <2>2 DEF ResponseInv, VotesAreOneSubmission
<1>19. QED
  BY <1>3, <1>8, <1>9, <1>10, <1>11, <1>12, <1>14, <1>15, <1>16, <1>17, <1>18, RestedOthers
     DEF ResponseInv

\* Only comments change, and each keeps its participant or none.
LEMMA CommentsKeep ==
    ASSUME ResponseInv, NEW r \in Requests, NEW q, Rested(r, q),
           comments' \in Seq(CommentRecord), CommentsRefer', used' \in 0 .. MaxRequests,
           UNCHANGED <<poll, options, participants, votes, said>>
    PROVE  ResponseInv'
<1>1. Admissible(r, q)
  BY RestAdmissible DEF Rested
<1>2. RowTypes'
  BY <1>1, RequestMoves DEF Rested, ResponseInv, RowTypes
<1>3. PeopleHaveSaid' /\ VotesRefer' /\ VotesAreOneSubmission'
  BY DEF ResponseInv, PeopleHaveSaid, VotesRefer, Voted, VotesAreOneSubmission
<1>4. QED
  BY <1>1, <1>2, <1>3, RequestMoves DEF Rested, ResponseInv

LEMMA CommitCommentKeeps ==
    ASSUME ResponseInv, NEW r \in Requests, CommitComment(r)
    PROVE  ResponseInv'
<1>1. req[r] \in RequestRecord /\ RequestOK(req[r]) /\ req[r].op = "comment"
  BY DEF ResponseInv, RowTypes, CommitComment, At
<1>2. CASE Ends(r) /\ UNCHANGED comments
  BY <1>2, EndKeeps DEF CommitComment, Other
<1>3. CASE /\ req[r].p \in participants \cup {None}
           /\ InsertComment(req[r].p, req[r].by) /\ Commits(r)
  <2> DEFINE c == [from |-> req[r].p, by |-> req[r].by, deleted |-> FALSE]
  <2>1. PICK q : Rested(r, q)
    BY <1>1, <1>3, CommitRests
  <2>2. c \in CommentRecord /\ c.from \in participants \cup {None}
    BY <1>1, <1>3 DEF CommentRecord, RequestRecord, ResponseInv, RowTypes
  <2>3. comments' = Append(comments, c) /\ comments \in Seq(CommentRecord)
    BY <1>3 DEF InsertComment, ResponseInv, RowTypes
  <2> HIDE DEF c
  <2>4. comments' \in Seq(CommentRecord)
    BY <2>2, <2>3
  <2>5. \A k \in DOMAIN comments' : comments'[k] = c \/ (k \in DOMAIN comments /\ comments'[k] = comments[k])
    BY <2>2, <2>3
  <2>6. CommentsRefer'
    BY <2>2, <2>5 DEF CommitComment, ResponseInv, CommentsRefer
  <2>7. used' \in 0 .. MaxRequests
    BY DEF CommitComment, ResponseInv, RowTypes
  <2>8. QED
    BY <2>1, <2>4, <2>6, <2>7, CommentsKeep DEF CommitComment, Other
<1>4. QED
  BY <1>2, <1>3 DEF CommitComment

LEMMA DeleteCommentKeeps ==
    ASSUME ResponseInv, NEW k \in DOMAIN comments, NEW u \in Followers, DeleteComment(k, u)
    PROVE  ResponseInv'
<1>1. comments' = [comments EXCEPT ![k].deleted = TRUE] /\ comments \in Seq(CommentRecord)
  BY DEF DeleteComment, ResponseInv, RowTypes
<1>2. comments[k] \in CommentRecord
  BY <1>1
<1>3. comments' \in Seq(CommentRecord)
  <2>1. PICK n \in Nat : comments \in [1 .. n -> CommentRecord]
    BY <1>1
  <2>2. [comments[k] EXCEPT !.deleted = TRUE] \in CommentRecord
    BY <1>2 DEF CommentRecord
  <2>3. comments' \in [1 .. n -> CommentRecord]
    BY <1>1, <2>1, <2>2
  <2>4. QED
    BY <2>1, <2>3
<1>4. CommentsRefer'
  <2>1. \A j \in DOMAIN comments : comments[j] \in CommentRecord
    BY <1>1
  <2>2. \A j \in DOMAIN comments : comments'[j].from = comments[j].from
    BY <1>1, <2>1 DEF CommentRecord
  <2>3. QED
    BY <1>1, <2>2 DEF DeleteComment, ResponseInv, CommentsRefer
<1>5. used' \in 0 .. MaxRequests
  BY ResponsesAssumption DEF DeleteComment, ResponseInv, RowTypes
<1>6. UNCHANGED <<poll, options, participants, votes, said, req>>
  BY DEF DeleteComment, Other
<1>7. RowTypes'
  BY <1>3, <1>5, <1>6 DEF ResponseInv, RowTypes
<1>8. QED
  BY <1>4, <1>6, <1>7
     DEF ResponseInv, PeopleHaveSaid, VotesRefer, Voted, VotesAreOneSubmission, Newcomers, Adds,
         Oldtimers, Changes, OneHolder, HoldsPerson, Removes, ClearsAll, CastRefers, Cast,
         DropsOption, EditLeaves

LEMMA NotifyKeeps ==
    ASSUME ResponseInv, NEW r \in Requests, Notify(r) \/ Abort(r)
    PROVE  ResponseInv'
BY EndKeeps DEF Notify, Abort, Other

\* The digest's own steps, and the poll's.
LEMMA OthersKeep ==
    ASSUME ResponseInv, Digest \/ SetPoll \/ UNCHANGED vars
    PROVE  ResponseInv'
<1>1. UNCHANGED responseVars /\ poll' \in {"open", "closed", "gone"}
  BY DEF Digest, DigestWorker, WindowEnds, ClaimDigest, Process, CompleteDigest, WorkerDies,
         SetPoll, vars, ResponseInv, RowTypes
<1>2. RowTypes'
  BY <1>1 DEF responseVars, ResponseInv, RowTypes
<1>3. QED
  BY <1>1, <1>2
     DEF responseVars, ResponseInv, PeopleHaveSaid, VotesRefer, Voted, VotesAreOneSubmission,
         CommentsRefer, Newcomers, Adds, Oldtimers, Changes, OneHolder, HoldsPerson, Removes,
         ClearsAll, CastRefers, Cast, DropsOption, EditLeaves

LEMMA ResponsesInductive == ResponseInv /\ [Next]_vars => ResponseInv'
<1> SUFFICES ASSUME ResponseInv, [Next]_vars PROVE ResponseInv'
  OBVIOUS
<1>1. ASSUME NEW r \in Requests, Step(r) PROVE ResponseInv'
  BY <1>1, BeginAddKeeps, BeginUpdateKeeps, BeginRemoveKeeps, BeginEditKeeps, BeginCommentKeeps,
     NameKeeps, ClearKeeps, CastKeeps, CommitResponseKeeps, DeleteParticipantKeeps,
     CommitRemoveKeeps, DeleteOptionKeeps, CommitEditKeeps, CommitCommentKeeps, NotifyKeeps
     DEF Step
<1>2. QED
  BY <1>1, DeleteCommentKeeps, OthersKeep DEF Next

LEMMA ResponsesInitially == Init => ResponseInv
<1> SUFFICES ASSUME Init PROVE ResponseInv
  OBVIOUS
<1>1. PICK P \in SUBSET People, O \in SUBSET Options :
        /\ participants = P
        /\ said = [p \in People |-> IF p \in P THEN [o \in O |-> CHOOSE a \in Answers : TRUE]
                                    ELSE None]
  BY DEF Init
<1>2. PICK yes \in Answers : yes = CHOOSE a \in Answers : TRUE
  BY ResponsesAssumption
<1>3. [o \in O |-> yes] \in ResponsesTo(Options)
  BY DEF ResponsesTo
<1>4. said = [p \in People |-> IF p \in P THEN [o \in O |-> yes] ELSE None]
  BY <1>1, <1>2
<1>5. \A p \in People : said[p] = IF p \in participants THEN [o \in O |-> yes] ELSE None
  BY <1>1, <1>4
<1>6. /\ votes = [p \in People |-> [o \in Options |->
                     IF p \in participants /\ o \in DOMAIN said[p] THEN said[p][o] ELSE None]]
      /\ options = Options /\ poll = "open" /\ comments = <<>> /\ used = 0
      /\ req = [r \in Requests |-> NoReq]
  BY DEF Init
<1>7. \A p \in People : \A o \in Options :
         votes[p][o] = IF p \in participants /\ o \in O THEN yes ELSE None
  BY <1>5, <1>6
<1>8. RowTypes
  <2>1. votes \in [People -> [Options -> Answers \cup {None}]]
    <3>1. \A p \in People : votes[p] \in [Options -> Answers \cup {None}]
      <4> SUFFICES ASSUME NEW p \in People PROVE votes[p] \in [Options -> Answers \cup {None}]
        OBVIOUS
      <4>1. votes[p] = [o \in Options |->
                     IF p \in participants /\ o \in DOMAIN said[p] THEN said[p][o] ELSE None]
        BY <1>6
      <4>2. \A o \in Options : votes[p][o] \in Answers \cup {None}
        BY <1>7
      <4>3. QED
        BY <4>1, <4>2
    <3>2. QED
      BY <1>6, <3>1
  <2>2. said \in [People -> ResponsesTo(Options) \cup {None}]
    BY <1>3, <1>4
  <2>3. comments \in Seq(CommentRecord)
    BY <1>6
  <2>4. used \in 0 .. MaxRequests
    BY <1>6, ResponsesAssumption
  <2>5. QED
    BY <1>1, <1>6, <2>1, <2>2, <2>3, <2>4, NoReqOK DEF RowTypes
<1>9. PeopleHaveSaid
  BY <1>1, <1>3, <1>5, ResponsesAssumption DEF PeopleHaveSaid
<1>10. VotesRefer
  <2> SUFFICES ASSUME NEW p \in People, Voted(p) # {}
               PROVE  p \in participants /\ Voted(p) \subseteq options
    BY DEF VotesRefer
  <2>1. QED
    BY <1>6, <1>7 DEF Voted
<1>11. CommentsRefer
  BY <1>6 DEF CommentsRefer
<1>12. Newcomers /\ Oldtimers /\ OneHolder /\ ClearsAll /\ CastRefers
  BY <1>6 DEF NoReq, Newcomers, Adds, Oldtimers, Changes, OneHolder, HoldsPerson, Removes, ClearsAll,
              CastRefers
<1>13. EditLeaves
  BY <1>6, ResponsesAssumption DEF NoReq, EditLeaves
<1>14. VotesAreOneSubmission
  BY <1>1, <1>5, <1>6, <1>7 DEF VotesAreOneSubmission
<1>15. QED
  BY <1>6, <1>8, <1>9, <1>10, <1>11, <1>12, <1>13, <1>14, NoReqOK DEF ResponseInv

LEMMA ResponsesCorrect == Spec => []ResponseInv
BY ResponsesInitially, ResponsesInductive, PTL DEF Spec

\* participants.go:292: what stands of a participant's votes is his last committed
\* submission, less the options deleted since, whatever updates, removals and edits
\* have crossed.
THEOREM VotesAlwaysOneSubmission == Spec => []VotesAreOneSubmission
<1>1. ResponseInv => VotesAreOneSubmission
  BY DEF ResponseInv
<1>2. QED
  BY <1>1, ResponsesCorrect, PTL

-----------------------------------------------------------------------------
\* Without an edit, who waits in his next statement waits for one who has a
\* participant's row; and who has one waits for nobody.

LEMMA HoldersGoOn ==
    ASSUME ResponseInv, \A r \in Requests : req[r].op # "edit",
           NEW r \in Requests, req[r].pc \in {"clear", "cast", "cascade"}
    PROVE  WaitsFor(r) = {}
<1> SUFFICES ASSUME NEW s \in Requests \ {r}, s \in WaitsFor(r) PROVE FALSE
  BY DEF WaitsFor
<1>1. /\ RequestOK(req[r]) /\ RequestOK(req[s])
      /\ req[r] \in RequestRecord /\ req[s] \in RequestRecord
  BY DEF ResponseInv, RowTypes
<1>2. \A o : ~DropsOption(s, o)
  BY DEF DropsOption
<1>3. \E p, o : /\ HoldsVote(s, p, o) /\ p = req[r].p /\ o \in Voted(p)
                /\ (req[r].pc = "clear" \/ (req[r].pc = "cascade" /\ req[r].op = "remove"))
  BY <1>2 DEF WaitsFor
<1>4. PICK p, o : /\ HoldsVote(s, p, o) /\ p = req[r].p /\ o \in Voted(p)
                  /\ (req[r].pc = "clear" \/ (req[r].pc = "cascade" /\ req[r].op = "remove"))
  BY <1>3
<1>5. p \in People /\ p \in participants
  BY <1>1, <1>4 DEF RequestOK, Named, ResponseInv, VotesRefer
<1>6. req[s].op = "update" /\ req[s].pc = "cast" /\ req[s].p = p
  BY <1>1, <1>4 DEF HoldsVote, RequestOK, RequestRecord
<1>7. HoldsPerson(s, p)
  BY <1>5, <1>6 DEF HoldsPerson
<1>8. HoldsPerson(r, p)
  BY <1>1, <1>4, <1>5 DEF HoldsPerson, Removes, RequestOK
<1>9. QED
  BY <1>5, <1>7, <1>8 DEF ResponseInv, OneHolder

LEMMA WaitsForAHolder ==
    ASSUME ResponseInv, \A r \in Requests : req[r].op # "edit",
           NEW r \in Requests, NEW s \in WaitsFor(r)
    PROVE  s \in Requests /\ req[s].pc \in {"clear", "cast", "cascade"}
<1>1. req[r].pc \notin {"clear", "cast", "cascade"}
  BY HoldersGoOn
<1>2. RequestOK(req[r]) /\ RequestOK(req[s]) /\ s \in Requests
  BY DEF ResponseInv, WaitsFor
<1>3. req[r].pc # "drop"
  BY <1>2 DEF RequestOK
<1>4. HoldsPerson(s, req[r].p) \/ Removes(s, req[r].p)
  BY <1>1, <1>3 DEF WaitsFor
<1>5. QED
  BY <1>2, <1>4 DEF HoldsPerson, Removes

\* participants.go:292-360: whatever order Go's maps give to the votes, responses
\* never wait for each other in a circle unless an edit deletes an option meanwhile.
THEOREM OnlyEditsDeadlock == Spec => []DeadlockNeedsEdit
<1>1. ResponseInv => DeadlockNeedsEdit
  <2> SUFFICES ASSUME ResponseInv, \A r \in Requests : req[r].op # "edit",
                      NEW S \in (SUBSET Requests) \ {{}}
               PROVE  \E r \in S : WaitsFor(r) \cap S = {}
    BY DEF DeadlockNeedsEdit
  <2>1. PICK r \in S : TRUE
    OBVIOUS
  <2>2. CASE WaitsFor(r) \cap S = {}
    BY <2>1, <2>2
  <2>3. CASE WaitsFor(r) \cap S # {}
    <3>1. PICK s \in S : s \in WaitsFor(r)
      BY <2>3
    <3>2. req[s].pc \in {"clear", "cast", "cascade"}
      BY <2>1, <3>1, WaitsForAHolder
    <3>3. WaitsFor(s) = {}
      BY <3>2, HoldersGoOn
    <3>4. QED
      BY <3>1, <3>3
  <2>4. QED
    BY <2>2, <2>3
<1>2. QED
  BY <1>1, ResponsesCorrect, PTL

-----------------------------------------------------------------------------
\* The digest: what a fan-out tells.

\* An item of a sound payload is told to whoever it is meant for, once.
LEMMA TellsOnce ==
    ASSUME NEW items, Sound(items), NEW u \in Followers, NEW i
    PROVE  Tellings(items, u, i) =
              IF i \in Meant(u) /\ \E k \in DOMAIN items : items[k].id = i THEN 1 ELSE 0
<1> DEFINE K == {k \in DOMAIN items : items[k].id = i /\ Hears(u, items[k])}
<1>1. Tellings(items, u, i) = Cardinality(K)
  BY DEF Tellings
<1>2. \A k \in DOMAIN items : items[k].id = i =>
         i \in DOMAIN enqueued /\ enqueued[i] = items[k]
  BY DEF Sound
<1>3. \A k \in DOMAIN items : items[k].id = i => (Hears(u, items[k]) <=> i \in Meant(u))
  BY <1>2 DEF Hears, Meant
<1>4. CASE i \in Meant(u) /\ \E k \in DOMAIN items : items[k].id = i
  <2>1. PICK k \in DOMAIN items : items[k].id = i
    BY <1>4
  <2>2. K = {k}
    BY <1>3, <1>4, <2>1 DEF Sound
  <2>3. Cardinality({k}) = 1
    BY FS_Singleton
  <2>4. QED
    BY <1>1, <1>4, <2>2, <2>3
<1>5. CASE ~(i \in Meant(u) /\ \E k \in DOMAIN items : items[k].id = i)
  <2>1. K = {}
    BY <1>3, <1>5
  <2>2. Cardinality({}) = 0
    BY FS_EmptySet
  <2>3. QED
    BY <1>1, <1>5, <2>1, <2>2
<1>6. QED
  BY <1>4, <1>5

LEMMA FanOutTells ==
    ASSUME DigestTypes, NEW items, Sound(items), FanOut(items)
    PROVE  /\ heard' \in [Followers -> [1 .. MaxItems -> Nat]]
           /\ dropped' \subseteq DOMAIN enqueued
           /\ \/ /\ heard' = heard
                 /\ \A i : i \in dropped' <=> (i \in dropped \/ Has(items, i))
              \/ /\ dropped' = dropped
                 /\ \A u \in Followers, i \in 1 .. MaxItems :
                       heard'[u][i] = heard[u][i] + (IF i \in Meant(u) /\ Has(items, i) THEN 1 ELSE 0)
<1>1. CASE /\ UNCHANGED heard
           /\ dropped' = dropped \cup {items[k].id : k \in DOMAIN items}
  <2>1. \A i : i \in dropped' <=> (i \in dropped \/ Has(items, i))
    BY <1>1 DEF Has
  <2>2. dropped' \subseteq DOMAIN enqueued
    BY <1>1 DEF Sound, DigestTypes
  <2>3. QED
    BY <1>1, <2>1, <2>2 DEF DigestTypes
<1>2. CASE /\ UNCHANGED dropped
           /\ heard' = [u \in Followers |-> [i \in 1 .. MaxItems |->
                          heard[u][i] + Tellings(items, u, i)]]
  <2>1. \A u \in Followers, i \in 1 .. MaxItems :
           /\ heard'[u][i] = heard[u][i] + Tellings(items, u, i)
           /\ Tellings(items, u, i) = IF i \in Meant(u) /\ Has(items, i) THEN 1 ELSE 0
           /\ Tellings(items, u, i) \in Nat
    <3>1. \A u \in Followers, i \in 1 .. MaxItems :
             Tellings(items, u, i) = IF i \in Meant(u) /\ Has(items, i) THEN 1 ELSE 0
      BY TellsOnce DEF Has
    <3>2. \A u \in Followers, i \in 1 .. MaxItems :
             heard'[u][i] = heard[u][i] + Tellings(items, u, i)
      BY <1>2
    <3>3. QED
      BY <3>1, <3>2
  <2>2. heard' \in [Followers -> [1 .. MaxItems -> Nat]]
    <3>1. \A u \in Followers, i \in 1 .. MaxItems : heard[u][i] \in Nat
      BY DEF DigestTypes
    <3>2. \A u \in Followers, i \in 1 .. MaxItems :
             heard[u][i] + Tellings(items, u, i) \in Nat
      <4> SUFFICES ASSUME NEW u \in Followers, NEW i \in 1 .. MaxItems
                   PROVE  heard[u][i] + Tellings(items, u, i) \in Nat
        OBVIOUS
      <4>1. heard[u][i] \in Nat /\ Tellings(items, u, i) \in Nat
        BY <2>1, <3>1
      <4>2. QED
        BY <4>1
    <3>3. QED
      BY <1>2, <3>2
  <2>3. QED
    BY <1>2, <2>1, <2>2 DEF DigestTypes
<1>3. QED
  BY <1>1, <1>2 DEF FanOut

-----------------------------------------------------------------------------
\* The digest's steps.

\* The accumulator and the histories stay: what a claim, a death or the end of
\* the window leave alone.
LEMMA BatchKeeps ==
    ASSUME DigestInv, UNCHANGED <<enqueued, heard, dropped>>, row'.items = row.items,
           row' \in [items : Seq(Items), due : BOOLEAN, there : BOOLEAN], row'.due => row'.there,
           batch' \in [Workers -> [items : Seq(Items), own : BOOLEAN,
                                   pc : {"idle", "process", "complete"}]],
           deaths' \in 0 .. MaxDeaths,
           \A w \in Workers : Sound(batch'[w].items),
           HolderKnows'
    PROVE  DigestInv'
<1>1. DigestTypes'
  BY DEF DigestInv, DigestTypes
<1>2. \A items : Sound(items)' <=> Sound(items)
  BY DEF Sound
<1>3. Sound(row.items)' /\ \A w \in Workers : Sound(batch[w].items)'
  BY DEF DigestInv, Sound
<1>4. \A i : Waits(i)' <=> Waits(i)
  BY DEF Waits
<1>5. Unheard' /\ NothingLost' /\ WaitsOrGone'
  BY <1>4 DEF DigestInv, Unheard, NothingLost, WaitsOrGone, Meant
<1>6. QED
  BY <1>1, <1>3, <1>5 DEF DigestInv

LEMMA WindowKeeps ==
    ASSUME DigestInv, WindowEnds
    PROVE  DigestInv' /\ row'.items = row.items /\ UNCHANGED <<batch, enqueued, heard, dropped>>
<1>1. row' = [row EXCEPT !.due = TRUE] /\ row.there /\ UNCHANGED <<batch, enqueued, heard, dropped, deaths>>
  BY DEF WindowEnds
<1>2. /\ row' \in [items : Seq(Items), due : BOOLEAN, there : BOOLEAN]
      /\ row'.items = row.items /\ row'.there
  BY <1>1 DEF DigestInv, DigestTypes
<1>3. HolderKnows'
  BY <1>1, <1>2 DEF DigestInv, HolderKnows
<1>4. QED
  BY <1>1, <1>2, <1>3, BatchKeeps DEF DigestInv, DigestTypes

LEMMA ClaimKeeps ==
    ASSUME DigestInv, NEW w \in Workers, ClaimDigest(w)
    PROVE  DigestInv'
<1> DEFINE b == [items |-> row.items, own |-> TRUE, pc |-> "process"]
<1>1. batch' = [batch EXCEPT ![w] = b] /\ UNCHANGED <<row, enqueued, heard, dropped, deaths>>
  BY DEF ClaimDigest
<1>2. b \in [items : Seq(Items), own : BOOLEAN, pc : {"idle", "process", "complete"}]
  BY DEF DigestInv, DigestTypes
<1>3. batch'[w] = b /\ \A v \in Workers \ {w} : batch'[v] = batch[v]
  BY <1>1 DEF DigestInv, DigestTypes
<1>4. \A v \in Workers : Sound(batch'[v].items)
  BY <1>3 DEF DigestInv
<1>5. HolderKnows'
  BY <1>1, <1>3 DEF DigestInv, HolderKnows
<1>6. QED
  BY <1>1, <1>2, <1>4, <1>5, BatchKeeps DEF DigestInv, DigestTypes

LEMMA DeathKeeps ==
    ASSUME DigestInv, NEW w \in Workers, WorkerDies(w)
    PROVE  DigestInv'
<1>1. /\ batch' = [batch EXCEPT ![w] = NoBatch] /\ deaths' = deaths + 1 /\ deaths < MaxDeaths
      /\ UNCHANGED <<row, enqueued, heard, dropped>>
  BY DEF WorkerDies
<1>2. NoBatch \in [items : Seq(Items), own : BOOLEAN, pc : {"idle", "process", "complete"}]
  BY DEF NoBatch
<1>3. batch'[w] = NoBatch /\ \A v \in Workers \ {w} : batch'[v] = batch[v]
  BY <1>1 DEF DigestInv, DigestTypes
<1>4. Sound(NoBatch.items)
  BY DEF NoBatch, Sound
<1>5. \A v \in Workers : Sound(batch'[v].items)
  BY <1>3, <1>4 DEF DigestInv
<1>6. HolderKnows'
  BY <1>1, <1>3 DEF DigestInv, HolderKnows, NoBatch
<1>7. deaths' \in 0 .. MaxDeaths
  BY <1>1, DigestAssumption DEF DigestInv, DigestTypes
<1>8. QED
  BY <1>1, <1>2, <1>5, <1>6, <1>7, BatchKeeps DEF DigestInv, DigestTypes

\* The row goes with the id that was claimed, and by then nothing is left in it.
LEMMA CompleteKeeps ==
    ASSUME DigestInv, NEW w \in Workers, CompleteDigest(w)
    PROVE  DigestInv' /\ row'.items = row.items
<1>1. /\ row' = IF batch[w].own THEN NoRow ELSE row
      /\ batch' = [v \in Workers |-> IF v = w THEN NoBatch ELSE
                    [batch[v] EXCEPT !.own = @ /\ ~batch[w].own]]
      /\ UNCHANGED <<enqueued, heard, dropped, deaths>>
      /\ batch[w].pc = "complete" /\ batch[w].own \in BOOLEAN
  BY DEF CompleteDigest, DigestInv, DigestTypes
<1>2. row'.items = row.items
  BY <1>1 DEF DigestInv, HolderKnows, NoRow
<1>3. row' \in [items : Seq(Items), due : BOOLEAN, there : BOOLEAN] /\ (row'.due => row'.there)
  BY <1>1 DEF DigestInv, DigestTypes, NoRow
<1>4. \A v \in Workers : /\ batch[v] \in [items : Seq(Items), own : BOOLEAN,
                                          pc : {"idle", "process", "complete"}]
                         /\ Sound(batch[v].items)
  BY DEF DigestInv, DigestTypes
<1>5. NoBatch \in [items : Seq(Items), own : BOOLEAN, pc : {"idle", "process", "complete"}]
  BY DEF NoBatch
<1>6. \A v \in Workers \ {w} : /\ batch'[v].items = batch[v].items /\ batch'[v].pc = batch[v].pc
                               /\ (batch'[v].own <=> batch[v].own /\ ~batch[w].own)
  BY <1>1, <1>4
<1>7. batch'[w] = NoBatch
  BY <1>1
<1>8. batch' \in [Workers -> [items : Seq(Items), own : BOOLEAN, pc : {"idle", "process", "complete"}]]
  <2>1. \A v \in Workers : [batch[v] EXCEPT !.own = @ /\ ~batch[w].own]
                              \in [items : Seq(Items), own : BOOLEAN, pc : {"idle", "process", "complete"}]
    BY <1>1, <1>4
  <2>2. QED
    BY <1>1, <1>5, <2>1
<1>9. Sound(NoBatch.items)
  BY DEF NoBatch, Sound
<1>10. \A v \in Workers : Sound(batch'[v].items)
  BY <1>4, <1>6, <1>7, <1>9
<1>11. HolderKnows'
  BY <1>2, <1>6, <1>7 DEF DigestInv, HolderKnows, NoBatch
<1>12. QED
  BY <1>1, <1>2, <1>3, <1>8, <1>10, <1>11, BatchKeeps DEF DigestInv, DigestTypes


\* A worker that still owns the row takes what is in it and tells it.
LEMMA ProcessKeeps ==
    ASSUME DigestInv, NEW w \in Workers, Process(w)
    PROVE  DigestInv'
<1>1. /\ batch' = [batch EXCEPT ![w].pc = "complete"]
      /\ UNCHANGED <<enqueued, deaths>>
  BY DEF Process, Finishes
<1>2. \A v \in Workers : /\ batch[v] \in [items : Seq(Items), own : BOOLEAN,
                                          pc : {"idle", "process", "complete"}]
                         /\ Sound(batch[v].items)
  BY DEF DigestInv, DigestTypes
<1>3. /\ batch'[w].items = batch[w].items /\ batch'[w].own = batch[w].own
      /\ batch'[w].pc = "complete"
      /\ \A v \in Workers \ {w} : batch'[v] = batch[v]
  BY <1>1, <1>2 DEF DigestInv, DigestTypes
<1>4. batch' \in [Workers -> [items : Seq(Items), own : BOOLEAN, pc : {"idle", "process", "complete"}]]
  <2>1. [batch[w] EXCEPT !.pc = "complete"]
           \in [items : Seq(Items), own : BOOLEAN, pc : {"idle", "process", "complete"}]
    BY <1>2
  <2>2. batch' = [batch EXCEPT ![w] = [batch[w] EXCEPT !.pc = "complete"]]
    BY <1>1
  <2>3. batch \in [Workers -> [items : Seq(Items), own : BOOLEAN, pc : {"idle", "process", "complete"}]]
    BY DEF DigestInv, DigestTypes
  <2>4. QED
    BY <2>1, <2>2, <2>3
<1>5. \A v \in Workers : Sound(batch'[v].items)
  BY <1>2, <1>3
<1>6. CASE ~batch[w].own
  <2>1. UNCHANGED <<row, heard, dropped>>
    BY <1>6 DEF Process
  <2>2. HolderKnows'
    BY <1>3, <1>6, <2>1 DEF DigestInv, HolderKnows
  <2>3. QED
    BY <1>1, <1>4, <1>5, <2>1, <2>2, BatchKeeps DEF DigestInv, DigestTypes
<1>7. CASE batch[w].own
  <2> DEFINE items == batch[w].items
  <2>1. row' = [row EXCEPT !.items = <<>>] /\ FanOut(items)
    BY <1>7 DEF Process
  <2>2. /\ row' \in [items : Seq(Items), due : BOOLEAN, there : BOOLEAN]
        /\ row'.items = <<>> /\ (row'.due => row'.there)
    <3>1. row \in [items : Seq(Items), due : BOOLEAN, there : BOOLEAN] /\ (row.due => row.there)
      BY DEF DigestInv, DigestTypes
    <3>2. <<>> \in Seq(Items)
      OBVIOUS
    <3> HIDE DEF items
    <3>3. row' = [row EXCEPT !.items = <<>>]
      BY <2>1
    <3>4. QED
      BY <3>1, <3>2, <3>3
  <2>3. DigestTypes /\ Sound(items)
    BY <1>2 DEF DigestInv
  <2>4. row.items # <<>> => items = row.items
    BY <1>7 DEF DigestInv, HolderKnows
  <2> HIDE DEF items
  <2>5. /\ heard' \in [Followers -> [1 .. MaxItems -> Nat]]
        /\ dropped' \subseteq DOMAIN enqueued
        /\ \/ /\ heard' = heard
              /\ \A i : i \in dropped' <=> (i \in dropped \/ Has(items, i))
           \/ /\ dropped' = dropped
              /\ \A u \in Followers, i \in 1 .. MaxItems :
                    heard'[u][i] = heard[u][i] + (IF i \in Meant(u) /\ Has(items, i) THEN 1 ELSE 0)
    BY <2>1, <2>3, FanOutTells
  <2>6. DigestTypes'
    BY <1>1, <1>4, <2>2, <2>5 DEF DigestInv, DigestTypes
  <2>7. \A i : ~Waits(i)'
    BY <2>2 DEF Waits
  <2>8. HolderKnows' /\ WaitsOrGone'
    BY <1>3, <2>2, <2>7 DEF DigestInv, HolderKnows, WaitsOrGone
  <2>9. \A u : Meant(u)' = Meant(u)
    BY <1>1 DEF Meant
  <2>10. Unheard'
    <3> SUFFICES ASSUME NEW u \in Followers, NEW i \in 1 .. MaxItems, i \notin Meant(u)
                 PROVE  heard'[u][i] = 0
      BY <2>9 DEF Unheard
    <3>1. heard[u][i] = 0
      BY DEF DigestInv, Unheard
    <3>2. QED
      BY <2>5, <3>1
  <2>11. NothingLost'
    <3> SUFFICES ASSUME NEW u \in Followers, NEW i \in Meant(u)
                 PROVE  i \in dropped' \/ heard'[u][i] >= 1
      BY <2>9 DEF NothingLost
    <3>1. i \in 1 .. MaxItems
      BY <2>3, DigestAssumption DEF DigestTypes, Meant
    <3>2. heard[u][i] \in Nat
      BY <2>3, <3>1 DEF DigestTypes
    <3>3. Waits(i) => Has(items, i)
      BY <2>4 DEF Waits, Has
    <3>4. Has(items, i) \/ i \in dropped \/ heard[u][i] >= 1
      BY <3>3 DEF DigestInv, NothingLost
    <3>5. CASE heard' = heard /\ \A j : j \in dropped' <=> (j \in dropped \/ Has(items, j))
      BY <3>4, <3>5
    <3>6. CASE /\ dropped' = dropped
               /\ heard'[u][i] = heard[u][i] + (IF i \in Meant(u) /\ Has(items, i) THEN 1 ELSE 0)
      BY <3>2, <3>4, <3>6
    <3>7. QED
      BY <2>5, <3>1, <3>5, <3>6
  <2>12. Sound(row.items)' /\ \A v \in Workers : Sound(batch[v].items)'
    <3>1. \A its : Sound(its)' <=> Sound(its)
      BY <1>1 DEF Sound
    <3>2. Sound(row'.items)
      BY <2>2 DEF Sound
    <3>3. QED
      BY <1>1, <1>5, <3>2 DEF Sound
  <2>13. QED
    BY <2>6, <2>8, <2>10, <2>11, <2>12 DEF DigestInv
<1>8. QED
  BY <1>6, <1>7

\* A new item waits, and nobody owns the row any more.
LEMMA EnqueueKeeps ==
    ASSUME DigestInv, NEW item \in Items, item.id = Len(enqueued) + 1, Len(enqueued) < MaxItems,
           Enqueue(item), UNCHANGED <<heard, dropped, deaths>>
    PROVE  DigestInv'
<1> DEFINE n == Len(enqueued) + 1
<1>1. /\ enqueued \in Seq(Items) /\ row.items \in Seq(Items) /\ n \in 1 .. MaxItems
      /\ enqueued' = Append(enqueued, item)
  BY DigestAssumption DEF Enqueue, DigestInv, DigestTypes
<1>2. /\ enqueued' \in Seq(Items) /\ Len(enqueued') = n /\ enqueued'[n] = item
      /\ n \notin DOMAIN enqueued
      /\ DOMAIN enqueued' = DOMAIN enqueued \cup {n}
      /\ \A i \in DOMAIN enqueued : enqueued'[i] = enqueued[i]
  BY <1>1
<1>3. row' \in [items : Seq(Items), due : BOOLEAN, there : BOOLEAN] /\ row'.items = Append(row.items, item)
  <2>1. CASE row.items = <<>>
    <3>1. row' = [items |-> <<item>>, due |-> FALSE, there |-> TRUE]
      BY <2>1 DEF Enqueue
    <3>2. Append(row.items, item) = <<item>>
      BY <1>1, <2>1
    <3>3. <<item>> \in Seq(Items)
      OBVIOUS
    <3>4. QED
      BY <3>1, <3>2, <3>3
  <2>2. CASE row.items # <<>>
    <3>1. row' = [row EXCEPT !.items = Append(row.items, item)]
      BY <2>2 DEF Enqueue
    <3>2. Append(row.items, item) \in Seq(Items)
      BY <1>1
    <3>3. QED
      BY <3>1, <3>2 DEF DigestInv, DigestTypes
  <2>3. QED
    BY <2>1, <2>2
<1>4. row'.due => row'.there
  <2>1. row' = [items |-> <<item>>, due |-> FALSE, there |-> TRUE]
          \/ row' = [row EXCEPT !.items = Append(@, item)]
    BY DEF Enqueue
  <2>2. QED
    BY <2>1 DEF DigestInv, DigestTypes
<1>5. \A v \in Workers : /\ batch'[v] = [batch[v] EXCEPT !.own = FALSE]
                         /\ batch[v] \in [items : Seq(Items), own : BOOLEAN,
                                          pc : {"idle", "process", "complete"}]
  BY DEF Enqueue, DigestInv, DigestTypes
<1>6. \A v \in Workers : /\ batch'[v] \in [items : Seq(Items), own : BOOLEAN,
                                           pc : {"idle", "process", "complete"}]
                         /\ batch'[v].items = batch[v].items /\ ~batch'[v].own
  BY <1>5
<1>7. batch' \in [Workers -> [items : Seq(Items), own : BOOLEAN, pc : {"idle", "process", "complete"}]]
  BY <1>6 DEF Enqueue
<1>8. /\ DOMAIN row'.items = DOMAIN row.items \cup {Len(row.items) + 1}
      /\ row'.items[Len(row.items) + 1] = item
      /\ \A k \in DOMAIN row.items : row'.items[k] = row.items[k]
  BY <1>1, <1>3
<1>9. \A i : Waits(i)' <=> (Waits(i) \/ i = n)
  BY <1>8 DEF Waits
<1>10. \A items : Sound(items) => Sound(items)'
  BY <1>2 DEF Sound
<1>11. Sound(row.items)'
  <2>1. \A k \in DOMAIN row.items : /\ row.items[k].id \in DOMAIN enqueued
                                    /\ enqueued[row.items[k].id] = row.items[k]
    BY DEF DigestInv, Sound
  <2>2. \A k, l \in DOMAIN row.items : row.items[k].id = row.items[l].id => k = l
    BY DEF DigestInv, Sound
  <2>3. \A k \in DOMAIN row'.items : /\ row'.items[k].id \in DOMAIN enqueued'
                                     /\ enqueued'[row'.items[k].id] = row'.items[k]
    BY <1>2, <1>8, <2>1
  <2>4. \A k, l \in DOMAIN row'.items : row'.items[k].id = row'.items[l].id => k = l
    BY <1>2, <1>8, <2>1, <2>2
  <2>5. QED
    BY <2>3, <2>4 DEF Sound
<1>12. \A v \in Workers : Sound(batch[v].items)'
  <2> SUFFICES ASSUME NEW v \in Workers PROVE Sound(batch[v].items)'
    OBVIOUS
  <2>1. PICK its : its = batch[v].items
    OBVIOUS
  <2>2. Sound(its)
    BY <2>1 DEF DigestInv
  <2>3. Sound(its)'
    BY <1>10, <2>2
  <2>4. batch'[v].items = its
    BY <1>6, <2>1
  <2>5. QED
    BY <2>3, <2>4 DEF Sound
<1>13. \A u : Meant(u) \subseteq Meant(u)' /\ Meant(u)' \subseteq Meant(u) \cup {n}
  BY <1>2 DEF Meant
<1>14. DigestTypes'
  BY <1>1, <1>2, <1>3, <1>4, <1>7 DEF DigestInv, DigestTypes
<1>15. HolderKnows'
  BY <1>6 DEF HolderKnows
<1>16. Unheard' /\ NothingLost'
  BY <1>9, <1>13 DEF DigestInv, Unheard, NothingLost
<1>17. WaitsOrGone'
  BY <1>2, <1>9 DEF DigestInv, WaitsOrGone, DigestTypes
<1>18. QED
  BY <1>11, <1>12, <1>14, <1>15, <1>16, <1>17 DEF DigestInv


\* What a handler announces is an item.
LEMMA NotifyEnqueues ==
    ASSUME ResponseInv, DigestInv, NEW r \in Requests, Notify(r)
    PROVE  \E item \in Items : /\ item.id = Len(enqueued) + 1 /\ Enqueue(item)
                               /\ Len(enqueued) < MaxItems
                               /\ UNCHANGED <<heard, dropped, shared, deaths>>
<1> DEFINE item == [id |-> Len(enqueued) + 1, event |-> EventOf[req[r].op], actor |-> req[r].by]
<1>1. req[r] \in RequestRecord /\ RequestOK(req[r]) /\ req[r].pc = "notify"
  BY DEF Notify, ResponseInv, RowTypes
<1>2. req[r].op \in {"add", "update", "remove", "comment"} /\ req[r].by \in Actors
  BY <1>1 DEF RequestOK, RequestRecord
<1>3. EventOf[req[r].op] \in {"response.created", "response.updated", "response.withdrawn",
                              "comment.created"}
  BY <1>2 DEF EventOf
<1>4. Len(enqueued) + 1 \in 1 .. MaxItems
  BY DigestAssumption DEF Notify, DigestInv, DigestTypes
<1>5. item \in Items
  BY <1>2, <1>3, <1>4 DEF Items
<1>6. item.id = Len(enqueued) + 1
  OBVIOUS
<1>7. Enqueue(item) /\ Len(enqueued) < MaxItems /\ UNCHANGED <<heard, dropped, shared, deaths>>
  BY DEF Notify
<1> HIDE DEF item
<1>8. QED
  BY <1>5, <1>6, <1>7

\* Nothing else touches the digest.
LEMMA DigestRests ==
    ASSUME DigestInv, UNCHANGED digestVars
    PROVE  DigestInv'
BY DEF digestVars, DigestInv, DigestTypes, Sound, HolderKnows, Unheard, WaitsOrGone, NothingLost,
       Waits, Meant

\* Only an announcement and the digest's workers change the digest.
LEMMA DigestSteps ==
    ASSUME [Next]_vars
    PROVE  \/ \E r \in Requests : Notify(r)
           \/ Digest
           \/ UNCHANGED digestVars
<1>1. ASSUME NEW r \in Requests, Step(r), ~Notify(r) PROVE UNCHANGED digestVars
  BY <1>1 DEF Step, BeginAdd, BeginUpdate, BeginRemove, BeginEdit, BeginComment, Begin, Name, Clear,
              CastVote, CommitResponse, DeleteParticipant, CommitRemove, DeleteOption, CommitEdit,
              CommitComment, Abort, Other
<1>2. ASSUME NEW k, NEW u, DeleteComment(k, u) PROVE UNCHANGED digestVars
  BY <1>2 DEF DeleteComment, Other
<1>3. SetPoll \/ UNCHANGED vars => UNCHANGED digestVars
  BY DEF SetPoll, vars
<1>4. QED
  BY <1>1, <1>2, <1>3 DEF Next

LEMMA DigestInductive == ResponseInv /\ DigestInv /\ [Next]_vars => DigestInv'
<1> SUFFICES ASSUME ResponseInv, DigestInv, [Next]_vars PROVE DigestInv'
  OBVIOUS
<1>1. ASSUME NEW r \in Requests, Notify(r) PROVE DigestInv'
  BY <1>1, NotifyEnqueues, EnqueueKeeps
<1>2. CASE Digest
  BY <1>2, WindowKeeps, ClaimKeeps, ProcessKeeps, CompleteKeeps, DeathKeeps DEF Digest, DigestWorker
<1>3. QED
  BY <1>1, <1>2, DigestSteps, DigestRests

LEMMA DigestInitially == Init => DigestInv
<1> SUFFICES ASSUME Init PROVE DigestInv
  OBVIOUS
<1>1. /\ row = NoRow /\ batch = [w \in Workers |-> NoBatch] /\ enqueued = <<>>
      /\ heard = [u \in Followers |-> [i \in 1 .. MaxItems |-> 0]] /\ dropped = {} /\ deaths = 0
  BY DEF Init, DigestInit
<1>2. DigestTypes
  BY <1>1, DigestAssumption DEF DigestTypes, NoRow, NoBatch
<1>3. Sound(row.items) /\ \A w \in Workers : Sound(batch[w].items)
  BY <1>1 DEF Sound, NoRow, NoBatch
<1>4. HolderKnows /\ Unheard /\ WaitsOrGone /\ NothingLost
  BY <1>1 DEF HolderKnows, NoBatch, Unheard, WaitsOrGone, NothingLost, Meant
<1>5. QED
  BY <1>2, <1>3, <1>4 DEF DigestInv

LEMMA DigestCorrect == Spec => [](ResponseInv /\ DigestInv)
<1>1. Init => ResponseInv /\ DigestInv
  BY ResponsesInitially, DigestInitially
<1>2. (ResponseInv /\ DigestInv) /\ [Next]_vars => (ResponseInv /\ DigestInv)'
  BY ResponsesInductive, DigestInductive
<1>3. QED
  BY <1>1, <1>2, PTL DEF Spec

\* 00003_polls.sql: rows of participants, options, votes and comments refer to rows,
\* whatever participants.go and service.go have deleted meanwhile.
THEOREM RowsAlwaysRefer == Spec => []TypeOK
<1>1. ResponseInv /\ DigestInv => TypeOK
  BY DEF ResponseInv, RowTypes, VotesRefer, CommentsRefer, EditLeaves, DigestInv, DigestTypes, TypeOK
<1>2. QED
  BY <1>1, DigestCorrect, PTL

\* timers.go:168: an item whose row a worker has emptied has been told to everybody
\* it was meant for: neither an enqueue that overtakes a claim, nor a crash, nor a
\* second worker that holds the same job loses one.
THEOREM NothingEverLost == Spec => []NothingLost
<1>1. ResponseInv /\ DigestInv => NothingLost
  BY DEF DigestInv
<1>2. QED
  BY <1>1, DigestCorrect, PTL

-----------------------------------------------------------------------------
\* Nothing is told twice that two workers did not have in hand together.

\* A worker takes what it is about to tell.
LEMMA ProcessTellsOnce ==
    ASSUME DigestInv, ExactInv, NEW w \in Workers, Process(w)
    PROVE  ExactInv'
<1>1. /\ batch' = [batch EXCEPT ![w].pc = "complete"] /\ UNCHANGED <<enqueued, shared>>
      /\ batch[w].pc = "process"
  BY DEF Process, Finishes
<1>2. /\ batch'[w].pc = "complete"
      /\ \A v \in Workers \ {w} : batch'[v] = batch[v]
  BY <1>1 DEF DigestInv, DigestTypes
<1>3. \A v \in Workers : Handles(v)' => Handles(v) /\ v # w /\ batch'[v] = batch[v]
  BY <1>2 DEF Handles
<1>4. SharedKnown'
  BY <1>1, <1>3 DEF ExactInv, SharedKnown
<1>5. CASE ~batch[w].own
  <2>1. UNCHANGED <<row, heard, dropped>>
    BY <1>5 DEF Process
  <2>2. TakesWhatIsThere'
    BY <1>1, <1>3, <2>1 DEF ExactInv, TakesWhatIsThere, Waits
  <2>3. QED
    BY <1>1, <1>4, <2>1, <2>2 DEF ExactInv, ToldAtMostOnce, Waits
<1>6. CASE batch[w].own
  <2> DEFINE items == batch[w].items
  <2>1. row.items # <<>> => items = row.items
    BY <1>6 DEF DigestInv, HolderKnows
  <2>2. row' = [row EXCEPT !.items = <<>>] /\ FanOut(items) /\ DigestTypes /\ Sound(items)
    BY <1>6 DEF Process, DigestInv
  <2>3. row'.items = <<>>
    BY <2>2 DEF DigestTypes
  <2>4. \A i : ~Waits(i)'
    BY <2>3 DEF Waits
  <2>5. \A i : Waits(i) => Has(items, i)
    BY <2>1 DEF Has, Waits
  <2>6. Handles(w)
    BY <1>1, <1>6 DEF Handles
  <2>7. \A i : Has(items, i) => Waits(i) \/ i \in shared
    BY <2>6 DEF ExactInv, TakesWhatIsThere
  <2>8. TakesWhatIsThere'
    <3> SUFFICES ASSUME NEW v \in Workers, NEW i, Handles(v)', Has(batch[v].items, i)'
                 PROVE  i \in shared
      BY <1>1 DEF TakesWhatIsThere
    <3>1. Handles(v) /\ v # w /\ Has(batch[v].items, i)
      BY <1>3 DEF Has
    <3>2. CASE Waits(i)
      BY <2>5, <2>6, <3>1, <3>2 DEF ExactInv, SharedKnown
    <3>3. CASE ~Waits(i)
      BY <3>1, <3>3 DEF ExactInv, TakesWhatIsThere
    <3>4. QED
      BY <3>2, <3>3
  <2> HIDE DEF items
  <2>9. \/ /\ heard' = heard
           /\ \A i : i \in dropped' <=> (i \in dropped \/ Has(items, i))
        \/ /\ dropped' = dropped
           /\ \A u \in Followers, i \in 1 .. MaxItems :
                 heard'[u][i] = heard[u][i] + (IF i \in Meant(u) /\ Has(items, i) THEN 1 ELSE 0)
    BY <2>2, FanOutTells
  <2>10. ToldAtMostOnce'
    <3> SUFFICES ASSUME NEW u \in Followers, NEW i \in 1 .. MaxItems, i \notin shared
                 PROVE  heard'[u][i] <= 1 /\ (i \in dropped' => heard'[u][i] = 0)
      BY <1>1, <2>4 DEF ToldAtMostOnce
    <3>1. heard[u][i] \in Nat
      BY <2>2 DEF DigestTypes
    <3>2. /\ heard[u][i] <= 1
          /\ Has(items, i) \/ i \in dropped => heard[u][i] = 0
      BY <2>7 DEF ExactInv, ToldAtMostOnce
    <3>3. i \in dropped => ~Has(items, i)
      BY <2>7 DEF DigestInv, WaitsOrGone
    <3>4. CASE heard' = heard /\ \A j : j \in dropped' <=> (j \in dropped \/ Has(items, j))
      BY <3>2, <3>4
    <3>5. CASE /\ dropped' = dropped
               /\ heard'[u][i] = heard[u][i] + (IF i \in Meant(u) /\ Has(items, i) THEN 1 ELSE 0)
      BY <3>1, <3>2, <3>3, <3>5
    <3>6. QED
      BY <2>9, <3>4, <3>5
  <2>11. QED
    BY <1>4, <2>8, <2>10 DEF ExactInv
<1>7. QED
  BY <1>5, <1>6

\* The other steps tell nobody.
LEMMA NobodyTold ==
    ASSUME ExactInv, UNCHANGED <<heard, dropped>>, row'.items = row.items, shared \subseteq shared',
           SharedKnown', TakesWhatIsThere'
    PROVE  ExactInv'
<1>1. \A i : Waits(i)' <=> Waits(i)
  BY DEF Waits
<1>2. QED
  BY <1>1 DEF ExactInv, ToldAtMostOnce

\* What a worker lets go of is no longer about to be sent.
LEMMA FewerHandle ==
    ASSUME ExactInv, UNCHANGED <<heard, dropped, shared>>, row'.items = row.items,
           \A v \in Workers : Handles(v)' => Handles(v) /\ batch'[v].items = batch[v].items
    PROVE  ExactInv'
<1>1. \A v \in Workers : \A i : Handles(v)' /\ Has(batch'[v].items, i) => Handles(v) /\ Has(batch[v].items, i)
  OBVIOUS
<1>2. SharedKnown'
  BY <1>1 DEF ExactInv, SharedKnown, Has
<1>3. TakesWhatIsThere'
  BY <1>1 DEF ExactInv, TakesWhatIsThere, Has, Waits
<1>4. QED
  BY <1>2, <1>3, NobodyTold

\* A second claim shares what it takes.
LEMMA ClaimShares ==
    ASSUME DigestInv, ExactInv, NEW w \in Workers, ClaimDigest(w)
    PROVE  ExactInv'
<1>1. /\ batch' = [batch EXCEPT ![w] = [items |-> row.items, own |-> TRUE, pc |-> "process"]]
      /\ shared' = IF \E v \in Workers : Handles(v)
                   THEN shared \cup {row.items[k].id : k \in DOMAIN row.items} ELSE shared
      /\ UNCHANGED <<row, heard, dropped>>
  BY DEF ClaimDigest
<1>2. batch'[w].items = row.items /\ \A v \in Workers \ {w} : batch'[v] = batch[v]
  BY <1>1 DEF DigestInv, DigestTypes
<1>3. \A v \in Workers \ {w} : Handles(v)' <=> Handles(v)
  BY <1>2 DEF Handles
<1>4. shared \subseteq shared'
  BY <1>1
<1>5. ASSUME NEW v \in Workers \ {w}, NEW i, Handles(v), Has(batch'[w].items, i) PROVE i \in shared'
  BY <1>1, <1>2, <1>5 DEF Has
<1>6. SharedKnown'
  <2> SUFFICES ASSUME NEW u \in Workers, NEW v \in Workers, NEW i, u # v, Handles(u)', Handles(v)',
                      Has(batch'[u].items, i), Has(batch'[v].items, i)
               PROVE  i \in shared'
    BY DEF SharedKnown, Has
  <2>1. CASE u = w
    BY <1>3, <1>5, <2>1
  <2>2. CASE v = w
    BY <1>3, <1>5, <2>2
  <2>3. CASE u # w /\ v # w
    BY <1>2, <1>3, <1>4, <2>3 DEF ExactInv, SharedKnown
  <2>4. QED
    BY <2>1, <2>2, <2>3
<1>7. TakesWhatIsThere'
  <2> SUFFICES ASSUME NEW v \in Workers, NEW i, Handles(v)', Has(batch'[v].items, i)
               PROVE  Waits(i) \/ i \in shared'
    BY <1>1 DEF TakesWhatIsThere, Has, Waits
  <2>1. CASE v = w
    BY <1>2, <2>1 DEF Has, Waits
  <2>2. CASE v # w
    BY <1>2, <1>3, <1>4, <2>2 DEF ExactInv, TakesWhatIsThere
  <2>3. QED
    BY <2>1, <2>2
<1>8. QED
  BY <1>1, <1>4, <1>6, <1>7, NobodyTold

LEMMA OthersTellNobody ==
    ASSUME DigestInv, ExactInv, NEW w \in Workers, CompleteDigest(w) \/ WorkerDies(w)
    PROVE  ExactInv'
<1>1. CASE CompleteDigest(w)
  <2>1. row'.items = row.items /\ UNCHANGED <<heard, dropped, shared>>
    BY <1>1, CompleteKeeps DEF CompleteDigest
  <2>2. batch' = [v \in Workers |-> IF v = w THEN NoBatch ELSE
                    [batch[v] EXCEPT !.own = @ /\ ~batch[w].own]]
    BY <1>1 DEF CompleteDigest
  <2>3. \A v \in Workers : /\ batch[v] \in [items : Seq(Items), own : BOOLEAN,
                                            pc : {"idle", "process", "complete"}]
                           /\ batch[w].own \in BOOLEAN
    BY DEF DigestInv, DigestTypes
  <2>4. ~batch'[w].own
    BY <2>2 DEF NoBatch
  <2>5. \A v \in Workers \ {w} : /\ batch'[v].items = batch[v].items /\ batch'[v].pc = batch[v].pc
                                 /\ batch'[v].own => batch[v].own
    BY <2>2, <2>3
  <2>6. \A v \in Workers : Handles(v)' => Handles(v) /\ batch'[v].items = batch[v].items
    BY <2>4, <2>5 DEF Handles
  <2>7. QED
    BY <2>1, <2>6, FewerHandle
<1>2. CASE WorkerDies(w)
  <2>1. batch' = [batch EXCEPT ![w] = NoBatch] /\ UNCHANGED <<row, heard, dropped, shared>>
    BY <1>2 DEF WorkerDies
  <2>2. ~batch'[w].own /\ \A v \in Workers \ {w} : batch'[v] = batch[v]
    BY <2>1 DEF DigestInv, DigestTypes, NoBatch
  <2>3. \A v \in Workers : Handles(v)' => Handles(v) /\ batch'[v].items = batch[v].items
    BY <2>2 DEF Handles
  <2>4. QED
    BY <2>1, <2>3, FewerHandle
<1>3. QED
  BY <1>1, <1>2

\* An enqueue gives the row an id that nobody has claimed.
LEMMA EnqueueTellsNobody ==
    ASSUME DigestInv, ExactInv, NEW item \in Items, item.id = Len(enqueued) + 1,
           Len(enqueued) < MaxItems, Enqueue(item), UNCHANGED <<heard, dropped, shared, deaths>>
    PROVE  ExactInv'
<1> DEFINE n == Len(enqueued) + 1
<1>1. n \notin DOMAIN enqueued /\ n \in 1 .. MaxItems
  BY DigestAssumption DEF DigestInv, DigestTypes
<1>2. \A u \in Followers : heard[u][n] = 0
  BY <1>1 DEF DigestInv, Unheard, Meant
<1>3. \A i : Waits(i)' => Waits(i) \/ i = n
  <2>1. row.items \in Seq(Items)
    BY DEF DigestInv, DigestTypes
  <2>2. row'.items = Append(row.items, item)
    <3>1. CASE row.items = <<>>
      BY <3>1 DEF Enqueue
    <3>2. CASE row.items # <<>>
      BY <3>2 DEF Enqueue, DigestInv, DigestTypes
    <3>3. QED
      BY <3>1, <3>2
  <2>3. /\ DOMAIN row'.items = DOMAIN row.items \cup {Len(row.items) + 1}
        /\ row'.items[Len(row.items) + 1] = item
        /\ \A k \in DOMAIN row.items : row'.items[k] = row.items[k]
    BY <2>1, <2>2
  <2>4. QED
    BY <2>3 DEF Waits
<1>4. \A w \in Workers : ~batch'[w].own
  BY DEF Enqueue, DigestInv, DigestTypes
<1>5. SharedKnown' /\ TakesWhatIsThere'
  BY <1>4 DEF SharedKnown, TakesWhatIsThere, Handles
<1>6. ToldAtMostOnce'
  BY <1>2, <1>3 DEF ExactInv, ToldAtMostOnce
<1>7. QED
  BY <1>5, <1>6 DEF ExactInv

LEMMA ExactInductive == (ResponseInv /\ DigestInv) /\ ExactInv /\ [Next]_vars => ExactInv'
<1> SUFFICES ASSUME ResponseInv, DigestInv, ExactInv, [Next]_vars PROVE ExactInv'
  OBVIOUS
<1>1. ASSUME NEW r \in Requests, Notify(r) PROVE ExactInv'
  BY <1>1, NotifyEnqueues, EnqueueTellsNobody
<1>2. CASE Digest
  <2>1. CASE WindowEnds
    <3>1. row'.items = row.items /\ UNCHANGED <<batch, heard, dropped, shared>>
      BY <2>1, WindowKeeps DEF WindowEnds
    <3>2. \A v \in Workers : Handles(v)' => Handles(v) /\ batch'[v].items = batch[v].items
      BY <3>1 DEF Handles
    <3>3. QED
      BY <3>1, <3>2, FewerHandle
  <2>2. CASE ~WindowEnds
    BY <1>2, <2>2, ClaimShares, OthersTellNobody, ProcessTellsOnce DEF Digest, DigestWorker
  <2>3. QED
    BY <2>1, <2>2
<1>3. CASE UNCHANGED digestVars
  BY <1>3 DEF digestVars, ExactInv, SharedKnown, TakesWhatIsThere, ToldAtMostOnce, Waits, Handles
<1>4. QED
  BY <1>1, <1>2, <1>3, DigestSteps

LEMMA ExactInitially == Init => ExactInv
<1> SUFFICES ASSUME Init PROVE ExactInv
  OBVIOUS
<1>1. /\ batch = [w \in Workers |-> NoBatch]
      /\ heard = [u \in Followers |-> [i \in 1 .. MaxItems |-> 0]]
  BY DEF Init, DigestInit
<1>2. \A w \in Workers : ~Handles(w)
  BY <1>1 DEF Handles, NoBatch
<1>3. QED
  BY <1>1, <1>2 DEF ExactInv, SharedKnown, TakesWhatIsThere, ToldAtMostOnce

\* timers.go:168-170, for all items, followers, deaths and workers: no item is lost, and
\* none is told twice that two workers did not have in hand together.
THEOREM TwiceOnlyWhenShared == Spec => []OnceUnlessShared
<1>1. (ResponseInv /\ DigestInv) /\ ExactInv => OnceUnlessShared
  <2> SUFFICES ASSUME DigestInv, ExactInv, NEW u \in Followers, NEW i \in Meant(u)
               PROVE  /\ heard[u][i] >= Due(i)
                      /\ heard[u][i] > Due(i) => i \in shared /\ ~Waits(i)
    BY DEF OnceUnlessShared
  <2>1. i \in 1 .. MaxItems
    BY DigestAssumption DEF Meant, DigestInv, DigestTypes
  <2>2. heard[u][i] \in Nat
    BY <2>1 DEF DigestInv, DigestTypes
  <2>3. /\ Waits(i) => heard[u][i] = 0
        /\ i \notin shared => heard[u][i] <= 1 /\ (i \in dropped => heard[u][i] = 0)
    BY <2>1 DEF ExactInv, ToldAtMostOnce
  <2>4. Waits(i) \/ i \in dropped \/ heard[u][i] >= 1
    BY DEF DigestInv, NothingLost
  <2>5. QED
    BY <2>2, <2>3, <2>4 DEF Due
<1>2. Spec => []ExactInv
  <2>1. (ResponseInv /\ DigestInv) /\ ExactInv /\ [Next]_vars => ExactInv'
    BY ExactInductive
  <2>2. QED
    BY <2>1, ExactInitially, DigestCorrect, PTL DEF Spec
<1>3. QED
  BY <1>1, <1>2, DigestCorrect, PTL

=============================================================================
