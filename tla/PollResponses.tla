---------------------------- MODULE PollResponses ----------------------------
(***************************************************************************)
(* Responses to a poll (polls/participants.go): participants, their votes  *)
(* and comments, beside an edit that deletes an option (service.go:435),   *)
(* and the digest items the handlers enqueue afterwards.                   *)
(*                                                                         *)
(* Transactions are READ COMMITTED.  A request is its statements; what it  *)
(* writes shows at its commit, the row locks of what it has written hold   *)
(* others up until then:                                                   *)
(*   - an update locks its participant by naming him, a removal by         *)
(*     deleting him;                                                       *)
(*   - a vote that is inserted holds its option against deletion, a        *)
(*     comment its participant (the foreign keys);                         *)
(*   - a vote that is deleted is held against any other delete;            *)
(*   - an option that is deleted is held against votes for it.             *)
(* A cascade takes all its rows and commits in one step.  Postgres ends a  *)
(* cycle of waits by aborting one of its transactions.                     *)
(***************************************************************************)
EXTENDS PollDigest

CONSTANTS
    Requests,       \* requests under way at a time
    People,         \* ids of participants
    Options,        \* the options at first
    Answers,        \* the answers a response may give
    Account,        \* whose account a participant is linked to, None for a guest
    Manager,        \* a follower who may manage the poll
    Limit,          \* LimitParticipants
    MaxRequests,    \* bound: requests in all
    None

\* Responses to the options of O.
ResponsesTo(O) == UNION {[A -> Answers] : A \in SUBSET O}

\* A poll has an option (schemas.go:215).
ASSUME ResponsesAssumption ==
    /\ Limit \in Nat /\ MaxRequests \in Nat
    /\ Options # {} /\ Answers # {} /\ None \notin ResponsesTo(Options)

VARIABLES
    options,        \* rows of poll_options
    participants,   \* rows of participants
    votes,          \* rows of votes: answers by participant and option, or None
    comments,       \* rows of comments: their participant and account, or None, and deleted_at
    req,            \* requests
    said,           \* history: the last response of each participant that was committed
    used            \* requests made

responseVars == <<options, participants, votes, comments, req, said, used>>
vars == <<poll, digestVars, responseVars>>

NoReq == [op |-> "none", pc |-> "idle", p |-> None, by |-> None, say |-> <<>>, todo |-> {}, gone |-> {}]

\* A poll with at most one participant, who has answered some options or none.
Init ==
    /\ poll = "open"
    /\ DigestInit
    /\ options = Options
    /\ \E P \in SUBSET People :
          /\ Cardinality(P) <= 1
          /\ participants = P
          /\ \E O \in SUBSET Options :
                said = [p \in People |->
                   IF p \in P THEN [o \in O |-> CHOOSE a \in Answers : TRUE] ELSE None]
    /\ votes = [p \in People |-> [o \in Options |->
                   IF p \in participants /\ o \in DOMAIN said[p] THEN said[p][o] ELSE None]]
    /\ comments = <<>>
    /\ req = [r \in Requests |-> NoReq]
    /\ used = 0

-----------------------------------------------------------------------------
\* Row locks of what a request has written and not yet committed.

Voted(p)      == {o \in Options : votes[p][o] # None}
Cast(r)       == DOMAIN req[r].say \ req[r].todo
Removes(r, p) == req[r].op = "remove" /\ req[r].pc = "cascade" /\ req[r].p = p

\* A named participant, one whose deletion has begun, a new vote's two references.
HoldsPerson(r, p)  == /\ req[r].p = p /\ p \in participants
                      /\ \/ req[r].op = "update" /\ req[r].pc \in {"clear", "cast"}
                         \/ Removes(r, p)
KeepsOption(r, o)  == req[r].pc = "cast" /\ o \in Cast(r)
DropsOption(r, o)  == req[r].op = "edit" /\ req[r].pc = "cascade" /\ req[r].p = o
HoldsVote(r, p, o) == req[r].p = p /\ o \in req[r].gone

\* Mutant: a vote takes its option for itself.
WaitsForEveryVoter(r) == {s \in Requests \ {r} :
    LET q == req[r] IN
    \/ q.pc \in {"name", "row"} /\ HoldsPerson(s, q.p)
    \/ q.pc = "cast" /\ \E o \in q.todo : DropsOption(s, o) \/ KeepsOption(s, o)
    \/ q.pc = "drop" /\ KeepsOption(s, q.p)}

\* For whom a request may wait in its next statement.
WaitsFor(r) == {s \in Requests \ {r} :
    LET q == req[r] IN
    \/ q.pc \in {"name", "row"} /\ HoldsPerson(s, q.p)
    \/ q.pc = "clear" /\ \E o \in Voted(q.p) : HoldsVote(s, q.p, o)
    \/ q.pc = "cast" /\ \E o \in q.todo : DropsOption(s, o)
    \/ q.pc = "link" /\ Removes(s, q.p)
    \/ q.pc = "drop" /\ KeepsOption(s, q.p)
    \/ q.pc = "cascade" /\ q.op = "remove" /\ \E o \in Voted(q.p) : HoldsVote(s, q.p, o)
    \/ q.pc = "cascade" /\ q.op = "edit" /\ \E p \in People : HoldsVote(s, p, q.p)}

Blocked(r) == WaitsFor(r) # {}

-----------------------------------------------------------------------------
\* Steps of a request.

Other == <<poll, digestVars>>

Begin(r, q) ==
    /\ req[r] = NoReq /\ used < MaxRequests
    /\ req' = [req EXCEPT ![r] = q]
    /\ used' = used + 1
    /\ UNCHANGED <<Other, options, participants, votes, comments, said>>

At(r, op, pc) == req[r].op = op /\ req[r].pc = pc /\ ~Blocked(r)
Goes(r, pc)   == req' = [req EXCEPT ![r].pc = pc]
Ends(r)       == req' = [req EXCEPT ![r] = NoReq]
Commits(r)    == req' = [req EXCEPT ![r] = [NoReq EXCEPT !.op = req[r].op, !.by = req[r].by,
                                                         !.pc = "notify"]]

\* participantAuthorized: a manager, the participant's account, his guest token.
MayEdit(u, p) == u = Manager \/ u = Account[p]

\* validateAnswersTx.
Responses == ResponsesTo(options)

\* AddParticipant: the poll is open, the unlocked count leaves room, the id is new.
BeginAdd(r) == \E p \in People, say \in Responses :
    /\ poll = "open"
    /\ Cardinality(participants) < Limit
    /\ said[p] = None /\ \A s \in Requests : req[s].op = "add" => req[s].p # p
    /\ Begin(r, [NoReq EXCEPT !.op = "add", !.pc = "cast", !.p = p, !.by = Account[p],
                              !.say = say, !.todo = DOMAIN say])

\* UpdateParticipant.
BeginUpdate(r) == \E p \in participants, say \in Responses, u \in Followers \cup {None} :
    /\ poll = "open" /\ MayEdit(u, p)
    /\ Begin(r, [NoReq EXCEPT !.op = "update", !.pc = "name", !.p = p, !.by = u,
                              !.say = say, !.todo = DOMAIN say])

\* Mutant: the participant is named, and so locked, only if he gets a new name.
NameIfAsked(r) ==
    /\ req[r].op = "update" /\ req[r].pc = "name"
    /\ Goes(r, "clear")
    /\ UNCHANGED <<Other, options, participants, votes, comments, said, used>>

\* UpdateParticipantName: no row, and no error, if he has been removed.
Name(r) ==
    /\ At(r, "update", "name")
    /\ Goes(r, "clear")
    /\ UNCHANGED <<Other, options, participants, votes, comments, said, used>>

\* DeleteVotesByParticipant.
Clear(r) ==
    /\ At(r, "update", "clear")
    /\ req' = [req EXCEPT ![r].pc = "cast", ![r].gone = Voted(req[r].p)]
    /\ UNCHANGED <<Other, options, participants, votes, comments, said, used>>

\* Mutant: nothing refers a vote to its participant and its option.
CastVoteAnyway(r) == \E o \in req[r].todo :
    /\ req[r].pc = "cast"
    /\ req' = [req EXCEPT ![r].todo = @ \ {o}]
    /\ UNCHANGED <<Other, options, participants, votes, comments, said, used>>

\* UpsertVote, in the order of a Go map.  The foreign keys refuse an option or a
\* participant that has gone, and the request is rolled back.
CastVote(r) == \E o \in req[r].todo :
    /\ req[r].pc = "cast" /\ \A s \in Requests \ {r} : ~DropsOption(s, o)
    /\ IF o \in options /\ (req[r].op = "add" \/ req[r].p \in participants)
       THEN req' = [req EXCEPT ![r].todo = @ \ {o}]
       ELSE Ends(r)
    /\ UNCHANGED <<Other, options, participants, votes, comments, said, used>>

CommitResponse(r) ==
    /\ req[r].pc = "cast" /\ req[r].todo = {}
    /\ LET q == req[r] IN
       /\ participants' = IF q.op = "add" THEN participants \cup {q.p} ELSE participants
       /\ votes' = [votes EXCEPT ![q.p] = [o \in Options |->
              IF o \in DOMAIN q.say THEN q.say[o]
              ELSE IF o \in q.gone THEN None ELSE votes[q.p][o]]]
       /\ said' = [said EXCEPT ![q.p] = q.say]
    /\ Commits(r)
    /\ UNCHANGED <<Other, options, comments, used>>

\* RemoveParticipant: a manager at any status, the participant while it is open.
BeginRemove(r) == \E p \in participants, u \in Followers \cup {None} :
    /\ poll # "gone" /\ MayEdit(u, p)
    /\ u = Manager \/ poll = "open"
    /\ Begin(r, [NoReq EXCEPT !.op = "remove", !.pc = "row", !.p = p, !.by = u])

DeleteParticipant(r) ==
    /\ At(r, "remove", "row")
    /\ Goes(r, "cascade")
    /\ UNCHANGED <<Other, options, participants, votes, comments, said, used>>

\* The votes go with him, comments lose their link; nothing to do if he has gone.
CommitRemove(r) ==
    /\ At(r, "remove", "cascade")
    /\ LET p == req[r].p IN
       /\ participants' = participants \ {p}
       /\ votes' = [votes EXCEPT ![p] = [o \in Options |-> None]]
       /\ comments' = [k \in DOMAIN comments |->
                          IF comments[k].from = p THEN [comments[k] EXCEPT !.from = None]
                          ELSE comments[k]]
    /\ Commits(r)
    /\ UNCHANGED <<Other, options, said, used>>

\* UpdatePoll with an options array that leaves one out.  The row of the poll,
\* which an edit writes first, keeps a second edit waiting.
BeginEdit(r) == \E o \in options :
    /\ poll = "open" /\ options # {o}
    /\ \A s \in Requests : req[s].op # "edit"
    /\ Begin(r, [NoReq EXCEPT !.op = "edit", !.pc = "drop", !.p = o])

DeleteOption(r) ==
    /\ At(r, "edit", "drop")
    /\ Goes(r, "cascade")
    /\ UNCHANGED <<Other, options, participants, votes, comments, said, used>>

CommitEdit(r) ==
    /\ At(r, "edit", "cascade")
    /\ options' = options \ {req[r].p}
    /\ votes' = [p \in People |-> [votes[p] EXCEPT ![req[r].p] = None]]
    /\ Ends(r)
    /\ UNCHANGED <<Other, participants, comments, said, used>>

\* AddComment: linked to a participant only by his guest token.
BeginComment(r) == \E p \in {g \in participants : Account[g] = None} \cup {None} :
    /\ poll # "gone"
    /\ \E u \in (IF p = None THEN Followers ELSE {None}) :
          Begin(r, [NoReq EXCEPT !.op = "comment", !.pc = "link", !.p = p, !.by = u])

InsertComment(p, u) == comments' = Append(comments, [from |-> p, by |-> u, deleted |-> FALSE])

\* The insert is refused if its participant has gone.
CommitComment(r) ==
    /\ At(r, "comment", "link")
    /\ IF req[r].p \in participants \cup {None}
       THEN InsertComment(req[r].p, req[r].by) /\ Commits(r)
       ELSE UNCHANGED comments /\ Ends(r)
    /\ UNCHANGED <<Other, options, participants, votes, said, used>>

\* DeleteComment: a manager or the account that wrote it, whatever the status;
\* the row stays, and nobody is told.
DeleteComment(k, u) ==
    /\ used < MaxRequests /\ used' = used + 1
    /\ poll # "gone" /\ ~comments[k].deleted
    /\ u = Manager \/ u = comments[k].by
    /\ comments' = [comments EXCEPT ![k].deleted = TRUE]
    /\ UNCHANGED <<Other, options, participants, votes, req, said>>

EventOf == [add    |-> "response.created",   update  |-> "response.updated",
            remove |-> "response.withdrawn", comment |-> "comment.created"]

\* enqueueDigestBestEffort, after the commit.
Notify(r) ==
    /\ req[r].pc = "notify" /\ Len(enqueued) < MaxItems
    /\ Enqueue([id |-> Len(enqueued) + 1, event |-> EventOf[req[r].op], actor |-> req[r].by])
    /\ Ends(r)
    /\ UNCHANGED <<poll, heard, dropped, shared, deaths>>
    /\ UNCHANGED <<options, participants, votes, comments, said, used>>

\* A connection is lost, or Postgres breaks a cycle of waits: what is uncommitted
\* is rolled back, and a committed request is not announced.
Abort(r) ==
    /\ req[r] # NoReq
    /\ Ends(r)
    /\ UNCHANGED <<Other, options, participants, votes, comments, said, used>>

\* SetStatus, Finalize, a deletion, a suspension and its end.
SetPoll ==
    /\ poll' \in {"open", "closed", "gone"} \ {poll}
    /\ UNCHANGED <<digestVars, responseVars>>

-----------------------------------------------------------------------------
Step(r) == \/ BeginAdd(r) \/ BeginUpdate(r) \/ BeginRemove(r) \/ BeginEdit(r) \/ BeginComment(r)
           \/ Name(r) \/ Clear(r) \/ CastVote(r) \/ CommitResponse(r)
           \/ DeleteParticipant(r) \/ CommitRemove(r)
           \/ DeleteOption(r) \/ CommitEdit(r)
           \/ CommitComment(r) \/ Notify(r) \/ Abort(r)

Digest == /\ WindowEnds \/ DigestWorker \/ \E w \in Workers : WorkerDies(w)
          /\ UNCHANGED responseVars

Next ==
    \/ \E r \in Requests : Step(r)
    \/ \E k \in DOMAIN comments, u \in Followers : DeleteComment(k, u)
    \/ Digest \/ SetPoll

Spec == Init /\ [][Next]_vars

-----------------------------------------------------------------------------
\* Rows refer to rows, whatever was deleted meanwhile (the foreign keys of
\* 00003_polls.sql, as participants.go and service.go write beneath them).
TypeOK ==
    /\ poll \in {"open", "closed", "gone"}
    /\ options \subseteq Options /\ options # {}
    /\ participants \subseteq People
    /\ \A p \in People : Voted(p) # {} => p \in participants /\ Voted(p) \subseteq options
    /\ \A k \in DOMAIN comments : comments[k].from \in participants \cup {None}
    /\ \A w \in Workers : batch[w].pc \in {"idle", "process", "complete"}
    /\ row.due => row.there
    /\ deaths \in 0 .. MaxDeaths /\ used \in 0 .. MaxRequests

\* participants.go:292: an update "fully replaces the participant's votes": what
\* stands is one submission, the last committed, less the options deleted since;
\* never a blend of two.
VotesAreOneSubmission ==
    \A p \in participants : \A o \in options :
        votes[p][o] = IF o \in DOMAIN said[p] THEN said[p][o] ELSE None

\* Whatever order Go's maps give to the votes, responses never wait for each other
\* in a circle: among any of them there is one that waits for none of them.  A
\* circle takes an edit that deletes an option (service.go:516).
DeadlockNeedsEdit ==
    (\A r \in Requests : req[r].op # "edit") =>
        \A S \in (SUBSET Requests) \ {{}} : \E r \in S : WaitsFor(r) \cap S = {}

=============================================================================
