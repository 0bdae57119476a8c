--------------------------- MODULE MCPollResponses ---------------------------
\* A poll with two options that a manager and a participant follow.
EXTENDS PollResponses, TLC

MCEvents == {"response.created", "response.updated", "response.withdrawn", "comment.created"}

\* One person has an account, the others are guests.
CONSTANT Linked
MCAccount == [p \in People |-> IF p = Linked THEN "bob" ELSE None]

\* bob has switched updates off.
MCWants == {"ann", "bob"} \X MCEvents \ {<<"bob", "response.updated">>}

Symmetry == Permutations(Requests) \cup Permutations(Options) \cup Permutations(People \ {Linked}) \cup Permutations(Workers)

\* Two things are looked at, each for itself, since together they have too many states:
\* the ballots of several people, with one worker at a time; and the digest with two
\* workers, one past its lease, fed by one comment or removal at a time, of one person.
VARIABLE focus

InFocus ==
    \/ focus = "ballots" /\ Cardinality({w \in Workers : batch[w] # NoBatch}) <= 1
    \/ /\ focus = "digest"
       /\ Cardinality({r \in Requests : req[r] # NoReq}) <= 1
       /\ \A r \in Requests : req[r].op \in {"none", "comment", "remove"}
       /\ participants \subseteq {Linked} /\ \A r \in Requests : req[r].p \in {Linked, None}

MCInit == Init /\ focus \in {"ballots", "digest"} /\ InFocus
MCNext == Next /\ UNCHANGED focus /\ InFocus'
MCSpec == MCInit /\ [][MCNext]_<<vars, focus>>

=============================================================================
