---------------------------- MODULE MCLiveTotals ----------------------------
\* Presence and the statistics share no state, so nothing is lost by checking
\* them side by side: in a behaviour only one of the two moves, and the fairness
\* of the other, which has nothing to do, asks nothing.
EXTENDS Presence, LandingStats

VARIABLE moves

Init == PresenceInit /\ StatsInit /\ moves \in {"presence", "stats"}

Next == \/ moves = "presence" /\ PresenceNext /\ UNCHANGED <<statsVars, moves>>
        \/ moves = "stats" /\ StatsNext /\ UNCHANGED <<presenceVars, moves>>

Spec == /\ Init /\ [][Next]_<<presenceVars, statsVars, moves>>
        /\ PresenceFairness /\ StatsFairness

=============================================================================
