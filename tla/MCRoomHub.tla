----------------------------- MODULE MCRoomHub -----------------------------
\* A small room for RoomHub.
EXTENDS RoomHub, TLC

\* Transactions and sockets have no order anywhere in the code.
Symmetry == Permutations(Writers) \cup Permutations(Subscribers)

=============================================================================
