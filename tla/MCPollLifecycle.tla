-------------------------- MODULE MCPollLifecycle --------------------------
EXTENDS PollLifecycle, TLC
Symmetry == Permutations(Requests) \cup Permutations(Options)
=============================================================================
