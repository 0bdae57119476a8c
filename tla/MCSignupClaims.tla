--------------------------- MODULE MCSignupClaims ---------------------------
\* Small sheets for SignupClaims.
EXTENDS SignupClaims, TLC

\* Neither the slots nor the ids have an order anywhere in the code.
Symmetry == Permutations(Requests) \cup Permutations(Participants)
               \cup Permutations(Options)

=============================================================================
