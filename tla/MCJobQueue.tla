----------------------------- MODULE MCJobQueue -----------------------------
(***************************************************************************)
(* JobQueue on small instances.                                            *)
(***************************************************************************)
EXTENDS JobQueue, TLC

Symmetry == Permutations(Workers) \cup Permutations(Ids)
=============================================================================
