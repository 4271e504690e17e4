--------------------------- MODULE MCSessionStore ---------------------------
(***************************************************************************)
(* Instances of SessionStore for TLC: a few events, two writers.           *)
(***************************************************************************)
EXTENDS SessionStore, TLC

Symmetry == Permutations(Ids) \cup Permutations(BranchIds) \cup Permutations(Writers)
=============================================================================
