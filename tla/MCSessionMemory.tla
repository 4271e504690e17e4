-------------------------- MODULE MCSessionMemory ---------------------------
(***************************************************************************)
(* Instances of SessionMemory for TLC: a few events, two writers.          *)
(***************************************************************************)
EXTENDS SessionMemory, TLC

\* Something said, a request, a grant and a refusal, of different risks.
MCContent == { [goal |-> "refund", approval |-> 0, risk |-> 0],
               [goal |-> "", approval |-> 1, risk |-> 5],
               [goal |-> "audit", approval |-> 2, risk |-> 5],
               [goal |-> "", approval |-> 3, risk |-> 2] }

Symmetry == Permutations(Ids) \cup Permutations(BranchIds) \cup Permutations(Writers)
=============================================================================
