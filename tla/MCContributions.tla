-------------------------- MODULE MCContributions --------------------------
(* Contributions for TLC: its sets are model values the configuration gives. *)
EXTENDS Contributions, TLC

CONSTANT u1

\* Every observation is u1's.
MCOwner == [o \in Observations |-> u1]

Symmetry == Permutations(Requests)
=============================================================================
