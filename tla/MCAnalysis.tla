----------------------------- MODULE MCAnalysis -----------------------------
(* Verdicts for TLC, with a bound on the states in which both requests are under way. *)
EXTENDS Verdicts, TLC

Symmetry == Permutations(Obs) \cup Permutations(Rulesets) \cup Permutations(Requests)

\* A second request comes while no other computes, since of two that compute at once neither
\* can answer with the other's run, and only where all trades are Lucky.
Bounded ==
    \/ \E r \in Requests : Is(r, "new")
    \/ /\ Cardinality({r \in Requests : request[r].step \in Computing}) <= 1
       /\ \A o \in Obs : \A row \in {obs[o], writing[o]} \ {None} : row.kind = "lucky"
=============================================================================
