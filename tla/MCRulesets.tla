----------------------------- MODULE MCRulesets -----------------------------
(* Rulesets for TLC: versions are numbers, the other sets are model values. *)
EXTENDS Rulesets, TLC

Symmetry == Permutations(Staff) \cup Permutations(Params) \cup Permutations(FloorValues)
=============================================================================
