----------------------------- MODULE MCDatasets -----------------------------
(* Datasets for TLC: its sets are model values the configuration gives. *)
EXTENDS Datasets, TLC

Symmetry == Permutations(Builds) \cup Permutations(Observations)
=============================================================================
