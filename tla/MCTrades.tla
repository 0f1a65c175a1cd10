------------------------------ MODULE MCTrades ------------------------------
(* Trades for TLC: the configurations give its sets as model values.  Uploads  *)
(* and keys are interchangeable, so a run that checks no liveness   *)
(* may use Symmetry.                                                            *)
EXTENDS Trades, TLC

Symmetry == Permutations(Uploads) \cup Permutations(Keys)
=============================================================================
