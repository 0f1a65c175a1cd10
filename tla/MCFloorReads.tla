---------------------------- MODULE MCFloorReads ----------------------------
(* FloorReads for TLC: versions are numbers, the other sets are model values. *)
EXTENDS FloorReads
=============================================================================
