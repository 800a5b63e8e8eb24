------------------------- MODULE MCTimeControlDispatch -------------------------
(* Small instances of TimeControlDispatch. *)
EXTENDS TimeControlDispatch, TLC

Symmetry == Permutations(Tests) \cup Permutations(CatchUps)
================================================================================
