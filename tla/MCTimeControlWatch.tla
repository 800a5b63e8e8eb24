------------------------- MODULE MCTimeControlWatch -------------------------
(* Small instances of TimeControlWatch. *)
EXTENDS TimeControlWatch, TLC

Symmetry == Permutations(Workers) \cup Permutations(Watchers)
=============================================================================
