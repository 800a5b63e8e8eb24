---------------------------- MODULE MCEmailOutbox ----------------------------
(* Overlapping runs over ordinary and Timekontrol mails; the values of the   *)
(* constants are model values given in the cfg files.                        *)
EXTENDS EmailOutbox, TLC

\* The runs are interchangeable.
WorkerSymmetry == Permutations(Workers)
=============================================================================
