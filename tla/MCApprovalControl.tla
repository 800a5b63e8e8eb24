-------------------------- MODULE MCApprovalControl --------------------------
(* Server processes are interchangeable. *)
EXTENDS ApprovalControl, TLC

ProcessSymmetry == Permutations(Processes)
=============================================================================
