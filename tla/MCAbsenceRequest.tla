--------------------------- MODULE MCAbsenceRequest ---------------------------
(***************************************************************************)
(* Instances of AbsenceRequest: the ranges employees ask for.              *)
(***************************************************************************)
EXTENDS AbsenceRequest, TLC

\* Single days: two drafts that compete for one exempt day.
MCAsks == {{1}, {2}}

\* Two ways to cut the days 1 to 3: one waiting request of two days, which a
\* promotion may cut again, or two waiting requests of one day.
MCSplits == {<<{1}, {2, 3}>>, <<{1}, {2}, {3}>>}

\* Calls and keys are interchangeable; rows are not, their order counts.
Symmetry == Permutations(Callers) \cup Permutations(CreateKeys) \cup Permutations(SplitKeys)
===============================================================================
