------------------------- MODULE MCCurrentLawRefresh -------------------------
(***************************************************************************)
(* Instances of CurrentLawRefresh for TLC.                                 *)
(***************************************************************************)
EXTENDS CurrentLawRefresh, TLC

\* Laws are interchangeable, and so are processes.
Symmetry == Permutations(Laws) \cup Permutations(Runs)
=============================================================================
