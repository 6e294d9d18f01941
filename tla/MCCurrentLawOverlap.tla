------------------------- MODULE MCCurrentLawOverlap -------------------------
(***************************************************************************)
(* Instances of CurrentLawOverlap for TLC.                                 *)
(***************************************************************************)
EXTENDS CurrentLawOverlap, TLC

\* Processes are interchangeable.
Symmetry == Permutations(Runs)
=============================================================================
