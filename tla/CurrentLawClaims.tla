--------------------------- MODULE CurrentLawClaims --------------------------
(***************************************************************************)
(* What the documents, comments and tests of the refresh say of it and the *)
(* code does not do.  Each claim is checked by a run of its own, which     *)
(* ends in a counterexample; see the README.                               *)
(***************************************************************************)
EXTENDS CurrentLawRefresh

\* refresh-repository.ts:10-11: CURRENT_REVISION_CHANGED means that another
\* process has switched the law first.
RefusedOnlyAfterSwitch ==
    [][\A r \in Runs, l \in Laws :
          ActivateRefused(r, l) => current[l] # work[r][l].prev]_vars
=============================================================================
