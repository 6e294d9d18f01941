-------------------------- MODULE CurrentLawOverlap --------------------------
(***************************************************************************)
(* The refresh when connections die under it.  withRefreshLock holds the   *)
(* lock in the session of one connection and does the work on others: when *)
(* that connection dies the lock goes with it, the work goes on, and a     *)
(* second run may start beside the first.  When the connection of a switch *)
(* dies after the commit, a law is switched and reported as failed.  What  *)
(* then still protects the law is the compare-and-swap.                    *)
(***************************************************************************)
EXTENDS CurrentLawRefresh

\* The connection that holds the lock is lost; the run does not notice before
\* its unlock fails at the very end.
LoseLock(r) ==
    /\ lock = r
    /\ phase[r] \in {"working", "unlocking"}
    /\ lock' = NoRun
    /\ UNCHANGED <<egovVars, dbVars, store, phase, mode, asOf, work>>

\* activateCandidateRevision commits and the acknowledgement is lost: the law
\* is switched, and recordFailedCheck then leaves an error beside it.
ActivateUnacknowledged(r, l) ==
    LET k == work[r][l].key IN
    /\ At(r, l, "staged")
    /\ SwapMatches(r, l)
    /\ current' = [current EXCEPT ![l] = k]
    /\ status' = [status EXCEPT ![l][k] = "active", ![l][work[r][l].prev] = "superseded"]
    /\ result' = [result EXCEPT ![r][l] = "updated"]
    /\ observed' = [observed EXCEPT ![l] = k]
    /\ \E e \in BOOLEAN : syncError' = [syncError EXCEPT ![l] = e]
    /\ Finish(r, l, "failed")
    /\ UNCHANGED <<egovVars, text, pkgOf, store, runRow, pkgStatus, procVars>>

OverlapNext ==
    \/ Next
    \/ \E r \in Runs : LoseLock(r)
    \/ \E r \in Runs, l \in Laws : ActivateUnacknowledged(r, l)

OverlapSpec == Init /\ [][OverlapNext]_vars
=============================================================================
