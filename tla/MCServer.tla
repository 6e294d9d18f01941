------------------------------ MODULE MCServer -------------------------------
(***************************************************************************)
(* The corpus server for TLC: what its editors do to the corpus, how its   *)
(* users come by their roles, how a statute is cut into provisions, and    *)
(* how numbers are written.  The four have no state in common, so one run  *)
(* checks them side by side: a behaviour belongs to one of them.           *)
(***************************************************************************)
EXTENDS MCCorpusIngest, Members, ProvisionPaths

CONSTANTS newcomer, namesake

\* Three accounts, two of which have the same address.
MCPersons == {Operator, newcomer, namesake}
MCEmailOf == [p \in MCPersons |-> IF p = namesake THEN newcomer ELSE p]

MCNums == {<<>>, <<1>>}
MCTitles == {<<>>, <<1>>, <<1, 2>>}

VARIABLE side

serverVars == <<vars, membersVars, pathVars, number, side>>

ServerStart ==
    /\ side \in {"corpus", "members", "paths", "numerals"}
    /\ Init /\ MembersInit /\ PathsInit /\ NumeralsInit

ServerSteps ==
    /\ UNCHANGED side
    /\ \/ side = "corpus" /\ Next /\ UNCHANGED <<membersVars, pathVars, number>>
       \/ side = "members" /\ MembersNext /\ UNCHANGED <<vars, pathVars, number>>
       \/ side = "paths" /\ PathsNext /\ UNCHANGED <<vars, membersVars, number>>
       \/ side = "numerals" /\ NumeralsNext /\ UNCHANGED <<vars, membersVars, pathVars>>

ServerSpec == ServerStart /\ [][ServerSteps]_serverVars

ServerSymmetry == Permutations(Requests) \cup Permutations(Browsers)
=============================================================================
