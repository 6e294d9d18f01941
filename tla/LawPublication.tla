--------------------------- MODULE LawPublication ----------------------------
(***************************************************************************)
(* What the reader of a law is promised (design document of the refresh,   *)
(* sections 5 and 6.4): a law has at most one current revision; a          *)
(* revision is archived whole, once, and its text never changes in place;  *)
(* the current revision changes in one step, one law at a time, and only   *)
(* to a revision that has been archived.                                   *)
(***************************************************************************)
EXTENDS Naturals

CONSTANTS Laws, Versions, Texts, NoText

VARIABLES
    current,    \* the version shown for each law, 0 for none
    archive     \* the text archived for each law and version

vars == <<current, archive>>

Init ==
    /\ current \in [Laws -> Versions \cup {0}]
    /\ archive \in [Laws -> [Versions -> Texts]]
    /\ \A l \in Laws : current[l] # 0 => archive[l][current[l]] # NoText

\* A revision is added to the archive; nothing that was there changes.
Archive(l, v, t) ==
    /\ archive[l][v] = NoText
    /\ archive' = [archive EXCEPT ![l][v] = t]
    /\ UNCHANGED current

\* One law starts to show a revision that is already archived.
Switch(l, v) ==
    /\ archive[l][v] # NoText
    /\ current' = [current EXCEPT ![l] = v]
    /\ UNCHANGED archive

Next == \E l \in Laws, v \in Versions :
            Switch(l, v) \/ \E t \in Texts \ {NoText} : Archive(l, v, t)

Spec == Init /\ [][Next]_vars
=============================================================================
