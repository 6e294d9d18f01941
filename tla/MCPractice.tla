----------------------------- MODULE MCPractice -----------------------------
(* The parts of the practice data share no rows that matter to two of them,  *)
(* so one run checks them side by side: a behaviour belongs to one of them.  *)
EXTENDS PracticeServer, Backup, TextMarks, ConfirmedRelations, TLC

CONSTANTS a1, a2, a3

\* From one article to either of two others.
MCEdges == {<<a1, a2>>, <<a1, a3>>}

\* Text, a number shown shorter than it is written, and text again.
MCTokens ==
  <<[kind |-> "plain", length |-> 3, shown |-> 3],
    [kind |-> "number", length |-> 2, shown |-> 1],
    [kind |-> "plain", length |-> 1, shown |-> 1]>>

VARIABLE part

practicePartVars == <<practiceVars, backupVars, marksVars, relationVars, part>>

PracticeStart ==
  /\ part \in {"server", "backup", "marks", "relations"}
  /\ PracticeInit /\ BackupInit /\ MarksInit /\ RelationsInit
  /\ part # "backup" => public = {}
  /\ part # "server" => users = 0
  /\ candidates = [k \in Edges |-> IF part = "relations" /\ k = <<a1, a2>> THEN "pending" ELSE Absent]

PracticeParts ==
  /\ UNCHANGED part
  /\ \/ part = "server" /\ PracticeNext /\ UNCHANGED <<backupVars, marksVars, relationVars>>
     \/ part = "backup" /\ BackupNext /\ UNCHANGED <<practiceVars, marksVars, relationVars>>
     \/ part = "marks" /\ MarksNext /\ UNCHANGED <<practiceVars, backupVars, relationVars>>
     \/ part = "relations" /\ RelationsNext /\ UNCHANGED <<practiceVars, backupVars, marksVars>>

PracticePartsSpec == PracticeStart /\ [][PracticeParts]_practicePartVars

\* The calls of the service are requests too.
PracticeSymmetry == Permutations(Requests) \cup Permutations(Projects)
=============================================================================
