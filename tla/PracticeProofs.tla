--------------------------- MODULE PracticeProofs ----------------------------
(***************************************************************************)
(* Proofs about the data of the practice: the confirmed relations, the     *)
(* active project, the search history and the backup, for any number of    *)
(* calls, articles, projects and attempts.                                 *)
(***************************************************************************)
EXTENDS FiniteSetTheorems, WellFoundedInduction, PracticeServer, Backup, ConfirmedRelations, TLAPS

-----------------------------------------------------------------------------
(* The confirmed relations.                                                  *)

\* What the kind of a piece of work says of its parts.
LEMMA WorkParts ==
    ASSUME NEW w \in Operations
    PROVE  /\ w.op \in {"save", "reject", "approve", "manual", "revoke"}
           /\ w.op \in {"save", "reject", "approve"} => w.of \in Edges
           /\ w.op \in {"approve", "manual"} => w.edge \in Edges
           /\ w.op = "revoke" => w.relation \in Calls
  <1>1. CASE w \in [op : {"save", "reject"}, of : Edges] BY <1>1
  <1>2. CASE w \in [op : {"approve"}, of : Edges, edge : Edges] BY <1>2
  <1>3. CASE w \in [op : {"manual"}, edge : Edges] BY <1>3
  <1>4. CASE w \in [op : {"revoke"}, relation : Calls] BY <1>4
  <1> QED BY <1>1, <1>2, <1>3, <1>4 DEF Operations

LEMMA ViewTyped ==
    ASSUME RelationsTypeOK, NEW w \in Operations
    PROVE  View(w) \in Views
  <1>1. candidates \in [Edges -> Statuses \cup {Absent}] BY DEF RelationsTypeOK
  <1>2. (IF w.op \in {"save", "approve", "reject"} THEN candidates[w.of] ELSE Absent)
            \in Statuses \cup {Absent}
    BY <1>1, WorkParts
  <1>3. /\ Active(w.edge) \in BOOLEAN
        /\ InForce(w.relation) \in BOOLEAN
        /\ CurrentEnds(w.of) \in BOOLEAN
        /\ CurrentEnds(w.edge) \in BOOLEAN
    BY DEF Active, InForce, CurrentEnds
  <1> QED BY <1>2, <1>3 DEF View, Views

LEMMA RelationsTypeInit == RelationsInit => RelationsTypeOK
BY RelationsAssumption DEF RelationsInit, RelationsTypeOK, Statuses, States

\* A call that ends keeps its work.
LEMMA AnswerTyped ==
    ASSUME RelationsTypeOK, NEW c \in Calls, NEW state \in States,
           service[c].state # "idle", Answer(c, state), state # "open"
    PROVE  /\ service' \in [Calls -> [state : States, work : Operations \cup {Absent},
                              attempt : 0 .. MaxAttempts, seen : Views \cup {Absent}]]
           /\ \A d \in Calls : /\ service'[d].state # "idle" => service'[d].work # Absent
                               /\ service'[d].state = "open" => service'[d].seen # Absent
BY RelationsAssumption DEF RelationsTypeOK, Answer

LEMMA RelationsTypeNext ==
    RelationsTypeOK /\ [RelationsNext]_relationVars => RelationsTypeOK'
  <1> SUFFICES ASSUME RelationsTypeOK, [RelationsNext]_relationVars
               PROVE  RelationsTypeOK'
    OBVIOUS
  <1> USE RelationsAssumption, AbsentAssumption
  <1>1. CASE UNCHANGED relationVars BY <1>1 DEF relationVars, RelationsTypeOK
  <1>2. CASE SwitchArticle BY <1>2 DEF SwitchArticle, RelationsTypeOK
  <1>3. ASSUME NEW c \in Calls, BeginCall(c) PROVE RelationsTypeOK'
    <2>1. PICK w \in Operations :
            service' = [service EXCEPT ![c] =
              [state |-> "open", work |-> w, attempt |-> 1, seen |-> View(w)]]
      BY <1>3 DEF BeginCall
    <2>2. View(w) \in Views BY ViewTyped
    <2>3. [state |-> "open", work |-> w, attempt |-> 1, seen |-> View(w)]
            \in [state : States, work : Operations \cup {Absent},
                 attempt : 0 .. MaxAttempts, seen : Views \cup {Absent}]
      BY <2>2 DEF States
    <2>4. View(w) # Absent /\ w # Absent BY <2>2
    <2>5. UNCHANGED <<current, candidates, relations>> BY <1>3 DEF BeginCall
    <2> QED BY <2>1, <2>3, <2>4, <2>5 DEF RelationsTypeOK
  <1>4. ASSUME NEW c \in Calls, Refuse(c) PROVE RelationsTypeOK'
    BY <1>4, AnswerTyped DEF Refuse, RelationsTypeOK, States
  <1>5. ASSUME NEW c \in Calls, service[c].state = "open"
        PROVE  service[c].work \in Operations
    BY <1>5 DEF RelationsTypeOK
  <1>6. ASSUME NEW c \in Calls, SaveCandidate(c) PROVE RelationsTypeOK'
    <2>1. service[c].work.of \in Edges
      BY <1>5, <1>6, WorkParts DEF SaveCandidate, CanCommit
    <2>2. candidates' \in [Edges -> Statuses \cup {Absent}]
      BY <1>6, <2>1 DEF SaveCandidate, RelationsTypeOK, Statuses
    <2> QED BY <1>6, <2>2, AnswerTyped DEF SaveCandidate, CanCommit, RelationsTypeOK, States
  <1>7. ASSUME NEW c \in Calls, ApproveCandidate(c) PROVE RelationsTypeOK'
    <2>1. service[c].work.of \in Edges /\ service[c].work.edge \in Edges
      BY <1>5, <1>7, WorkParts DEF ApproveCandidate, CanCommit
    <2>2. candidates' \in [Edges -> Statuses \cup {Absent}]
      BY <1>7, <2>1 DEF ApproveCandidate, RelationsTypeOK, Statuses
    <2>3. relations' \in [Calls -> Relations \cup {Absent}]
      BY <1>7, <2>1 DEF ApproveCandidate, RelationsTypeOK, Relations
    <2> QED BY <1>7, <2>2, <2>3, AnswerTyped
            DEF ApproveCandidate, CanCommit, RelationsTypeOK, States
  <1>8. ASSUME NEW c \in Calls, RejectCandidate(c) PROVE RelationsTypeOK'
    <2>1. candidates' \in [Edges -> Statuses \cup {Absent}]
      BY <1>8 DEF RejectCandidate, RelationsTypeOK, Statuses
    <2> QED BY <1>8, <2>1, AnswerTyped DEF RejectCandidate, CanCommit, RelationsTypeOK, States
  <1>9. ASSUME NEW c \in Calls, CreateManual(c) PROVE RelationsTypeOK'
    <2>1. service[c].work.edge \in Edges
      BY <1>5, <1>9, WorkParts DEF CreateManual, CanCommit
    <2>2. relations' \in [Calls -> Relations \cup {Absent}]
      BY <1>9, <2>1 DEF CreateManual, RelationsTypeOK, Relations
    <2> QED BY <1>9, <2>2, AnswerTyped DEF CreateManual, CanCommit, RelationsTypeOK, States
  <1>10. ASSUME NEW c \in Calls, Revoke(c) PROVE RelationsTypeOK'
    <2>1. InForce(service[c].work.relation) /\ service[c].work.relation \in Calls
      BY <1>5, <1>10, WorkParts DEF Revoke, CanCommit, Throws, Serializable, View
    <2>2. relations' \in [Calls -> Relations \cup {Absent}]
      BY ZenonT(40), <1>10, <2>1 DEF Revoke, RelationsTypeOK, Relations, InForce
    <2> QED BY <1>10, <2>2, AnswerTyped DEF Revoke, CanCommit, RelationsTypeOK, States
  <1>11. ASSUME NEW c \in Calls, Conflict(c) PROVE RelationsTypeOK'
    <2>1. View(service[c].work) \in Views BY <1>5, <1>11, ViewTyped DEF Conflict
    <2>2. View(service[c].work) # Absent BY <2>1
    <2>3. CASE service[c].attempt < MaxAttempts
      <3>1. service[c].attempt + 1 \in 0 .. MaxAttempts
        BY <2>3 DEF RelationsTypeOK
      <3>2. service' = [service EXCEPT ![c] =
              [state |-> "open", work |-> service[c].work,
               attempt |-> service[c].attempt + 1, seen |-> View(service[c].work)]]
        BY <1>11, <2>3 DEF Conflict
      <3>3. UNCHANGED <<current, candidates, relations>> BY <1>11 DEF Conflict
      <3> QED BY <1>5, <1>11, <2>1, <2>2, <3>1, <3>2, <3>3 DEF Conflict, RelationsTypeOK, States
    <2>4. CASE ~(service[c].attempt < MaxAttempts)
      BY <1>11, <2>4, AnswerTyped DEF Conflict, RelationsTypeOK, States
    <2> QED BY <2>3, <2>4
  <1>12. ASSUME NEW c \in Calls, Converge(c) PROVE RelationsTypeOK'
    <2>1. PICK state \in {"ok", "refused", "conflict"} : Answer(c, state)
      BY <1>12 DEF Converge
    <2> QED BY <1>12, <2>1, AnswerTyped DEF Converge, RelationsTypeOK, States
  <1> QED BY <1>1, <1>2, <1>3, <1>4, <1>6, <1>7, <1>8, <1>9, <1>10, <1>11, <1>12
          DEF RelationsNext

(***************************************************************************)
(* The rows and the calls of the service are well typed.                   *)
(***************************************************************************)
THEOREM RelationsTypeCorrect == RelationsSpec => []RelationsTypeOK
BY RelationsTypeInit, RelationsTypeNext, PTL DEF RelationsSpec

-----------------------------------------------------------------------------
LEMMA ReviewedInit == RelationsInit => RelationsAreReviewed
  <1> SUFFICES ASSUME RelationsInit PROVE RelationsAreReviewed
    OBVIOUS
  <1>1. /\ \A c \in Calls : relations[c] = Absent /\ service[c].state = "idle"
        /\ \A k \in Edges : candidates[k] # "promoted"
    BY AbsentAssumption DEF RelationsInit, Statuses
  <1> QED BY <1>1 DEF RelationsAreReviewed, OneInForce, PromotedOnce, AnswersAreTrue, InForce

\* What a transaction found holds when it commits.
LEMMA CommitFinds ==
    ASSUME RelationsTypeOK, NEW c \in Calls, NEW op, CanCommit(c, op)
    PROVE  /\ service[c].state = "open" /\ service[c].work.op = op
           /\ service[c].work \in Operations
           /\ op = "save" => service[c].work.of \in Edges
           /\ op \in {"approve", "reject"} =>
                 service[c].work.of \in Edges /\ candidates[service[c].work.of] = "pending"
           /\ op \in {"approve", "manual"} =>
                 service[c].work.edge \in Edges /\ ~Active(service[c].work.edge)
           /\ op = "revoke" =>
                 service[c].work.relation \in Calls /\ InForce(service[c].work.relation)
  <1>1. service[c].work \in Operations BY DEF CanCommit, RelationsTypeOK
  <1> QED BY <1>1, WorkParts DEF CanCommit, Throws, Serializable, View

\* A call that has not ended well has made no relation.
LEMMA OpenMadeNothing ==
    ASSUME AnswersAreTrue, NEW c \in Calls, service[c].state # "ok"
    PROVE  relations[c] = Absent
BY DEF AnswersAreTrue

\* Nothing is disturbed where the rows stay and no call says it is done that was not.
LEMMA RowsStay ==
    ASSUME RelationsTypeOK, RelationsTypeOK', RelationsAreReviewed,
           UNCHANGED <<candidates, relations>>,
           \A c \in Calls : \/ service'[c].state = service[c].state /\ service'[c].work = service[c].work
                            \/ service[c].state # "ok" /\ service'[c].state # "ok"
    PROVE  RelationsAreReviewed'
  <1>1. OneInForce' /\ PromotedOnce'
    BY DEF RelationsAreReviewed, OneInForce, PromotedOnce, InForce
  <1>2. AnswersAreTrue'
    BY DEF RelationsAreReviewed, AnswersAreTrue
  <1> QED BY <1>1, <1>2 DEF RelationsAreReviewed

\* A call whose answer is given, and all others as they were.
LEMMA AnswerGiven ==
    ASSUME RelationsTypeOK, NEW c \in Calls, NEW state, Answer(c, state)
    PROVE  /\ service'[c].state = state /\ service'[c].work = service[c].work
           /\ \A d \in Calls : d # c => service'[d] = service[d]
BY DEF RelationsTypeOK, Answer

LEMMA ReviewedNext ==
    RelationsTypeOK /\ RelationsTypeOK' /\ RelationsAreReviewed
        /\ [RelationsNext]_relationVars => RelationsAreReviewed'
  <1> SUFFICES ASSUME RelationsTypeOK, RelationsTypeOK', RelationsAreReviewed,
                      [RelationsNext]_relationVars
               PROVE  RelationsAreReviewed'
    OBVIOUS
  <1>0. OneInForce /\ PromotedOnce /\ AnswersAreTrue BY DEF RelationsAreReviewed
  <1>1. CASE UNCHANGED relationVars BY <1>1, RowsStay DEF relationVars
  <1>2. CASE SwitchArticle BY <1>2, RowsStay DEF SwitchArticle
  <1>3. ASSUME NEW c \in Calls, BeginCall(c) PROVE RelationsAreReviewed'
    <2>1. service'[c].state # "ok" /\ \A d \in Calls : d # c => service'[d] = service[d]
      BY <1>3 DEF BeginCall, RelationsTypeOK
    <2> QED BY <1>3, <2>1, RowsStay DEF BeginCall
  <1>4. ASSUME NEW c \in Calls, Refuse(c) PROVE RelationsAreReviewed'
    BY <1>4, AnswerGiven, RowsStay DEF Refuse
  <1>5. ASSUME NEW c \in Calls, Conflict(c) PROVE RelationsAreReviewed'
    <2>1. CASE service[c].attempt < MaxAttempts
      <3>1. service'[c].state # "ok" /\ \A d \in Calls : d # c => service'[d] = service[d]
        BY <1>5, <2>1 DEF Conflict, RelationsTypeOK
      <3> QED BY <1>5, <3>1, RowsStay DEF Conflict
    <2>2. CASE ~(service[c].attempt < MaxAttempts)
      BY <1>5, <2>2, AnswerGiven, RowsStay DEF Conflict
    <2> QED BY <2>1, <2>2
  <1>6. ASSUME NEW c \in Calls, Converge(c) PROVE RelationsAreReviewed'
    <2> DEFINE w == service[c].work
    <2>1. PICK state : /\ Answer(c, state)
                       /\ state = "ok" => w.op = "save" /\ candidates[w.of] # Absent
      BY <1>6 DEF Converge
    <2>2. service[c].state = "exhausted" /\ UNCHANGED <<candidates, relations>>
      BY <1>6 DEF Converge
    <2>3. CASE state # "ok" BY <2>1, <2>2, <2>3, AnswerGiven, RowsStay
    <2>4. CASE state = "ok"
      <3>1. OneInForce' /\ PromotedOnce' BY <1>0, <2>2 DEF OneInForce, PromotedOnce, InForce
      <3>2. relations[c] = Absent BY <1>0, <2>2, OpenMadeNothing
      <3>3. AnswersAreTrue'
        BY <1>0, <2>1, <2>2, <2>4, <3>2, AnswerGiven DEF AnswersAreTrue
      <3> QED BY <3>1, <3>3 DEF RelationsAreReviewed
    <2> QED BY <2>3, <2>4
  <1>7. ASSUME NEW c \in Calls, SaveCandidate(c) PROVE RelationsAreReviewed'
    <2> DEFINE k == service[c].work.of
    <2>1. /\ service[c].state = "open" /\ service[c].work.op = "save" /\ k \in Edges
      BY <1>7, CommitFinds DEF SaveCandidate
    <2>2. /\ candidates' = [candidates EXCEPT ![k] = IF @ = Absent THEN "pending" ELSE @]
          /\ Answer(c, "ok") /\ UNCHANGED relations
      BY <1>7 DEF SaveCandidate
    <2>3. \A j \in Edges : \/ candidates'[j] = candidates[j]
                           \/ j = k /\ candidates[j] = Absent /\ candidates'[j] = "pending"
      BY <2>1, <2>2 DEF RelationsTypeOK
    <2>4. Absent \notin Statuses /\ "pending" \in Statuses BY AbsentAssumption DEF Statuses
    <2>5. OneInForce' BY <1>0, <2>2 DEF OneInForce, InForce
    <2>6. PromotedOnce'
      BY <1>0, <2>2, <2>3, <2>4 DEF PromotedOnce, Statuses
    <2>7. relations[c] = Absent BY <1>0, <2>1, OpenMadeNothing
    <2>8. candidates'[k] # Absent BY <2>1, <2>2, <2>4 DEF RelationsTypeOK
    <2>9. \A d \in Calls : service[d].state # "idle" => service[d].work \in Operations
      BY DEF RelationsTypeOK
    <2>10. AnswersAreTrue'
      BY <1>0, <2>1, <2>2, <2>3, <2>4, <2>7, <2>8, <2>9, AnswerGiven, WorkParts
         DEF AnswersAreTrue, Statuses
    <2> QED BY <2>5, <2>6, <2>10 DEF RelationsAreReviewed
  <1>8. ASSUME NEW c \in Calls, ApproveCandidate(c) PROVE RelationsAreReviewed'
    <2> DEFINE w == service[c].work
    <2>1. /\ service[c].state = "open" /\ w.op = "approve" /\ w.of \in Edges /\ w.edge \in Edges
          /\ candidates[w.of] = "pending" /\ ~Active(w.edge)
      BY <1>8, CommitFinds DEF ApproveCandidate
    <2>2. /\ candidates' = [candidates EXCEPT ![w.of] = "promoted"]
          /\ relations' = [relations EXCEPT ![c] =
                              [edge |-> w.edge, from |-> w.of, revoked |-> FALSE]]
          /\ Answer(c, "ok")
      BY <1>8 DEF ApproveCandidate
    <2>3. relations[c] = Absent BY <1>0, <2>1, OpenMadeNothing
    <2>4. /\ relations'[c] = [edge |-> w.edge, from |-> w.of, revoked |-> FALSE]
          /\ relations'[c] # Absent
          /\ \A d \in Calls : d # c => relations'[d] = relations[d]
      <3>1. [edge |-> w.edge, from |-> w.of, revoked |-> FALSE] \in Relations
        BY <2>1 DEF Relations
      <3>2. [edge |-> w.edge, from |-> w.of, revoked |-> FALSE] # Absent
        BY <3>1, AbsentAssumption
      <3> QED BY <2>2, <3>2 DEF RelationsTypeOK
    <2>5. /\ candidates'[w.of] = "promoted"
          /\ \A j \in Edges : j # w.of => candidates'[j] = candidates[j]
      BY <2>1, <2>2 DEF RelationsTypeOK
    <2>6. OneInForce' BY <1>0, <2>1, <2>4 DEF OneInForce, InForce, Active
    <2>7. \A d \in Calls : relations[d] # Absent => relations[d].from # w.of
      BY <1>0, <2>1 DEF PromotedOnce
    <2>8. PromotedOnce'
      <3>1. ASSUME NEW k \in Edges
            PROVE  candidates'[k] = "promoted"
                     <=> \E d \in Calls : relations'[d] # Absent /\ relations'[d].from = k
        <4>1. CASE k = w.of BY <2>4, <2>5, <4>1
        <4>2. CASE k # w.of
          <5>1. candidates'[k] = "promoted"
                  <=> \E d \in Calls : relations[d] # Absent /\ relations[d].from = k
            BY <1>0, <2>5, <4>2 DEF PromotedOnce
          <5>2. relations'[c].from # k BY <2>4, <4>2
          <5> QED BY <2>3, <2>4, <5>1, <5>2
        <4> QED BY <4>1, <4>2
      <3>2. ASSUME NEW d \in Calls, NEW e \in Calls, d # e,
                   relations'[d] # Absent, relations'[e] # Absent,
                   relations'[d].from = relations'[e].from, relations'[d].from # Absent
            PROVE  FALSE
        <4>1. CASE d # c /\ e # c BY <1>0, <2>4, <3>2, <4>1 DEF PromotedOnce
        <4>2. CASE d = c BY <2>4, <2>7, <3>2, <4>2
        <4>3. CASE e = c BY <2>4, <2>7, <3>2, <4>3
        <4> QED BY <4>1, <4>2, <4>3
      <3> QED BY <3>1, <3>2 DEF PromotedOnce
    <2>9. \A d \in Calls : service[d].state # "idle" => service[d].work \in Operations
      BY DEF RelationsTypeOK
    <2>10. AnswersAreTrue'
      <3>1. Absent # "promoted" BY AbsentAssumption DEF Statuses
      <3>2. ASSUME NEW d \in Calls, d # c
            PROVE  /\ service'[d] = service[d] /\ relations'[d] = relations[d]
                   /\ service[d].state = "ok" /\ service[d].work.op = "save"
                        => candidates'[service[d].work.of] # Absent
                   /\ service[d].state = "ok" /\ service[d].work.op \in {"reject", "approve"}
                        => candidates'[service[d].work.of] = candidates[service[d].work.of]
                   /\ service[d].state = "ok" /\ service[d].work.op = "revoke"
                        => relations'[service[d].work.relation] = relations[service[d].work.relation]
        BY <1>0, <2>1, <2>2, <2>3, <2>4, <2>5, <2>9, <3>1, <3>2, AnswerGiven, WorkParts
           DEF AnswersAreTrue
      <3>3. service'[c].state = "ok" /\ service'[c].work = w BY <2>2, AnswerGiven
      <3> QED BY <1>0, <2>1, <2>4, <2>5, <3>2, <3>3 DEF AnswersAreTrue
    <2> QED BY <2>6, <2>8, <2>10 DEF RelationsAreReviewed
  <1>9. ASSUME NEW c \in Calls, RejectCandidate(c) PROVE RelationsAreReviewed'
    <2> DEFINE k == service[c].work.of
    <2>1. /\ service[c].state = "open" /\ service[c].work.op = "reject" /\ k \in Edges
          /\ candidates[k] = "pending"
      BY <1>9, CommitFinds DEF RejectCandidate
    <2>2. /\ candidates' = [candidates EXCEPT ![k] = "rejected"]
          /\ Answer(c, "ok") /\ UNCHANGED relations
      BY <1>9 DEF RejectCandidate
    <2>3. /\ candidates'[k] = "rejected"
          /\ \A j \in Edges : j # k => candidates'[j] = candidates[j]
      BY <2>1, <2>2 DEF RelationsTypeOK
    <2>4. OneInForce' BY <1>0, <2>2 DEF OneInForce, InForce
    <2>5. PromotedOnce' BY <1>0, <2>1, <2>2, <2>3 DEF PromotedOnce
    <2>6. relations[c] = Absent BY <1>0, <2>1, OpenMadeNothing
    <2>7. \A d \in Calls : service[d].state # "idle" => service[d].work \in Operations
      BY DEF RelationsTypeOK
    <2>8. AnswersAreTrue'
      <3>1. Absent # "rejected" BY AbsentAssumption DEF Statuses
      <3>2. ASSUME NEW d \in Calls, d # c
            PROVE  /\ service'[d] = service[d]
                   /\ service[d].state = "ok" /\ service[d].work.op = "save"
                        => candidates'[service[d].work.of] # Absent
                   /\ service[d].state = "ok" /\ service[d].work.op \in {"reject", "approve"}
                        => candidates'[service[d].work.of] = candidates[service[d].work.of]
        BY <1>0, <2>1, <2>2, <2>3, <2>7, <3>1, <3>2, AnswerGiven, WorkParts DEF AnswersAreTrue
      <3>3. service'[c].state = "ok" /\ service'[c].work = service[c].work
        BY <2>2, AnswerGiven
      <3> QED BY <1>0, <2>1, <2>2, <2>3, <2>6, <3>2, <3>3 DEF AnswersAreTrue
    <2> QED BY <2>4, <2>5, <2>8 DEF RelationsAreReviewed
  <1>10. ASSUME NEW c \in Calls, CreateManual(c) PROVE RelationsAreReviewed'
    <2> DEFINE w == service[c].work
    <2>1. /\ service[c].state = "open" /\ w.op = "manual" /\ w.edge \in Edges /\ ~Active(w.edge)
      BY <1>10, CommitFinds DEF CreateManual
    <2>2. /\ relations' = [relations EXCEPT ![c] =
                              [edge |-> w.edge, from |-> Absent, revoked |-> FALSE]]
          /\ Answer(c, "ok") /\ UNCHANGED candidates
      BY <1>10 DEF CreateManual
    <2>3. relations[c] = Absent BY <1>0, <2>1, OpenMadeNothing
    <2>4. /\ relations'[c] = [edge |-> w.edge, from |-> Absent, revoked |-> FALSE]
          /\ relations'[c] # Absent
          /\ \A d \in Calls : d # c => relations'[d] = relations[d]
      <3>1. [edge |-> w.edge, from |-> Absent, revoked |-> FALSE] \in Relations
        BY <2>1 DEF Relations
      <3>2. [edge |-> w.edge, from |-> Absent, revoked |-> FALSE] # Absent
        BY <3>1, AbsentAssumption
      <3> QED BY <2>2, <3>2 DEF RelationsTypeOK
    <2>5. OneInForce' BY <1>0, <2>1, <2>4 DEF OneInForce, InForce, Active
    <2>6. \A k \in Edges : k # Absent BY AbsentAssumption
    <2>7. PromotedOnce' BY <1>0, <2>2, <2>3, <2>4, <2>6 DEF PromotedOnce
    <2>8. \A d \in Calls : service[d].state # "idle" => service[d].work \in Operations
      BY DEF RelationsTypeOK
    <2>9. AnswersAreTrue'
      <3>1. ASSUME NEW d \in Calls, d # c
            PROVE  /\ service'[d] = service[d] /\ relations'[d] = relations[d]
                   /\ service[d].state = "ok" /\ service[d].work.op = "revoke"
                        => relations'[service[d].work.relation] = relations[service[d].work.relation]
        BY <1>0, <2>2, <2>3, <2>4, <2>8, <3>1, AnswerGiven, WorkParts DEF AnswersAreTrue
      <3>2. service'[c].state = "ok" /\ service'[c].work = w BY <2>2, AnswerGiven
      <3> QED BY <1>0, <2>1, <2>2, <2>4, <3>1, <3>2 DEF AnswersAreTrue
    <2> QED BY <2>5, <2>7, <2>9 DEF RelationsAreReviewed
  <1>11. ASSUME NEW c \in Calls, Revoke(c) PROVE RelationsAreReviewed'
    <2> DEFINE r == service[c].work.relation
    <2>1. /\ service[c].state = "open" /\ service[c].work.op = "revoke" /\ r \in Calls
          /\ relations[r] # Absent
      BY <1>11, CommitFinds DEF Revoke, InForce
    <2>2. /\ relations' = [relations EXCEPT ![r].revoked = TRUE]
          /\ Answer(c, "ok") /\ UNCHANGED candidates
      BY <1>11 DEF Revoke
    <2>3. relations[r] \in Relations BY <2>1 DEF RelationsTypeOK
    <2>4. /\ relations'[r] \in Relations /\ relations'[r].revoked
          /\ relations'[r].edge = relations[r].edge /\ relations'[r].from = relations[r].from
          /\ \A d \in Calls : d # r => relations'[d] = relations[d]
      BY <2>1, <2>2, <2>3 DEF RelationsTypeOK, Relations
    <2>5. \A d \in Calls : /\ relations'[d] # Absent <=> relations[d] # Absent
                           /\ relations[d] # Absent =>
                                /\ relations'[d].edge = relations[d].edge
                                /\ relations'[d].from = relations[d].from
                                /\ relations[d].revoked => relations'[d].revoked
      BY <2>1, <2>4, AbsentAssumption
    <2>6. OneInForce' BY SMTT(40), <1>0, <2>5 DEF OneInForce, InForce
    <2>7. PromotedOnce' BY <1>0, <2>2, <2>5 DEF PromotedOnce
    <2>8. relations[c] = Absent BY <1>0, <2>1, OpenMadeNothing
    <2>9. \A d \in Calls : service[d].state # "idle" => service[d].work \in Operations
      BY DEF RelationsTypeOK
    <2>10. AnswersAreTrue'
      <3>1. ASSUME NEW d \in Calls, d # c
            PROVE  /\ service'[d] = service[d]
                   /\ service[d].state = "ok" /\ service[d].work.op = "revoke"
                        => service[d].work.relation \in Calls
        BY <2>2, <2>9, <3>1, AnswerGiven, WorkParts
      <3>2. service'[c].state = "ok" /\ service'[c].work = service[c].work
        BY <2>2, AnswerGiven
      <3>3. relations'[r] # Absent /\ relations'[c] = Absent BY <2>1, <2>5, <2>8
      <3>4. ASSUME NEW d \in Calls
            PROVE  LET w == service'[d].work
                       done == service'[d].state = "ok"
                   IN  /\ relations'[d] # Absent <=> done /\ w.op \in {"approve", "manual"}
                       /\ done /\ w.op = "save" => candidates'[w.of] # Absent
                       /\ done /\ w.op = "reject" => candidates'[w.of] = "rejected"
                       /\ done /\ w.op = "approve" => /\ candidates'[w.of] = "promoted"
                                                      /\ relations'[d].from = w.of
                       /\ done /\ w.op = "manual" => relations'[d].from = Absent
                       /\ done /\ w.op \in {"approve", "manual"} => relations'[d].edge = w.edge
                       /\ done /\ w.op = "revoke" =>
                            relations'[w.relation] # Absent /\ relations'[w.relation].revoked
        <4>1. CASE d = c BY <2>1, <2>4, <3>2, <3>3, <4>1
        <4>2. CASE d # c
          <5>1. UNCHANGED candidates BY <2>2
          <5>2. service'[d] = service[d] BY <3>1, <4>2
          <5>4. /\ relations'[d] # Absent <=> relations[d] # Absent
                /\ relations[d] # Absent => /\ relations'[d].edge = relations[d].edge
                                            /\ relations'[d].from = relations[d].from
            BY <2>5
          <5>5. ASSUME service[d].state = "ok", service[d].work.op = "revoke"
                PROVE  relations'[service[d].work.relation] # Absent
                         /\ relations'[service[d].work.relation].revoked
            BY <1>0, <2>5, <3>1, <4>2, <5>5 DEF AnswersAreTrue
          <5> QED BY <1>0, <5>1, <5>2, <5>4, <5>5 DEF AnswersAreTrue
        <4> QED BY <4>1, <4>2
      <3> QED BY <3>4 DEF AnswersAreTrue
    <2> QED BY <2>6, <2>7, <2>10 DEF RelationsAreReviewed
  <1> QED BY <1>1, <1>2, <1>3, <1>4, <1>5, <1>6, <1>7, <1>8, <1>9, <1>10, <1>11
          DEF RelationsNext

(***************************************************************************)
(* However many calls run at once, conflict, retry and give up, and        *)
(* whichever articles the refresh switches away meanwhile: one relation in *)
(* force between two articles, one decision on a candidate, and answers    *)
(* that are true (confirmed-relation-service.ts:90-421).                   *)
(***************************************************************************)
THEOREM RelationsReviewed == RelationsSpec => []RelationsAreReviewed
BY ReviewedInit, ReviewedNext, RelationsTypeCorrect, PTL DEF RelationsSpec

-----------------------------------------------------------------------------
(* The requests of the web application.                                      *)

Steps == {"idle", "user", "newUser", "start", "clear", "set", "cap", "trim", "done", "failed"}
Locals ==
    [op : Ops \cup {"none"}, pc : Steps, user : UserIds \cup {0}, target : Projects \cup {None},
     seen : SUBSET Projects, victims : SUBSET (UserIds \X Nat)]

\* A request that has got its user has one, and works on a project unless it is a search.
Sensible(l) ==
    /\ l.pc \in {"start", "clear", "set", "cap", "trim"} => l.user # 0
    /\ l.op \in {"create", "delete", "activate"} => l.target \in Projects

LocalsOK == req \in [Requests -> Locals] /\ \A r \in Requests : Sensible(req[r])

UsersOK == users \in 0 .. MaxUsers /\ cachedUserId \in 0 .. users

ProjectsOK ==
    /\ owner \in [Projects -> UserIds \cup {0}]
    /\ active \in SUBSET Projects
    /\ lockedBy \in [Projects -> Requests \cup {None}]

SearchesOK == made \in [UserIds -> Nat] /\ searches \in SUBSET (UserIds \X Nat)

PracticeTypeOK == UsersOK /\ ProjectsOK /\ SearchesOK /\ LocalsOK /\ overlapped \in BOOLEAN

\* Only projects that are there are active.
ActiveOwned == \A p \in active : owner[p] # 0

\* Between the two statements of an activation the rows of the first one are locked:
\* they are still active and still the user's.
ClearedHeld ==
    \A r \in Requests : At(r, "activate", "set") =>
        \A p \in req[r].seen : lockedBy[p] = r /\ p \in active /\ owner[p] = req[r].user

\* An activation that has been alone so far has seen all active projects of its user.
AloneSeesAll ==
    /\ \A q, r \in Requests : Activating(q) /\ Activating(r) => q = r
    /\ \A r \in Requests : Activating(r) =>
          \A p \in active : owner[p] = req[r].user => p \in req[r].seen
    /\ \A p, q \in active : owner[p] = owner[q] => p = q

PracticeInv ==
    /\ PracticeTypeOK /\ ActiveOwned /\ ClearedHeld
    /\ ~overlapped => AloneSeesAll

LEMMA PracticeInitial == PracticeInit => PracticeInv
  <1> SUFFICES ASSUME PracticeInit PROVE PracticeInv OBVIOUS
  <1> USE PracticeAssumption DEF PracticeInit
  <1>1. Idle \in Locals /\ Sensible(Idle) BY DEF Idle, Locals, Steps, Sensible
  <1>2. LocalsOK BY <1>1 DEF LocalsOK
  <1>3. UsersOK /\ SearchesOK BY DEF UsersOK, SearchesOK
  <1>4. 1 \in UserIds BY DEF UserIds
  <1>5. ProjectsOK BY <1>4 DEF ProjectsOK
  <1>6. ActiveOwned BY DEF ActiveOwned
  <1>7. ClearedHeld BY DEF ClearedHeld, At, Idle
  <1>8. AloneSeesAll BY DEF AloneSeesAll, Activating, Idle
  <1> QED BY <1>2, <1>3, <1>5, <1>6, <1>7, <1>8 DEF PracticeInv, PracticeTypeOK

\* The request r goes on with these locals; the other requests stay where they are.
Moves(r, op, pc, user, seen) ==
    /\ req'[r].op = op /\ req'[r].pc = pc /\ req'[r].user = user /\ req'[r].seen = seen
    /\ \A q \in Requests \ {r} : req'[q] = req[q]

LEMMA Goes ==
    ASSUME LocalsOK, NEW r \in Requests, NEW l \in Locals, Sensible(l), req' = [req EXCEPT ![r] = l]
    PROVE  Moves(r, l.op, l.pc, l.user, l.seen) /\ LocalsOK'
  <1>1. req'[r] = l /\ \A q \in Requests \ {r} : req'[q] = req[q] BY DEF LocalsOK
  <1>2. req' \in [Requests -> Locals] BY DEF LocalsOK
  <1>3. \A q \in Requests : Sensible(req'[q]) BY <1>1 DEF LocalsOK
  <1> QED BY <1>1, <1>2, <1>3 DEF Moves, LocalsOK, Sensible

LEMMA BeginGoes ==
    ASSUME LocalsOK, NEW r \in Requests, NEW op \in Ops, NEW p \in Projects \cup {None}, Begin(r, op, p)
    PROVE  Moves(r, op, "user", req[r].user, req[r].seen) /\ LocalsOK'
  <1> DEFINE l == [req[r] EXCEPT !.op = op, !.pc = "user", !.target = p]
  <1>0. req[r] \in Locals BY DEF LocalsOK
  <1>1. l \in Locals BY <1>0 DEF Locals, Steps
  <1>2. req' = [req EXCEPT ![r] = l] BY DEF LocalsOK, Begin
  <1>3. /\ l.op = op /\ l.pc = "user" /\ l.target = p
        /\ l.user = req[r].user /\ l.seen = req[r].seen
    BY <1>0 DEF Locals
  <1>4. Sensible(l) BY <1>3 DEF Sensible, Begin
  <1> HIDE DEF l
  <1> QED BY <1>1, <1>2, <1>3, <1>4, Goes

LEMMA WithUserGoes ==
    ASSUME LocalsOK, NEW r \in Requests, NEW u \in UserIds, WithUser(r, u)
    PROVE  Moves(r, req[r].op, "start", u, req[r].seen) /\ LocalsOK'
  <1> DEFINE l == [req[r] EXCEPT !.user = u, !.pc = "start"]
  <1>0. req[r] \in Locals /\ Sensible(req[r]) /\ u # 0 BY DEF LocalsOK, UserIds
  <1>1. l \in Locals BY <1>0 DEF Locals, Steps
  <1>2. req' = [req EXCEPT ![r] = l] BY DEF LocalsOK, WithUser
  <1>3. /\ l.op = req[r].op /\ l.pc = "start" /\ l.target = req[r].target
        /\ l.user = u /\ l.seen = req[r].seen
    BY <1>0 DEF Locals
  <1>4. Sensible(l) BY <1>0, <1>3 DEF Sensible
  <1> HIDE DEF l
  <1> QED BY <1>1, <1>2, <1>3, <1>4, Goes

LEMMA EndGoes ==
    ASSUME LocalsOK, NEW r \in Requests, NEW pc \in {"done", "failed"}, End(r, pc)
    PROVE  Moves(r, req[r].op, pc, req[r].user, {}) /\ LocalsOK'
  <1> DEFINE l == [req[r] EXCEPT !.pc = pc, !.seen = {}, !.victims = {}]
  <1>0. req[r] \in Locals /\ Sensible(req[r]) BY DEF LocalsOK
  <1>1. l \in Locals BY <1>0 DEF Locals, Steps
  <1>2. req' = [req EXCEPT ![r] = l] BY DEF LocalsOK, End
  <1>3. /\ l.op = req[r].op /\ l.pc = pc /\ l.target = req[r].target
        /\ l.user = req[r].user /\ l.seen = {}
    BY <1>0 DEF Locals
  <1>4. Sensible(l) BY <1>0, <1>3 DEF Sensible
  <1> HIDE DEF l
  <1> QED BY <1>1, <1>2, <1>3, <1>4, Goes

\* Locals that a step leaves alone.
LEMMA PcGoes ==
    ASSUME LocalsOK, NEW r \in Requests, NEW pc \in Steps,
           pc \in {"start", "clear", "set", "cap", "trim"} => req[r].user # 0,
           \/ req' = [req EXCEPT ![r].pc = pc]
           \/ \E V \in SUBSET (UserIds \X Nat) : req' = [req EXCEPT ![r].pc = pc, ![r].victims = V]
    PROVE  Moves(r, req[r].op, pc, req[r].user, req[r].seen) /\ LocalsOK'
  <1>0. req[r] \in Locals /\ Sensible(req[r]) BY DEF LocalsOK
  <1>1. ASSUME NEW l, l = [req[r] EXCEPT !.pc = pc] \/
                      (\E V \in SUBSET (UserIds \X Nat) : l = [req[r] EXCEPT !.pc = pc, !.victims = V]),
               req' = [req EXCEPT ![r] = l]
        PROVE  Moves(r, req[r].op, pc, req[r].user, req[r].seen) /\ LocalsOK'
    <2>1. l \in Locals BY <1>0, <1>1 DEF Locals
    <2>2. /\ l.op = req[r].op /\ l.pc = pc /\ l.target = req[r].target
          /\ l.user = req[r].user /\ l.seen = req[r].seen
      BY <1>0, <1>1 DEF Locals
    <2>3. Sensible(l) BY <1>0, <2>2 DEF Sensible
    <2> QED BY <1>1, <2>1, <2>2, <2>3, Goes
  <1>2. CASE req' = [req EXCEPT ![r].pc = pc] BY <1>1, <1>2
  <1>3. ASSUME NEW V \in SUBSET (UserIds \X Nat), req' = [req EXCEPT ![r].pc = pc, ![r].victims = V]
        PROVE  Moves(r, req[r].op, pc, req[r].user, req[r].seen) /\ LocalsOK'
    <2>1. req' = [req EXCEPT ![r] = [req[r] EXCEPT !.pc = pc, !.victims = V]] BY <1>3 DEF LocalsOK
    <2> QED BY <1>1, <2>1
  <1> QED BY <1>2, <1>3

LEMMA SeenGoes ==
    ASSUME LocalsOK, NEW r \in Requests, NEW pc \in Steps, NEW seen \in SUBSET Projects,
           pc \in {"start", "clear", "set", "cap", "trim"} => req[r].user # 0,
           req' = [req EXCEPT ![r].pc = pc, ![r].seen = seen]
    PROVE  Moves(r, req[r].op, pc, req[r].user, seen) /\ LocalsOK'
  <1> DEFINE l == [req[r] EXCEPT !.pc = pc, !.seen = seen]
  <1>0. req[r] \in Locals /\ Sensible(req[r]) BY DEF LocalsOK
  <1>1. l \in Locals BY <1>0 DEF Locals
  <1>2. req' = [req EXCEPT ![r] = l] BY DEF LocalsOK
  <1>3. /\ l.op = req[r].op /\ l.pc = pc /\ l.target = req[r].target
        /\ l.user = req[r].user /\ l.seen = seen
    BY <1>0 DEF Locals
  <1>4. Sensible(l) BY <1>0, <1>3 DEF Sensible
  <1> HIDE DEF l
  <1> QED BY <1>1, <1>2, <1>3, <1>4, Goes

\* Steps of requests that are no activation, and the ends of requests.
Quiet(r) ==
    /\ UNCHANGED <<owner, active, lockedBy, overlapped>>
    /\ req'[r].op # "activate" \/ req'[r].pc \notin {"clear", "set"}
    /\ \A q \in Requests \ {r} : req'[q] = req[q]

LEMMA QuietKeeps ==
    ASSUME PracticeInv, NEW r \in Requests, Quiet(r)
    PROVE  ActiveOwned' /\ ClearedHeld' /\ (~overlapped => AloneSeesAll)'
  <1> USE DEF Quiet
  <1>1. ActiveOwned' BY DEF PracticeInv, ActiveOwned
  <1>2. ClearedHeld' BY DEF PracticeInv, ClearedHeld, At
  <1>3. \A q \in Requests : Activating(q)' => Activating(q) /\ req'[q] = req[q] BY DEF Activating
  <1>4. ASSUME ~overlapped' PROVE AloneSeesAll'
    BY <1>3, <1>4 DEF PracticeInv, AloneSeesAll
  <1> QED BY <1>1, <1>2, <1>4

LEMMA BeginKeeps ==
    ASSUME PracticeInv, NEW r \in Requests, NEW op \in Ops, NEW p \in Projects \cup {None}, Begin(r, op, p)
    PROVE  PracticeInv'
  <1>0. PracticeTypeOK /\ LocalsOK BY DEF PracticeInv, PracticeTypeOK
  <1>1. Moves(r, op, "user", req[r].user, req[r].seen) /\ LocalsOK' BY <1>0, BeginGoes
  <1>2. Quiet(r) BY <1>1 DEF Quiet, Moves, Begin
  <1>3. PracticeTypeOK' BY <1>0, <1>1 DEF PracticeTypeOK, Begin, UsersOK, ProjectsOK, SearchesOK
  <1> QED BY <1>2, <1>3, QuietKeeps DEF PracticeInv

LEMMA UserKeeps ==
    ASSUME PracticeInv, NEW r \in Requests,
           UseCachedUser(r) \/ FindDefaultUser(r) \/ CreateDefaultUser(r)
    PROVE  PracticeInv'
  <1>0. PracticeTypeOK /\ LocalsOK /\ UsersOK BY DEF PracticeInv, PracticeTypeOK
  <1>1. CASE UseCachedUser(r)
    <2>1. cachedUserId \in UserIds BY <1>0, <1>1, PracticeAssumption DEF UsersOK, UserIds, UseCachedUser
    <2>2. Moves(r, req[r].op, "start", cachedUserId, req[r].seen) /\ LocalsOK'
      BY <1>0, <1>1, <2>1, WithUserGoes DEF UseCachedUser
    <2>3. Quiet(r) BY <1>1, <2>2 DEF Quiet, Moves, UseCachedUser
    <2>4. PracticeTypeOK'
      BY <1>0, <1>1, <2>2 DEF PracticeTypeOK, UseCachedUser, UsersOK, ProjectsOK, SearchesOK
    <2> QED BY <2>3, <2>4, QuietKeeps DEF PracticeInv
  <1>2. CASE FindDefaultUser(r) /\ users = 0
    <2>1. Moves(r, req[r].op, "newUser", req[r].user, req[r].seen) /\ LocalsOK'
      BY <1>0, <1>2, PcGoes DEF FindDefaultUser, Steps
    <2>2. Quiet(r) BY <1>2, <2>1 DEF Quiet, Moves, FindDefaultUser
    <2>3. PracticeTypeOK'
      BY <1>0, <1>2, <2>1 DEF PracticeTypeOK, FindDefaultUser, UsersOK, ProjectsOK, SearchesOK
    <2> QED BY <2>2, <2>3, QuietKeeps DEF PracticeInv
  <1>3. CASE FindDefaultUser(r) /\ users # 0
    <2>1. PICK u \in 1 .. users : WithUser(r, u) /\ cachedUserId' = u BY <1>3 DEF FindDefaultUser
    <2>2. u \in UserIds BY <1>0, <2>1, PracticeAssumption DEF UsersOK, UserIds
    <2>3. Moves(r, req[r].op, "start", u, req[r].seen) /\ LocalsOK' BY <1>0, <2>1, <2>2, WithUserGoes
    <2>4. Quiet(r) BY <1>3, <2>3 DEF Quiet, Moves, FindDefaultUser
    <2>5. UsersOK' BY <1>0, <1>3, <2>1 DEF UsersOK, FindDefaultUser
    <2>6. PracticeTypeOK'
      BY <1>0, <1>3, <2>3, <2>5 DEF PracticeTypeOK, FindDefaultUser, ProjectsOK, SearchesOK
    <2> QED BY <2>4, <2>6, QuietKeeps DEF PracticeInv
  <1>4. CASE CreateDefaultUser(r)
    <2>1. users + 1 \in UserIds
      BY <1>0, <1>4, PracticeAssumption DEF UsersOK, UserIds, CreateDefaultUser
    <2>2. Moves(r, req[r].op, "start", users + 1, req[r].seen) /\ LocalsOK'
      BY <1>0, <1>4, <2>1, WithUserGoes DEF CreateDefaultUser
    <2>3. Quiet(r) BY <1>4, <2>2 DEF Quiet, Moves, CreateDefaultUser
    <2>4. UsersOK' BY <1>0, <1>4, PracticeAssumption DEF UsersOK, CreateDefaultUser
    <2>5. PracticeTypeOK'
      BY <1>0, <1>4, <2>2, <2>4 DEF PracticeTypeOK, CreateDefaultUser, ProjectsOK, SearchesOK
    <2> QED BY <2>3, <2>5, QuietKeeps DEF PracticeInv
  <1> QED BY <1>1, <1>2, <1>3, <1>4

LEMMA SearchKeeps ==
    ASSUME PracticeInv, NEW r \in Requests,
           CreateSearch(r) \/ ReadOldSearches(r) \/ DeleteOldSearches(r)
    PROVE  PracticeInv'
  <1>0. PracticeTypeOK /\ LocalsOK /\ SearchesOK BY DEF PracticeInv, PracticeTypeOK
  <1>1. req[r] \in Locals /\ Sensible(req[r]) BY <1>0 DEF LocalsOK
  <1>2. CASE CreateSearch(r)
    <2>1. req[r].user \in UserIds
      <3>1. req[r].user # 0 BY <1>1, <1>2 DEF CreateSearch, At, Sensible
      <3>2. req[r].user \in UserIds \cup {0} BY <1>1 DEF Locals
      <3> QED BY <3>1, <3>2
    <2>6. req' = [req EXCEPT ![r].pc = "cap"] /\ req[r].user # 0
      BY <1>1, <1>2 DEF CreateSearch, At, Sensible
    <2>2. Moves(r, req[r].op, "cap", req[r].user, req[r].seen) /\ LocalsOK'
      BY <1>0, <2>6, PcGoes DEF Steps
    <2>3. Quiet(r) BY <1>2, <2>2 DEF Quiet, Moves, CreateSearch, At
    <2>4. SearchesOK' BY <1>0, <1>2, <2>1 DEF SearchesOK, CreateSearch
    <2>7. UNCHANGED <<users, cachedUserId, owner, active, lockedBy, overlapped>>
      BY <1>2 DEF CreateSearch
    <2>5. PracticeTypeOK' BY <1>0, <2>2, <2>4, <2>7 DEF PracticeTypeOK, UsersOK, ProjectsOK
    <2> QED BY <2>3, <2>5, QuietKeeps DEF PracticeInv
  <1>3. CASE ReadOldSearches(r)
    <2>1. PICK V \in SUBSET searches : req' = [req EXCEPT ![r].pc = "trim", ![r].victims = V]
      BY <1>3 DEF ReadOldSearches
    <2>2. V \in SUBSET (UserIds \X Nat) BY <1>0, <2>1 DEF SearchesOK
    <2>5. req[r].user # 0 BY <1>1, <1>3 DEF ReadOldSearches, At, Sensible
    <2>3. Moves(r, req[r].op, "trim", req[r].user, req[r].seen) /\ LocalsOK'
      BY <1>0, <2>1, <2>2, <2>5, PcGoes DEF Steps
    <2>4. Quiet(r) BY <1>3, <2>3 DEF Quiet, Moves, ReadOldSearches, At
    <2>6. PracticeTypeOK'
      BY <1>0, <1>3, <2>3 DEF PracticeTypeOK, ReadOldSearches, UsersOK, ProjectsOK, SearchesOK
    <2> QED BY <2>4, <2>6, QuietKeeps DEF PracticeInv
  <1>4. CASE DeleteOldSearches(r)
    <2>1. Moves(r, req[r].op, "done", req[r].user, {}) /\ LocalsOK'
      BY <1>0, <1>4, EndGoes DEF DeleteOldSearches
    <2>2. Quiet(r) BY <1>4, <2>1 DEF Quiet, Moves, DeleteOldSearches
    <2>3. SearchesOK' BY <1>0, <1>4 DEF SearchesOK, DeleteOldSearches
    <2>4. PracticeTypeOK'
      BY <1>0, <1>4, <2>1, <2>3 DEF PracticeTypeOK, DeleteOldSearches, UsersOK, ProjectsOK
    <2> QED BY <2>2, <2>4, QuietKeeps DEF PracticeInv
  <1> QED BY <1>2, <1>3, <1>4

\* A project that was made is not active.
LEMMA CreateKeeps ==
    ASSUME PracticeInv, NEW r \in Requests, CreateProject(r)
    PROVE  PracticeInv'
  <1> DEFINE t == req[r].target
             u == req[r].user
  <1>0. PracticeTypeOK /\ LocalsOK /\ ProjectsOK BY DEF PracticeInv, PracticeTypeOK
  <1>1. Moves(r, req[r].op, "done", u, {}) /\ LocalsOK' BY <1>0, EndGoes DEF CreateProject
  <1>2. u \in UserIds /\ t \in Projects
    <2>1. req[r] \in Locals /\ Sensible(req[r]) BY <1>0 DEF LocalsOK
    <2>2. u \in UserIds \cup {0} BY <2>1 DEF Locals
    <2> QED BY <2>1, <2>2 DEF CreateProject, At, Sensible
  <1>3. owner' = [owner EXCEPT ![t] = u] /\ owner[t] = 0
        /\ UNCHANGED <<users, cachedUserId, active, lockedBy, made, searches, overlapped>>
    BY DEF CreateProject
  <1> HIDE DEF t, u
  <1>4. PracticeTypeOK'
    BY <1>0, <1>1, <1>2, <1>3 DEF PracticeTypeOK, UsersOK, ProjectsOK, SearchesOK
  <1>5. t \notin active BY <1>3 DEF PracticeInv, ActiveOwned
  <1>6. \A p \in active : owner'[p] = owner[p] BY <1>0, <1>3, <1>5 DEF ProjectsOK
  <1>7. ActiveOwned' BY <1>3, <1>6 DEF PracticeInv, ActiveOwned
  <1>8. ClearedHeld' BY <1>1, <1>3, <1>6 DEF PracticeInv, ClearedHeld, At, Moves
  <1>9. \A q \in Requests : Activating(q)' => Activating(q) /\ req'[q] = req[q]
    BY <1>1 DEF Activating, Moves
  <1>10. ASSUME ~overlapped' PROVE AloneSeesAll'
    BY <1>3, <1>6, <1>9, <1>10 DEF PracticeInv, AloneSeesAll
  <1> QED BY <1>4, <1>7, <1>8, <1>10 DEF PracticeInv

LEMMA DeleteKeeps ==
    ASSUME PracticeInv, NEW r \in Requests, DeleteProject(r)
    PROVE  PracticeInv'
  <1> DEFINE t == req[r].target
  <1>0. PracticeTypeOK /\ LocalsOK /\ ProjectsOK BY DEF PracticeInv, PracticeTypeOK
  <1>1. PICK pc \in {"done", "failed"} : End(r, pc) BY DEF DeleteProject
  <1>2. Moves(r, req[r].op, pc, req[r].user, {}) /\ LocalsOK' BY <1>0, <1>1, EndGoes
  <1>3. t \in Projects /\ lockedBy[t] \in {None, r} /\ req[r].op = "delete"
    <2>1. Sensible(req[r]) BY <1>0 DEF LocalsOK
    <2> QED BY <2>1 DEF DeleteProject, At, Sensible, Free
  <1>4. UNCHANGED <<users, cachedUserId, lockedBy, made, searches, overlapped>> BY DEF DeleteProject
  <1>5. CASE UNCHANGED <<owner, active>>
    <2>1. Quiet(r) BY <1>2, <1>4, <1>5 DEF Quiet, Moves
    <2>2. PracticeTypeOK'
      BY <1>0, <1>2, <1>4, <1>5 DEF PracticeTypeOK, UsersOK, ProjectsOK, SearchesOK
    <2> QED BY <2>1, <2>2, QuietKeeps DEF PracticeInv
  <1>6. CASE owner' = [owner EXCEPT ![t] = 0] /\ active' = active \ {t}
    <2> HIDE DEF t
    <2>1. PracticeTypeOK'
      BY <1>0, <1>2, <1>3, <1>4, <1>6 DEF PracticeTypeOK, UsersOK, ProjectsOK, SearchesOK
    <2>2. \A p \in active' : p \in active /\ p # t /\ owner'[p] = owner[p]
      BY <1>0, <1>6 DEF ProjectsOK
    <2>3. ActiveOwned' BY <2>2 DEF PracticeInv, ActiveOwned
    <2>4. ClearedHeld'
      <3> SUFFICES ASSUME NEW q \in Requests, At(q, "activate", "set")', NEW p \in req'[q].seen
                   PROVE  lockedBy'[p] = q /\ p \in active' /\ owner'[p] = req'[q].user
        BY DEF ClearedHeld
      <3>1. q # r /\ req'[q] = req[q] BY <1>2, <1>3 DEF Moves, At
      <3>2. lockedBy[p] = q /\ p \in active /\ owner[p] = req[q].user
        BY <3>1 DEF PracticeInv, ClearedHeld, At
      <3>3. p # t BY <1>3, <3>1, <3>2, PracticeAssumption
      <3> QED BY <1>4, <1>6, <2>2, <3>1, <3>2, <3>3
    <2>5. \A q \in Requests : Activating(q)' => Activating(q) /\ req'[q] = req[q]
      BY <1>2 DEF Activating, Moves
    <2>6. ASSUME ~overlapped' PROVE AloneSeesAll'
      BY <1>4, <2>2, <2>5, <2>6 DEF PracticeInv, AloneSeesAll
    <2> QED BY <2>1, <2>3, <2>4, <2>6 DEF PracticeInv
  <1> QED BY <1>5, <1>6 DEF DeleteProject

LEMMA ReadActiveKeeps ==
    ASSUME PracticeInv, NEW r \in Requests, ReadActive(r)
    PROVE  PracticeInv'
  <1> DEFINE S == {p \in active : owner[p] = req[r].user}
  <1>0. PracticeTypeOK /\ LocalsOK /\ ProjectsOK BY DEF PracticeInv, PracticeTypeOK
  <1>1. req[r].user # 0
    <2>1. Sensible(req[r]) BY <1>0 DEF LocalsOK
    <2> QED BY <2>1 DEF ReadActive, At, Sensible
  <1>2. S \in SUBSET Projects BY <1>0 DEF ProjectsOK
  <1>3. req' = [req EXCEPT ![r].pc = "clear", ![r].seen = S] BY DEF ReadActive
  <1>4. \A p \in active : owner[p] = req[r].user => p \in S OBVIOUS
  <1> HIDE DEF S
  <1>5. Moves(r, req[r].op, "clear", req[r].user, S) /\ LocalsOK'
    BY <1>0, <1>1, <1>2, <1>3, SeenGoes DEF Steps
  <1>6. /\ UNCHANGED <<users, cachedUserId, owner, active, lockedBy, made, searches>>
        /\ overlapped' = (overlapped \/ \E q \in Requests \ {r} : Activating(q))
    BY DEF ReadActive
  <1>7. PracticeTypeOK'
    <2>1. overlapped' \in BOOLEAN BY <1>6
    <2> QED BY <1>0, <1>5, <1>6, <2>1 DEF PracticeTypeOK, UsersOK, ProjectsOK, SearchesOK
  <1>8. ActiveOwned' BY <1>6 DEF PracticeInv, ActiveOwned
  <1>9. ClearedHeld' BY <1>5, <1>6 DEF PracticeInv, ClearedHeld, At, Moves
  <1>10. ASSUME ~overlapped' PROVE AloneSeesAll'
    <2>1. AloneSeesAll /\ \A q \in Requests \ {r} : ~Activating(q)
      BY <1>6, <1>10 DEF PracticeInv
    <2>2. \A q \in Requests \ {r} : ~Activating(q)' BY <1>5, <2>1 DEF Activating, Moves
    <2> QED BY <1>4, <1>5, <1>6, <2>1, <2>2 DEF AloneSeesAll, Moves
  <1> QED BY <1>7, <1>8, <1>9, <1>10 DEF PracticeInv

\* Rows that another activation has locked are not among those that are locked now.
LEMMA ClearActiveKeeps ==
    ASSUME PracticeInv, NEW r \in Requests, ClearActive(r)
    PROVE  PracticeInv'
  <1> DEFINE S == {p \in req[r].seen \cap active : owner[p] = req[r].user}
  <1>0. PracticeTypeOK /\ LocalsOK /\ ProjectsOK BY DEF PracticeInv, PracticeTypeOK
  <1>1. Sensible(req[r]) /\ req[r].op = "activate" /\ req[r].pc = "clear"
    BY <1>0 DEF LocalsOK, ClearActive, At
  <1>2. S \in SUBSET Projects BY <1>0 DEF ProjectsOK
  <1>3. /\ req' = [req EXCEPT ![r].pc = "set", ![r].seen = S]
        /\ lockedBy' = [p \in Projects |-> IF p \in S THEN r ELSE lockedBy[p]]
    BY DEF ClearActive
  <1>4. \A p \in S : p \in active /\ owner[p] = req[r].user /\ lockedBy[p] \in {None, r}
    BY DEF ClearActive, Free
  <1>5. \A p \in active : owner[p] = req[r].user /\ p \in req[r].seen => p \in S OBVIOUS
  <1> HIDE DEF S
  <1>6. Moves(r, "activate", "set", req[r].user, S) /\ LocalsOK'
    BY <1>0, <1>1, <1>2, <1>3, SeenGoes DEF Steps, Sensible
  <1>7. UNCHANGED <<users, cachedUserId, owner, active, made, searches, overlapped>> BY DEF ClearActive
  <1>8. PracticeTypeOK'
    BY <1>0, <1>2, <1>3, <1>6, <1>7 DEF PracticeTypeOK, UsersOK, ProjectsOK, SearchesOK
  <1>9. ActiveOwned' BY <1>7 DEF PracticeInv, ActiveOwned
  <1>10. ClearedHeld'
    <2> SUFFICES ASSUME NEW q \in Requests, At(q, "activate", "set")', NEW p \in req'[q].seen
                 PROVE  lockedBy'[p] = q /\ p \in active' /\ owner'[p] = req'[q].user
      BY DEF ClearedHeld
    <2>1. CASE q = r BY <1>2, <1>3, <1>4, <1>6, <1>7, <2>1 DEF Moves
    <2>2. CASE q # r
      <3>1. req'[q] = req[q] BY <1>6, <2>2 DEF Moves
      <3>2. lockedBy[p] = q /\ p \in active /\ owner[p] = req[q].user
        BY <3>1 DEF PracticeInv, ClearedHeld, At
      <3>3. p \notin S BY <1>4, <2>2, <3>2, PracticeAssumption
      <3>4. p \in Projects BY <1>0, <3>2 DEF ProjectsOK
      <3> QED BY <1>3, <1>7, <3>1, <3>2, <3>3, <3>4
    <2> QED BY <2>1, <2>2
  <1>11. ASSUME ~overlapped' PROVE AloneSeesAll'
    <2>1. AloneSeesAll /\ Activating(r) BY <1>1, <1>7, <1>11 DEF PracticeInv, Activating
    <2>2. \A q \in Requests : Activating(q)' => Activating(q) BY <1>6, <2>1 DEF Activating, Moves
    <2> QED BY <1>5, <1>6, <1>7, <2>1, <2>2 DEF AloneSeesAll, Moves
  <1> QED BY <1>8, <1>9, <1>10, <1>11 DEF PracticeInv

LEMMA SetActiveKeeps ==
    ASSUME PracticeInv, NEW r \in Requests, SetActive(r)
    PROVE  PracticeInv'
  <1> DEFINE t == req[r].target
             u == req[r].user
             S == req[r].seen
  <1>0. PracticeTypeOK /\ LocalsOK /\ ProjectsOK BY DEF PracticeInv, PracticeTypeOK
  <1>1. /\ At(r, "activate", "set") /\ t \in Projects /\ u # 0 /\ S \in SUBSET Projects
        /\ lockedBy[t] \in {None, r}
    <2>1. Sensible(req[r]) /\ req[r] \in Locals BY <1>0 DEF LocalsOK
    <2>2. At(r, "activate", "set") /\ Free(t, r) BY DEF SetActive
    <2> QED BY <2>1, <2>2 DEF At, Sensible, Free, Locals
  <1>2. PICK pc \in {"done", "failed"} : End(r, pc) BY DEF SetActive
  <1>3. Moves(r, req[r].op, pc, u, {}) /\ LocalsOK' BY <1>0, <1>2, EndGoes
  <1>4. /\ UNCHANGED <<users, cachedUserId, owner, made, searches, overlapped>>
        /\ lockedBy' = [p \in Projects |-> IF lockedBy[p] = r THEN None ELSE lockedBy[p]]
        /\ \/ active' = active
           \/ active' = (active \ S) \cup {t} /\ owner[t] = u
    BY DEF SetActive, Released
  <1>5. \A p \in S : lockedBy[p] = r BY <1>1 DEF PracticeInv, ClearedHeld
  <1> HIDE DEF t, u, S
  <1>6. PracticeTypeOK'
    <2>1. lockedBy' \in [Projects -> Requests \cup {None}] BY <1>0, <1>4 DEF ProjectsOK
    <2>2. active' \in SUBSET Projects BY <1>0, <1>1, <1>4 DEF ProjectsOK
    <2>3. ProjectsOK' BY <1>0, <1>4, <2>1, <2>2 DEF ProjectsOK
    <2> QED BY <1>0, <1>3, <1>4, <2>3 DEF PracticeTypeOK, UsersOK, SearchesOK
  <1>7. ActiveOwned' BY <1>1, <1>4 DEF PracticeInv, ActiveOwned
  <1>8. ClearedHeld'
    <2> SUFFICES ASSUME NEW q \in Requests, At(q, "activate", "set")', NEW p \in req'[q].seen
                 PROVE  lockedBy'[p] = q /\ p \in active' /\ owner'[p] = req'[q].user
      BY DEF ClearedHeld
    <2>1. q # r BY <1>3 DEF Moves, At
    <2>2. req'[q] = req[q] BY <1>3, <2>1 DEF Moves
    <2>3. lockedBy[p] = q /\ p \in active /\ owner[p] = req[q].user
      BY <2>2 DEF PracticeInv, ClearedHeld, At
    <2>4. p \notin S BY <1>5, <2>1, <2>3
    <2>5. p \in Projects BY <1>0, <2>3 DEF ProjectsOK
    <2> QED BY <1>4, <2>1, <2>2, <2>3, <2>4, <2>5
  <1>9. ASSUME ~overlapped' PROVE AloneSeesAll'
    <2>1. AloneSeesAll /\ Activating(r) BY <1>1, <1>4, <1>9 DEF PracticeInv, Activating, At
    <2>2. \A q \in Requests : ~Activating(q)' BY <1>3, <2>1 DEF Activating, Moves, AloneSeesAll
    <2>3. \A p \in active : owner[p] = u => p \in S BY <2>1 DEF AloneSeesAll, u, S
    <2>4. \A p, q \in active' : owner'[p] = owner'[q] => p = q
      BY <1>4, <2>1, <2>3 DEF AloneSeesAll
    <2> QED BY <2>2, <2>4 DEF AloneSeesAll
  <1> QED BY <1>6, <1>7, <1>8, <1>9 DEF PracticeInv

LEMMA RestartKeeps == ASSUME PracticeInv, Restart PROVE PracticeInv'
  <1> DEFINE ended == {"idle", "done", "failed"}
             l(r) == IF req[r].pc \in ended THEN req[r]
                     ELSE [req[r] EXCEPT !.pc = "failed", !.seen = {}, !.victims = {}]
  <1>0. PracticeTypeOK /\ LocalsOK /\ ProjectsOK /\ UsersOK BY DEF PracticeInv, PracticeTypeOK
  <1>1. req' = [r \in Requests |-> l(r)] BY DEF Restart
  <1>2. ASSUME NEW r \in Requests PROVE l(r) \in Locals /\ Sensible(l(r)) /\ l(r).pc \in ended
    <2>1. req[r] \in Locals /\ Sensible(req[r]) BY <1>0 DEF LocalsOK
    <2>2. CASE req[r].pc \in ended BY <2>1, <2>2
    <2>3. CASE req[r].pc \notin ended
      <3>1. l(r) \in Locals BY <2>1, <2>3 DEF Locals, Steps
      <3>2. l(r).pc = "failed" /\ l(r).op = req[r].op /\ l(r).target = req[r].target
        BY <2>1, <2>3 DEF Locals
      <3> QED BY <2>1, <3>1, <3>2 DEF Sensible
    <2> QED BY <2>2, <2>3
  <1> HIDE DEF l
  <1>3. LocalsOK' BY <1>1, <1>2 DEF LocalsOK, Sensible
  <1>4. \A r \in Requests : req'[r].pc \in ended BY <1>1, <1>2
  <1>5. /\ UNCHANGED <<users, owner, active, made, searches, overlapped>>
        /\ cachedUserId' = 0 /\ lockedBy' = [p \in Projects |-> None]
    BY DEF Restart
  <1>6. UsersOK' BY <1>0, <1>5, PracticeAssumption DEF UsersOK
  <1>7. PracticeTypeOK' BY <1>0, <1>3, <1>5, <1>6 DEF PracticeTypeOK, ProjectsOK, SearchesOK
  <1>8. ActiveOwned' BY <1>5 DEF PracticeInv, ActiveOwned
  <1>9. ClearedHeld' BY <1>4 DEF ClearedHeld, At
  <1>10. \A r \in Requests : ~Activating(r)' BY <1>4 DEF Activating
  <1>11. ASSUME ~overlapped' PROVE AloneSeesAll'
    BY <1>5, <1>10, <1>11 DEF PracticeInv, AloneSeesAll
  <1> QED BY <1>7, <1>8, <1>9, <1>11 DEF PracticeInv

LEMMA PracticeInvNext == PracticeInv /\ [PracticeNext]_practiceVars => PracticeInv'
  <1> SUFFICES ASSUME PracticeInv, [PracticeNext]_practiceVars PROVE PracticeInv' OBVIOUS
  <1>1. CASE UNCHANGED practiceVars
    BY <1>1 DEF practiceVars, PracticeInv, PracticeTypeOK, UsersOK, ProjectsOK, SearchesOK, LocalsOK,
       Sensible, ActiveOwned, ClearedHeld, At, AloneSeesAll, Activating
  <1>2. CASE PracticeNext
    BY <1>2, BeginKeeps, UserKeeps, SearchKeeps, CreateKeeps, DeleteKeeps, ReadActiveKeeps,
       ClearActiveKeeps, SetActiveKeeps, RestartKeeps
       DEF PracticeNext
  <1> QED BY <1>1, <1>2

(***************************************************************************)
(* As long as two activations never overlap, nobody has two active         *)
(* projects, whatever is deleted, fails or restarts between the statements *)
(* (SerialActivationKeepsOne in practice).                                 *)
(***************************************************************************)
THEOREM OneProjectIsActive == PracticeSpec => []SerialActivationKeepsOne
  <1>1. PracticeInv => SerialActivationKeepsOne
    BY DEF PracticeInv, AloneSeesAll, SerialActivationKeepsOne
  <1> QED BY <1>1, PracticeInitial, PracticeInvNext, PTL DEF PracticeSpec

\* A step that takes the last active project of a user deletes a project of his.
LEMMA StaysActive ==
    ASSUME PracticeInv, [PracticeNext]_practiceVars, NEW u \in UserIds,
           NEW p \in active, owner[p] = u, \A q \in Projects : owner[q] = u => owner'[q] = u
    PROVE  \E q \in active' : owner'[q] = u
  <1>0. p \in Projects /\ u # 0 /\ owner'[p] = u
    BY DEF PracticeInv, PracticeTypeOK, ProjectsOK, UserIds
  <1>1. CASE p \in active' BY <1>0, <1>1
  <1>2. ASSUME NEW r \in Requests, DeleteProject(r) PROVE p \in active'
    <2>1. PracticeTypeOK BY DEF PracticeInv
    <2>2. CASE owner' = [owner EXCEPT ![req[r].target] = 0] /\ active' = active \ {req[r].target}
      <3>1. p # req[r].target BY <1>0, <2>1, <2>2 DEF PracticeTypeOK, ProjectsOK
      <3> QED BY <2>2, <3>1
    <2>3. CASE UNCHANGED active BY <2>3
    <2> QED BY <1>2, <2>2, <2>3 DEF DeleteProject
  <1>3. ASSUME NEW r \in Requests, SetActive(r), p \notin active'
        PROVE  req[r].target \in active' /\ owner'[req[r].target] = u
    <2>1. At(r, "activate", "set") /\ UNCHANGED owner BY <1>3 DEF SetActive
    <2>2. active' = (active \ req[r].seen) \cup {req[r].target} /\ owner[req[r].target] = req[r].user
      BY <1>3 DEF SetActive
    <2>3. p \in req[r].seen BY <1>3, <2>2
    <2>4. owner[p] = req[r].user BY SMTT(40), <2>1, <2>3 DEF PracticeInv, ClearedHeld
    <2> QED BY <2>1, <2>2, <2>4
  <1>4. \/ UNCHANGED active
        \/ \E r \in Requests : DeleteProject(r) \/ SetActive(r)
    BY DEF PracticeNext, practiceVars, Begin, UseCachedUser, FindDefaultUser, CreateDefaultUser,
       CreateProject, ReadActive, ClearActive, CreateSearch, ReadOldSearches, DeleteOldSearches, Restart
  <1> QED BY <1>1, <1>2, <1>3, <1>4

(***************************************************************************)
(* A user who has an active project loses it only to another one or to a   *)
(* deletion (SomeProjectStaysActive in practice).                          *)
(***************************************************************************)
THEOREM ActivationIsAtomic == PracticeSpec => SomeProjectStaysActive
  <1>1. PracticeInv /\ [PracticeNext]_practiceVars =>
           [\A u \in UserIds :
              /\ \E p \in active : owner[p] = u
              /\ \A p \in Projects : owner[p] = u => owner'[p] = u
              => \E p \in active' : owner'[p] = u]_practiceVars
    BY StaysActive
  <1> QED BY <1>1, PracticeInitial, PracticeInvNext, PTL DEF PracticeSpec, SomeProjectStaysActive

-----------------------------------------------------------------------------
(* The backup.                                                               *)

TableNames == {"projects", "highlights", "templates", "tags", "links", "packs", "pairs", "history"}
IsTables(t) == t = [name \in TableNames |-> t[name]]

\* Searches that have been recorded.
PastSearches(S) == IsFiniteSet(S) /\ \A h \in S : h[1] \in Nat /\ h[1] <= edits

FileOK ==
    file # NoFile =>
        /\ file = [name \in {"type", "tables", "sum"} |-> file[name]]
        /\ IsTables(file.tables) /\ PastSearches(file.tables.history)

\* An import that has begun has a file.
ImportHasFile == Importing => file # NoFile

\* What an import is about to delete leaves a search as new as any it knows of.
LeavesNewest(S, victims) == \A h \in S : \E g \in S \ victims : g[1] >= h[1]

ImportOK ==
    /\ imp = [name \in {"pc", "n", "rev", "ids", "plan", "victims"} |-> imp[name]]
    /\ imp.pc = "commit" =>
          /\ PastSearches(imp.plan.history) /\ PastSearches(imp.victims)
          /\ LeavesNewest(db.history \cup imp.plan.history, imp.victims)

HistoryInv ==
    /\ edits \in Nat
    /\ IsTables(db) /\ PastSearches(db.history)
    /\ FileOK /\ ImportHasFile /\ ImportOK

LEMMA Exported == IsTables(ExportTables) /\ ExportTables.history = db.history
BY DEF ExportTables, IsTables, TableNames

LEMMA Planned == PlannedRows.history = {<<h[1], imp.n>> : h \in file.tables.history}
BY DEF PlannedRows

LEMMA NoTables == IsTables(EmptyTables) /\ EmptyTables.history = {}
BY DEF EmptyTables, IsTables, TableNames

\* The cap keeps something, and nothing older than what it drops.
LEMMA CapKeepsNewest ==
    ASSUME NEW S, IsFiniteSet(S), \A h \in S : h[1] \in Nat, NEW keep, Newest(S, keep)
    PROVE  LeavesNewest(S, S \ keep)
  <1> SUFFICES ASSUME NEW h \in S PROVE \E g \in S \ (S \ keep) : g[1] >= h[1]
    BY DEF LeavesNewest
  <1>1. keep \subseteq S /\ S \ (S \ keep) = keep BY DEF Newest
  <1>2. Cardinality(S) \in Nat /\ Cardinality(S) # 0 BY FS_CardinalityType, FS_EmptySet
  <1>3. Cardinality(keep) # 0 BY <1>2, BackupAssumption DEF Newest
  <1>4. PICK k \in keep : TRUE BY <1>3, FS_EmptySet
  <1>5. CASE h \in keep BY <1>1, <1>5
  <1>6. CASE h \notin keep
    <2>1. k[1] >= h[1] BY <1>4, <1>6 DEF Newest
    <2> QED BY <1>1, <1>4, <2>1
  <1> QED BY <1>5, <1>6

LEMMA PlannedIsPast ==
    ASSUME HistoryInv, file # NoFile
    PROVE  PastSearches(PlannedRows.history)
  <1> DEFINE H == file.tables.history
             P == {<<h[1], imp.n>> : h \in H}
             f == [h \in H |-> <<h[1], imp.n>>]
  <1>1. PastSearches(H) BY DEF HistoryInv, FileOK
  <1>2. f \in Surjection(H, P) BY DEF Surjection
  <1>3. IsFiniteSet(P) BY <1>1, <1>2, FS_Surjection DEF ExistsSurjection, PastSearches
  <1>4. \A h \in P : h[1] \in Nat /\ h[1] <= edits BY <1>1 DEF PastSearches
  <1> QED BY <1>3, <1>4, Planned DEF PastSearches

LEMMA HistoryInit == BackupInit => HistoryInv
  <1> SUFFICES ASSUME BackupInit PROVE HistoryInv OBVIOUS
  <1>1. PastSearches(db.history) BY NoTables, FS_EmptySet DEF BackupInit, PastSearches
  <1>2. FileOK BY DEF BackupInit, FileOK
  <1>3. ImportOK /\ ImportHasFile
    BY DEF BackupInit, ImportOK, NoImport, ImportHasFile, Importing
  <1> QED BY <1>1, <1>2, <1>3, NoTables DEF HistoryInv, BackupInit

\* What a request changes: a table other than the history, or the history by one search.
LEMMA Request ==
    ASSUME HistoryInv, NEW tables, Changed(tables), IsTables(tables), tables.history = db.history
    PROVE  HistoryInv' /\ db'.history = db.history
  <1>1. /\ edits' = edits + 1 /\ db' = tables /\ UNCHANGED <<file, imp>>
    BY DEF Changed
  <1>2. \A S : PastSearches(S) => PastSearches(S)'
    BY <1>1 DEF PastSearches, HistoryInv
  <1>3. FileOK' BY <1>1 DEF HistoryInv, FileOK, PastSearches
  <1>4. ImportOK'
    <2>1. imp' = imp /\ db'.history = db.history BY <1>1
    <2>2. ImportOK BY DEF HistoryInv
    <2> QED BY <1>2, <2>1, <2>2 DEF ImportOK
  <1>5. ImportHasFile' BY <1>1 DEF HistoryInv, ImportHasFile, Importing
  <1> QED BY <1>1, <1>3, <1>4, <1>5 DEF HistoryInv, PastSearches

LEMMA SearchIsKept ==
    ASSUME HistoryInv, RecordSearch
    PROVE  HistoryInv' /\ LeavesNewest(db.history \cup db'.history, db.history \ db'.history)
  <1> DEFINE new == <<edits + 1, 0>>
             seen == db.history \cup {new}
  <1>0. edits \in Nat /\ PastSearches(db.history) /\ IsTables(db) /\ FileOK /\ ImportOK
    BY DEF HistoryInv
  <1>1. PICK keep \in SUBSET seen : Newest(seen, keep) /\ Changed([db EXCEPT !.history = keep])
    BY DEF RecordSearch
  <1>2. edits' = edits + 1 /\ db' = [db EXCEPT !.history = keep] /\ UNCHANGED <<file, imp>>
    BY <1>1 DEF Changed
  <1>3. IsTables(db') /\ db'.history = keep BY <1>0, <1>2 DEF IsTables, TableNames
  <1>4. IsFiniteSet(seen) /\ \A h \in seen : h[1] \in Nat /\ h[1] <= edits + 1
    <2>1. IsFiniteSet(seen) BY <1>0, FS_AddElement DEF PastSearches
    <2>2. new[1] = edits + 1 OBVIOUS
    <2> HIDE DEF new
    <2>3. \A h \in seen : h[1] \in Nat /\ h[1] <= edits + 1 BY <1>0, <2>2 DEF PastSearches
    <2> QED BY <2>1, <2>3
  <1>5. LeavesNewest(seen, seen \ keep) BY <1>1, <1>4, CapKeepsNewest
  <1>6. new \in keep
    <2>3. new \in seen /\ new[1] = edits + 1 /\ seen \ (seen \ keep) = keep BY <1>1
    <2>1. PICK g \in keep : g[1] >= edits + 1
      <3> HIDE DEF new, seen
      <3> QED BY <1>5, <2>3 DEF LeavesNewest
    <2>2. g \notin db.history BY <1>0, <2>1 DEF PastSearches
    <2> QED BY <1>1, <2>1, <2>2
  <1>7. PastSearches(keep)' BY <1>1, <1>2, <1>4, FS_Subset DEF PastSearches
  <1>8. FileOK' BY <1>0, <1>2 DEF FileOK, PastSearches
  <1>9. ImportOK'
    <2> SUFFICES ASSUME imp.pc = "commit" PROVE LeavesNewest(keep \cup imp.plan.history, imp.victims)
      BY <1>0, <1>2, <1>3 DEF ImportOK, PastSearches
    <2>1. PastSearches(imp.plan.history) /\ PastSearches(imp.victims) BY <1>0 DEF ImportOK
    <2>2. new \notin imp.victims BY <1>0, <2>1 DEF PastSearches
    <2>3. \A h \in keep \cup imp.plan.history : h[1] <= edits + 1
      BY <1>0, <1>1, <1>4, <2>1 DEF PastSearches
    <2> QED BY <1>0, <1>4, <1>6, <2>1, <2>2, <2>3 DEF LeavesNewest, PastSearches
  <1>12. ImportHasFile' BY <1>2 DEF HistoryInv, ImportHasFile, Importing
  <1>10. HistoryInv' BY <1>0, <1>2, <1>3, <1>7, <1>8, <1>9, <1>12 DEF HistoryInv
  <1>11. db.history \cup db'.history = seen /\ db.history \ db'.history = seen \ keep
    BY <1>1, <1>3, <1>6
  <1> QED BY <1>5, <1>10, <1>11

LEMMA OtherRequests ==
    ASSUME HistoryInv,
           \/ CreateProfile \/ AddCheckItem \/ AddHighlight \/ RemoveHighlight \/ AddTag
           \/ AddUserPack \/ SeedPractice \/ CountPair
    PROVE  HistoryInv' /\ db'.history = db.history
  <1> DEFINE Kept(t) == IsTables(t) /\ t.history = db.history
  <1>0. IsTables(db) BY DEF HistoryInv
  <1>1. ASSUME NEW v
        PROVE  /\ Kept([db EXCEPT !.projects = v]) /\ Kept([db EXCEPT !.highlights = v])
               /\ Kept([db EXCEPT !.tags = v]) /\ Kept([db EXCEPT !.packs = v])
               /\ Kept([db EXCEPT !.pairs = v])
               /\ \A w, x : Kept([db EXCEPT !.packs = v, !.templates = w, !.links = x])
    BY <1>0 DEF IsTables, TableNames
  <1> HIDE DEF Kept
  <1>2. ASSUME NEW t, Kept(t), Changed(t) PROVE HistoryInv' /\ db'.history = db.history
    BY <1>2, Request DEF Kept
  <1>3. CASE CreateProfile BY <1>1, <1>2, <1>3 DEF CreateProfile
  <1>4. CASE AddCheckItem BY <1>1, <1>2, <1>4 DEF AddCheckItem
  <1>5. CASE AddHighlight BY <1>1, <1>2, <1>5 DEF AddHighlight
  <1>6. CASE RemoveHighlight BY <1>1, <1>2, <1>6 DEF RemoveHighlight
  <1>7. CASE AddTag BY <1>1, <1>2, <1>7 DEF AddTag
  <1>8. CASE AddUserPack BY <1>1, <1>2, <1>8 DEF AddUserPack
  <1>9. CASE SeedPractice BY <1>1, <1>2, <1>9 DEF SeedPractice
  <1>10. CASE CountPair BY <1>1, <1>2, <1>10 DEF CountPair
  <1> QED BY <1>3, <1>4, <1>5, <1>6, <1>7, <1>8, <1>9, <1>10

\* A step that makes no search and touches neither the tables nor a running import.
LEMMA FileKeeps ==
    ASSUME HistoryInv, SwitchLaw \/ Export \/ AlterFile
    PROVE  HistoryInv' /\ UNCHANGED <<db, edits>>
  <1>1. UNCHANGED <<db, edits, imp>> BY DEF SwitchLaw, Export, AlterFile
  <1>2. ImportOK' BY <1>1 DEF HistoryInv, ImportOK, PastSearches
  <1>3. FileOK'
    <2>1. CASE SwitchLaw BY <2>1 DEF SwitchLaw, HistoryInv, FileOK, PastSearches
    <2>2. CASE Export
      <3>1. PICK type : file' = [type |-> type, tables |-> ExportTables, sum |-> Digest(ExportTables)]
        BY <2>2 DEF Export
      <3>2. file'.tables = ExportTables /\ file' = [name \in {"type", "tables", "sum"} |-> file'[name]]
        BY <3>1
      <3> QED BY <1>1, <3>2, Exported DEF HistoryInv, FileOK, PastSearches
    <2>3. CASE AlterFile
      <3>1. /\ file = [name \in {"type", "tables", "sum"} |-> file[name]]
            /\ IsTables(file.tables) /\ PastSearches(file.tables.history)
        BY <2>3 DEF HistoryInv, FileOK, AlterFile
      <3>2. \E v : \/ file' = [file EXCEPT !.tables.highlights = v]
                   \/ file' = [file EXCEPT !.tables.projects = v]
        BY <2>3 DEF AlterFile
      <3>3. \E v : \/ file'.tables = [file.tables EXCEPT !.highlights = v]
                   \/ file'.tables = [file.tables EXCEPT !.projects = v]
        BY <3>1, <3>2
      <3>4. file' = [name \in {"type", "tables", "sum"} |-> file'[name]] BY <3>1, <3>2
      <3>5. IsTables(file'.tables) /\ file'.tables.history = file.tables.history
        BY <3>1, <3>3 DEF IsTables, TableNames
      <3> QED BY <1>1, <3>1, <3>4, <3>5 DEF FileOK, PastSearches
    <2> QED BY <2>1, <2>2, <2>3
  <1>4. ImportHasFile'
    BY <1>1 DEF HistoryInv, ImportHasFile, Importing, SwitchLaw, Export, AlterFile
  <1> QED BY <1>1, <1>2, <1>3, <1>4 DEF HistoryInv, PastSearches

LEMMA ImportKeeps ==
    ASSUME HistoryInv, StartImport \/ ResolveRefs \/ WriteRows \/ RollBackImport
    PROVE  HistoryInv' /\ UNCHANGED db
  <1> DEFINE Shaped(i) == i = [name \in {"pc", "n", "rev", "ids", "plan", "victims"} |-> i[name]]
  <1>0. Shaped(imp) /\ PastSearches(db.history) BY DEF HistoryInv, ImportOK
  <1>1. UNCHANGED <<db, edits, file>> BY DEF StartImport, ResolveRefs, WriteRows, RollBackImport
  <1>7. ImportHasFile'
    BY <1>1 DEF HistoryInv, ImportHasFile, Importing, StartImport, ResolveRefs, WriteRows, RollBackImport,
       NoImport, ImportOK
  <1>2. FileOK' BY <1>1 DEF HistoryInv, FileOK, PastSearches
  <1>3. CASE StartImport
    <2>1. \E n \in {imp.n + 1}, pc \in {"resolve", "refused"} :
             imp' = [NoImport EXCEPT !.n = n, !.pc = pc]
      BY <1>3 DEF StartImport
    <2>2. Shaped(imp') /\ imp'.pc # "commit" BY <2>1 DEF NoImport
    <2>3. ImportOK' BY <2>2 DEF ImportOK
    <2> QED BY <1>1, <1>2, <1>7, <2>3 DEF HistoryInv, PastSearches
  <1>4. CASE ResolveRefs
    <2>1. imp' = [imp EXCEPT !.pc = "write", !.rev = shown, !.ids = public] BY <1>4 DEF ResolveRefs
    <2>2. Shaped(imp') /\ imp'.pc # "commit" BY <1>0, <2>1
    <2>3. ImportOK' BY <2>2 DEF ImportOK
    <2> QED BY <1>1, <1>2, <1>7, <2>3 DEF HistoryInv, PastSearches
  <1>5. CASE RollBackImport
    <2>1. imp' = [imp EXCEPT !.pc = "failed", !.plan = EmptyTables, !.victims = {}]
      BY <1>5 DEF RollBackImport
    <2>2. Shaped(imp') /\ imp'.pc # "commit" BY <1>0, <2>1
    <2>3. ImportOK' BY <2>2 DEF ImportOK
    <2> QED BY <1>1, <1>2, <1>7, <2>3 DEF HistoryInv, PastSearches
  <1>6. CASE WriteRows
    <2> DEFINE P == PlannedRows
               seen == db.history \cup P.history
    <2>1. PICK keep \in SUBSET seen :
             /\ Newest(seen, keep)
             /\ imp' = [imp EXCEPT !.pc = "commit", !.plan = P, !.victims = seen \ keep]
      BY <1>6 DEF WriteRows
    <2>2. file # NoFile BY <1>6 DEF WriteRows, HistoryInv, ImportHasFile, Importing
    <2>3. PastSearches(P.history) BY <2>2, PlannedIsPast
    <2> HIDE DEF P
    <2>4. PastSearches(seen) BY <1>0, <2>3, FS_Union DEF PastSearches
    <2>5. LeavesNewest(seen, seen \ keep) BY <2>1, <2>4, CapKeepsNewest DEF PastSearches
    <2>6. PastSearches(seen \ keep) BY <2>4, FS_Difference DEF PastSearches
    <2>7. Shaped(imp') /\ imp'.plan = P /\ imp'.victims = seen \ keep BY <1>0, <2>1
    <2>8. ImportOK' BY <1>1, <2>3, <2>5, <2>6, <2>7 DEF ImportOK, PastSearches
    <2> QED BY <1>1, <1>2, <1>7, <2>8 DEF HistoryInv, PastSearches
  <1> QED BY <1>1, <1>3, <1>4, <1>5, <1>6

LEMMA CommitKeeps ==
    ASSUME HistoryInv, CommitImport
    PROVE  HistoryInv' /\ LeavesNewest(db.history \cup db'.history, db.history \ db'.history)
  <1> DEFINE all == db.history \cup imp.plan.history
  <1>0. /\ imp = [name \in {"pc", "n", "rev", "ids", "plan", "victims"} |-> imp[name]]
        /\ PastSearches(db.history) /\ PastSearches(imp.plan.history)
        /\ LeavesNewest(all, imp.victims)
    BY DEF CommitImport, HistoryInv, ImportOK
  <1>1. UNCHANGED <<edits, file>> BY DEF CommitImport
  <1>2. IsTables(db') /\ db'.history = all \ imp.victims
    BY DEF CommitImport, IsTables, TableNames
  <1>3. imp'.pc = "done" /\ imp' = [name \in {"pc", "n", "rev", "ids", "plan", "victims"} |-> imp'[name]]
    BY <1>0 DEF CommitImport
  <1>4. ImportOK' /\ ImportHasFile' BY <1>3 DEF ImportOK, ImportHasFile, Importing
  <1>5. FileOK' BY <1>1 DEF HistoryInv, FileOK, PastSearches
  <1>6. PastSearches(db.history)'
    <2>1. IsFiniteSet(all) BY <1>0, FS_Union DEF PastSearches
    <2>2. IsFiniteSet(db'.history) BY <1>2, <2>1, FS_Difference
    <2> QED BY <1>0, <1>1, <1>2, <2>2 DEF PastSearches
  <1>7. LeavesNewest(db.history \cup db'.history, db.history \ db'.history)
    BY <1>0, <1>2 DEF LeavesNewest
  <1> QED BY <1>1, <1>2, <1>4, <1>5, <1>6, <1>7 DEF HistoryInv

LEMMA BackupStep ==
    ASSUME HistoryInv, [BackupNext]_backupVars
    PROVE  /\ HistoryInv'
           /\ \/ db'.history = db.history
              \/ LeavesNewest(db.history \cup db'.history, db.history \ db'.history)
  <1>1. CASE UNCHANGED backupVars
    BY <1>1 DEF backupVars, HistoryInv, PastSearches, FileOK, ImportOK, ImportHasFile, Importing
  <1>2. CASE BackupNext
    BY <1>2, OtherRequests, SearchIsKept, FileKeeps, ImportKeeps, CommitKeeps DEF BackupNext
  <1> QED BY <1>1, <1>2

(***************************************************************************)
(* No step and no order of searches and imports loses the newest search:   *)
(* what is dropped leaves one that is as new (NewestSearchSurvives in      *)
(* practice).                                                              *)
(***************************************************************************)
THEOREM NewestSearchStays == BackupSpec => NewestSearchSurvives
  <1>1. ASSUME HistoryInv, [BackupNext]_backupVars, NEW h \in db.history
        PROVE  \E g \in db'.history : g[1] >= h[1]
    <2>1. CASE db'.history = db.history
      <3>1. h[1] \in Nat BY <1>1 DEF HistoryInv, PastSearches
      <3> QED BY <2>1, <3>1
    <2>2. CASE LeavesNewest(db.history \cup db'.history, db.history \ db'.history)
      BY <2>2 DEF LeavesNewest
    <2> QED BY <1>1, <2>1, <2>2, BackupStep
  <1>2. HistoryInv /\ [BackupNext]_backupVars =>
           [\A h \in db.history : \E g \in db'.history : g[1] >= h[1]]_backupVars
    BY <1>1
  <1> QED BY <1>2, HistoryInit, BackupStep, PTL DEF BackupSpec, NewestSearchSurvives

-----------------------------------------------------------------------------
(* Finite sets and sums.                                                     *)

\* A set of numbers has a least one.
LEMMA LeastNumber ==
    ASSUME NEW S, S \subseteq Nat, S # {}
    PROVE  \E m \in S : \A n \in S : m <= n
  <1>1. PICK m \in S : \A n \in S : ~ (<<n, m>> \in OpToRel(<, Nat))
    BY NatLessThanWellFounded, WFMin
  <1>2. \A n \in S : ~ (n < m) BY <1>1 DEF OpToRel
  <1> QED BY <1>2

\* Induction for a set of numbers.
LEMMA UpToIsIn ==
    ASSUME NEW n \in Nat, NEW Good, 0 \in Good, \A i \in 1 .. n : i - 1 \in Good => i \in Good
    PROVE  \A i \in 0 .. n : i \in Good
  <1> DEFINE Bad == {i \in 0 .. n : i \notin Good}
  <1>1. SUFFICES ASSUME Bad # {} PROVE FALSE BY <1>1
  <1>2. PICK m \in Bad : \A i \in Bad : m <= i
    <2>1. Bad \subseteq Nat OBVIOUS
    <2> HIDE DEF Bad
    <2> QED BY <1>1, <2>1, LeastNumber
  <1>3. m \in 1 .. n BY <1>2
  <1>4. m - 1 \in Good BY <1>2, <1>3
  <1> QED BY <1>2, <1>3, <1>4

\* Induction for the subsets of a finite set.
LEMMA FiniteSetGrows ==
    ASSUME NEW S, IsFiniteSet(S), NEW Good, {} \in Good,
           \A T \in SUBSET S, x \in S : T \in Good /\ x \notin T => T \cup {x} \in Good
    PROVE  S \in Good
  <1> DEFINE n == Cardinality(S)
             Reached == {k \in 0 .. n : \E T \in SUBSET S : T \in Good /\ Cardinality(T) = k}
  <1>1. n \in Nat BY FS_CardinalityType
  <1>2. 0 \in Reached
    <2>1. {} \in SUBSET S /\ Cardinality({}) = 0 BY FS_EmptySet
    <2> QED BY <1>1, <2>1
  <1>3. ASSUME NEW k \in 1 .. n, k - 1 \in Reached PROVE k \in Reached
    <2>1. PICK T \in SUBSET S : T \in Good /\ Cardinality(T) = k - 1 BY <1>3
    <2>2. IsFiniteSet(T) BY FS_Subset
    <2>3. PICK x \in S : x \notin T
      <3>1. T # S BY <1>1, <2>1
      <3> QED BY <3>1
    <2>4. Cardinality(T \cup {x}) = k - 1 + 1 BY <2>1, <2>2, <2>3, FS_AddElement
    <2>5. T \cup {x} \in SUBSET S /\ T \cup {x} \in Good BY <2>1, <2>3
    <2> QED BY <2>4, <2>5
  <1> HIDE DEF Reached
  <1>4. n \in Reached
    <2>1. \A k \in 0 .. n : k \in Reached BY <1>1, <1>2, <1>3, UpToIsIn
    <2> QED BY <1>1, <2>1
  <1>5. PICK T \in SUBSET S : T \in Good /\ Cardinality(T) = n BY <1>4 DEF Reached
  <1>6. T = S BY <1>5, FS_Subset
  <1> QED BY <1>5, <1>6

\* The members of T, each as often as f says; the sum of f over T.
Pile(f, T) == {p \in T \X (Nat \ {0}) : p[2] <= f[p[1]]}
Total(f, T) == Cardinality(Pile(f, T))

\* f says a number for each member of a finite set.
Weighs(f, T) == IsFiniteSet(T) /\ \A x \in T : f[x] \in Nat

\* One member more is as many pairs more as f says.
LEMMA PileAdd ==
    ASSUME NEW T, NEW f, NEW x, x \notin T, f[x] \in Nat, IsFiniteSet(Pile(f, T))
    PROVE  /\ IsFiniteSet(Pile(f, T \cup {x}))
           /\ Total(f, T \cup {x}) = Total(f, T) + f[x]
  <1> DEFINE n == f[x]
             one == {x} \X (1 .. n)
             g == [i \in 1 .. n |-> <<x, i>>]
  <1>1. IsFiniteSet(1 .. n) /\ Cardinality(1 .. n) = n BY SMTT(40), FS_Interval
  <1>2. IsFiniteSet(one) /\ Cardinality(one) = n
    <2>1. g \in [1 .. n -> one] OBVIOUS
    <2>2. \A i, j \in 1 .. n : g[i] = g[j] => i = j
      <3> SUFFICES ASSUME NEW i \in 1 .. n, NEW j \in 1 .. n, g[i] = g[j] PROVE i = j OBVIOUS
      <3>1. g[i][2] = i /\ g[j][2] = j OBVIOUS
      <3> QED BY <3>1
    <2>3. ASSUME NEW p \in one PROVE \E i \in 1 .. n : g[i] = p
      <3>1. p[2] \in 1 .. n /\ p = <<x, p[2]>> OBVIOUS
      <3> QED BY <3>1
    <2> HIDE DEF g, one, n
    <2>4. g \in Bijection(1 .. n, one)
      BY <2>1, <2>2, <2>3 DEF Bijection, Injection, Surjection, IsInjective
    <2> QED BY <1>1, <2>4, FS_Bijection DEF ExistsBijection
  <1>3. Pile(f, T \cup {x}) = Pile(f, T) \cup one /\ Pile(f, T) \cap one = {}
    BY DEF Pile
  <1>4. Cardinality({}) = 0 /\ Cardinality(Pile(f, T)) \in Nat BY FS_EmptySet, FS_CardinalityType
  <1> HIDE DEF one
  <1>5. /\ IsFiniteSet(Pile(f, T) \cup one)
        /\ Cardinality(Pile(f, T) \cup one)
             = Cardinality(Pile(f, T)) + Cardinality(one) - Cardinality(Pile(f, T) \cap one)
    BY <1>2, FS_Union
  <1>6. Cardinality(Pile(f, T) \cup one) = Cardinality(Pile(f, T)) + f[x]
    <2>1. Cardinality(Pile(f, T) \cap one) = 0 BY <1>3, <1>4
    <2>2. Cardinality(one) = f[x] BY <1>2
    <2> QED BY <1>4, <1>5, <2>1, <2>2
  <1> QED BY <1>3, <1>5, <1>6 DEF Total

\* A pile over a finite set is finite, and its size a number.
LEMMA PileFacts ==
    ASSUME NEW T, NEW f, Weighs(f, T)
    PROVE  IsFiniteSet(Pile(f, T)) /\ Total(f, T) \in Nat /\ Total(f, {}) = 0
  <1> DEFINE Good == {U \in SUBSET T : IsFiniteSet(Pile(f, U))}
  <1>1. Pile(f, {}) = {} BY DEF Pile
  <1>2. {} \in Good BY <1>1, FS_EmptySet
  <1>3. \A U \in SUBSET T, x \in T : U \in Good /\ x \notin U => U \cup {x} \in Good
    BY PileAdd DEF Weighs
  <1> HIDE DEF Good
  <1>4. T \in Good BY <1>2, <1>3, FiniteSetGrows DEF Weighs
  <1>5. IsFiniteSet(Pile(f, T)) BY <1>4 DEF Good
  <1> QED BY <1>1, <1>5, FS_EmptySet, FS_CardinalityType DEF Total

\* One member more.
LEMMA TotalAdd ==
    ASSUME NEW T, NEW f, NEW x, x \notin T, f[x] \in Nat, Weighs(f, T)
    PROVE  Total(f, T \cup {x}) = Total(f, T) + f[x]
BY PileAdd, PileFacts

\* What is at most as often, or among more, sums up to at most as much.
LEMMA TotalGrows ==
    ASSUME NEW T, NEW f, NEW U, NEW g, Weighs(g, U), T \subseteq U,
           \A x \in T : f[x] \in Nat /\ f[x] <= g[x]
    PROVE  Weighs(f, T) /\ Total(f, T) <= Total(g, U)
  <1>1. Weighs(f, T) BY FS_Subset DEF Weighs
  <1>2. Pile(f, T) \subseteq Pile(g, U)
    <2> SUFFICES ASSUME NEW p \in Pile(f, T) PROVE p \in Pile(g, U) OBVIOUS
    <2>1. p \in T \X (Nat \ {0}) /\ p[2] <= f[p[1]] BY DEF Pile
    <2>2. p[1] \in T /\ p[2] \in Nat /\ f[p[1]] \in Nat /\ g[p[1]] \in Nat /\ f[p[1]] <= g[p[1]]
      BY <2>1 DEF Weighs
    <2>3. p[2] <= g[p[1]] BY <2>1, <2>2
    <2>4. p \in U \X (Nat \ {0}) BY <2>1
    <2> QED BY <2>3, <2>4 DEF Pile
  <1>3. IsFiniteSet(Pile(g, U)) BY PileFacts
  <1>4. Cardinality(Pile(f, T)) <= Cardinality(Pile(g, U)) BY <1>2, <1>3, FS_Subset
  <1> QED BY <1>1, <1>4 DEF Total

\* Only what f says of the members counts.
LEMMA TotalSame ==
    ASSUME NEW T, NEW f, NEW g, \A x \in T : f[x] = g[x]
    PROVE  Total(f, T) = Total(g, T)
  <1>1. Pile(f, T) = Pile(g, T) BY DEF Pile
  <1> QED BY <1>1 DEF Total

\* One member has at least its own.
LEMMA TotalHas ==
    ASSUME NEW T, NEW f, Weighs(f, T), NEW x \in T
    PROVE  f[x] <= Total(f, T)
  <1>1. Weighs(f, T \ {x}) BY FS_Subset DEF Weighs
  <1>2. (T \ {x}) \cup {x} = T /\ f[x] \in Nat BY DEF Weighs
  <1>3. Total(f, T) = Total(f, T \ {x}) + f[x]
    <2>1. Total(f, (T \ {x}) \cup {x}) = Total(f, T \ {x}) + f[x] BY <1>1, <1>2, TotalAdd
    <2> QED BY <1>2, <2>1
  <1>4. Total(f, T \ {x}) \in Nat BY <1>1, PileFacts
  <1> QED BY <1>2, <1>3, <1>4

\* One member has more.
LEMMA TotalMore ==
    ASSUME NEW T, NEW f, Weighs(f, T), NEW g, NEW x \in T,
           g[x] \in Nat, \A y \in T : y # x => g[y] = f[y]
    PROVE  Weighs(g, T) /\ Total(g, T) = Total(f, T) + (g[x] - f[x])
  <1> DEFINE U == T \ {x}
  <1>0. Weighs(f, U) /\ x \notin U BY FS_Subset DEF Weighs
  <1>1. U \cup {x} = T /\ f[x] \in Nat BY DEF Weighs
  <1>2. Weighs(g, U) /\ Weighs(g, T) BY <1>0, <1>1 DEF Weighs
  <1>3. Total(f, U) = Total(g, U)
    <2>1. \A y \in U : f[y] = g[y] OBVIOUS
    <2> HIDE DEF U
    <2> QED BY <2>1, TotalSame
  <1>4. Total(f, U) \in Nat BY <1>0, PileFacts
  <1> HIDE DEF U
  <1>5. Total(f, U \cup {x}) = Total(f, U) + f[x] BY <1>0, <1>1, TotalAdd
  <1>6. Total(g, U \cup {x}) = Total(g, U) + g[x] BY <1>0, <1>2, TotalAdd
  <1>7. Total(f, T) = Total(f, U) + f[x] BY <1>1, <1>5
  <1>8. Total(g, T) = Total(f, U) + g[x] BY <1>1, <1>3, <1>6
  <1>9. Total(g, T) = Total(f, T) + (g[x] - f[x]) BY <1>1, <1>4, <1>7, <1>8
  <1> QED BY <1>2, <1>9

\* What one step of a sum over a set makes of the sums over smaller sets.
Summing(f, S, s) ==
    [T \in SUBSET S |-> IF T = {} THEN 0
                        ELSE f[CHOOSE x \in T : TRUE] + s[T \ {CHOOSE x \in T : TRUE}]]

\* Such a recursion is the sum, whichever member is chosen first.
LEMMA SummingIsTotal ==
    ASSUME NEW S, NEW f, Weighs(f, S)
    PROVE  (CHOOSE s : s = Summing(f, S, s))[S] = Total(f, S)
  <1> DEFINE t == [T \in SUBSET S |-> Total(f, T)]
             s == CHOOSE s : s = Summing(f, S, s)
             first(T) == CHOOSE x \in T : TRUE
             n == Cardinality(S)
  <1>1. \A T \in SUBSET S : IsFiniteSet(T) /\ Weighs(f, T) BY FS_Subset DEF Weighs
  <1>2. ASSUME NEW T \in SUBSET S, T # {}
        PROVE  first(T) \in T /\ Total(f, T) = f[first(T)] + Total(f, T \ {first(T)})
    <2>1. first(T) \in T BY <1>2
    <2> DEFINE x == first(T)
               U == T \ {x}
    <2> HIDE DEF first
    <2>2. U \cup {x} = T /\ x \notin U /\ f[x] \in Nat BY <2>1 DEF Weighs
    <2>3. Weighs(f, U) /\ U \in SUBSET S BY <1>1
    <2>5. Total(f, U) \in Nat BY <2>3, PileFacts
    <2>6. T \ {first(T)} = U /\ first(T) = x OBVIOUS
    <2> HIDE DEF x, U
    <2>4. Total(f, U \cup {x}) = Total(f, U) + f[x] BY <2>2, <2>3, TotalAdd
    <2>7. Total(f, T) = f[x] + Total(f, U) BY <2>2, <2>4, <2>5
    <2> QED BY <2>1, <2>6, <2>7
  <1>3. t = Summing(f, S, t)
    <2>1. Total(f, {}) = 0 BY PileFacts
    <2>2. ASSUME NEW T \in SUBSET S
          PROVE  t[T] = IF T = {} THEN 0 ELSE f[first(T)] + t[T \ {first(T)}]
      <3>1. T \ {first(T)} \in SUBSET S OBVIOUS
      <3>2. CASE T = {} BY <2>1, <3>2
      <3>3. CASE T # {} BY <1>2, <3>1, <3>3
      <3> QED BY <3>2, <3>3
    <2> QED BY <2>2 DEF Summing
  <1>4. s = Summing(f, S, s) BY <1>3
  <1>5. n \in Nat BY <1>1, FS_CardinalityType
  <1> HIDE DEF s, t
  <1> DEFINE Good == {k \in 0 .. n : \A T \in SUBSET S : Cardinality(T) = k => s[T] = Total(f, T)}
  <1>6. 0 \in Good
    <2> SUFFICES ASSUME NEW T \in SUBSET S, Cardinality(T) = 0 PROVE s[T] = Total(f, T) BY <1>5
    <2>1. T = {} BY <1>1, FS_EmptySet
    <2> QED BY <1>4, <2>1, PileFacts DEF Summing
  <1>7. ASSUME NEW k \in 1 .. n, k - 1 \in Good PROVE k \in Good
    <2> SUFFICES ASSUME NEW T \in SUBSET S, Cardinality(T) = k PROVE s[T] = Total(f, T) OBVIOUS
    <2>1. T # {} BY FS_EmptySet
    <2>2. first(T) \in T /\ Total(f, T) = f[first(T)] + Total(f, T \ {first(T)}) BY <1>2, <2>1
    <2>3. s[T] = f[first(T)] + s[T \ {first(T)}] BY <1>4, <2>1 DEF Summing
    <2> HIDE DEF first
    <2>4. Cardinality(T \ {first(T)}) = k - 1 BY <1>1, <2>2, FS_RemoveElement
    <2>5. T \ {first(T)} \in SUBSET S OBVIOUS
    <2>6. s[T \ {first(T)}] = Total(f, T \ {first(T)}) BY <1>7, <2>4, <2>5
    <2> QED BY <2>2, <2>3, <2>6
  <1> HIDE DEF Good
  <1>8. n \in Good
    <2>1. \A k \in 0 .. n : k \in Good BY <1>5, <1>6, <1>7, UpToIsIn
    <2> QED BY <1>5, <2>1
  <1>9. s[S] = Total(f, S) BY <1>8 DEF Good
  <1> QED BY <1>9 DEF s

-----------------------------------------------------------------------------
(* Bags.                                                                     *)

\* A bag of finitely many members.
IsBag(B) ==
    /\ IsFiniteSet(DOMAIN B) /\ B = [x \in DOMAIN B |-> B[x]]
    /\ \A x \in DOMAIN B : B[x] \in Nat /\ B[x] > 0

\* How often f names e.
Named(f, B, e) == [d \in DOMAIN B |-> IF f[d] = e THEN B[d] ELSE 0]

\* A bag whose members get the names f says.
Renamed(f, B) == [e \in {f[d] : d \in DOMAIN B} |-> Total(Named(f, B, e), DOMAIN B)]

\* The members with one name are numbers of copies, and there are finitely many.
LEMMA NamedFacts ==
    ASSUME NEW B, IsBag(B), NEW f, NEW e, NEW T \in SUBSET DOMAIN B
    PROVE  Weighs(Named(f, B, e), T)
  <1>1. IsFiniteSet(T) BY FS_Subset DEF IsBag
  <1>2. \A x \in T : Named(f, B, e)[x] \in Nat BY DEF Named, IsBag
  <1> QED BY <1>1, <1>2 DEF Weighs

\* A bag under other names is a bag; its members are the names.
LEMMA RenamedIsBag ==
    ASSUME NEW B, IsBag(B), NEW f
    PROVE  IsBag(Renamed(f, B)) /\ DOMAIN Renamed(f, B) = {f[d] : d \in DOMAIN B}
  <1> DEFINE D == {f[d] : d \in DOMAIN B}
             R == Renamed(f, B)
  <1>1. DOMAIN R = D /\ R = [x \in DOMAIN R |-> R[x]] BY DEF Renamed
  <1>2. IsFiniteSet(D)
    <2> DEFINE g == [d \in DOMAIN B |-> f[d]]
    <2>1. g \in Surjection(DOMAIN B, D) BY DEF Surjection
    <2> HIDE DEF g, D
    <2> QED BY <2>1, FS_Surjection DEF IsBag
  <1>3. ASSUME NEW d \in DOMAIN B PROVE R[f[d]] \in Nat /\ R[f[d]] > 0
    <2> DEFINE c == Named(f, B, f[d])
    <2>1. R[f[d]] = Total(c, DOMAIN B) BY DEF Renamed
    <2>2. c[d] = B[d] /\ B[d] \in Nat /\ B[d] > 0 BY DEF Named, IsBag
    <2>3. Weighs(c, DOMAIN B) BY NamedFacts
    <2> HIDE DEF c
    <2>4. Total(c, DOMAIN B) \in Nat /\ c[d] <= Total(c, DOMAIN B) BY <2>3, PileFacts, TotalHas
    <2> QED BY <2>1, <2>2, <2>4
  <1> QED BY <1>1, <1>2, <1>3 DEF IsBag

\* A product of a sum.
LEMMA Distributes == \A a, b, c \in Nat : (a + b) * c = a * c + b * c /\ a * c \in Nat
OBVIOUS

\* Nothing sums up to nothing.
LEMMA TotalOfNone ==
    ASSUME NEW T, NEW f, \A x \in T : f[x] = 0
    PROVE  Total(f, T) = 0
  <1>1. Pile(f, T) = {} BY DEF Pile
  <1> QED BY <1>1, FS_EmptySet DEF Total

(***************************************************************************)
(* A sum over the members of a bag stays what it is when they get other    *)
(* names.                                                                  *)
(***************************************************************************)
LEMMA TotalRenamed ==
    ASSUME NEW B, IsBag(B), NEW f, NEW h, \A d \in DOMAIN B : h[f[d]] \in Nat
    PROVE  Total([q \in DOMAIN Renamed(f, B) |-> Renamed(f, B)[q] * h[q]], DOMAIN Renamed(f, B))
             = Total([d \in DOMAIN B |-> B[d] * h[f[d]]], DOMAIN B)
  <1> DEFINE R == Renamed(f, B)
             D == {f[d] : d \in DOMAIN B}
             part(U) == [q \in D |-> Total(Named(f, B, q), U) * h[q]]
             w == [d \in DOMAIN B |-> B[d] * h[f[d]]]
             Good == {U \in SUBSET DOMAIN B : Total(part(U), D) = Total(w, U)}
  <1>1. /\ DOMAIN R = D /\ IsFiniteSet(D) /\ IsFiniteSet(DOMAIN B)
        /\ \A q \in D : R[q] = Total(Named(f, B, q), DOMAIN B)
    BY RenamedIsBag DEF IsBag, Renamed
  <1>2. ASSUME NEW U \in SUBSET DOMAIN B, NEW q \in D
        PROVE  Weighs(Named(f, B, q), U) /\ Total(Named(f, B, q), U) \in Nat
    BY NamedFacts, PileFacts
  <1>3. ASSUME NEW U \in SUBSET DOMAIN B
        PROVE  Weighs(part(U), D) /\ Weighs(w, U)
    <2>1. \A q \in D : h[q] \in Nat OBVIOUS
    <2>2. \A q \in D : part(U)[q] \in Nat BY <1>2, <2>1, Distributes
    <2>3. \A d \in U : w[d] \in Nat BY Distributes DEF IsBag
    <2>4. IsFiniteSet(U) BY <1>1, FS_Subset
    <2> HIDE DEF D, part, w
    <2> QED BY <1>1, <2>2, <2>3, <2>4 DEF Weighs
  <1>4. {} \in Good
    <2>1. \A q \in D : Total(Named(f, B, q), {}) = 0 BY TotalOfNone
    <2>2. \A q \in D : h[q] \in Nat OBVIOUS
    <2>3. \A q \in D : part({})[q] = 0
      <3> SUFFICES ASSUME NEW q \in D PROVE part({})[q] = 0 OBVIOUS
      <3>1. part({})[q] = 0 * h[q] BY <2>1
      <3> QED BY <2>2, <3>1
    <2> HIDE DEF D, part, w
    <2>4. Total(part({}), D) = 0 /\ Total(w, {}) = 0 BY <2>3, TotalOfNone
    <2> QED BY <2>4
  <1>5. ASSUME NEW U \in SUBSET DOMAIN B, NEW x \in DOMAIN B, U \in Good, x \notin U
        PROVE  U \cup {x} \in Good
    <2> DEFINE V == U \cup {x}
               q == f[x]
    <2>0. ASSUME NEW c, c[x] \in Nat, Weighs(c, U) PROVE Total(c, V) = Total(c, U) + c[x]
      <3>1. x \notin U BY <1>5
      <3> QED BY <2>0, <3>1, TotalAdd
    <2>1. q \in D /\ V \in SUBSET DOMAIN B /\ B[x] \in Nat /\ h[q] \in Nat BY DEF IsBag
    <2>2. ASSUME NEW e \in D, e # q PROVE part(V)[e] = part(U)[e]
      <3>1. Named(f, B, e)[x] = 0 BY <2>2 DEF Named
      <3>2. Weighs(Named(f, B, e), U) /\ Total(Named(f, B, e), U) \in Nat BY <1>2
      <3> DEFINE c == Named(f, B, e)
      <3>3. c[x] \in Nat BY <3>1
      <3> HIDE DEF c, V
      <3>4. Total(c, V) = Total(c, U) + c[x] BY <2>0, <3>2, <3>3 DEF c
      <3>5. Total(Named(f, B, e), V) = Total(Named(f, B, e), U) BY <3>1, <3>2, <3>4 DEF c
      <3> QED BY <3>5
    <2>3. part(V)[q] = part(U)[q] + B[x] * h[q]
      <3>1. Named(f, B, q)[x] = B[x] BY DEF Named
      <3>2. Weighs(Named(f, B, q), U) /\ Total(Named(f, B, q), U) \in Nat BY <1>2, <2>1
      <3> DEFINE c == Named(f, B, q)
      <3>5. c[x] \in Nat BY <2>1, <3>1
      <3> HIDE DEF c, V, q
      <3>6. Total(c, V) = Total(c, U) + c[x] BY <2>0, <3>2, <3>5 DEF c
      <3>3. Total(Named(f, B, q), V) = Total(Named(f, B, q), U) + B[x] BY <3>1, <3>6 DEF c
      <3>4. part(V)[q] = (Total(Named(f, B, q), U) + B[x]) * h[q]
            /\ part(U)[q] = Total(Named(f, B, q), U) * h[q]
        BY <2>1, <3>3
      <3> QED BY <2>1, <3>2, <3>4, Distributes
    <2>4. Weighs(part(U), D) /\ Weighs(part(V), D) /\ Weighs(w, U) BY <1>3, <2>1
    <2>5. w[x] = B[x] * h[q] /\ B[x] * h[q] \in Nat BY <2>1, Distributes
    <2>6. part(U)[q] \in Nat /\ part(V)[q] \in Nat BY <2>1, <2>4 DEF Weighs
    <2>7. Total(part(U), D) = Total(w, U) BY <1>5
    <2> HIDE DEF D, part, w, q
    <2>8. Total(part(V), D) = Total(part(U), D) + (part(V)[q] - part(U)[q])
      <3> DEFINE old == part(U)
                 new == part(V)
      <3>1. Weighs(old, D) /\ q \in D /\ new[q] \in Nat BY <2>1, <2>4, <2>6
      <3>2. \A e \in D : e # q => new[e] = old[e] BY <2>2
      <3> HIDE DEF old, new
      <3>3. Total(new, D) = Total(old, D) + (new[q] - old[q]) BY <3>1, <3>2, TotalMore
      <3> QED BY <3>3 DEF old, new
    <2>9. Total(w, V) = Total(w, U) + w[x]
      <3>1. w[x] \in Nat BY <2>5
      <3> HIDE DEF V
      <3> QED BY <2>0, <2>4, <3>1
    <2>10. Total(w, U) \in Nat BY <2>4, PileFacts
    <2>11. Total(part(V), D) = Total(w, V)
      <3>1. part(V)[q] - part(U)[q] = w[x] BY <2>3, <2>5, <2>6
      <3> QED BY <2>7, <2>8, <2>9, <3>1
    <2> QED BY <2>1, <2>11
  <1>6. DOMAIN B \in Good
    <2> HIDE DEF Good
    <2> QED BY <1>1, <1>4, <1>5, FiniteSetGrows
  <1>7. Total(part(DOMAIN B), D) = Total(w, DOMAIN B) BY <1>6
  <1>8. part(DOMAIN B) = [q \in DOMAIN R |-> R[q] * h[q]] BY <1>1
  <1> HIDE DEF part, w
  <1>9. Total([q \in DOMAIN R |-> R[q] * h[q]], DOMAIN R) = Total(w, DOMAIN B) BY <1>1, <1>7, <1>8
  <1> QED BY <1>9 DEF w

-----------------------------------------------------------------------------
(* What the backup says and finds.                                           *)

\* Rows under their numbers.
Numbered(B) == Renamed([d \in DOMAIN B |-> d[2]], B)

\* The rows of a revision that numbers stand for, if they are among ids.
Restored(ids, rev, B) ==
    Renamed([n \in DOMAIN B \cap ids |-> <<rev, n>>], [n \in DOMAIN B \cap ids |-> B[n]])

\* The same for projects, which are bags of such bags.
NumberedAll(P) == Renamed([p \in DOMAIN P |-> Numbered(p)], P)
RestoredAll(ids, rev, P) == Renamed([p \in DOMAIN P |-> Restored(ids, rev, p)], P)

\* A bag of bags.
IsNest(P) == IsBag(P) /\ \A p \in DOMAIN P : IsBag(p)

\* The export of a table of rows.
LEMMA NumberBagIs ==
    ASSUME NEW B, IsBag(B)
    PROVE  NumberBag(B) = Numbered(B)
  <1> DEFINE f == [d \in DOMAIN B |-> d[2]]
  <1>1. ASSUME NEW e \in {Number(d) : d \in DOMAIN B}
        PROVE  NumberBag(B)[e] = Total(Named(f, B, e), DOMAIN B)
    <2> DEFINE c == [d \in DOMAIN B |-> IF Number(d) = e THEN B[d] ELSE 0]
    <2>1. NumberBag(B)[e] = (CHOOSE s : s = Summing(c, DOMAIN c, s))[DOMAIN c]
      BY DEF NumberBag, BagOfAll, BagToSet, Summing
    <2>2. c = Named(f, B, e) /\ DOMAIN c = DOMAIN B BY DEF Named, Number
    <2>3. Weighs(c, DOMAIN c)
      <3> HIDE DEF c
      <3> QED BY <2>2, NamedFacts
    <2> HIDE DEF c
    <2>4. (CHOOSE s : s = Summing(c, DOMAIN c, s))[DOMAIN c] = Total(c, DOMAIN c)
      BY <2>3, SummingIsTotal
    <2> QED BY <2>1, <2>2, <2>4
  <1>2. NumberBag(B) = [e \in {Number(d) : d \in DOMAIN B} |-> NumberBag(B)[e]]
    BY DEF NumberBag, BagOfAll, BagToSet
  <1>3. {Number(d) : d \in DOMAIN B} = {f[d] : d \in DOMAIN B} BY DEF Number
  <1> QED BY <1>1, <1>2, <1>3 DEF Numbered, Renamed

\* Rows under their numbers are a bag.
LEMMA NumberedIsBag == ASSUME NEW B, IsBag(B) PROVE IsBag(Numbered(B))
BY RenamedIsBag DEF Numbered

\* A part of a bag is a bag.
LEMMA PartIsBag ==
    ASSUME NEW B, IsBag(B), NEW T \in SUBSET DOMAIN B
    PROVE  IsBag([x \in T |-> B[x]])
  <1>1. IsFiniteSet(T) BY FS_Subset DEF IsBag
  <1> QED BY <1>1 DEF IsBag

\* What is restored: a bag, with every number that is among ids as often as before.
LEMMA RestoredFacts ==
    ASSUME NEW B, IsBag(B), NEW ids, NEW rev
    PROVE  /\ IsBag(Restored(ids, rev, B))
           /\ DOMAIN Restored(ids, rev, B) = {<<rev, n>> : n \in DOMAIN B \cap ids}
           /\ \A n \in DOMAIN B \cap ids : Restored(ids, rev, B)[<<rev, n>>] >= B[n]
  <1> DEFINE found == DOMAIN B \cap ids
             part == [n \in found |-> B[n]]
             f == [n \in found |-> <<rev, n>>]
  <1>1. IsBag(part) /\ DOMAIN part = found BY PartIsBag
  <1>2. Restored(ids, rev, B) = Renamed(f, part) BY DEF Restored
  <1>3. {f[n] : n \in found} = {<<rev, n>> : n \in found} OBVIOUS
  <1>4. ASSUME NEW n \in found PROVE Renamed(f, part)[<<rev, n>>] >= B[n]
    <2> DEFINE e == <<rev, n>>
               c == Named(f, part, e)
    <2>1. e \in {f[d] : d \in DOMAIN part} /\ f[n] = e /\ part[n] = B[n] BY <1>1
    <2>2. Weighs(c, DOMAIN part) BY <1>1, NamedFacts
    <2>3. c[n] = B[n] /\ n \in DOMAIN part BY <1>1, <2>1 DEF Named
    <2>4. Renamed(f, part)[e] = Total(c, DOMAIN part) BY <2>1 DEF Renamed
    <2> HIDE DEF c, e, f, part
    <2>5. c[n] <= Total(c, DOMAIN part) /\ Total(c, DOMAIN part) \in Nat
      BY <2>2, <2>3, TotalHas, PileFacts
    <2>6. B[n] \in Nat BY <1>4 DEF IsBag
    <2>7. B[n] <= Total(c, DOMAIN part) BY <2>3, <2>5
    <2>8. Renamed(f, part)[e] >= B[n] BY <2>4, <2>5, <2>6, <2>7
    <2> QED BY <2>8 DEF e
  <1> HIDE DEF f, part
  <1>5. IsBag(Renamed(f, part)) /\ DOMAIN Renamed(f, part) = {f[n] : n \in found}
    <2>1. /\ IsBag(Renamed(f, part))
          /\ DOMAIN Renamed(f, part) = {f[n] : n \in DOMAIN part}
      BY <1>1, RenamedIsBag
    <2> QED BY <1>1, <2>1
  <1> QED BY <1>2, <1>3, <1>4, <1>5

\* What the import finds of a table.
LEMMA FoundIs ==
    ASSUME NEW B, IsBag(B)
    PROVE  Found(B) = Restored(imp.ids, imp.rev, B)
  <1> DEFINE found == DOMAIN B \cap imp.ids
             part == [n \in found |-> B[n]]
             f == [n \in found |-> <<imp.rev, n>>]
             F == BagOfAll(Row, part)
  <1>1. IsBag(part) /\ DOMAIN part = found BY PartIsBag
  <1>2. Found(B) = F
    <2>1. found = {n \in BagToSet(B) : n \in imp.ids} BY DEF BagToSet
    <2> QED BY <2>1 DEF Found
  <1>3. ASSUME NEW e \in {Row(n) : n \in found}
        PROVE  F[e] = Total(Named(f, part, e), found)
    <2> DEFINE c == [d \in DOMAIN part |-> IF Row(d) = e THEN part[d] ELSE 0]
    <2>1. F[e] = (CHOOSE s : s = Summing(c, DOMAIN c, s))[DOMAIN c]
      BY DEF BagOfAll, BagToSet, Summing
    <2>2. c = Named(f, part, e) /\ DOMAIN c = found BY DEF Named, Row
    <2>3. Weighs(c, DOMAIN c)
      <3> HIDE DEF c, part, f
      <3> QED BY <1>1, <2>2, NamedFacts
    <2> HIDE DEF c
    <2>4. (CHOOSE s : s = Summing(c, DOMAIN c, s))[DOMAIN c] = Total(c, DOMAIN c)
      BY <2>3, SummingIsTotal
    <2> HIDE DEF F, f, part
    <2> QED BY <2>1, <2>2, <2>4
  <1>4. F = [e \in {Row(n) : n \in found} |-> F[e]] BY DEF BagOfAll, BagToSet
  <1>5. {Row(n) : n \in found} = {f[n] : n \in found} BY DEF Row
  <1> HIDE DEF F
  <1>6. F = Renamed(f, part) BY <1>1, <1>3, <1>4, <1>5 DEF Renamed
  <1> QED BY <1>2, <1>6 DEF Restored

\* The export of the projects.
LEMMA AllNumberedIs ==
    ASSUME NEW P, IsNest(P)
    PROVE  BagOfAll(NumberBag, P) = NumberedAll(P) /\ IsNest(NumberedAll(P))
  <1> DEFINE f == [p \in DOMAIN P |-> Numbered(p)]
             F == BagOfAll(NumberBag, P)
  <1>1. ASSUME NEW e \in {NumberBag(p) : p \in DOMAIN P}
        PROVE  F[e] = Total(Named(f, P, e), DOMAIN P)
    <2> DEFINE c == [p \in DOMAIN P |-> IF NumberBag(p) = e THEN P[p] ELSE 0]
    <2>1. F[e] = (CHOOSE s : s = Summing(c, DOMAIN c, s))[DOMAIN c]
      BY DEF BagOfAll, BagToSet, Summing
    <2>2. c = Named(f, P, e) /\ DOMAIN c = DOMAIN P BY NumberBagIs DEF Named, IsNest
    <2>3. Weighs(c, DOMAIN c)
      <3> HIDE DEF c
      <3> QED BY <2>2, NamedFacts DEF IsNest
    <2> HIDE DEF c
    <2>4. (CHOOSE s : s = Summing(c, DOMAIN c, s))[DOMAIN c] = Total(c, DOMAIN c)
      BY <2>3, SummingIsTotal
    <2> HIDE DEF F
    <2> QED BY <2>1, <2>2, <2>4
  <1>2. F = [e \in {NumberBag(p) : p \in DOMAIN P} |-> F[e]] BY DEF BagOfAll, BagToSet
  <1> HIDE DEF F
  <1>3. {NumberBag(p) : p \in DOMAIN P} = {f[p] : p \in DOMAIN P} BY NumberBagIs DEF IsNest
  <1>4. F = NumberedAll(P) BY <1>1, <1>2, <1>3 DEF NumberedAll, Renamed
  <1>5. IsBag(NumberedAll(P)) /\ DOMAIN NumberedAll(P) = {f[p] : p \in DOMAIN P}
    BY RenamedIsBag DEF NumberedAll, IsNest
  <1>6. \A p \in DOMAIN P : IsBag(f[p]) BY NumberedIsBag DEF IsNest
  <1>7. IsNest(NumberedAll(P)) BY <1>5, <1>6 DEF IsNest
  <1> QED BY <1>4, <1>7 DEF F

\* What the import finds of the projects.
LEMMA AllFoundIs ==
    ASSUME NEW P, IsNest(P)
    PROVE  BagOfAll(Found, P) = RestoredAll(imp.ids, imp.rev, P)
  <1> DEFINE f == [p \in DOMAIN P |-> Restored(imp.ids, imp.rev, p)]
             F == BagOfAll(Found, P)
  <1>1. ASSUME NEW e \in {Found(p) : p \in DOMAIN P}
        PROVE  F[e] = Total(Named(f, P, e), DOMAIN P)
    <2> DEFINE c == [p \in DOMAIN P |-> IF Found(p) = e THEN P[p] ELSE 0]
    <2>1. F[e] = (CHOOSE s : s = Summing(c, DOMAIN c, s))[DOMAIN c]
      BY DEF BagOfAll, BagToSet, Summing
    <2>2. c = Named(f, P, e) /\ DOMAIN c = DOMAIN P BY FoundIs DEF Named, IsNest
    <2>3. Weighs(c, DOMAIN c)
      <3> HIDE DEF c
      <3> QED BY <2>2, NamedFacts DEF IsNest
    <2> HIDE DEF c
    <2>4. (CHOOSE s : s = Summing(c, DOMAIN c, s))[DOMAIN c] = Total(c, DOMAIN c)
      BY <2>3, SummingIsTotal
    <2> HIDE DEF F
    <2> QED BY <2>1, <2>2, <2>4
  <1>2. F = [e \in {Found(p) : p \in DOMAIN P} |-> F[e]] BY DEF BagOfAll, BagToSet
  <1> HIDE DEF F
  <1>3. {Found(p) : p \in DOMAIN P} = {f[p] : p \in DOMAIN P} BY FoundIs DEF IsNest
  <1>4. F = RestoredAll(imp.ids, imp.rev, P) BY <1>1, <1>2, <1>3 DEF RestoredAll, Renamed
  <1> QED BY <1>4 DEF F

\* Restored projects are bags of rows again.
LEMMA RestoredAllIsNest ==
    ASSUME NEW P, IsNest(P), NEW ids, NEW rev
    PROVE  IsNest(RestoredAll(ids, rev, P))
  <1> DEFINE f == [p \in DOMAIN P |-> Restored(ids, rev, p)]
  <1>1. IsBag(RestoredAll(ids, rev, P)) /\ DOMAIN RestoredAll(ids, rev, P) = {f[p] : p \in DOMAIN P}
    BY RenamedIsBag DEF RestoredAll, IsNest
  <1>2. \A p \in DOMAIN P : IsBag(f[p]) BY RestoredFacts DEF IsNest
  <1> QED BY <1>1, <1>2 DEF IsNest

-----------------------------------------------------------------------------
(* What was there comes back.                                                *)

\* How many rows of article n, whatever the revision.
HadOf(n, B) == Total([v \in Revisions |-> Copies(<<v, n>>, B)], Revisions)

\* How often a member is in a bag.
LEMMA CopiesFacts ==
    ASSUME NEW B, IsBag(B), NEW e
    PROVE  /\ Copies(e, B) \in Nat
           /\ e \in DOMAIN B => Copies(e, B) = B[e]
           /\ e \notin DOMAIN B => Copies(e, B) = 0
BY DEF Copies, BagIn, BagToSet, IsBag

\* The sum over the revisions, as the property writes it.
LEMMA HadFacts ==
    ASSUME NEW B, IsBag(B), NEW n
    PROVE  /\ Weighs([v \in Revisions |-> Copies(<<v, n>>, B)], Revisions)
           /\ HadOf(n, B) \in Nat
           /\ MapThenSumSet(LAMBDA v : Copies(<<v, n>>, B), Revisions) = HadOf(n, B)
  <1> DEFINE h == [v \in Revisions |-> Copies(<<v, n>>, B)]
  <1>1. IsFiniteSet(Revisions) BY FS_Interval, BackupAssumption DEF Revisions
  <1>2. \A v \in Revisions : h[v] \in Nat BY CopiesFacts
  <1>3. Weighs(h, Revisions)
    <2> HIDE DEF h
    <2> QED BY <1>1, <1>2 DEF Weighs
  <1>4. MapThenSumSet(LAMBDA v : Copies(<<v, n>>, B), Revisions)
          = (CHOOSE s : s = Summing(h, Revisions, s))[Revisions]
    <2> DEFINE Code(s) == [T \in SUBSET Revisions |->
                  IF T = {} THEN 0
                  ELSE Copies(<<CHOOSE x \in T : TRUE, n>>, B) + s[T \ {CHOOSE x \in T : TRUE}]]
    <2>1. MapThenSumSet(LAMBDA v : Copies(<<v, n>>, B), Revisions)
            = (CHOOSE s : s = Code(s))[Revisions]
      BY DEF MapThenSumSet, MapThenFoldSet
    <2>2. ASSUME NEW s PROVE Code(s) = Summing(h, Revisions, s)
      <3>1. \A T \in SUBSET Revisions : T # {} => (CHOOSE x \in T : TRUE) \in Revisions OBVIOUS
      <3>2. \A T \in SUBSET Revisions : T # {} =>
               h[CHOOSE x \in T : TRUE] = Copies(<<CHOOSE x \in T : TRUE, n>>, B)
        BY <3>1
      <3> HIDE DEF h
      <3> QED BY <3>2 DEF Summing
    <2>3. \A s : (s = Code(s)) <=> (s = Summing(h, Revisions, s)) BY <2>2
    <2> HIDE DEF Code, h
    <2>4. (CHOOSE s : s = Code(s)) = (CHOOSE s : s = Summing(h, Revisions, s)) BY <2>3
    <2> QED BY <2>1, <2>4
  <1> HIDE DEF h
  <1>5. Total(h, Revisions) \in Nat
        /\ (CHOOSE s : s = Summing(h, Revisions, s))[Revisions] = Total(h, Revisions)
    BY <1>3, PileFacts, SummingIsTotal
  <1> QED BY <1>3, <1>4, <1>5 DEF h, HadOf

\* The file counts every row of an article under its number.
LEMMA FileCounts ==
    ASSUME NEW B, IsBag(B), NEW n
    PROVE  HadOf(n, B) <= Copies(n, Numbered(B))
  <1> DEFINE h == [v \in Revisions |-> Copies(<<v, n>>, B)]
             f == [d \in DOMAIN B |-> d[2]]
             c == Named(f, B, n)
             N == Numbered(B)
  <1>1. IsBag(N) /\ DOMAIN N = {f[d] : d \in DOMAIN B} BY RenamedIsBag DEF Numbered
  <1>2. CASE n \in DOMAIN N
    <2>1. Copies(n, N) = Total(c, DOMAIN B)
      <3>1. N[n] = Total(c, DOMAIN B) BY <1>1, <1>2 DEF Numbered, Renamed
      <3> HIDE DEF N, c
      <3> QED BY <1>1, <1>2, <3>1, CopiesFacts
    <2>2. Weighs(c, DOMAIN B) BY NamedFacts
    <2> DEFINE i == [p \in Pile(h, Revisions) |-> <<<<p[1], n>>, p[2]>>]
    <2>3. ASSUME NEW p \in Pile(h, Revisions)
          PROVE  i[p] \in Pile(c, DOMAIN B)
      <3>1. p[1] \in Revisions /\ p[2] \in Nat \ {0} /\ p[2] <= Copies(<<p[1], n>>, B) BY DEF Pile
      <3>2. <<p[1], n>> \in DOMAIN B /\ Copies(<<p[1], n>>, B) = B[<<p[1], n>>]
        <4>1. Copies(<<p[1], n>>, B) # 0 BY <3>1
        <4> QED BY <4>1, CopiesFacts
      <3>3. c[<<p[1], n>>] = B[<<p[1], n>>] BY <3>2 DEF Named
      <3> HIDE DEF c
      <3> QED BY <3>1, <3>2, <3>3 DEF Pile
    <2>4. \A p, q \in Pile(h, Revisions) : i[p] = i[q] => p = q
      <3> SUFFICES ASSUME NEW p \in Pile(h, Revisions), NEW q \in Pile(h, Revisions), i[p] = i[q]
                   PROVE  p = q
        OBVIOUS
      <3>1. p = <<p[1], p[2]>> /\ q = <<q[1], q[2]>> BY DEF Pile
      <3>2. p[1] = q[1] /\ p[2] = q[2] OBVIOUS
      <3> QED BY <3>1, <3>2
    <2>5. DOMAIN i = Pile(h, Revisions) OBVIOUS
    <2>6. i \in [Pile(h, Revisions) -> Pile(c, DOMAIN B)] BY <2>3
    <2> HIDE DEF i, c, h
    <2>7. i \in Injection(Pile(h, Revisions), Pile(c, DOMAIN B))
      BY <2>4, <2>5, <2>6 DEF Injection, IsInjective
    <2>8. IsFiniteSet(Pile(c, DOMAIN B)) BY <2>2, PileFacts
    <2>9. Cardinality(Pile(h, Revisions)) <= Cardinality(Pile(c, DOMAIN B))
      BY <2>7, <2>8, FS_Injection
    <2> QED BY <2>1, <2>9 DEF Total, HadOf, h
  <1>3. CASE n \notin DOMAIN N
    <2>1. ASSUME NEW v \in Revisions PROVE h[v] = 0
      <3>1. <<v, n>> \notin DOMAIN B
        <4> SUFFICES ASSUME <<v, n>> \in DOMAIN B PROVE FALSE OBVIOUS
        <4>1. f[<<v, n>>] = n OBVIOUS
        <4> QED BY <1>1, <1>3, <4>1
      <3> QED BY <3>1, CopiesFacts
    <2> HIDE DEF h
    <2>2. Total(h, Revisions) = 0 BY <2>1, TotalOfNone
    <2> HIDE DEF N
    <2>3. Copies(n, N) \in Nat BY <1>1, CopiesFacts
    <2> QED BY <2>2, <2>3 DEF HadOf, h, N
  <1> QED BY <1>2, <1>3

\* A table comes back: for every article that is public, at least as many rows of the
\* revision as there were of all revisions.
LEMMA TableComesBack ==
    ASSUME NEW B, IsBag(B), NEW ids, NEW rev, NEW n \in ids
    PROVE  HadOf(n, B) <= Copies(<<rev, n>>, Restored(ids, rev, Numbered(B)))
  <1> DEFINE N == Numbered(B)
             R == Restored(ids, rev, N)
  <1>1. IsBag(N) BY NumberedIsBag
  <1> HIDE DEF N
  <1>2. IsBag(R) BY <1>1, RestoredFacts
  <1>3. Copies(n, N) <= Copies(<<rev, n>>, R)
    <2>1. CASE n \in DOMAIN N
      <3>1. <<rev, n>> \in DOMAIN R /\ R[<<rev, n>>] >= N[n]
        BY ZenonT(40), <1>1, <2>1, RestoredFacts
      <3>2. N[n] \in Nat /\ R[<<rev, n>>] \in Nat BY <1>1, <1>2, <2>1, <3>1 DEF IsBag
      <3> HIDE DEF R
      <3>3. Copies(n, N) = N[n] /\ Copies(<<rev, n>>, R) = R[<<rev, n>>]
        BY <1>1, <1>2, <2>1, <3>1, CopiesFacts
      <3> QED BY <3>1, <3>2, <3>3
    <2>2. CASE n \notin DOMAIN N
      <3> HIDE DEF R
      <3>1. Copies(n, N) = 0 /\ Copies(<<rev, n>>, R) \in Nat BY <1>1, <1>2, <2>2, CopiesFacts
      <3> QED BY <3>1
    <2> QED BY <2>1, <2>2
  <1>4. HadOf(n, B) <= Copies(n, N) BY FileCounts DEF N
  <1>5. HadOf(n, B) \in Nat BY HadFacts
  <1> HIDE DEF R
  <1>6. Copies(n, N) \in Nat /\ Copies(<<rev, n>>, R) \in Nat BY <1>1, <1>2, CopiesFacts
  <1>7. HadOf(n, B) <= Copies(<<rev, n>>, R) BY <1>3, <1>4, <1>5, <1>6
  <1> QED BY <1>7 DEF R, N

\* How many items a bag of projects has on one row, and on an article.
ItemsOn(e, P) == Total([p \in DOMAIN P |-> P[p] * Copies(e, p)], DOMAIN P)
ItemsHad(n, P) == Total([p \in DOMAIN P |-> P[p] * HadOf(n, p)], DOMAIN P)

\* Products of numbers, and how they grow.
LEMMA Products ==
    /\ \A a, b \in Nat : a * b \in Nat
    /\ \A a, b, c \in Nat : b <= c => a * b <= a * c
    /\ \A a, b, c, d \in Nat : a <= b /\ c <= d => a * c <= b * d
  <1>1. \A a, b \in Nat : a * b \in Nat OBVIOUS
  <1>2. ASSUME NEW a \in Nat, NEW b \in Nat, NEW c \in Nat, b <= c PROVE a * b <= a * c
    <2> DEFINE k == c - b
    <2>1. k \in Nat /\ c = b + k BY <1>2
    <2> HIDE DEF k
    <2>2. a * (b + k) = a * b + a * k /\ a * k \in Nat /\ a * b \in Nat BY <2>1
    <2> QED BY <2>1, <2>2
  <1>3. ASSUME NEW a \in Nat, NEW b \in Nat, NEW c \in Nat, NEW d \in Nat, a <= b, c <= d
        PROVE  a * c <= b * d
    <2>1. a * c <= a * d BY <1>2, <1>3
    <2>2. d * a <= d * b BY <1>2, <1>3
    <2>3. d * a = a * d /\ d * b = b * d OBVIOUS
    <2>4. a * c \in Nat /\ a * d \in Nat /\ b * d \in Nat BY <1>1
    <2> QED BY <2>1, <2>2, <2>3, <2>4
  <1> QED BY <1>1, <1>2, <1>3

\* The sums of the property.
LEMMA ItemsOnIs ==
    ASSUME NEW P, IsNest(P), NEW e
    PROVE  /\ Weighs([p \in DOMAIN P |-> P[p] * Copies(e, p)], DOMAIN P)
           /\ ItemsOn(e, P) \in Nat
           /\ MapThenSumSet(LAMBDA p : P[p] * Copies(e, p), BagToSet(P)) = ItemsOn(e, P)
  <1> DEFINE S == DOMAIN P
             h == [p \in S |-> P[p] * Copies(e, p)]
  <1>1. IsFiniteSet(S) /\ \A p \in S : P[p] \in Nat /\ Copies(e, p) \in Nat
    BY CopiesFacts DEF IsNest, IsBag
  <1>2. \A p \in S : h[p] \in Nat BY <1>1, Products
  <1>3. Weighs(h, S)
    <2> HIDE DEF h, S
    <2> QED BY <1>1, <1>2 DEF Weighs
  <1>4. MapThenSumSet(LAMBDA p : P[p] * Copies(e, p), BagToSet(P))
          = (CHOOSE s : s = Summing(h, S, s))[S]
    <2> DEFINE first(T) == CHOOSE x \in T : TRUE
               Code(s) == [T \in SUBSET S |->
                  IF T = {} THEN 0
                  ELSE P[first(T)] * Copies(e, first(T)) + s[T \ {first(T)}]]
    <2>1. MapThenSumSet(LAMBDA p : P[p] * Copies(e, p), BagToSet(P)) = (CHOOSE s : s = Code(s))[S]
      BY DEF MapThenSumSet, MapThenFoldSet, BagToSet
    <2>2. ASSUME NEW s PROVE Code(s) = Summing(h, S, s)
      <3>1. \A T \in SUBSET S : T # {} => first(T) \in S OBVIOUS
      <3>2. \A T \in SUBSET S : T # {} => h[first(T)] = P[first(T)] * Copies(e, first(T))
        <4> HIDE DEF first
        <4> QED BY <3>1
      <3> HIDE DEF h
      <3> QED BY <3>2 DEF Summing
    <2>3. \A s : (s = Code(s)) <=> (s = Summing(h, S, s)) BY <2>2
    <2> HIDE DEF Code, h, S
    <2>4. (CHOOSE s : s = Code(s)) = (CHOOSE s : s = Summing(h, S, s)) BY <2>3
    <2> QED BY <2>1, <2>4
  <1> HIDE DEF h, S
  <1>5. Total(h, S) \in Nat /\ (CHOOSE s : s = Summing(h, S, s))[S] = Total(h, S)
    BY <1>3, PileFacts, SummingIsTotal
  <1> QED BY <1>3, <1>4, <1>5 DEF h, S, ItemsOn

\* The same for the items an article had.
LEMMA ItemsHadIs ==
    ASSUME NEW P, IsNest(P), NEW n
    PROVE  /\ Weighs([p \in DOMAIN P |-> P[p] * HadOf(n, p)], DOMAIN P)
           /\ ItemsHad(n, P) \in Nat
           /\ MapThenSumSet(LAMBDA p : P[p] * MapThenSumSet(LAMBDA v : Copies(<<v, n>>, p),
                                                             Revisions),
                            BagToSet(P)) = ItemsHad(n, P)
  <1> DEFINE S == DOMAIN P
             h == [p \in S |-> P[p] * HadOf(n, p)]
             had(p) == MapThenSumSet(LAMBDA v : Copies(<<v, n>>, p), Revisions)
  <1>1. IsFiniteSet(S) /\ \A p \in S : P[p] \in Nat /\ HadOf(n, p) \in Nat /\ had(p) = HadOf(n, p)
    BY HadFacts DEF IsNest, IsBag
  <1>2. \A p \in S : h[p] \in Nat BY <1>1, Products
  <1>3. Weighs(h, S)
    <2> HIDE DEF h, S
    <2> QED BY <1>1, <1>2 DEF Weighs
  <1> HIDE DEF had
  <1>4. MapThenSumSet(LAMBDA p : P[p] * had(p), BagToSet(P)) = (CHOOSE s : s = Summing(h, S, s))[S]
    <2> DEFINE first(T) == CHOOSE x \in T : TRUE
               Code(s) == [T \in SUBSET S |->
                  IF T = {} THEN 0 ELSE P[first(T)] * had(first(T)) + s[T \ {first(T)}]]
    <2>1. MapThenSumSet(LAMBDA p : P[p] * had(p), BagToSet(P)) = (CHOOSE s : s = Code(s))[S]
      BY DEF MapThenSumSet, MapThenFoldSet, BagToSet
    <2>2. ASSUME NEW s PROVE Code(s) = Summing(h, S, s)
      <3>1. \A T \in SUBSET S : T # {} => first(T) \in S OBVIOUS
      <3>2. \A T \in SUBSET S : T # {} => h[first(T)] = P[first(T)] * had(first(T))
        <4> HIDE DEF first
        <4> QED BY <1>1, <3>1
      <3> HIDE DEF h
      <3> QED BY <3>2 DEF Summing
    <2>3. \A s : (s = Code(s)) <=> (s = Summing(h, S, s)) BY <2>2
    <2> HIDE DEF Code, h, S
    <2>4. (CHOOSE s : s = Code(s)) = (CHOOSE s : s = Summing(h, S, s)) BY <2>3
    <2> QED BY <2>1, <2>4
  <1> HIDE DEF h, S
  <1>5. Total(h, S) \in Nat /\ (CHOOSE s : s = Summing(h, S, s))[S] = Total(h, S)
    BY <1>3, PileFacts, SummingIsTotal
  <1> QED BY <1>3, <1>4, <1>5 DEF h, S, had, ItemsHad

(***************************************************************************)
(* The projects come back: for every article that is public, at least as   *)
(* many items on the row of the revision as there were on all its rows.    *)
(***************************************************************************)
LEMMA ProjectsComeBack ==
    ASSUME NEW P, IsNest(P), NEW ids, NEW rev, NEW n \in ids
    PROVE  ItemsHad(n, P) <= ItemsOn(<<rev, n>>, RestoredAll(ids, rev, NumberedAll(P)))
  <1> DEFINE e == <<rev, n>>
             N == NumberedAll(P)
             R == RestoredAll(ids, rev, N)
             f == [p \in DOMAIN P |-> Numbered(p)]
             g == [q \in DOMAIN N |-> Restored(ids, rev, q)]
             h == [r \in DOMAIN R |-> Copies(e, r)]
             k == [q \in DOMAIN N |-> Copies(e, g[q])]
  <1>1. IsNest(N) /\ N = Renamed(f, P) /\ DOMAIN N = {f[p] : p \in DOMAIN P}
    BY AllNumberedIs, RenamedIsBag DEF NumberedAll, IsNest
  <1> HIDE DEF N
  <1>2. IsNest(R) /\ R = Renamed(g, N) /\ DOMAIN R = {g[q] : q \in DOMAIN N}
    <2>1. IsNest(R) BY <1>1, RestoredAllIsNest
    <2>2. R = Renamed(g, N) BY DEF RestoredAll
    <2>3. IsBag(N) BY <1>1 DEF IsNest
    <2> HIDE DEF g, R
    <2>4. DOMAIN Renamed(g, N) = {g[q] : q \in DOMAIN N} BY <2>3, RenamedIsBag
    <2> QED BY <2>1, <2>2, <2>4
  <1> HIDE DEF R
  <1>3. \A q \in DOMAIN N : h[g[q]] = Copies(e, g[q]) /\ h[g[q]] \in Nat
    <2> SUFFICES ASSUME NEW q \in DOMAIN N PROVE h[g[q]] = Copies(e, g[q]) /\ h[g[q]] \in Nat
      OBVIOUS
    <2>1. g[q] \in DOMAIN R BY <1>2
    <2>2. IsBag(g[q]) BY <1>2, <2>1 DEF IsNest
    <2> HIDE DEF g, e
    <2> QED BY <2>1, <2>2, CopiesFacts
  <1>4. \A p \in DOMAIN P : f[p] \in DOMAIN N /\ k[f[p]] = Copies(e, g[f[p]]) /\ k[f[p]] \in Nat
    <2> SUFFICES ASSUME NEW p \in DOMAIN P
                 PROVE  f[p] \in DOMAIN N /\ k[f[p]] = Copies(e, g[f[p]]) /\ k[f[p]] \in Nat
      OBVIOUS
    <2>1. f[p] \in DOMAIN N BY <1>1
    <2> HIDE DEF f, g, h
    <2> QED BY <1>3, <2>1
  <1>5. Total([r \in DOMAIN R |-> R[r] * h[r]], DOMAIN R)
          = Total([q \in DOMAIN N |-> N[q] * h[g[q]]], DOMAIN N)
    <2> HIDE DEF g, h
    <2>1. IsBag(N) /\ \A q \in DOMAIN N : h[g[q]] \in Nat BY <1>1, <1>3 DEF IsNest
    <2> DEFINE Q == Renamed(g, N)
    <2>2. Total([r \in DOMAIN Q |-> Q[r] * h[r]], DOMAIN Q)
            = Total([q \in DOMAIN N |-> N[q] * h[g[q]]], DOMAIN N)
      BY <2>1, TotalRenamed
    <2>3. R = Q BY <1>2
    <2> HIDE DEF Q
    <2> QED BY <2>2, <2>3
  <1>6. Total([q \in DOMAIN N |-> N[q] * k[q]], DOMAIN N)
          = Total([p \in DOMAIN P |-> P[p] * k[f[p]]], DOMAIN P)
    <2> HIDE DEF f, k
    <2>1. IsBag(P) /\ \A p \in DOMAIN P : k[f[p]] \in Nat BY <1>4 DEF IsNest
    <2> DEFINE Q == Renamed(f, P)
    <2>2. Total([q \in DOMAIN Q |-> Q[q] * k[q]], DOMAIN Q)
            = Total([p \in DOMAIN P |-> P[p] * k[f[p]]], DOMAIN P)
      BY <2>1, TotalRenamed
    <2>3. N = Q BY <1>1
    <2> HIDE DEF Q
    <2> QED BY <2>2, <2>3
  <1>7. [q \in DOMAIN N |-> N[q] * h[g[q]]] = [q \in DOMAIN N |-> N[q] * k[q]]
    BY <1>3
  <1>8. [r \in DOMAIN R |-> R[r] * h[r]] = [r \in DOMAIN R |-> R[r] * Copies(e, r)] OBVIOUS
  <1>9. ItemsOn(e, R) = Total([p \in DOMAIN P |-> P[p] * k[f[p]]], DOMAIN P)
    BY <1>5, <1>6, <1>7, <1>8 DEF ItemsOn
  <1>10. ItemsHad(n, P) <= Total([p \in DOMAIN P |-> P[p] * k[f[p]]], DOMAIN P)
    <2> DEFINE a == [p \in DOMAIN P |-> P[p] * HadOf(n, p)]
               b == [p \in DOMAIN P |-> P[p] * k[f[p]]]
    <2>1. ASSUME NEW p \in DOMAIN P
          PROVE  a[p] \in Nat /\ b[p] \in Nat /\ a[p] <= b[p]
      <3>1. IsBag(p) /\ P[p] \in Nat BY DEF IsNest, IsBag
      <3>2. k[f[p]] = Copies(e, Restored(ids, rev, Numbered(p))) BY <1>4
      <3>3. HadOf(n, p) <= k[f[p]] /\ HadOf(n, p) \in Nat /\ k[f[p]] \in Nat
        BY <1>4, <3>1, <3>2, TableComesBack, HadFacts
      <3> HIDE DEF k, f
      <3> QED BY <3>1, <3>3, Products
    <2>2. IsFiniteSet(DOMAIN P) BY DEF IsNest, IsBag
    <2> HIDE DEF a, b
    <2>3. Weighs(b, DOMAIN P) BY <2>1, <2>2 DEF Weighs
    <2>4. Total(a, DOMAIN P) <= Total(b, DOMAIN P) BY <2>1, <2>3, TotalGrows
    <2> QED BY <2>4 DEF a, b, ItemsHad
  <1> QED BY <1>9, <1>10 DEF e, R, N

-----------------------------------------------------------------------------
(* The backup brings back what was there.                                    *)

\* Two bags together hold what each of them holds.
LEMMA Together ==
    ASSUME NEW B, IsBag(B), NEW C, IsBag(C)
    PROVE  /\ IsBag(B (+) C) /\ DOMAIN (B (+) C) = DOMAIN B \cup DOMAIN C
           /\ \A e \in DOMAIN C : C[e] <= (B (+) C)[e]
           /\ \A e : Copies(e, C) <= Copies(e, B (+) C)
  <1> DEFINE D == DOMAIN B \cup DOMAIN C
             T == [e \in D |-> (IF e \in DOMAIN B THEN B[e] ELSE 0)
                                + (IF e \in DOMAIN C THEN C[e] ELSE 0)]
  <1>1. B (+) C = T BY DEF (+)
  <1>2. IsFiniteSet(D) BY FS_Union DEF IsBag
  <1>3. \A e \in D : T[e] \in Nat /\ T[e] > 0 BY DEF IsBag
  <1>4. \A e \in DOMAIN C : C[e] <= T[e] BY DEF IsBag
  <1>5. DOMAIN T = D /\ IsBag(T) BY <1>2, <1>3 DEF IsBag
  <1> HIDE DEF T
  <1>6. ASSUME NEW e PROVE Copies(e, C) <= Copies(e, T)
    <2>1. CASE e \in DOMAIN C
      <3>1. Copies(e, C) = C[e] /\ Copies(e, T) = T[e] BY <1>5, <2>1, CopiesFacts
      <3> QED BY <1>4, <2>1, <3>1
    <2>2. CASE e \notin DOMAIN C
      <3>1. Copies(e, C) = 0 /\ Copies(e, T) \in Nat BY <1>5, <2>2, CopiesFacts
      <3> QED BY <3>1
    <2> QED BY <2>1, <2>2
  <1> QED BY <1>1, <1>4, <1>5, <1>6

\* Two bags of projects together have the items of each of them.
LEMMA NestsTogether ==
    ASSUME NEW P, IsNest(P), NEW Q, IsNest(Q)
    PROVE  IsNest(P (+) Q) /\ \A e : ItemsOn(e, Q) <= ItemsOn(e, P (+) Q)
  <1> DEFINE R == P (+) Q
  <1>1. IsBag(R) /\ DOMAIN R = DOMAIN P \cup DOMAIN Q /\ \A p \in DOMAIN Q : Q[p] <= R[p]
    BY Together DEF IsNest
  <1> HIDE DEF R
  <1>2. IsNest(R) BY <1>1 DEF IsNest
  <1>3. ASSUME NEW e PROVE ItemsOn(e, Q) <= ItemsOn(e, R)
    <2> DEFINE f == [p \in DOMAIN Q |-> Q[p] * Copies(e, p)]
               g == [p \in DOMAIN R |-> R[p] * Copies(e, p)]
    <2>1. Weighs(g, DOMAIN R) BY <1>2, ItemsOnIs
    <2>2. DOMAIN Q \subseteq DOMAIN R BY <1>1
    <2>3. ASSUME NEW p \in DOMAIN Q PROVE f[p] \in Nat /\ f[p] <= g[p]
      <3>1. Q[p] \in Nat /\ R[p] \in Nat /\ IsBag(p) BY <1>1, <2>2 DEF IsNest, IsBag
      <3>2. Copies(e, p) \in Nat BY <3>1, CopiesFacts
      <3>3. Q[p] <= R[p] /\ p \in DOMAIN R BY <1>1
      <3> DEFINE c == Copies(e, p)
      <3> HIDE DEF c
      <3>4. Q[p] * c \in Nat /\ Q[p] * c <= R[p] * c BY <3>1, <3>2, <3>3, Products DEF c
      <3> QED BY <3>3, <3>4 DEF c
    <2> HIDE DEF f, g
    <2>4. Total(f, DOMAIN Q) <= Total(g, DOMAIN R) BY <2>1, <2>2, <2>3, TotalGrows
    <2> QED BY <2>4 DEF f, g, ItemsOn
  <1> QED BY <1>2, <1>3 DEF R

\* A bag with a member more.
LEMMA BagOneMore ==
    ASSUME NEW B, IsBag(B), NEW e
    PROVE  IsBag(BagAdd(B, e)) /\ DOMAIN BagAdd(B, e) = DOMAIN B \cup {e}
  <1>1. IsBag(SetToBag({e})) /\ DOMAIN SetToBag({e}) = {e}
    <2> DEFINE C == [d \in {e} |-> 1]
    <2>1. DOMAIN C = {e} /\ C = [d \in DOMAIN C |-> C[d]] /\ \A d \in DOMAIN C : C[d] = 1 OBVIOUS
    <2>2. IsFiniteSet({e}) BY FS_Singleton
    <2>3. SetToBag({e}) = C BY DEF SetToBag
    <2> HIDE DEF C
    <2> QED BY <2>1, <2>2, <2>3 DEF IsBag
  <1> QED BY <1>1, Together DEF BagAdd

\* A bag with a member less, which may have been its last copy.
LEMMA BagOneLess ==
    ASSUME NEW B, IsBag(B), NEW e
    PROVE  IsBag(BagRemove(B, e)) /\ DOMAIN BagRemove(B, e) \subseteq DOMAIN B
  <1> DEFINE C == [d \in DOMAIN B |-> IF d \in {e} THEN B[d] - 1 ELSE B[d]]
             D == {d \in DOMAIN B : C[d] > 0}
  <1>1. BagRemove(B, e) = [d \in D |-> C[d]] BY DEF BagRemove, (-), SetToBag
  <1>2. IsFiniteSet(D) BY FS_Subset DEF IsBag
  <1>3. \A d \in D : C[d] \in Nat /\ C[d] > 0 BY DEF IsBag
  <1> HIDE DEF C
  <1> QED BY <1>1, <1>2, <1>3 DEF IsBag

\* A bag without members.
LEMMA NoMember == IsBag(EmptyBag) /\ IsNest(EmptyBag)
BY FS_EmptySet DEF EmptyBag, SetToBag, IsBag, IsNest

\* A project less, a project more.
LEMMA NestChanges ==
    ASSUME NEW P, IsNest(P)
    PROVE  /\ \A p : IsNest(BagRemove(P, p))
           /\ \A p : IsBag(p) => IsNest(BagAdd(P, p))
  <1>0. IsBag(P) /\ \A p \in DOMAIN P : IsBag(p) BY DEF IsNest
  <1>1. ASSUME NEW p PROVE IsNest(BagRemove(P, p))
    <2> DEFINE Q == BagRemove(P, p)
    <2>1. IsBag(Q) /\ DOMAIN Q \subseteq DOMAIN P BY <1>0, BagOneLess
    <2> HIDE DEF Q
    <2>2. IsNest(Q) BY <1>0, <2>1 DEF IsNest
    <2> QED BY <2>2 DEF Q
  <1>2. ASSUME NEW p, IsBag(p) PROVE IsNest(BagAdd(P, p))
    <2> DEFINE Q == BagAdd(P, p)
    <2>1. IsBag(Q) /\ DOMAIN Q = DOMAIN P \cup {p} BY <1>0, BagOneMore
    <2> HIDE DEF Q
    <2>2. IsNest(Q) BY <1>0, <1>2, <2>1 DEF IsNest
    <2> QED BY <2>2 DEF Q
  <1> QED BY <1>1, <1>2

\* Bags of rows; a bag of projects.
IsData(t) == IsNest(t.projects) /\ IsBag(t.highlights) /\ IsBag(t.templates)

\* The file t says what was in the tables d.
Says(t, d) ==
    /\ t.projects = NumberedAll(d.projects)
    /\ t.highlights = Numbered(d.highlights) /\ t.templates = Numbered(d.templates)
    /\ \A r \in d.tags : r[2] \in DOMAIN t.tags
    /\ \A r \in d.links : r[2] \in DOMAIN t.links

\* The plan p restores what the file t says on one revision, as far as it is not in d.
Restores(p, ids, rev, t, d) ==
    /\ p.projects = RestoredAll(ids, rev, t.projects)
    /\ p.highlights = Restored(ids, rev, t.highlights)
    /\ p.templates = Restored(ids, rev, t.templates)
    /\ \A n \in DOMAIN t.tags \cap ids : <<rev, n>> \in p.tags \cup d.tags
    /\ \A n \in DOMAIN t.links \cap ids : <<rev, n>> \in p.links \cup d.links

FileSays ==
    file # NoFile =>
        /\ IsData(file.tables)
        /\ altered = "no" => IsData(saved) /\ Says(file.tables, saved)

PlanRestores == imp.pc = "commit" => Restores(imp.plan, imp.ids, imp.rev, file.tables, db)

RestoreInv == HistoryInv /\ IsData(db) /\ FileSays /\ PlanRestores

\* At first there is no file and nothing in the tables.
LEMMA RestoreInit == BackupInit => RestoreInv
  <1> SUFFICES ASSUME BackupInit PROVE RestoreInv OBVIOUS
  <1>1. IsData(db) BY NoMember DEF BackupInit, EmptyTables, IsData
  <1>2. FileSays /\ PlanRestores BY DEF BackupInit, FileSays, PlanRestores, NoImport
  <1> QED BY <1>1, <1>2, HistoryInit DEF RestoreInv

\* What is exported is what the file says.
LEMMA ExportSays ==
    ASSUME IsData(db)
    PROVE  IsData(ExportTables) /\ Says(ExportTables, db)
  <1> DEFINE t == ExportTables
  <1>1. /\ t.projects = BagOfAll(NumberBag, db.projects)
        /\ t.highlights = NumberBag(db.highlights) /\ t.templates = NumberBag(db.templates)
        /\ t.tags = NumberBag(SetToBag(db.tags)) /\ t.links = NumberBag(SetToBag(db.links))
    BY DEF ExportTables
  <1> HIDE DEF t
  <1>2. t.projects = NumberedAll(db.projects) /\ IsNest(t.projects)
    BY <1>1, AllNumberedIs DEF IsData
  <1>3. /\ t.highlights = Numbered(db.highlights) /\ IsBag(t.highlights)
        /\ t.templates = Numbered(db.templates) /\ IsBag(t.templates)
    BY <1>1, NumberBagIs, NumberedIsBag DEF IsData
  <1>4. ASSUME NEW S PROVE \A r \in S : r[2] \in DOMAIN NumberBag(SetToBag(S))
    BY DEF NumberBag, BagOfAll, BagToSet, SetToBag, Number
  <1>5. /\ \A r \in db.tags : r[2] \in DOMAIN t.tags
        /\ \A r \in db.links : r[2] \in DOMAIN t.links
    BY <1>1, <1>4
  <1> QED BY <1>2, <1>3, <1>5 DEF IsData, Says, t

\* What is planned is what restores the file.
LEMMA PlanIs ==
    ASSUME IsData(file.tables)
    PROVE  Restores(PlannedRows, imp.ids, imp.rev, file.tables, db)
  <1> DEFINE p == PlannedRows
             t == file.tables
  <1>1. /\ p.projects = BagOfAll(Found, t.projects)
        /\ p.highlights = Found(t.highlights) /\ p.templates = Found(t.templates)
        /\ p.tags = BagToSet(Found(t.tags)) \ db.tags
        /\ p.links = BagToSet(Found(t.links)) \ db.links
    BY DEF PlannedRows
  <1> HIDE DEF p, t
  <1>2. p.projects = RestoredAll(imp.ids, imp.rev, t.projects)
    BY <1>1, AllFoundIs DEF IsData, t
  <1>3. /\ p.highlights = Restored(imp.ids, imp.rev, t.highlights)
        /\ p.templates = Restored(imp.ids, imp.rev, t.templates)
    BY <1>1, FoundIs DEF IsData, t
  <1>4. ASSUME NEW B PROVE \A n \in DOMAIN B \cap imp.ids : <<imp.rev, n>> \in BagToSet(Found(B))
    BY DEF Found, BagOfAll, BagToSet, Row
  <1>5. /\ \A n \in DOMAIN t.tags \cap imp.ids : <<imp.rev, n>> \in p.tags \cup db.tags
        /\ \A n \in DOMAIN t.links \cap imp.ids : <<imp.rev, n>> \in p.links \cup db.links
    BY <1>1, <1>4
  <1> QED BY <1>2, <1>3, <1>5 DEF Restores, p, t

\* A step that leaves the file alone and adds to the tables at most.
LEMMA DataGrow ==
    ASSUME RestoreInv, HistoryInv', UNCHANGED <<file, saved, altered, imp>>, IsData(db'),
           db.tags \subseteq db'.tags, db.links \subseteq db'.links
    PROVE  RestoreInv'
BY DEF RestoreInv, FileSays, PlanRestores, Restores

\* A request leaves file and plan alone; what it takes away is no tag and no link.
LEMMA RequestRestores ==
    ASSUME RestoreInv,
           \/ CreateProfile \/ AddCheckItem \/ AddHighlight \/ RemoveHighlight \/ AddTag
           \/ AddUserPack \/ SeedPractice \/ CountPair \/ RecordSearch
    PROVE  RestoreInv'
  <1> DEFINE Grown(t) == IsData(t) /\ db.tags \subseteq t.tags /\ db.links \subseteq t.links
  <1>0. IsTables(db) /\ HistoryInv /\ IsData(db) BY DEF RestoreInv, HistoryInv
  <1>1. HistoryInv' BY <1>0, OtherRequests, SearchIsKept
  <1>2. ASSUME NEW t, Grown(t), Changed(t) PROVE RestoreInv'
    BY <1>1, <1>2, DataGrow DEF Changed
  <1>3. /\ \A v : IsNest(v) => Grown([db EXCEPT !.projects = v])
        /\ \A v : IsBag(v) => Grown([db EXCEPT !.highlights = v])
        /\ \A v : Grown([db EXCEPT !.tags = @ \cup v])
        /\ \A v : Grown([db EXCEPT !.packs = v]) /\ Grown([db EXCEPT !.pairs = v])
        /\ \A v : Grown([db EXCEPT !.history = v])
        /\ \A u, v, w : IsBag(v) =>
             Grown([db EXCEPT !.packs = u, !.templates = v, !.links = @ \cup w])
    BY <1>0 DEF IsTables, TableNames, IsData
  <1> HIDE DEF Grown
  <1>4. CASE CreateProfile
    <2>1. IsNest(BagAdd(db.projects, EmptyBag)) BY <1>0, NestChanges, NoMember DEF IsData
    <2> QED BY <1>2, <1>3, <1>4, <2>1 DEF CreateProfile
  <1>5. CASE AddCheckItem
    <2>1. PICK p \in DOMAIN db.projects, r \in Opened :
            Changed([db EXCEPT !.projects = BagAdd(BagRemove(@, p), BagAdd(p, r))])
      BY <1>5 DEF AddCheckItem, BagToSet
    <2>2. IsBag(BagAdd(p, r)) BY <1>0, BagOneMore DEF IsData, IsNest
    <2>3. IsNest(BagRemove(db.projects, p)) BY <1>0, NestChanges DEF IsData
    <2>4. IsNest(BagAdd(BagRemove(db.projects, p), BagAdd(p, r))) BY <2>2, <2>3, NestChanges
    <2> QED BY <1>2, <1>3, <2>1, <2>4
  <1>6. CASE AddHighlight BY <1>0, <1>2, <1>3, <1>6, BagOneMore DEF AddHighlight, IsData
  <1>7. CASE RemoveHighlight BY <1>0, <1>2, <1>3, <1>7, BagOneLess DEF RemoveHighlight, IsData
  <1>8. CASE AddTag BY <1>2, <1>3, <1>8 DEF AddTag
  <1>9. CASE AddUserPack BY <1>2, <1>3, <1>9 DEF AddUserPack
  <1>10. CASE SeedPractice
    <2>1. PICK r \in Opened :
            Changed([db EXCEPT !.packs = BagAdd(@, <<"system", {r}>>),
                 !.templates = IF BagIn(r, @) THEN @ ELSE BagAdd(@, r),
                 !.links = @ \cup {r}])
      BY <1>10 DEF SeedPractice
    <2>2. IsBag(IF BagIn(r, db.templates) THEN db.templates ELSE BagAdd(db.templates, r))
      BY <1>0, BagOneMore DEF IsData
    <2> QED BY <1>2, <1>3, <2>1, <2>2
  <1>11. CASE CountPair BY <1>2, <1>3, <1>11 DEF CountPair
  <1>12. CASE RecordSearch BY <1>2, <1>3, <1>12 DEF RecordSearch
  <1> QED BY <1>4, <1>5, <1>6, <1>7, <1>8, <1>9, <1>10, <1>11, <1>12

\* A new file says what is in the tables; an altered one is not spoken of.
LEMMA FileRestores ==
    ASSUME RestoreInv, SwitchLaw \/ Export \/ AlterFile
    PROVE  RestoreInv'
  <1>1. HistoryInv' /\ db' = db BY FileKeeps DEF RestoreInv
  <1>2. IsData(db') BY <1>1 DEF RestoreInv
  <1>3. CASE SwitchLaw
    <2>1. UNCHANGED <<file, saved, altered, imp>> BY <1>3 DEF SwitchLaw
    <2> QED BY <1>1, <1>2, <2>1, DataGrow
  <1>4. CASE Export
    <2>1. PICK type : file' = [type |-> type, tables |-> ExportTables, sum |-> Digest(ExportTables)]
      BY <1>4 DEF Export
    <2>2. file'.tables = ExportTables /\ saved' = db /\ imp'.pc # "commit"
      BY <1>4, <2>1 DEF Export, Importing
    <2>3. IsData(db) /\ IsData(ExportTables) /\ Says(ExportTables, db)
      BY ExportSays DEF RestoreInv
    <2>4. FileSays' /\ PlanRestores' BY <2>2, <2>3 DEF FileSays, PlanRestores
    <2> QED BY <1>1, <1>2, <2>4 DEF RestoreInv
  <1>5. CASE AlterFile
    <2> DEFINE t == file.tables
    <2>1. /\ altered' # "no" /\ imp'.pc # "commit" /\ file # NoFile
          /\ \/ \E n : file' = [file EXCEPT !.tables.highlights = BagRemove(@, n)]
             \/ \E p : file' = [file EXCEPT !.tables.projects = BagAdd(BagRemove(@, p), EmptyBag)]
      BY <1>5 DEF AlterFile, Importing
    <2>2. IsData(t) /\ IsTables(t) /\ file = [name \in {"type", "tables", "sum"} |-> file[name]]
      BY <2>1 DEF RestoreInv, FileSays, HistoryInv, FileOK
    <2>3. \/ \E n : file'.tables = [t EXCEPT !.highlights = BagRemove(@, n)]
          \/ \E p : file'.tables = [t EXCEPT !.projects = BagAdd(BagRemove(@, p), EmptyBag)]
      BY <2>1, <2>2
    <2> HIDE DEF t
    <2>4. \A n : IsBag(BagRemove(t.highlights, n)) BY <2>2, BagOneLess DEF IsData
    <2>5. \A p : IsNest(BagAdd(BagRemove(t.projects, p), EmptyBag))
      <3> SUFFICES ASSUME NEW p PROVE IsNest(BagAdd(BagRemove(t.projects, p), EmptyBag)) OBVIOUS
      <3>1. IsNest(BagRemove(t.projects, p)) BY <2>2, NestChanges DEF IsData
      <3> QED BY <3>1, NestChanges, NoMember
    <2>6. IsData(file'.tables)
      <3>1. ASSUME NEW v, IsBag(v) PROVE IsData([t EXCEPT !.highlights = v])
        BY <2>2, <3>1 DEF IsData, IsTables, TableNames
      <3>2. ASSUME NEW v, IsNest(v) PROVE IsData([t EXCEPT !.projects = v])
        BY <2>2, <3>2 DEF IsData, IsTables, TableNames
      <3> QED BY <2>3, <2>4, <2>5, <3>1, <3>2
    <2>7. FileSays' /\ PlanRestores' BY <2>1, <2>6 DEF FileSays, PlanRestores
    <2> QED BY <1>1, <1>2, <2>7 DEF RestoreInv
  <1> QED BY <1>3, <1>4, <1>5

\* An import that has planned its rows restores what the file says.
LEMMA ImportRestores ==
    ASSUME RestoreInv, StartImport \/ ResolveRefs \/ WriteRows \/ RollBackImport
    PROVE  RestoreInv'
  <1>1. HistoryInv' /\ db' = db BY ImportKeeps DEF RestoreInv
  <1>2. UNCHANGED <<file, saved, altered>>
    BY DEF StartImport, ResolveRefs, WriteRows, RollBackImport
  <1>3. IsData(db') /\ FileSays' BY <1>1, <1>2 DEF RestoreInv, FileSays
  <1>4. imp = [name \in {"pc", "n", "rev", "ids", "plan", "victims"} |-> imp[name]]
    BY DEF RestoreInv, HistoryInv, ImportOK
  <1>5. CASE WriteRows
    <2>1. file # NoFile BY <1>5 DEF RestoreInv, HistoryInv, ImportHasFile, Importing, WriteRows
    <2>2. Restores(PlannedRows, imp.ids, imp.rev, file.tables, db)
      BY <2>1, PlanIs DEF RestoreInv, FileSays
    <2>3. \E v : imp' = [imp EXCEPT !.pc = "commit", !.plan = PlannedRows, !.victims = v]
      BY <1>5 DEF WriteRows
    <2>4. imp'.plan = PlannedRows /\ imp'.ids = imp.ids /\ imp'.rev = imp.rev BY <1>4, <2>3
    <2>5. PlanRestores' BY <1>1, <1>2, <2>2, <2>4 DEF PlanRestores
    <2> QED BY <1>1, <1>3, <2>5 DEF RestoreInv
  <1>6. CASE StartImport \/ ResolveRefs \/ RollBackImport
    <2>1. imp'.pc # "commit"
      <3>1. \/ \E n, pc : pc # "commit" /\ imp' = [NoImport EXCEPT !.n = n, !.pc = pc]
            \/ \E u, v : imp' = [imp EXCEPT !.pc = "write", !.rev = u, !.ids = v]
            \/ \E u, v : imp' = [imp EXCEPT !.pc = "failed", !.plan = u, !.victims = v]
        <4>1. CASE StartImport
          <5>1. imp' = [NoImport EXCEPT !.n = imp.n + 1, !.pc =
                   IF file.type = "full" /\ Digest(file.tables) = file.sum
                   THEN "resolve" ELSE "refused"]
            BY <4>1 DEF StartImport
          <5> QED BY <5>1
        <4>2. CASE ResolveRefs BY <4>2 DEF ResolveRefs
        <4>3. CASE RollBackImport BY <4>3 DEF RollBackImport
        <4> QED BY <1>6, <4>1, <4>2, <4>3
      <3> QED BY ZenonT(40), <1>4, <3>1 DEF NoImport
    <2> QED BY <1>1, <1>3, <2>1 DEF RestoreInv, PlanRestores
  <1> QED BY <1>5, <1>6

\* The commit keeps the invariant and brings back what was there.
LEMMA CommitRestores ==
    ASSUME RestoreInv, CommitImport
    PROVE  /\ RestoreInv'
           /\ altered = "no" =>
                /\ IsData(saved)
                /\ \A n \in imp.ids :
                     /\ HadOf(n, saved.highlights) <= Copies(<<imp.rev, n>>, db'.highlights)
                     /\ HadOf(n, saved.templates) <= Copies(<<imp.rev, n>>, db'.templates)
                     /\ \A v : <<v, n>> \in saved.tags => <<imp.rev, n>> \in db'.tags
                     /\ \A v : <<v, n>> \in saved.links => <<imp.rev, n>> \in db'.links
                     /\ ItemsHad(n, saved.projects) <= ItemsOn(<<imp.rev, n>>, db'.projects)
  <1> DEFINE t == file.tables
             p == imp.plan
  <1>1. /\ IsData(db) /\ IsData(t)
        /\ altered = "no" => IsData(saved) /\ Says(t, saved)
        /\ Restores(p, imp.ids, imp.rev, t, db)
    BY DEF RestoreInv, FileSays, PlanRestores, HistoryInv, ImportHasFile, Importing, CommitImport
  <1>2. /\ db'.projects = db.projects (+) p.projects
        /\ db'.highlights = db.highlights (+) p.highlights
        /\ db'.templates = db.templates (+) p.templates
        /\ db'.tags = db.tags \cup p.tags /\ db'.links = db.links \cup p.links
        /\ imp.pc = "commit" /\ UNCHANGED <<file, saved, altered>>
    BY DEF CommitImport
  <1> HIDE DEF t, p
  <1>3. IsNest(p.projects) /\ IsBag(p.highlights) /\ IsBag(p.templates)
    <2>1. /\ p.projects = RestoredAll(imp.ids, imp.rev, t.projects)
          /\ p.highlights = Restored(imp.ids, imp.rev, t.highlights)
          /\ p.templates = Restored(imp.ids, imp.rev, t.templates)
      BY <1>1 DEF Restores
    <2>2. IsNest(RestoredAll(imp.ids, imp.rev, t.projects)) BY <1>1, RestoredAllIsNest DEF IsData
    <2>3. IsBag(Restored(imp.ids, imp.rev, t.highlights)) BY <1>1, RestoredFacts DEF IsData
    <2>4. IsBag(Restored(imp.ids, imp.rev, t.templates)) BY <1>1, RestoredFacts DEF IsData
    <2> QED BY <2>1, <2>2, <2>3, <2>4
  <1>4. IsData(db')
    <2>1. IsNest(db.projects (+) p.projects) BY <1>1, <1>3, NestsTogether DEF IsData
    <2>2. IsBag(db.highlights (+) p.highlights) /\ IsBag(db.templates (+) p.templates)
      BY <1>1, <1>3, Together DEF IsData
    <2> QED BY <1>2, <2>1, <2>2 DEF IsData
  <1>5. RestoreInv'
    <2>1. HistoryInv' BY CommitKeeps DEF RestoreInv
    <2>2. FileSays' BY <1>2 DEF RestoreInv, FileSays
    <2>3. PlanRestores'
      <3>1. imp'.pc = "done"
        BY DEF CommitImport, RestoreInv, HistoryInv, ImportOK
      <3> QED BY <3>1 DEF PlanRestores
    <2> QED BY <1>4, <2>1, <2>2, <2>3 DEF RestoreInv
  <1>6. ASSUME altered = "no", NEW n \in imp.ids
        PROVE  /\ HadOf(n, saved.highlights) <= Copies(<<imp.rev, n>>, db'.highlights)
               /\ HadOf(n, saved.templates) <= Copies(<<imp.rev, n>>, db'.templates)
               /\ \A v : <<v, n>> \in saved.tags => <<imp.rev, n>> \in db'.tags
               /\ \A v : <<v, n>> \in saved.links => <<imp.rev, n>> \in db'.links
               /\ ItemsHad(n, saved.projects) <= ItemsOn(<<imp.rev, n>>, db'.projects)
    <2> DEFINE e == <<imp.rev, n>>
    <2>0. IsData(saved) /\ Says(t, saved) BY <1>1, <1>6
    <2>1. ASSUME NEW B, IsBag(B), NEW C, IsBag(C), NEW D, IsBag(D),
                 C = Restored(imp.ids, imp.rev, Numbered(B))
          PROVE  HadOf(n, B) <= Copies(e, D (+) C)
      <3>1. HadOf(n, B) <= Copies(e, C) BY <2>1, TableComesBack
      <3> HIDE DEF e
      <3>2. Copies(e, C) <= Copies(e, D (+) C) /\ IsBag(D (+) C) BY <2>1, Together
      <3> DEFINE S == D (+) C
      <3> HIDE DEF S
      <3>3. Copies(e, C) \in Nat /\ Copies(e, S) \in Nat /\ HadOf(n, B) \in Nat
        BY <2>1, <3>2, CopiesFacts, HadFacts DEF S
      <3>4. HadOf(n, B) <= Copies(e, S) BY <3>1, <3>2, <3>3 DEF S
      <3> QED BY <3>4 DEF S
    <2>2. HadOf(n, saved.highlights) <= Copies(e, db'.highlights)
      <3>1. p.highlights = Restored(imp.ids, imp.rev, Numbered(saved.highlights))
        BY <1>1, <2>0 DEF Restores, Says
      <3> HIDE DEF e
      <3>2. HadOf(n, saved.highlights) <= Copies(e, db.highlights (+) p.highlights)
        BY <1>1, <1>3, <2>0, <2>1, <3>1 DEF IsData
      <3> QED BY <1>2, <3>2
    <2>3. HadOf(n, saved.templates) <= Copies(e, db'.templates)
      <3>1. p.templates = Restored(imp.ids, imp.rev, Numbered(saved.templates))
        BY <1>1, <2>0 DEF Restores, Says
      <3> HIDE DEF e
      <3>2. HadOf(n, saved.templates) <= Copies(e, db.templates (+) p.templates)
        BY <1>1, <1>3, <2>0, <2>1, <3>1 DEF IsData
      <3> QED BY <1>2, <3>2
    <2>4. /\ \A v : <<v, n>> \in saved.tags => <<imp.rev, n>> \in db'.tags
          /\ \A v : <<v, n>> \in saved.links => <<imp.rev, n>> \in db'.links
      <3>1. /\ \A v : <<v, n>> \in saved.tags => n \in DOMAIN t.tags
            /\ \A v : <<v, n>> \in saved.links => n \in DOMAIN t.links
        BY <2>0 DEF Says
      <3>2. /\ n \in DOMAIN t.tags => <<imp.rev, n>> \in p.tags \cup db.tags
            /\ n \in DOMAIN t.links => <<imp.rev, n>> \in p.links \cup db.links
        BY <1>1, <1>6 DEF Restores
      <3> QED BY <1>2, <3>1, <3>2
    <2>5. ItemsHad(n, saved.projects) <= ItemsOn(e, db'.projects)
      <3> DEFINE R == db.projects (+) p.projects
      <3>1. p.projects = RestoredAll(imp.ids, imp.rev, NumberedAll(saved.projects))
        BY <1>1, <2>0 DEF Restores, Says
      <3>2. IsNest(saved.projects) BY <2>0 DEF IsData
      <3>3. ItemsHad(n, saved.projects) <= ItemsOn(e, p.projects)
        BY <1>6, <3>1, <3>2, ProjectsComeBack
      <3> HIDE DEF e
      <3>4. IsNest(R) /\ ItemsOn(e, p.projects) <= ItemsOn(e, R)
        BY <1>1, <1>3, NestsTogether DEF IsData
      <3> HIDE DEF R
      <3>5. /\ ItemsHad(n, saved.projects) \in Nat /\ ItemsOn(e, p.projects) \in Nat
            /\ ItemsOn(e, R) \in Nat
        BY <1>3, <3>2, <3>4, ItemsHadIs, ItemsOnIs
      <3>6. ItemsHad(n, saved.projects) <= ItemsOn(e, R) BY <3>3, <3>4, <3>5
      <3> QED BY <1>2, <3>6 DEF R
    <2> QED BY <2>2, <2>3, <2>4, <2>5
  <1> QED BY <1>1, <1>5, <1>6

\* Nothing but the commit ends an import with success.
LEMMA OnlyCommitFinishes ==
    ASSUME HistoryInv, [BackupNext]_backupVars, imp.pc = "commit", imp'.pc = "done"
    PROVE  CommitImport
  <1>1. CASE UNCHANGED backupVars BY <1>1 DEF backupVars
  <1>2. CASE BackupNext
    <2>1. ~ StartImport /\ ~ ResolveRefs /\ ~ WriteRows
      BY DEF StartImport, ResolveRefs, WriteRows, Importing
    <2>2. ~ RollBackImport BY DEF RollBackImport, HistoryInv, ImportOK
    <2>3. ~ SwitchLaw /\ ~ Export /\ ~ AlterFile BY DEF SwitchLaw, Export, AlterFile
    <2>4. ~ CreateProfile /\ ~ AddCheckItem /\ ~ AddHighlight /\ ~ RemoveHighlight /\ ~ AddTag
      BY DEF CreateProfile, AddCheckItem, AddHighlight, RemoveHighlight, AddTag, Changed
    <2>5. ~ AddUserPack /\ ~ SeedPractice /\ ~ CountPair /\ ~ RecordSearch
      BY DEF AddUserPack, SeedPractice, CountPair, RecordSearch, Changed
    <2> QED BY <1>2, <2>1, <2>2, <2>3, <2>4, <2>5 DEF BackupNext
  <1> QED BY <1>1, <1>2

\* Every step keeps the invariant.
LEMMA RestoreStep ==
    ASSUME RestoreInv, [BackupNext]_backupVars
    PROVE  RestoreInv'
  <1>1. CASE UNCHANGED backupVars
    <2>1. HistoryInv' BY BackupStep DEF RestoreInv
    <2> QED BY <1>1, <2>1 DEF backupVars, RestoreInv, FileSays, PlanRestores
  <1>2. CASE BackupNext
    BY <1>2, RequestRestores, FileRestores, ImportRestores, CommitRestores DEF BackupNext
  <1> QED BY <1>1, <1>2

(***************************************************************************)
(* What an import of an untouched export adds is, article by article, what *)
(* the tables held when the file was written (RestoreBringsBack in         *)
(* practice).                                                              *)
(***************************************************************************)
THEOREM ImportUndoesExport == BackupSpec => RestoreBringsBack
  <1> DEFINE Step ==
        imp.pc = "commit" /\ imp'.pc = "done" /\ altered = "no" =>
          \A n \in imp.ids :
            LET Had(B) == MapThenSumSet(LAMBDA v : Copies(<<v, n>>, B), Revisions)
                Has(B) == Copies(<<imp.rev, n>>, B)
                HadItems == MapThenSumSet(LAMBDA p : saved.projects[p] * Had(p),
                                          BagToSet(saved.projects))
                HasItems == MapThenSumSet(LAMBDA p : db'.projects[p] * Has(p),
                                          BagToSet(db'.projects))
            IN /\ Has(db'.highlights) >= Had(saved.highlights)
               /\ Has(db'.templates) >= Had(saved.templates)
               /\ \A v \in Revisions : <<v, n>> \in saved.tags => <<imp.rev, n>> \in db'.tags
               /\ \A v \in Revisions : <<v, n>> \in saved.links => <<imp.rev, n>> \in db'.links
               /\ HasItems >= HadItems
  <1>1. ASSUME RestoreInv, [BackupNext]_backupVars PROVE Step
    <2> SUFFICES ASSUME imp.pc = "commit", imp'.pc = "done", altered = "no", NEW n \in imp.ids
                 PROVE
            LET Had(B) == MapThenSumSet(LAMBDA v : Copies(<<v, n>>, B), Revisions)
                Has(B) == Copies(<<imp.rev, n>>, B)
                HadItems == MapThenSumSet(LAMBDA p : saved.projects[p] * Had(p),
                                          BagToSet(saved.projects))
                HasItems == MapThenSumSet(LAMBDA p : db'.projects[p] * Has(p),
                                          BagToSet(db'.projects))
            IN /\ Has(db'.highlights) >= Had(saved.highlights)
               /\ Has(db'.templates) >= Had(saved.templates)
               /\ \A v \in Revisions : <<v, n>> \in saved.tags => <<imp.rev, n>> \in db'.tags
               /\ \A v \in Revisions : <<v, n>> \in saved.links => <<imp.rev, n>> \in db'.links
               /\ HasItems >= HadItems
      OBVIOUS
    <2> DEFINE had(B) == MapThenSumSet(LAMBDA v : Copies(<<v, n>>, B), Revisions)
               has(B) == Copies(<<imp.rev, n>>, B)
    <2>1. CommitImport BY <1>1, OnlyCommitFinishes DEF RestoreInv
    <2>2. /\ IsData(saved) /\ IsData(db')
          /\ HadOf(n, saved.highlights) <= has(db'.highlights)
          /\ HadOf(n, saved.templates) <= has(db'.templates)
          /\ \A v : <<v, n>> \in saved.tags => <<imp.rev, n>> \in db'.tags
          /\ \A v : <<v, n>> \in saved.links => <<imp.rev, n>> \in db'.links
          /\ ItemsHad(n, saved.projects) <= ItemsOn(<<imp.rev, n>>, db'.projects)
      BY <1>1, <2>1, CommitRestores DEF RestoreInv
    <2>3. ASSUME NEW B, IsBag(B), NEW C, IsBag(C), HadOf(n, B) <= has(C)
          PROVE  has(C) >= had(B)
      <3>1. had(B) = HadOf(n, B) /\ HadOf(n, B) \in Nat BY <2>3, HadFacts
      <3>2. has(C) \in Nat BY <2>3, CopiesFacts
      <3> HIDE DEF had, has
      <3> QED BY <2>3, <3>1, <3>2
    <2>4. has(db'.highlights) >= had(saved.highlights) /\ has(db'.templates) >= had(saved.templates)
      <3> HIDE DEF had, has
      <3> QED BY <2>2, <2>3 DEF IsData
    <2>5. MapThenSumSet(LAMBDA p : db'.projects[p] * has(p), BagToSet(db'.projects))
            >= MapThenSumSet(LAMBDA p : saved.projects[p] * had(p), BagToSet(saved.projects))
      <3> DEFINE P == saved.projects
                 Q == db'.projects
                 old == MapThenSumSet(LAMBDA p : P[p] * had(p), BagToSet(P))
                 new == MapThenSumSet(LAMBDA p : Q[p] * has(p), BagToSet(Q))
      <3>1. IsNest(P) /\ IsNest(Q) /\ ItemsHad(n, P) <= ItemsOn(<<imp.rev, n>>, Q)
        BY <2>2 DEF IsData
      <3> HIDE DEF P, Q
      <3>2. old = ItemsHad(n, P) /\ ItemsHad(n, P) \in Nat BY <3>1, ItemsHadIs
      <3>3. new = ItemsOn(<<imp.rev, n>>, Q) /\ ItemsOn(<<imp.rev, n>>, Q) \in Nat
        BY <3>1, ItemsOnIs
      <3> HIDE DEF old, new
      <3>4. new >= old BY <3>1, <3>2, <3>3
      <3> QED BY <3>4 DEF old, new, P, Q
    <2> QED BY <2>2, <2>4, <2>5
  <1>2. RestoreInv /\ [BackupNext]_backupVars => [Step]_backupVars BY <1>1
  <1> QED BY <1>2, RestoreInit, RestoreStep, PTL DEF BackupSpec, RestoreBringsBack

=============================================================================
