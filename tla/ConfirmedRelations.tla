-------------------------- MODULE ConfirmedRelations --------------------------
(***************************************************************************)
(* Relations between articles that a person has confirmed                  *)
(* (confirmed-relation-service.ts).  Every operation is one serializable   *)
(* transaction that is repeated when it conflicts with another; no index   *)
(* keeps two relations apart, only the isolation does.  When the attempts  *)
(* are used up the service looks at the rows once more, outside of any     *)
(* transaction, and tells its caller what it finds.                        *)
(***************************************************************************)
EXTENDS Naturals, FiniteSets

CONSTANTS
    Calls,        \* calls of the service; a relation is named by the call that makes it
    Articles,
    Edges,        \* the pairs of articles that somebody may relate
    MaxSwitched,  \* a bound on the articles that leave the book
    MaxAttempts,  \* MAX_TRANSACTION_ATTEMPTS
    Absent

ASSUME RelationsAssumption ==
    /\ MaxAttempts \in Nat \ {0} /\ MaxSwitched \in Nat
    /\ Edges \subseteq {e \in Articles \X Articles : e[1] # e[2]}  \* assertDistinctArticles

VARIABLES
    current,     \* the articles of the current revisions of the book
    candidates,  \* the status of a candidate, by its fingerprint
    relations,   \* the rows of ConfirmedArticleRelation
    service      \* the calls: their work, their attempts, what their transaction sees

relationVars == <<current, candidates, relations, service>>

\* The fingerprint of a candidate is its source and what is proposed as the target; the
\* type of the relation and the generator are left out.
Operations ==
    [op : {"save", "reject"}, of : Edges]
        \cup {w \in [op : {"approve"}, of : Edges, edge : Edges] : w.edge[1] = w.of[1]}
        \cup [op : {"manual"}, edge : Edges]
        \cup [op : {"revoke"}, relation : Calls]

Relations == [edge : Edges, from : Edges \cup {Absent}, revoked : BOOLEAN]
Statuses == {"pending", "promoted", "rejected"}
\* What the transaction of a call reads.
Views == [current : BOOLEAN, status : Statuses \cup {Absent}, active : BOOLEAN, inForce : BOOLEAN]

ASSUME AbsentAssumption ==
    Absent \notin Edges \cup Operations \cup Relations \cup Statuses \cup Views

\* A call is open while its transaction runs, and exhausted when all attempts failed.
States == {"idle", "open", "exhausted", "ok", "refused", "conflict"}

RelationsTypeOK ==
    /\ current \in SUBSET Articles
    /\ candidates \in [Edges -> Statuses \cup {Absent}]
    /\ relations \in [Calls -> Relations \cup {Absent}]
    /\ service \in [Calls -> [state : States, work : Operations \cup {Absent},
                              attempt : 0 .. MaxAttempts, seen : Views \cup {Absent}]]
    /\ \A c \in Calls : /\ service[c].state # "idle" => service[c].work # Absent
                        /\ service[c].state = "open" => service[c].seen # Absent

\* Some candidates were saved before.
RelationsInit ==
    /\ current = Articles
    /\ candidates \in [Edges -> {Absent, "pending"}]
    /\ relations = [c \in Calls |-> Absent]
    /\ service = [c \in Calls |-> [state |-> "idle", work |-> Absent, attempt |-> 0, seen |-> Absent]]

-----------------------------------------------------------------------------
InForce(r) == relations[r] # Absent /\ ~relations[r].revoked
Active(edge) == \E r \in Calls : InForce(r) /\ relations[r].edge = edge
CurrentEnds(edge) == {edge[1], edge[2]} \subseteq current

\* The reads of a transaction, all of one moment.
View(w) ==
    [current |-> /\ w.op = "save" => CurrentEnds(w.of)
                 /\ w.op \in {"approve", "manual"} => CurrentEnds(w.edge),
     status  |-> IF w.op \in {"save", "approve", "reject"} THEN candidates[w.of] ELSE Absent,
     active  |-> w.op \in {"approve", "manual"} /\ Active(w.edge),
     inForce |-> w.op = "revoke" /\ InForce(w.relation)]

\* What the transaction throws for: the article of a law that was switched, a
\* candidate that was decided, a relation that is there or gone.
Throws(w, seen) ==
    \/ ~seen.current
    \/ w.op \in {"approve", "reject"} /\ seen.status # "pending"
    \/ seen.active
    \/ w.op = "revoke" /\ ~seen.inForce

\* A bug: the transaction is only checked against the rows it changes, as under a
\* weaker isolation.
SerializableMutant(w, seen) ==
    seen.status = View(w).status /\ seen.inForce = View(w).inForce

\* SERIALIZABLE: what the transaction relied on still holds when it commits.  The
\* refresh is no serializable transaction, so current is not among it.
Serializable(w, seen) ==
    /\ seen.status = View(w).status
    /\ seen.active = View(w).active
    /\ seen.inForce = View(w).inForce

Answer(c, state) ==
    service' = [service EXCEPT ![c] =
                   [state |-> state, work |-> @.work, attempt |-> 0, seen |-> Absent]]

-----------------------------------------------------------------------------
BeginCall(c) ==
    /\ service[c].state = "idle"
    /\ \E w \in Operations :
          service' = [service EXCEPT ![c] =
              [state |-> "open", work |-> w, attempt |-> 1, seen |-> View(w)]]
    /\ UNCHANGED <<current, candidates, relations>>

Refuse(c) ==
    /\ service[c].state = "open" /\ Throws(service[c].work, service[c].seen)
    /\ Answer(c, "refused")
    /\ UNCHANGED <<current, candidates, relations>>

CanCommit(c, op) ==
    /\ service[c].state = "open" /\ service[c].work.op = op
    /\ ~Throws(service[c].work, service[c].seen)
    /\ Serializable(service[c].work, service[c].seen)

\* saveRelatedArticleCandidate: an existing candidate is returned as it is.
SaveCandidate(c) ==
    LET k == service[c].work.of
    IN  /\ CanCommit(c, "save")
        /\ candidates' = [candidates EXCEPT ![k] = IF @ = Absent THEN "pending" ELSE @]
        /\ Answer(c, "ok")
        /\ UNCHANGED <<current, relations>>

\* approveRelatedArticleCandidate: the target may be another than the proposed one.
ApproveCandidate(c) ==
    LET w == service[c].work
    IN  /\ CanCommit(c, "approve")
        /\ candidates' = [candidates EXCEPT ![w.of] = "promoted"]
        /\ relations' = [relations EXCEPT ![c] = [edge |-> w.edge, from |-> w.of, revoked |-> FALSE]]
        /\ Answer(c, "ok")
        /\ UNCHANGED current

RejectCandidate(c) ==
    /\ CanCommit(c, "reject")
    /\ candidates' = [candidates EXCEPT ![service[c].work.of] = "rejected"]
    /\ Answer(c, "ok")
    /\ UNCHANGED <<current, relations>>

\* createManualConfirmedRelation
CreateManual(c) ==
    /\ CanCommit(c, "manual")
    /\ relations' = [relations EXCEPT ![c] =
                        [edge |-> service[c].work.edge, from |-> Absent, revoked |-> FALSE]]
    /\ Answer(c, "ok")
    /\ UNCHANGED <<current, candidates>>

Revoke(c) ==
    /\ CanCommit(c, "revoke")
    /\ relations' = [relations EXCEPT ![service[c].work.relation].revoked = TRUE]
    /\ Answer(c, "ok")
    /\ UNCHANGED <<current, candidates>>

\* withSerializableRetry: another transaction was open meanwhile, or has changed rows.
Conflict(c) ==
    /\ service[c].state = "open"
    /\ service[c].seen # View(service[c].work) \/ \E d \in Calls \ {c} : service[d].state = "open"
    /\ IF service[c].attempt < MaxAttempts
       THEN service' = [service EXCEPT ![c] =
                [state |-> "open", work |-> @.work, attempt |-> @.attempt + 1, seen |-> View(@.work)]]
       ELSE Answer(c, "exhausted")
    /\ UNCHANGED <<current, candidates, relations>>

\* SerializableRetryExhaustedError: the rows as they are now give the answer.
Converge(c) ==
    LET w == service[c].work
        decided == w.op \in {"approve", "reject"} /\ candidates[w.of] # "pending"
        doubled == w.op \in {"approve", "manual"} /\ Active(w.edge)
        gone == w.op = "revoke" /\ ~InForce(w.relation)
    IN  /\ service[c].state = "exhausted"
        /\ Answer(c, IF w.op = "save" /\ candidates[w.of] # Absent THEN "ok"
                     ELSE IF decided \/ doubled \/ gone THEN "refused"
                     ELSE "conflict")
        /\ UNCHANGED <<current, candidates, relations>>

\* The refresh switches a law, and an article belongs to an old revision.
SwitchArticle ==
    /\ Cardinality(Articles \ current) < MaxSwitched
    /\ \E a \in current : current' = current \ {a}
    /\ UNCHANGED <<candidates, relations, service>>

RelationsNext ==
    \/ SwitchArticle
    \/ \E c \in Calls :
          \/ BeginCall(c) \/ Refuse(c) \/ Conflict(c) \/ Converge(c)
          \/ SaveCandidate(c) \/ ApproveCandidate(c) \/ RejectCandidate(c)
          \/ CreateManual(c) \/ Revoke(c)

RelationsSpec == RelationsInit /\ [][RelationsNext]_relationVars

-----------------------------------------------------------------------------
\* At most one relation that is in force leads from one article to another.
OneInForce ==
    \A c, d \in Calls :
        InForce(c) /\ InForce(d) /\ relations[c].edge = relations[d].edge => c = d

\* A candidate is promoted exactly where a relation was made of it, and of no
\* candidate two.
PromotedOnce ==
    /\ \A k \in Edges : candidates[k] = "promoted"
                        <=> \E c \in Calls : relations[c] # Absent /\ relations[c].from = k
    /\ \A c, d \in Calls :
          /\ relations[c] # Absent /\ relations[d] # Absent
          /\ relations[c].from = relations[d].from /\ relations[c].from # Absent
          => c = d

\* What a call told its caller is so, and stays so: what it reported as done is done,
\* and a call that failed or is still under way has left nothing behind.
AnswersAreTrue ==
    \A c \in Calls :
        LET w == service[c].work
            done == service[c].state = "ok"
        IN  /\ relations[c] # Absent <=> done /\ w.op \in {"approve", "manual"}
            /\ done /\ w.op = "save" => candidates[w.of] # Absent
            /\ done /\ w.op = "reject" => candidates[w.of] = "rejected"
            /\ done /\ w.op = "approve" => /\ candidates[w.of] = "promoted"
                                           /\ relations[c].from = w.of
            /\ done /\ w.op = "manual" => relations[c].from = Absent
            /\ done /\ w.op \in {"approve", "manual"} => relations[c].edge = w.edge
            /\ done /\ w.op = "revoke" => relations[w.relation] # Absent /\ relations[w.relation].revoked

\* Whatever calls run at once and however often they conflict, there is one relation
\* in force between two articles, a decision on a candidate is taken once and never
\* again (confirmed-relation-service.ts:80-99 and the design, 4.2 and 4.3), and every
\* caller is told the truth.
RelationsAreReviewed == OneInForce /\ PromotedOnce /\ AnswersAreTrue
=============================================================================
