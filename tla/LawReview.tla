------------------------------- MODULE LawReview ------------------------------
(***************************************************************************)
(* The review of one law: e-Gov publishes a revision, refresh-service.ts   *)
(* verifies it and shows it or holds it, a reviewer may lay down mappings  *)
(* for it (reviewed-mappings.ts) and the refresh is run again, perhaps     *)
(* when e-Gov has moved on.                                                *)
(***************************************************************************)
EXTENDS RevisionText

CONSTANTS
    Parents,      \* the durable keys of the nodes above
    Numbers, Bodies,
    MaxNodesSeen, \* a bound on the nodes of a revision
    MaxRevisions  \* a bound on the revisions e-Gov publishes

ASSUME ReviewAssumption == MaxRevisions \in Nat

VARIABLES
    shown,      \* the nodes of the current revision
    offered,    \* the revision e-Gov has in force: its number and its nodes
    review,     \* the file of reviewed mappings, with the revision it is for
    unseen      \* what the last switch held, had it compared the two revisions

reviewVars == <<shown, offered, review, unseen>>

ArticleNodes ==
    {[parent |-> p, level |-> "article", number |-> n, body |-> b, content |-> b] :
        p \in Parents, n \in Numbers, b \in Bodies}

ASSUME NullAssumption == NoNode \notin ArticleNodes

\* A document: a durable key has one node.
Revisions ==
    {doc \in SUBSET ArticleNodes :
        /\ doc # {} /\ Cardinality(doc) <= MaxNodesSeen
        /\ \A n, m \in doc : Key(n) = Key(m) => n = m}

\* The mappings a reviewer can lay down: an old key at most once.
Mappings(old, new) ==
    {ms \in SUBSET (Keys(old) \X Keys(new)) : \A p, q \in ms : p[1] = q[1] => p = q}

ReviewInit ==
    /\ shown \in Revisions
    /\ offered = [revision |-> 1, doc |-> shown]
    /\ review = NoReview
    /\ unseen = {}

\* Environment: an amendment comes into force.
Amend ==
    /\ offered.revision < MaxRevisions
    /\ \E doc \in Revisions : offered' = [revision |-> offered.revision + 1, doc |-> doc]
    /\ UNCHANGED <<shown, review, unseen>>

\* A reviewer writes <reviewDir>/<lawId>.json for the revision in force.
LayDownReview ==
    /\ review = NoReview
    /\ \E ms \in Mappings(shown, offered.doc), guard \in BOOLEAN :
          review' = [revision |-> offered.revision, mappings |-> ms, guardApproved |-> guard]
    /\ UNCHANGED <<shown, offered, unseen>>

\* assertExpectedMatch: a decision for another revision fails the law.
ReviewIsOf(revision) == review # NoReview => review.revision = revision

\* processOneLaw: the diff is taken against a revision without nodes, and the
\* old one is said to have none (refresh-service.ts:389-399).
RefreshLaw ==
    /\ offered.doc # shown
    /\ ReviewIsOf(offered.revision)
    /\ Publishable({}, 0, offered.doc, {}, review)
    /\ shown' = offered.doc
    /\ unseen' = IF DiffPublishable(shown, offered.doc, review) THEN {}
                 ELSE Held(shown, offered.doc)
    /\ UNCHANGED <<offered, review>>

\* The refresh is run without reviewDir any more, or for the next revision.
DropReview ==
    /\ review # NoReview
    /\ review' = NoReview
    /\ UNCHANGED <<shown, offered, unseen>>

ReviewNext == Amend \/ LayDownReview \/ RefreshLaw \/ DropReview

ReviewSpec == ReviewInit /\ [][ReviewNext]_reviewVars

-----------------------------------------------------------------------------
\* A text that only changed its number is never told as removed here and added
\* there: where the diff cannot pair the two, it holds them, and a verdict on it
\* is favourable only if the review names a counterpart for each.
NothingMovesUnseen ==
    \A r \in Removed(shown, offered.doc), a \in Added(shown, offered.doc) :
        a \in Alike(r, offered.doc) /\ DiffPublishable(shown, offered.doc, review)
        => /\ review # NoReview
           /\ \E p \in review.mappings : p[1] = Key(r)
           /\ \E p \in review.mappings : p[2] = Key(a)

\* Design document, 3.2, and plan, global constraints: a law in which a number
\* moved is kept back until a reviewer has said what became of it.
UnreviewedMoveIsHeld == unseen = {}
=============================================================================
