----------------------------- MODULE RevisionText -----------------------------
(***************************************************************************)
(* What the refresh computes about the text of two revisions: the diff     *)
(* (diff-law-revisions.ts), the ranges of the book in a revision           *)
(* (range-resolution.ts), and the verdict on a candidate                   *)
(* (verify-candidate.ts).  A revision is the set of its nodes; the parser  *)
(* has seen to it that their durable keys differ (LawWalk).                *)
(***************************************************************************)
EXTENDS Integers, FiniteSets

CONSTANTS
    NoNode,       \* null
    NoReview,     \* no file of reviewed mappings for the law
    GuardShare    \* STRUCTURE_CHANGE_THRESHOLD, in per cent

ASSUME TextAssumption == GuardShare \in Nat

\* A node: [parent, level, number, body, content].  body and content stand for
\* the two checksums; the second one covers the number too.
Key(n) == <<n.parent, n.level, n.number>>
Keys(doc) == {Key(n) : n \in doc}

\* The node of doc that has the key of n.
Same(n, doc) == {m \in doc : Key(m) = Key(n)}

Removed(old, new) == {n \in old : Same(n, new) = {}}
Added(old, new)   == {n \in new : Same(n, old) = {}}

\* renumberKey: what a node keeps when only its number changes.
Alike(n, doc) == {m \in doc : m.parent = n.parent /\ m.level = n.level /\ m.body = n.body}

\* A removed and an added node that are each other's only counterpart.
Renumbered(old, new) ==
    {p \in Removed(old, new) \X Added(old, new) :
        Alike(p[1], Removed(old, new)) = {p[1]} /\ Alike(p[1], Added(old, new)) = {p[2]}}

ConsumedOld(old, new) == {p[1] : p \in Renumbered(old, new)}
ConsumedNew(old, new) == {p[2] : p \in Renumbered(old, new)}

\* The others that have a counterpart left; which one it is, is not guessed.
AmbiguousOld(old, new) ==
    {r \in Removed(old, new) \ ConsumedOld(old, new) :
        Alike(r, Added(old, new)) \ ConsumedNew(old, new) # {}}
AmbiguousNew(old, new) ==
    {a \in Added(old, new) \ ConsumedNew(old, new) :
        Alike(a, Removed(old, new)) \ ConsumedOld(old, new) # {}}

Item(kind, previous, candidate) ==
    [kind |-> kind, previous |-> previous, candidate |-> candidate]

\* The items that must not be published without a review.
Held(old, new) ==
    {Item("renumbered_candidate", p[1], p[2]) : p \in Renumbered(old, new)}
    \cup {Item("ambiguous", r, NoNode) : r \in AmbiguousOld(old, new)}
    \cup {Item("ambiguous", NoNode, a) : a \in AmbiguousNew(old, new)}

DiffItems(old, new) ==
    {Item("unchanged", p[1], p[2]) : p \in
        {p \in old \X new : Key(p[1]) = Key(p[2]) /\ p[1].content = p[2].content}}
    \cup {Item("modified", p[1], p[2]) : p \in
        {p \in old \X new : Key(p[1]) = Key(p[2]) /\ p[1].content # p[2].content}}
    \cup Held(old, new)
    \cup {Item("removed", r, NoNode) : r \in Removed(old, new)
            \ (ConsumedOld(old, new) \cup AmbiguousOld(old, new))}
    \cup {Item("added", NoNode, a) : a \in Added(old, new)
            \ (ConsumedNew(old, new) \cup AmbiguousNew(old, new))}

-----------------------------------------------------------------------------
\* A citation as it is written: what stands before the number of the article, and
\* that number.
Citation(before, number) == [before |-> before, number |-> number]

\* normalizeCitationToArticleNumber, findArticleNodesByNumber: only a citation
\* that starts with the number ("第206条") is reduced to it; a law's name in front
\* stays, and no article has such a number.
CitedArticles(c, doc) ==
    {n \in doc : n.level = "article" /\ c.before = "" /\ n.number = c.number}

\* resolveVerifiedRanges, for one range: either the whole document, or the
\* articles from one citation to another.  No answer is a blocked range.
RangeNodes(range, doc) ==
    IF range.rangeType # "article"
    THEN doc
    ELSE IF /\ Cardinality(CitedArticles(range.start, doc)) = 1
            /\ Cardinality(CitedArticles(range.end, doc)) = 1
         THEN CitedArticles(range.start, doc) \cup CitedArticles(range.end, doc)
         ELSE {}

RangeResolved(range, doc) == RangeNodes(range, doc) # {}

-----------------------------------------------------------------------------
\* Reviewed mappings pair an old key with a new one; an old key occurs once.
\* A pair must be named as it is, for an ambiguous node its own side suffices.
Covered(item, review) ==
    IF item.previous # NoNode /\ item.candidate # NoNode
    THEN <<Key(item.previous), Key(item.candidate)>> \in review.mappings
    ELSE \/ item.previous # NoNode
            /\ \E p \in review.mappings : p[1] = Key(item.previous)
         \/ item.candidate # NoNode
            /\ \E p \in review.mappings : p[2] = Key(item.candidate)

\* A bug: one mapping is taken for a review of everything.
DiffPublishableMutant(old, new, review) ==
    \/ Held(old, new) = {}
    \/ review # NoReview /\ \E item \in Held(old, new) : Covered(item, review)

\* checkDiffPublishable
DiffPublishable(old, new, review) ==
    \/ Held(old, new) = {}
    \/ review # NoReview /\ \A item \in Held(old, new) : Covered(item, review)

Distance(a, b) == IF a < b THEN b - a ELSE a - b

\* isStructureChange and isGuardApproved
StructureAccepted(count, new, review) ==
    \/ count = 0
    \/ 100 * Distance(Cardinality(new), count) < GuardShare * count
    \/ review # NoReview /\ review.guardApproved

\* verifyCandidate: old and count are what the caller says of the old revision.
Publishable(old, count, new, ranges, review) ==
    /\ new # {}
    /\ DiffPublishable(old, new, review)
    /\ \A range \in ranges : RangeResolved(range, new)
    /\ StructureAccepted(count, new, review)
=============================================================================
