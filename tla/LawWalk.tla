------------------------------- MODULE LawWalk -------------------------------
(***************************************************************************)
(* parseLawXml (parse-law-xml.ts): the walk over an official XML document  *)
(* that turns its elements into nodes and names each of them twice.  The   *)
(* durable key is a path of numbers and survives insertions; the legacy    *)
(* key is a path of numbers and positions.  The document is any document:  *)
(* each step of the walk meets the next element, in the order in which the *)
(* XML parser lists them (parents first, equal tags together).  One of the *)
(* three parts of a law (main, supplementary, appendix) is walked; the     *)
(* others have keys of their own.                                          *)
(***************************************************************************)
EXTENDS Naturals, Sequences

CONSTANTS
    Levels,        \* the kinds of element that become nodes
    TableLevels,   \* those of which equal ones may stand side by side
    Labels,        \* an official number, or the fingerprint of an element that has none
    MaxNodes       \* a bound on the length of the document

ASSUME WalkAssumption ==
    /\ TableLevels \subseteq Levels
    /\ MaxNodes \in Nat

VARIABLES
    nodes,    \* the nodes so far
    open,     \* the calls of walk that have not returned: a node, and the key it passed on
    twins,    \* duplicateTableGroups and siblingSegments: how often a segment was met
    orders,   \* sortOrders: how many children a node has so far
    thrown    \* the document was refused

walkVars == <<nodes, open, twins, orders, thrown>>

Segments == Levels \X Labels

WalkInit ==
    /\ nodes = <<>>
    /\ open = <<>>
    /\ twins = [x \in (0 .. MaxNodes) \X Segments |-> 0]
    /\ orders = [i \in 0 .. MaxNodes |-> 0]
    /\ thrown = FALSE

StartsWith(key, prefix) ==
    Len(prefix) <= Len(key) /\ SubSeq(key, 1, Len(prefix)) = prefix

LegacyOf(parent) == IF parent = 0 THEN <<>> ELSE nodes[parent].legacy

\* A bug: only the element itself is renamed, not what stands below it.
MarkFirstMutant(key, first) ==
    IF key = first THEN [key EXCEPT ![Len(first)] = <<@[1], 1>>] ELSE key

\* The first of several equal elements, and all below it, when the second is met.
MarkFirst(key, first) ==
    IF StartsWith(key, first) THEN [key EXCEPT ![Len(first)] = <<@[1], 1>>] ELSE key

\* The next element stands d calls deep.  A step of a durable key is a segment
\* and, where equal elements stand side by side, which of them is meant (0: there
\* is one only).  Every call passes on the key that its node had when the call
\* was made.
Visit(d, segment) ==
    LET parent    == IF d = 0 THEN 0 ELSE open[d].node
        parentKey == IF d = 0 THEN <<>> ELSE open[d].key
        plain     == Append(parentKey, <<segment, 0>>)
        nth       == twins[<<parent, segment>>] + 1
        order     == orders[parent] + 1
        key       == IF nth = 1 THEN plain ELSE Append(parentKey, <<segment, nth>>)
        renamed   == IF nth = 2
                     THEN [i \in DOMAIN nodes |->
                             [nodes[i] EXCEPT !.key = MarkFirst(@, plain)]]
                     ELSE nodes
    IN  /\ ~thrown /\ Len(nodes) < MaxNodes
        /\ IF nth > 1 /\ segment[1] \notin TableLevels
           THEN thrown' = TRUE /\ UNCHANGED <<nodes, open, twins, orders>>
           ELSE /\ twins' = [twins EXCEPT ![<<parent, segment>>] = nth]
                /\ orders' = [orders EXCEPT ![parent] = order]
                /\ nodes' = Append(renamed,
                     [parent |-> parent, segment |-> segment, nth |-> nth, order |-> order,
                      key |-> key,
                      legacy |-> Append(LegacyOf(parent), <<segment, order>>)])
                /\ open' = Append(SubSeq(open, 1, d), [node |-> Len(nodes) + 1, key |-> key])
                /\ UNCHANGED thrown

WalkNext == \E d \in 0 .. Len(open), segment \in Segments : Visit(d, segment)

WalkSpec == WalkInit /\ [][WalkNext]_walkVars

-----------------------------------------------------------------------------
KeyOf(parent) == IF parent = 0 THEN <<>> ELSE nodes[parent].key

\* Equal elements under the same parent.
Twins(i) == {j \in 1 .. Len(nodes) : nodes[j].parent = nodes[i].parent
                                     /\ nodes[j].segment = nodes[i].segment}

\* Both keys name one node only (backfill-durable-keys.ts:163-164 and the unique
\* indexes of Article rely on it), however late an equal element is met.  A
\* durable key is the key of the parent and the node's own segment, and says
\* which of the equal elements is meant exactly where there are several: other
\* elements may come and go without renaming it.  And the keys that the calls in
\* progress hold are still those of their nodes, whatever was renamed meanwhile.
KeysNameNodes ==
    /\ \A i, j \in 1 .. Len(nodes) : i # j =>
           nodes[i].key # nodes[j].key /\ nodes[i].legacy # nodes[j].legacy
    /\ \A i \in 1 .. Len(nodes) :
           nodes[i].key = Append(KeyOf(nodes[i].parent),
               <<nodes[i].segment, IF Twins(i) = {i} THEN 0 ELSE nodes[i].nth>>)
    /\ \A d \in 1 .. Len(open) : nodes[open[d].node].key = open[d].key
=============================================================================
