---------------------------- MODULE ProvisionPaths ----------------------------
(***************************************************************************)
(* segment (src/parser/segment.ts): the corpus server's walk over the body *)
(* of a statute, which gives every provision the canonical path that       *)
(* citations, versions and edges refer to.  The statute is any statute:    *)
(* each step meets the next element in document order.  What an element    *)
(* becomes depends on the call its parent is in: the walk descends through *)
(* chapters and unknown elements, an article takes paragraphs only, a      *)
(* paragraph or an item keeps what is not an item below it as its text.    *)
(***************************************************************************)
EXTENDS Numerals

CONSTANTS
    Nums,          \* the attribute Num: a sequence of numbers, empty if missing
    Titles,        \* what an appendix title says after "dai", empty if nothing
    MaxElements    \* a bound on the length of the statute

ASSUME ProvisionAssumption ==
    /\ MaxElements \in Nat /\ Nums \subseteq Seq(Nat) /\ Titles \subseteq Seq(0 .. Myriad - 1)

VARIABLES
    elements,      \* the elements met so far
    open           \* the calls of walk and push... that have not returned

pathVars == <<elements, open>>

\* "group" is a part, a chapter, the main provisions or any element without a case
\* of its own; tables and figures have their prefix from their tag (appdxSlug).
Tags == {"group", "suppl", "article", "paragraph", "item", "table", "figure"}
AppendixTags == {"table", "figure"}

\* A title is written in numerals: its path has what the server reads in them.
Elements ==
    {e \in [tag : Tags, name : Nums \cup Titles] :
        e.name \in (IF e.tag \in AppendixTags THEN Titles ELSE Nums)}

PathsInit == elements = <<>> /\ open = <<>>

-----------------------------------------------------------------------------
Root == [parent |-> 0, tag |-> "group", name |-> <<>>, role |-> "walk", path |-> <<>>]

At(i) == IF i = 0 THEN Root ELSE elements[i]

\* The call that takes an element: walk, pushArticle, pushParagraph, pushItem,
\* pushAppdx; bodyOf, which keeps it as text; or none, which loses it.
RoleUnder(parent, tag) ==
    CASE parent.role = "walk" ->
            (IF tag \in AppendixTags THEN "appendix"
             ELSE IF tag \in {"article", "paragraph"} THEN tag ELSE "walk")
      [] parent.role = "article"   -> IF tag = "paragraph" THEN "paragraph" ELSE "lost"
      [] parent.role = "paragraph" -> IF tag = "item" THEN "item" ELSE "text"
      [] parent.role = "item"      -> IF tag = "item" THEN "item" ELSE "text"
      [] parent.role = "lost"      -> "lost"
      [] OTHER                     -> "text"

Provisions == {i \in DOMAIN elements :
                  elements[i].role \in {"article", "paragraph", "item", "appendix"}}

\* kanjiToNumber: every part between "no" is read for itself.
KanjiToNumber(title) == [k \in DOMAIN title |-> ServerReading(ToKanji[title[k]])]

\* appdxSlugSeen: one count for the whole statute, whatever the path prefix.
SlugSeen(e) ==
    {i \in DOMAIN elements : elements[i].role = "appendix"
                             /\ elements[i].tag = e.tag /\ elements[i].name = e.name}

\* pushAppdx: the slug of the title; the count behind it when it was met before;
\* the sequence number of the provision when the title says nothing.
AppendixStep(e) ==
    IF e.name = <<>> THEN [part |-> "appdx", name |-> <<Cardinality(Provisions)>>]
    ELSE [part |-> e.tag,
          name |-> KanjiToNumber(e.name)
                   \o (IF SlugSeen(e) = {} THEN <<>> ELSE <<Cardinality(SlugSeen(e)) + 1>>)]

\* A bug: the amendment is left out of the path.
SupplStepMutant(e) == <<>>

\* Every amending law has its own first article: its number is a name space.
SupplStep(e) == IF e.tag = "suppl" THEN <<[part |-> "suppl", name |-> e.name]>> ELSE <<>>

NumberOf(e) == IF e.tag = "paragraph" /\ e.name = <<>> THEN <<1>> ELSE e.name

PathUnder(parent, e, role) ==
    CASE role = "walk"     -> parent.path \o SupplStep(e)
      [] role = "appendix" -> Append(parent.path, AppendixStep(e))
      [] role \in {"article", "paragraph", "item"} ->
            Append(parent.path, [part |-> e.tag, name |-> NumberOf(e)])
      [] OTHER             -> <<>>

\* The next element stands below the d-th open call.
Visit(d, e) ==
    LET parent == At(IF d = 0 THEN 0 ELSE open[d])
        role   == RoleUnder(parent, e.tag)
    IN  /\ Len(elements) < MaxElements
        /\ elements' = Append(elements,
               [parent |-> IF d = 0 THEN 0 ELSE open[d], tag |-> e.tag, name |-> e.name,
                role |-> role, path |-> PathUnder(parent, e, role)])
        /\ open' = Append(SubSeq(open, 1, d), Len(elements) + 1)

PathsNext == \E d \in 0 .. Len(open), e \in Elements : Visit(d, e)

PathsSpec == PathsInit /\ [][PathsNext]_pathVars

-----------------------------------------------------------------------------
\* validateSegments, the paths that are met twice; shouldPublish holds the version
\* back for review when there is one.
DuplicatePaths ==
    {elements[i].path : i \in {x \in Provisions :
        \E j \in Provisions \ {x} : elements[j].path = elements[x].path}}

\* The element whose numbering an element belongs to: chapters do not count.
Within[i \in 0 .. Len(elements)] ==
    IF i = 0 \/ elements[i].role # "walk" \/ elements[i].tag = "suppl" THEN i
    ELSE Within[elements[i].parent]

\* A statute as the drafting rules number it: no number twice where it has to tell
\* elements apart, and no appendix title twice in the whole of it.
ProperlyNumbered ==
    \A i, j \in DOMAIN elements :
        i # j /\ elements[i].tag = elements[j].tag /\ elements[i].tag # "group"
              /\ elements[i].role = elements[j].role =>
          IF elements[i].role = "appendix"
          THEN elements[i].name # elements[j].name \/ elements[i].name = <<>>
          ELSE \/ NumberOf(elements[i]) # NumberOf(elements[j])
               \/ Within[elements[i].parent] # Within[elements[j].parent]

\* The canonical path names one provision of a properly numbered statute, whatever
\* its chapters, amendments and untitled appendices, so that the validation never
\* holds it back; and the path of a part extends the path of the whole
\* (segment.ts:457-470 and :473-506, design document 6.1).
PathsNameProvisions ==
    /\ ProperlyNumbered => DuplicatePaths = {}
    /\ \A i \in Provisions : elements[i].parent # 0 =>
           LET above == At(elements[i].parent).path
           IN  SubSeq(elements[i].path, 1, Len(elements[i].path) - 1) = above
=============================================================================
