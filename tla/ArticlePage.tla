------------------------------ MODULE ArticlePage ------------------------------
(***************************************************************************)
(* How the text of the law reaches the page.  The parser cuts an element   *)
(* of the XML into rows and gives each row its text (parse-law-xml.ts);    *)
(* the page groups the rows under the articles (full-law-document.ts),     *)
(* groups those of an article into segments (article-segments.ts), and     *)
(* shows every segment (ChapterArticleBlock, article-renderer.tsx), with   *)
(* the links cut out of its text (link-renderer.tsx).  Three programs      *)
(* decide where a sentence stands, and none of them sees all of it.        *)
(***************************************************************************)
EXTENDS Integers, Sequences, SequencesExt, FiniteSets, FiniteSetsExt

CONSTANTS
    MaxElements,  \* a bound on the elements of a document
    TextLength,   \* the length of a text with links
    MaxLinks      \* a bound on the links of a text

ASSUME PageAssumption == {MaxElements, TextLength, MaxLinks} \subseteq Nat

VARIABLES
    xml,    \* the elements in the order of the XML: [kind, under, odd, again]
    linked  \* the links of one text, by their start: pairs of places

pageVars == <<xml, linked>>

-----------------------------------------------------------------------------
\* What stands directly below what; 0 is the law.  odd is a paragraph without a
\* number, a column without text, or a cell that reaches down into the next row;
\* again is a column whose text begins with the words of the column before it.
ChildKinds(kind) ==
    CASE kind = "law"          -> {"chapter", "article", "appdx_table", "paragraph"}
      [] kind = "chapter"      -> {"article"}
      [] kind = "article"      -> {"paragraph"}
      [] kind = "appdx_table"  -> {"table_struct", "remarks"}
      [] kind = "paragraph"    -> {"table_struct", "item"}
      [] kind = "item"         -> {"column", "subitem1"}
      [] kind = "subitem1"     -> {"column"}
      [] kind = "table_struct" -> {"table", "remarks"}
      [] kind = "table"        -> {"table_row"}
      [] kind = "table_row"    -> {"table_column"}
      [] kind \in {"table_column", "remarks"} -> {"item"}
      [] OTHER                 -> {}

KindOf(e) == IF e = 0 THEN "law" ELSE xml[e].kind
Elements == DOMAIN xml
Children(e) == {c \in Elements : xml[c].under = e}

\* The elements above e.
Above(e) ==
    LET up[x \in 0 .. Len(xml)] ==
            IF x = 0 THEN {} ELSE {xml[x].under} \cup up[xml[x].under]
    IN  up[e]

\* A sentence of its own: not where the columns or the items below have it.
HasSentence(e) ==
    /\ xml[e].kind # "table_row"
    /\ xml[e].kind = "column" => ~xml[e].odd
    /\ xml[e].kind = "table_column" => Children(e) = {}
    /\ \A c \in Children(e) : xml[c].kind # "column"

Sentences == {e \in Elements : HasSentence(e)}

\* TAG_TO_LEVEL: Remarks is none of its tags, so what is below it gets a row of the
\* element above it.
Rows == {e \in Elements : xml[e].kind # "remarks"}
RowParent(e) == IF KindOf(xml[e].under) = "remarks" THEN xml[xml[e].under].under ELSE xml[e].under
Depth(e) == Cardinality(Above(e) \cap Rows)

\* extractTextFromNode: an element of another level is left out, but not below one
\* that has no level: the sentence with its columns, the remarks with their items.
TextOf(e) ==
    {s \in Sentences :
        \/ s = e
        \/ xml[s].kind = "column" /\ xml[s].under = e
        \/ \E r \in Children(e) : xml[r].kind = "remarks" /\ (s = r \/ r \in Above(s))}

-----------------------------------------------------------------------------
Anchor(e) == [type |-> "anchor", row |-> e, shown |-> <<>>]

\* The columns that follow an item, as far as they are its own.
ColumnsOf(e) == {c \in Children(e) : xml[c].kind = "column"}
NthColumn(e, n) == {c \in ColumnsOf(e) : Cardinality({d \in ColumnsOf(e) : d <= c}) = n}

\* keyword and body: the text of the columns 1 and 2.
IsDefinition(e) ==
    /\ xml[e].kind = "item"
    /\ \A n \in {1, 2} : NthColumn(e, n) \cap Sentences # {}

InOrder(S) == FlattenSeq([e \in Elements |-> IF e \in S THEN <<e>> ELSE <<>>])

\* structuredRows: the rows of a table and the cells of a row.
RowsOf(t) == InOrder({r \in Children(t) : xml[r].kind = "table_row"})
CellsOf(r) == InOrder({c \in Children(r) : xml[c].kind = "table_column"})

\* getTableHeaderRowCount: the first row with the rows its cells reach into.
HeaderRowCount(rows) ==
    IF rows = <<>> THEN 0
    ELSE Min({Len(rows), Max({1} \cup {IF xml[c].odd THEN 2 ELSE 1 : c \in ToSet(CellsOf(rows[1]))})})

Cells(rows) == FlattenSeq([i \in DOMAIN rows |-> CellsOf(rows[i])])

\* TableBlock: the rows of the head, then those of the body.
HeadCells(t) == Cells(SubSeq(RowsOf(t), 1, HeaderRowCount(RowsOf(t))))
BodyCells(t) == Cells(SubSeq(RowsOf(t), HeaderRowCount(RowsOf(t)) + 1, Len(RowsOf(t))))

\* DefinitionNode: the keyword and the body.
DefinitionCells(e) == InOrder(NthColumn(e, 1) \cup NthColumn(e, 2))

\* A bug: the rows that follow a table at its own depth are taken for a part of it.
BelongsToMutant(e, t) == Depth(e) >= Depth(t)

\* tableDescendants: what follows a table belongs to it as long as it is deeper.
BelongsTo(e, t) == Depth(e) > Depth(t)

\* The rows that buildSegments passes over: those of a table that stands before them,
\* and the columns of a definition.
Passed(rows, i) ==
    \/ \E t \in 1 .. i - 1 :
          xml[rows[t]].kind = "table" /\ \A j \in t + 1 .. i : BelongsTo(rows[j], rows[t])
    \/ xml[rows[i]].kind = "column" /\ IsDefinition(xml[rows[i]].under)

Segment(e) ==
    CASE xml[e].kind = "table" -> [type |-> "table", row |-> e, shown |-> HeadCells(e) \o BodyCells(e)]
      [] xml[e].kind \in {"table_struct", "table_row", "table_column", "column"} -> Anchor(e)
      [] IsDefinition(e) -> [type |-> "definition", row |-> e, shown |-> DefinitionCells(e)]
      [] OTHER -> [type |-> "node", row |-> e, shown |-> <<e>>]

\* buildSegments: an anchor also stands for a row that is passed over.
PageSegments(rows) ==
    [i \in DOMAIN rows |-> IF Passed(rows, i) THEN Anchor(rows[i]) ELSE Segment(rows[i])]

\* buildFullLawBlocks: what follows an article, up to the next one or a heading.
RootKinds == {"chapter", "article", "appdx_table"}
BlockOf(root) ==
    LET next == {e \in Elements : e > root /\ xml[e].kind \in RootKinds}
        last == IF next = {} THEN Len(xml) ELSE Min(next) - 1
    IN  InOrder({e \in Rows : root < e /\ e <= last})

\* ChapterArticleBlock: the first paragraph, if it has no number, stands on the line
\* of the heading, and is taken out of the segments.
ShownRows(root) ==
    IF xml[root].kind = "chapter" THEN <<root>>
    ELSE LET segments == PageSegments(BlockOf(root))
             nodes == {i \in DOMAIN segments : segments[i].type = "node"}
             inline == {i \in nodes :
                           /\ \A j \in nodes : i <= j
                           /\ xml[segments[i].row].kind = "paragraph" /\ xml[segments[i].row].odd}
             Shown(I) == FlattenSeq([i \in DOMAIN segments |->
                                        IF i \in I THEN segments[i].shown ELSE <<>>])
         IN  <<root>> \o Shown(inline) \o Shown(DOMAIN segments \ inline)

\* DefinitionNode: a body that begins with its keyword loses the words it has in common.
Cut(s) ==
    /\ xml[s].kind = "column" /\ xml[s].again
    /\ IsDefinition(xml[s].under) /\ s \in NthColumn(xml[s].under, 2)

\* The text of a row: its label once, and every sentence whole but the body that is cut.
NodeText(e) ==
    LET text == InOrder(TextOf(e))
    IN  [i \in DOMAIN text |->
            [sentence |-> text[i], whole |-> ~ (text[i] = e /\ Cut(e))]]

\* FullLawViewer shows the blocks one after the other.
PageRows ==
    LET roots == InOrder({e \in Elements : xml[e].kind \in RootKinds})
    IN  FlattenSeq([i \in DOMAIN roots |-> ShownRows(roots[i])])

PageText ==
    LET rows == PageRows IN FlattenSeq([i \in DOMAIN rows |-> NodeText(rows[i])])

\* renderLinkSegments: the pieces of a text; a link that overlaps an earlier one, is
\* empty or ends behind the text is not drawn.
Pieces(length, ranges) ==
    LET Add(s, range) ==
            IF range[1] < s.cursor \/ range[1] >= range[2] \/ range[2] > length THEN s
            ELSE [cursor |-> range[2],
                  pieces |-> s.pieces
                             \o (IF range[1] > s.cursor THEN <<<<s.cursor, range[1]>>>> ELSE <<>>)
                             \o <<range>>]
        upTo[n \in 0 .. Len(ranges)] ==
            IF n = 0 THEN [cursor |-> 0, pieces |-> <<>>] ELSE Add(upTo[n - 1], ranges[n])
        done == upTo[Len(ranges)]
    IN  IF done.cursor < length THEN Append(done.pieces, <<done.cursor, length>>) ELSE done.pieces

-----------------------------------------------------------------------------
Places == 0 .. TextLength + 1

PageInit ==
    /\ xml = <<>>
    /\ linked \in {ls \in UNION {[1 .. n -> Places \X Places] : n \in 0 .. MaxLinks} :
                     \A i, j \in DOMAIN ls : i < j => ls[i][1] <= ls[j][1]}

\* The XML goes on: below the last element or one above it.  The parser has put the
\* children of an element together by their tags, in the order of the schema.
NextElement ==
    /\ linked = <<>> /\ Len(xml) < MaxElements
    /\ \E e \in {Len(xml)} \cup (IF xml = <<>> THEN {} ELSE Above(Len(xml))) :
       \E kind \in ChildKinds(KindOf(e)), odd \in BOOLEAN, again \in BOOLEAN :
          /\ again =>
                kind = "column" /\ ~odd /\ KindOf(e) = "item" /\ Cardinality(Children(e)) = 1
          /\ odd => kind \in {"paragraph", "column", "table_column"}
          /\ odd /\ kind = "paragraph" => KindOf(e) = "article" /\ Children(e) = {}
          /\ e = 0 /\ kind = "paragraph" => \A c \in Children(e) : xml[c].kind = kind
          /\ \A c \in Children(e) : xml[c].kind # kind =>
                /\ kind # "column"
                /\ \A d \in Children(e) : xml[d].kind = kind => d > c
          /\ xml' = Append(xml, [kind |-> kind, under |-> e, odd |-> odd, again |-> again])
    /\ UNCHANGED linked

PageNext == NextElement
PageSpec == PageInit /\ [][PageNext]_pageVars

-----------------------------------------------------------------------------
\* What the three programs lose between them: what stands before the first article,
\* below a cell, in the title, the header row or the remarks of a table, and the
\* columns of a definition after the second.
Lost(s) ==
    \/ \A r \in 1 .. s : xml[r].kind \notin RootKinds
    \/ \E c \in Above(s) : KindOf(c) = "table_column"
    \/ xml[s].kind \in {"table_struct", "table", "remarks"}
    \/ xml[s].kind = "column" /\ IsDefinition(xml[s].under)
       /\ s \notin NthColumn(xml[s].under, 1) \cup NthColumn(xml[s].under, 2)

\* The remarks of an appendix stand in its caption, with all that is below them, and
\* their items once more as rows.
InAppendixRemarks(s) ==
    \E r \in Above(s) \cup {s} : KindOf(r) = "remarks" /\ KindOf(xml[r].under) = "appdx_table"

\* Every sentence of the law that is neither lost nor the body of a definition which
\* repeats the keyword stands on the page once and whole, that body stands there once
\* without the words it repeats, and all of them stand in the order of the law,
\* whatever rows they were cut into; a text in which links are drawn is still whole
\* (article-segments.ts:39-187, ChapterArticleBlock.tsx:244-283,
\* article-renderer.tsx:990-997, link-renderer.tsx:19-72).
TextIsShownOnce ==
    /\ LET page == PageText
           remarks == {s \in Sentences : InAppendixRemarks(s)}
           Shown(s, whole) ==
               Cardinality({i \in DOMAIN page : page[i] = [sentence |-> s, whole |-> whole]})
       IN  /\ \A s \in Sentences :
                 /\ Shown(s, TRUE) = (IF Lost(s) \/ Cut(s) THEN 0 ELSE 1)
                                     + (IF s \in remarks THEN 1 ELSE 0)
                 /\ Shown(s, FALSE) = IF Cut(s) /\ ~Lost(s) THEN 1 ELSE 0
           /\ \A i, j \in DOMAIN page :
                 i < j /\ {page[i].sentence, page[j].sentence} \cap remarks = {} =>
                     page[i].sentence < page[j].sentence
    /\ LET pieces == Pieces(TextLength, linked)
       IN  /\ pieces # <<>> => pieces[1][1] = 0 /\ pieces[Len(pieces)][2] = TextLength
           /\ \A i \in 2 .. Len(pieces) : pieces[i][1] = pieces[i - 1][2]
=============================================================================
