------------------------------- MODULE TextMarks -------------------------------
(***************************************************************************)
(* The reader's own marks on the text of an article: text-selection.ts     *)
(* turns what was selected on the page into a range of the law's text, the *)
(* server keeps the range, user-highlight-renderer.ts cuts the page's text *)
(* nodes along the ranges and puts them together again, under              *)
(* HighlightWrapper's effect and UserHighlightContext's list.  The text is *)
(* a row of tokens: plain ones are shown as they stand, the others         *)
(* (numbers, units, fractions) are shown in another form and taken as a    *)
(* whole.  A label, which is not text of the law, stands in front.         *)
(***************************************************************************)
EXTENDS Integers, Sequences, SequencesExt, FiniteSets

CONSTANTS
    Tokens,       \* the article: a sequence of [kind, length, shown]
    MaxMade       \* a bound on the highlights made

ASSUME MarksAssumption ==
    /\ MaxMade \in Nat
    /\ Tokens \in Seq([kind : {"plain", "number", "unit", "fraction"},
                       length : Nat \ {0}, shown : Nat \ {0}])
    /\ \A t \in DOMAIN Tokens : Tokens[t].kind = "plain" => Tokens[t].shown = Tokens[t].length

VARIABLES
    dom,        \* by span the text nodes in their order: [text, mark]; 0 is the label
    shownMarks, \* UserHighlightContext: the highlights of the article
    rows,       \* the table of highlights
    making,     \* creations under way: sent, or answered and not arrived
    loading,    \* the batch request: none, asked, or the rows it has read
    meant,      \* what the reader had selected, by highlight
    blurred,    \* highlights made on a torn text, or beyond a span's first node
    torn        \* two ranges of this page's list have overlapped

marksVars == <<dom, shownMarks, rows, making, loading, meant, blurred, torn>>

-----------------------------------------------------------------------------
(* The text.  A character shown is <<its token, its place>>.                  *)

Plain(t) == Tokens[t].kind = "plain"

\* data-source-start, data-source-end
SourceStart(t) ==
    LET start[u \in DOMAIN Tokens] == IF u = 1 THEN 0 ELSE start[u - 1] + Tokens[u - 1].length
    IN  start[t]
SourceEnd(t) == SourceStart(t) + Tokens[t].length

CharsOf(t) == [i \in 1 .. Tokens[t].shown |-> <<t, i>>]
Node(text, id) == [text |-> text, mark |-> id]

\* renderTokenNode: one span and one text node for a token; a fraction has three.
Original ==
    [t \in 0 .. Len(Tokens) |->
        IF t = 0 THEN <<Node(<<<<0, 1>>>>, 0)>>
        ELSE IF Tokens[t].kind = "fraction"
        THEN [i \in 1 .. Tokens[t].shown |-> Node(<<<<t, i>>>>, 0)]
        ELSE <<Node(CharsOf(t), 0)>>]

TextOf(nodes) == FlattenSeq([i \in DOMAIN nodes |-> nodes[i].text])

MarksInit ==
    /\ dom = Original /\ shownMarks = <<>> /\ rows = {} /\ making = {}
    /\ loading = [at |-> "asked", list |-> <<>>]
    /\ meant = <<>> /\ blurred = {} /\ torn = FALSE

-----------------------------------------------------------------------------
(* Rendering.                                                                 *)

Reaches(h, t) == SourceStart(t) < h.to /\ SourceEnd(t) > h.from

\* The highlights of a list that reach a token.
Over(t, list) == {i \in DOMAIN list : t # 0 /\ Reaches(list[i], t)}

Bigger(a, b) == IF a > b THEN a ELSE b
Lesser(a, b) == IF a < b THEN a ELSE b

\* localStart, localEnd
LocalFrom(h, t) == Bigger(0, h.from - SourceStart(t))
LocalTo(h, t) == Lesser(Tokens[t].length, h.to - SourceStart(t))

\* The ranges come by their start; equal ones stay in their order.
Leftmost(t, list, rest) ==
    CHOOSE i \in rest : \A j \in rest :
        \/ LocalFrom(list[i], t) < LocalFrom(list[j], t)
        \/ LocalFrom(list[i], t) = LocalFrom(list[j], t) /\ i <= j

\* A piece of a text, unless nothing of it is there.
Cut(text, from, to, id) ==
    LET end == Lesser(to, Len(text))
    IN  IF from < end THEN <<Node(SubSeq(text, from + 1, end), id)>> ELSE <<>>

\* The next range, with what is before it.
CutNext(t, text, list, done) ==
    LET i    == Leftmost(t, list, done.rest)
        from == LocalFrom(list[i], t)
        to   == LocalTo(list[i], t)
    IN  [nodes  |-> done.nodes \o Cut(text, done.cursor, from, 0) \o Cut(text, from, to, list[i].id),
         cursor |-> to, rest |-> done.rest \ {i}]

\* renderPlainSpanHighlights: range after range, and what is left after the last; only
\* the first text node is cut.
Pieces(t, nodes, list) ==
    LET text == nodes[1].text
        plan[n \in 0 .. Cardinality(Over(t, list))] ==
            IF n = 0 THEN [nodes |-> <<>>, cursor |-> 0, rest |-> Over(t, list)]
            ELSE CutNext(t, text, list, plan[n - 1])
        last == plan[Cardinality(Over(t, list))]
    IN  last.nodes \o Cut(text, last.cursor, Len(text), 0) \o Tail(nodes)

\* wrapEntireSpan: all of a token, with the first highlight that reaches it.
Wrapped(t, nodes, list) ==
    LET first == CHOOSE i \in Over(t, list) : \A j \in Over(t, list) : i <= j
    IN  [k \in DOMAIN nodes |-> [nodes[k] EXCEPT !.mark = list[first].id]]

\* applyUserHighlights
Marked(d, list) ==
    [t \in DOMAIN d |->
        IF Over(t, list) = {} THEN d[t]
        ELSE IF Plain(t) THEN Pieces(t, d[t], list)
        ELSE Wrapped(t, d[t], list)]

\* The marks of a span go, its nodes stay.
Bare(nodes) == [i \in DOMAIN nodes |-> [nodes[i] EXCEPT !.mark = 0]]

\* A bug: the marks are taken away and the pieces of text stay apart.
UnmarkedMutant(d) == [t \in DOMAIN d |-> Bare(d[t])]

\* The function applyUserHighlights returns: the marks go, neighbours are joined.
Unmarked(d) ==
    [t \in DOMAIN d |->
        IF t # 0 /\ Plain(t) THEN <<Node(TextOf(d[t]), 0)>> ELSE Bare(d[t])]

Overlap(list) ==
    \E i, j \in DOMAIN list : i < j /\ list[i].from < list[j].to /\ list[j].from < list[i].to

\* HighlightWrapper's effect: the last list's marks go before this one's are put.
Render(list) ==
    /\ shownMarks' = list
    /\ dom' = Marked(Unmarked(dom), list)
    /\ torn' = (torn \/ Overlap(list))

-----------------------------------------------------------------------------
(* Selecting.  A place is <<a span, a text node of it, an offset in the node>>. *)

\* isBeforeOrEqual, and of one node the offset
Before(p, q) ==
    \/ p[1] < q[1]
    \/ p[1] = q[1] /\ (p[2] < q[2] \/ (p[2] = q[2] /\ p[3] < q[3]))

\* getSelectionContext and resolveSelectedSpans: the spans between the two places, and
\* for a plain one the offset, which counts from the text node it is in.
SelectionRange(start, end) ==
    LET first == Bigger(1, start[1])
        last  == end[1]
    IN  IF last = 0 THEN [from |-> 0, to |-> 0]
        ELSE [from |-> SourceStart(first)
                       + IF first = start[1] /\ Plain(first) THEN start[3] ELSE 0,
              to   |-> IF Plain(last) THEN SourceStart(last) + end[3] ELSE SourceEnd(last)]

Nodes == UNION {{<<t, i>> : i \in DOMAIN dom[t]} : t \in DOMAIN dom}
Places == UNION {{<<n[1], n[2], k>> : k \in 0 .. Len(dom[n[1]][n[2]].text)} : n \in Nodes}

\* What the reader sees selected; of a token that is not plain, all of it.
Selected(start, end) ==
    LET between == {p \in Places : p[1] # 0 /\ Before(start, p) /\ ~Before(end, p) /\ p[3] # 0}
        touched == {t \in DOMAIN Tokens : start[1] <= t /\ t <= end[1] /\ ~Plain(t)}
    IN  {dom[p[1]][p[2]].text[p[3]] : p \in between} \cup UNION {ToSet(CharsOf(t)) : t \in touched}

FirstOfSpan(p) == p[1] = 0 \/ ~Plain(p[1]) \/ p[2] = 1

\* handleContextMenu, then handleHighlight.  Which end was the anchor is put in order
\* by resolveSelectedSpans.
Highlight(start, end) ==
    LET range == SelectionRange(start, end)
        id    == Len(meant) + 1
    IN  /\ Len(meant) < MaxMade
        /\ Before(start, end)
        /\ range.from < range.to
        /\ meant' = Append(meant, Selected(start, end))
        /\ blurred' = IF ~torn /\ FirstOfSpan(start) /\ FirstOfSpan(end) THEN blurred
                      ELSE blurred \cup {id}
        /\ making' = making \cup {[id |-> id, from |-> range.from, to |-> range.to, stored |-> FALSE]}
        /\ UNCHANGED <<dom, shownMarks, rows, loading, torn>>

Ranged(h) == [id |-> h.id, from |-> h.from, to |-> h.to]

\* POST /api/user-highlights: the quote is that of the range, from the same text.
Store(h) ==
    /\ ~h.stored
    /\ rows' = rows \cup {Ranged(h)}
    /\ making' = (making \ {h}) \cup {[h EXCEPT !.stored = TRUE]}
    /\ UNCHANGED <<dom, shownMarks, loading, meant, blurred, torn>>

\* The answer: user-highlight-created, then addHighlight.
Created(h) ==
    /\ h.stored
    /\ making' = making \ {h}
    /\ Render(Append(shownMarks, Ranged(h)))
    /\ UNCHANGED <<rows, loading, meant, blurred>>

CreationFails(h) ==
    /\ making' = making \ {h}
    /\ UNCHANGED <<dom, shownMarks, rows, loading, meant, blurred, torn>>

\* filter
Without(list, id) ==
    LET kept[n \in 0 .. Len(list)] ==
            IF n = 0 THEN <<>>
            ELSE IF list[n].id = id THEN kept[n - 1] ELSE Append(kept[n - 1], list[n])
    IN  kept[Len(list)]

\* handleDeleteHighlight, with the row gone when the answer comes: its marks are
\* unwrapped at once, then removeHighlight.
Delete(h) ==
    /\ h \in ToSet(shownMarks)
    /\ rows' = {r \in rows : r.id # h.id}
    /\ Render(Without(shownMarks, h.id))
    /\ UNCHANGED <<making, loading, meant, blurred>>

\* POST /api/user-highlights/batch, by rangeStart; equal ones come in any order.
ReadRows ==
    /\ loading.at = "asked"
    /\ \E list \in [1 .. Cardinality(rows) -> rows] :
          /\ \A r \in rows : \E i \in DOMAIN list : list[i] = r
          /\ \A i, j \in DOMAIN list : i < j => list[i].from <= list[j].from
          /\ loading' = [at |-> "read", list |-> list]
    /\ UNCHANGED <<dom, shownMarks, rows, making, meant, blurred, torn>>

\* refresh: an article without rows is not in the answer and keeps its list.
Loaded ==
    /\ loading.at = "read"
    /\ loading' = [at |-> "none", list |-> <<>>]
    /\ Render(IF loading.list = <<>> THEN shownMarks ELSE loading.list)
    /\ UNCHANGED <<rows, making, meant, blurred>>

LoadFails ==
    /\ loading.at # "none"
    /\ loading' = [at |-> "none", list |-> <<>>]
    /\ UNCHANGED <<dom, shownMarks, rows, making, meant, blurred, torn>>

\* The page is left and opened again; answers still come, to the window.
Reopen ==
    /\ dom' = Original /\ shownMarks' = <<>> /\ torn' = FALSE
    /\ loading' = [at |-> "asked", list |-> <<>>]
    /\ UNCHANGED <<rows, making, meant, blurred>>

MarksNext ==
    \/ \E start, end \in Places : Highlight(start, end)
    \/ \E h \in making : Store(h) \/ Created(h) \/ CreationFails(h)
    \/ \E h \in ToSet(shownMarks) : Delete(h)
    \/ ReadRows \/ Loaded \/ LoadFails \/ Reopen

MarksSpec == MarksInit /\ [][MarksNext]_marksVars

-----------------------------------------------------------------------------
\* As long as no two ranges of a page's list have overlapped, the page shows the
\* article's text, every character once and in its place, whatever was marked,
\* deleted or loaded late; and a highlight colours what its reader had selected and
\* the tokens that were touched, no more and no less, if the selection began and ended
\* in the first text node of a span (text-selection.ts:11-14,
\* user-highlight-renderer.ts:10-15).
MarksAreWhatWasSelected ==
    ~torn =>
        /\ \A t \in DOMAIN dom : TextOf(dom[t]) = TextOf(Original[t])
        /\ \A h \in ToSet(shownMarks) : h.id \notin blurred =>
               UNION {ToSet(dom[n[1]][n[2]].text) :
                          n \in {m \in Nodes : dom[m[1]][m[2]].mark = h.id}} = meant[h.id]
        /\ \A n \in Nodes : dom[n[1]][n[2]].mark # 0 =>
               \E h \in ToSet(shownMarks) : h.id = dom[n[1]][n[2]].mark
=============================================================================
