----------------------------- MODULE ChapterScroll -----------------------------
(***************************************************************************)
(* The reader that loads a law window by window (chapter-window.ts, its    *)
(* route, ChapterScrollViewer.tsx, law-scroll-segments.ts and              *)
(* chapter-data-cache.ts).  A law is a row of scopes (chapters, or         *)
(* supplementary provisions); a scope has articles, numbered from one.  A  *)
(* supplementary provision is an article of its own scope: number one of   *)
(* the window's count, none of the database's count of its descendants.    *)
(* What the server returns and the page lists are items: an article with   *)
(* its paragraphs, or a supplementary provision with everything below it,  *)
(* its articles included, which are items of their own besides (Drawn).    *)
(* Articles outside the law book are numbered by the database and left out *)
(* of the answer.  The articles of a scope have one parent (with sections  *)
(* in between, the order by sortOrder would be another one).               *)
(***************************************************************************)
EXTENDS Integers, Sequences, SequencesExt, FiniteSets

CONSTANTS
    BookLaws,      \* laws: sequences of [roots, whole, hidden]
    Half,          \* getChapterWindow: articles on either side of the target
    PageSize,      \* getChapterArticlesPaginated: limit
    MaxOpenings,   \* a bound on the pages opened
    NoCursor       \* null: nothing left in this scope; no number from one on

ASSUME ScrollAssumption ==
    /\ Half \in Nat /\ PageSize \in Nat \ {0} /\ MaxOpenings \in Nat /\ NoCursor \notin Nat \ {0}
    /\ \A l \in BookLaws :
           /\ l \in Seq([roots : Nat, whole : BOOLEAN, hidden : SUBSET Nat])
           /\ \A s \in DOMAIN l : l[s].hidden \subseteq 1 .. l[s].roots

VARIABLES
    law,        \* the law in the database
    segments,   \* what the page shows: one segment for each scope
    fetching,   \* the requests in flight: at most one for each direction
    cut,        \* the directions whose request was in flight when the law was switched
    failed,     \* errorBefore, errorAfter
    memory,     \* chapter-data-cache, by scope; <<>> if nothing is kept
    origin,     \* the first item of the window, and whether the cache replaced it
    switched,   \* the law was switched since the page was opened
    openings    \* how many pages were opened

scrollVars == <<law, segments, fetching, cut, failed, memory, origin, switched, openings>>

Directions == {"before", "after"}
NoRequest == [to |-> 0, cursor |-> NoCursor]

ScrollInit ==
    /\ law \in BookLaws
    /\ segments = <<>> /\ openings = 0 /\ cut = {} /\ switched = FALSE
    /\ origin = [article |-> <<0, 0>>, replaced |-> FALSE]
    /\ fetching = [d \in Directions |-> NoRequest] /\ failed = [d \in Directions |-> FALSE]
    /\ memory = [s \in DOMAIN law |-> <<>>]

-----------------------------------------------------------------------------
(* The server.  An item is <<its scope, its number among the descendants>>; a  *)
(* supplementary provision itself has number zero.                             *)

Offset(s) == IF law[s].whole THEN 1 ELSE 0

\* Articles of one scope by their place in it.
ByPlace(A) ==
    [k \in 1 .. Cardinality(A) |->
        CHOOSE a \in A : Cardinality({b \in A : b[2] <= a[2]}) = k]

\* fetchGroupedArticlesInScopePaged: numbered with the hidden ones, then filtered.
Fetched(s, start, end) ==
    ByPlace({<<s, n>> : n \in {m \in 1 .. law[s].roots :
                                 m \in start .. end - 1 /\ m \notin law[s].hidden}})

\* fetchScopeDescendants, for a supplementary provision: all there is below it.
Children(a) == IF a[2] = 0 THEN Fetched(a[1], 1, law[a[1]].roots + 1) ELSE <<>>

\* ChapterArticleBlock: an item is its root and below it all of its children.
Drawn(a) == <<a>> \o Children(a)

\* countRootArticlesInScope and the scope itself: the visible ones.
Total(s) == law[s].roots - Cardinality(law[s].hidden) + Offset(s)

Larger(a, b) == IF a > b THEN a ELSE b
Smaller(a, b) == IF a < b THEN a ELSE b

\* getNextScrollScope: the scope of the next article in the book.
NextScope(s) ==
    LET later == {t \in DOMAIN law : t > s /\ Total(t) > 0}
    IN  IF later = {} THEN 0 ELSE CHOOSE t \in later : \A u \in later : t <= u

\* Both queries end alike: the cursors are counted from what was returned.
Cursors(s, start, found, step) ==
    LET last == start + Len(found) - 1
    IN  [scope |-> s, articles |-> found, next |-> NextScope(s),
         before |-> IF start > 1 THEN Larger(1, start - step) ELSE NoCursor,
         after  |-> IF last < Total(s) THEN last + 1 ELSE NoCursor]

\* The scope itself, with its children, and then its articles as items.
WithScope(s, start, found) == IF law[s].whole /\ start = 1 THEN <<<<s, 0>>>> \o found ELSE found

\* resolveChapterScopeId: the chapter an article is in, or else the top of its tree.
ScopeOf(a) == a[1]

\* getChapterWindow, for an article that may be shown.
Window(a) ==
    LET target == IF a[2] = 0 THEN 1 ELSE a[2]
        start  == Larger(1, target - Half)
        s      == ScopeOf(a)
    IN  Cursors(s, start, WithScope(s, start, Fetched(s, start, target + Half + 1)), Half)

\* A bug: the end of a page after the cursor is one too high for a supplementary
\* provision, whose descendants start one lower.
DescendantMutant(s, number) == Larger(1, number)

\* getChapterArticlesPaginated: from the count of the window to that of the database.
Descendant(s, number) == Larger(1, number - Offset(s))

Start(cursor, direction) ==
    IF direction = "before" THEN Larger(1, cursor - PageSize) ELSE cursor

Page(s, cursor, direction) ==
    LET start == Start(cursor, direction)
        end   == IF direction = "before" THEN cursor
                 ELSE Smaller(Total(s) + 1, cursor + PageSize)
    IN  Cursors(s, start,
                WithScope(s, start, Fetched(s, Descendant(s, start), Descendant(s, end))),
                PageSize)

\* The law is switched after the route has found the article: the queries that come
\* later find nothing, and the first of them are the count and the articles.
Seen == {{}, {"count"}, {"count", "articles"}}

CutPage(s, cursor, direction, seen) ==
    LET start == Start(cursor, direction)
        page  == IF "articles" \in seen THEN Page(s, cursor, direction)
                 ELSE Cursors(s, start, WithScope(s, start, <<>>), PageSize)
    IN  [page EXCEPT !.next = 0, !.after = IF seen = {} THEN NoCursor ELSE @]

-----------------------------------------------------------------------------
(* The page.                                                                  *)

FirstSegment == segments[1]
LastSegment  == segments[Len(segments)]

Shown == FlattenSeq([i \in DOMAIN segments |-> segments[i].articles])

\* A bug: the answer is taken as it comes.
WithoutMutant(incoming, known) == incoming

\* What is not there yet; an answer is in the order of the places.
Without(incoming, known) == ByPlace(ToSet(incoming) \ known)

\* The effect on segments: what is shown is kept for the next visit.
Kept(shown) ==
    [s \in DOMAIN memory |->
        LET of == {i \in DOMAIN shown : shown[i].scope = s /\ shown[i].articles # <<>>}
        IN  IF of = {} THEN memory[s] ELSE shown[CHOOSE i \in of : \A j \in of : j <= i].articles]

\* A page is opened at an article; the requests of the page that was left change
\* nothing any more.  A cache that has at least as many articles replaces those of
\* the window, not its cursors.
Open(s, n) ==
    LET window == Window(<<s, n>>)
        adopt  == memory[s] # <<>> /\ Len(memory[s]) >= Len(window.articles)
        first  == IF adopt THEN [window EXCEPT !.articles = memory[s]] ELSE window
    IN  /\ openings < MaxOpenings
        /\ IF n = 0 THEN law[s].whole ELSE n \notin law[s].hidden
        /\ openings' = openings + 1
        /\ origin' = [article |-> window.articles[1], replaced |-> first # window]
        /\ segments' = <<first>>
        /\ memory' = Kept(<<first>>)
        /\ fetching' = [d \in Directions |-> NoRequest] /\ cut' = {} /\ switched' = FALSE
        /\ failed' = [d \in Directions |-> FALSE]
        /\ UNCHANGED law

\* fetchAfter: the rest of the last scope first, the next scope then.
FetchAfter ==
    /\ segments # <<>> /\ fetching["after"] = NoRequest
    /\ \/ /\ LastSegment.after # NoCursor
          /\ fetching' = [fetching EXCEPT !["after"] =
                          [to |-> LastSegment.scope, cursor |-> LastSegment.after]]
       \/ /\ LastSegment.after = NoCursor /\ LastSegment.next # 0
          /\ fetching' = [fetching EXCEPT !["after"] = [to |-> LastSegment.next, cursor |-> 1]]
    /\ failed' = [failed EXCEPT !["after"] = FALSE]
    /\ UNCHANGED <<law, segments, cut, memory, origin, switched, openings>>

\* fetchBefore: only in the first scope, and only when the button is pressed.
FetchBefore ==
    /\ segments # <<>> /\ fetching["before"] = NoRequest /\ FirstSegment.before # NoCursor
    /\ fetching' = [fetching EXCEPT !["before"] =
                    [to |-> FirstSegment.scope, cursor |-> FirstSegment.before]]
    /\ failed' = [failed EXCEPT !["before"] = FALSE]
    /\ UNCHANGED <<law, segments, cut, memory, origin, switched, openings>>

\* mergePageIntoLastSegment
Extended(page) ==
    [segments EXCEPT ![Len(segments)] =
        [LastSegment EXCEPT !.articles = @ \o Without(page.articles, ToSet(@)),
                            !.after = page.after, !.next = page.next]]

\* appendNextScopeSegment
Appended(page) ==
    IF \E i \in DOMAIN segments : segments[i].scope = page.scope THEN segments
    ELSE Append(segments, [page EXCEPT !.articles = Without(@, ToSet(Shown))])

\* What the server may answer.  After a switch the route finds the article for those
\* requests only that were in flight before it.
Answers(d) ==
    LET request == fetching[d]
        page    == Page(request.to, request.cursor, d)
    IN  IF ~ switched THEN {page}
        ELSE IF d \in cut
             THEN {page} \cup {CutPage(request.to, request.cursor, d, seen) : seen \in Seen}
             ELSE {}

\* What is kept for the revision in the database.
Remembered(shown) == IF switched THEN memory ELSE Kept(shown)

AnswerAfter ==
    LET request == fetching["after"]
    IN  /\ request # NoRequest
        /\ \E page \in Answers("after") :
               segments' = IF request.to = LastSegment.scope THEN Extended(page) ELSE Appended(page)
        /\ memory' = Remembered(segments')
        /\ fetching' = [fetching EXCEPT !["after"] = NoRequest] /\ cut' = cut \ {"after"}
        /\ UNCHANGED <<law, failed, origin, switched, openings>>

\* mergeArticles: sorted by the place in the chapter, unless there is nothing new.
AnswerBefore ==
    LET known       == ToSet(FirstSegment.articles)
        fresh(page) == ToSet(page.articles) \ known
    IN  /\ fetching["before"] # NoRequest
        /\ \E page \in Answers("before") :
               segments' = [segments EXCEPT ![1] =
                   [FirstSegment EXCEPT
                       !.articles = IF fresh(page) = {} THEN @ ELSE ByPlace(fresh(page) \cup known),
                       !.before = page.before]]
        /\ memory' = Remembered(segments')
        /\ fetching' = [fetching EXCEPT !["before"] = NoRequest] /\ cut' = cut \ {"before"}
        /\ UNCHANGED <<law, failed, origin, switched, openings>>

\* The network fails, or the article that the page was opened at is not found any more.
PageFails(d) ==
    /\ fetching[d] # NoRequest
    /\ fetching' = [fetching EXCEPT ![d] = NoRequest]
    /\ cut' = cut \ {d}
    /\ failed' = [failed EXCEPT ![d] = TRUE]
    /\ UNCHANGED <<law, segments, memory, origin, switched, openings>>

\* The refresh switches the law while a page is open.  The articles of the next
\* revision have other ids, and so has its part of the cache.
SwitchLaw ==
    /\ segments # <<>> /\ ~ switched
    /\ switched' = TRUE
    /\ cut' = {d \in Directions : fetching[d] # NoRequest}
    /\ memory' = [s \in DOMAIN memory |-> <<>>]
    /\ UNCHANGED <<law, segments, fetching, failed, origin, openings>>

\* Half an hour has passed.
Expire(s) ==
    /\ memory[s] # <<>>
    /\ memory' = [memory EXCEPT ![s] = <<>>]
    /\ UNCHANGED <<law, segments, fetching, cut, failed, origin, switched, openings>>

ScrollNext ==
    \/ \E s \in DOMAIN law : Expire(s) \/ \E n \in 0 .. law[s].roots : Open(s, n)
    \/ FetchAfter \/ FetchBefore \/ AnswerAfter \/ AnswerBefore \/ SwitchLaw
    \/ \E d \in Directions : PageFails(d)

ScrollSpec == ScrollInit /\ [][ScrollNext]_scrollVars

-----------------------------------------------------------------------------
\* The items of the law from one of them on.
TextFrom(a) ==
    LET text == FlattenSeq([s \in DOMAIN law |->
                    [i \in 1 .. law[s].roots + Offset(s) |-> <<s, i - Offset(s)>>]])
    IN  SubSeq(text, SelectInSeq(text, LAMBDA b : b = a), Len(text))

\* No item is loaded twice, whatever windows, pages and caches overlap, and a scope has
\* one segment (the page gives both React keys, and chapter-window-api.test.ts:283-294
\* asks it of one page).  What two items both draw is one of them, an article, and the
\* other is the supplementary provision it belongs to: such an article stands twice on
\* the page, with the provision and by itself, and nothing else does
\* (chapter-window.ts:570-573, ChapterArticleBlock.tsx:330-371).
NothingLoadedTwice ==
    /\ IsInjective(Shown)
    /\ \A i, j \in DOMAIN segments : segments[i].scope = segments[j].scope => i = j
    /\ \A i, j \in DOMAIN Shown : i # j =>
           \A a \in ToSet(Drawn(Shown[i])) \cap ToSet(Drawn(Shown[j])) :
               {Shown[i], Shown[j]} = {a, <<a[1], 0>>}

\* The items from the first one of the window on are those of the law in its order
\* without a gap, and all of them once nothing is left to load, for a law that is in the
\* book as a whole and was not switched since, and a page that the cache has not changed
\* (ChapterScrollViewer.tsx:24-37).  The items are what is loaded once; what a
\* supplementary provision draws besides is in NothingLoadedTwice.
ReadingOnSkipsNothing ==
    /\ segments # <<>> /\ ~ origin.replaced /\ ~ switched
    /\ \A s \in DOMAIN law : law[s].hidden = {}
    => LET read == SubSeq(Shown, SelectInSeq(Shown, LAMBDA b : b = origin.article), Len(Shown))
       IN  /\ IsPrefix(read, TextFrom(origin.article))
           /\ LastSegment.after = NoCursor /\ LastSegment.next = 0 =>
                  read = TextFrom(origin.article)
=============================================================================
