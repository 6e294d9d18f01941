------------------------------ MODULE ReadingPlace -----------------------------
(***************************************************************************)
(* Where the reader is in a law shown as a whole: the article at the top   *)
(* of the page (ScrollActiveArticleContext), the address                   *)
(* (ScrollUrlSync), the entry in the table of contents (TocPanel, TocTree) *)
(* and the place the page is opened at (FullLawViewer).  A jump moves the  *)
(* page and says which article is meant; the scroll event it causes comes  *)
(* a frame later and must not say another one.  A frame first dispatches   *)
(* the scroll event, then runs the callbacks of requestAnimationFrame;     *)
(* React commits what was set at any time after.                           *)
(***************************************************************************)
EXTENDS Integers, Sequences, SequencesExt, FiniteSets, FiniteSetsExt

CONSTANTS
    Entries,      \* the law in its order: [level, parent, height]
    View,         \* the height of the page
    MaxTasks      \* a bound on the callbacks of a frame

\* ACTIVATION_OFFSET_PX, in the unit of the heights.
Trigger == 2

ASSUME PlaceAssumption ==
    /\ View \in Nat \ {0} /\ MaxTasks \in Nat
    /\ Entries \in Seq([level : STRING, parent : Nat, height : Nat])
    /\ \A e \in DOMAIN Entries :
           /\ Entries[e].height \in Nat \ {0}
           /\ Entries[e].parent \in 0 .. e - 1
    /\ \E e \in DOMAIN Entries : Entries[e].level = "article"

VARIABLES
    scrollTop,   \* the page's position
    shift,       \* what the fonts have added above the first article
    scrolled,    \* the scroll event to come: "none", "page" or "reader"
    suppressed,  \* suppressScrollRef
    tasks,       \* the callbacks of the next frame
    listening,   \* the effects have run: sentinels and listener are there
    active,      \* activeArticleIdRef, and the state as it was last set
    committed,     \* currentArticleId, as it was last committed
    url, lastPushed,
    opened,      \* targetArticleId
    expanded, stored,  \* the open headings, and those in sessionStorage
    goal,        \* history: the article last meant, 0 for the one scrolled to, -1 if unclear
    folded       \* history: the reader has closed a heading since the last commit

placeVars == <<scrollTop, shift, scrolled, suppressed, tasks, listening, active, committed,
               url, lastPushed, opened, expanded, stored, goal, folded>>

-----------------------------------------------------------------------------
Sentinels == {e \in DOMAIN Entries : Entries[e].level = "article"}
Headings == DOMAIN Entries \ Sentinels

Height(n) ==
    LET sum[k \in 0 .. Len(Entries)] == IF k = 0 THEN 0 ELSE sum[k - 1] + Entries[k].height
    IN  sum[n]
Top(e, extra) == Height(e - 1) + IF e > Min(Sentinels) THEN extra ELSE 0

\* What scrollTop can be.
Clamp(y, extra) ==
    LET most == Height(Len(Entries)) + extra - View
    IN  IF y < 0 \/ most < 0 THEN 0 ELSE IF y > most THEN most ELSE y

\* rebuildSentinelOrder: the articles in the order of the document.
InDocument ==
    [i \in 1 .. Cardinality(Sentinels) |->
        CHOOSE e \in Sentinels : Cardinality({d \in Sentinels : d <= e}) = i]

\* computeActiveFor: the last article at or above the line, found by halving.
Spied(y, extra) ==
    LET Above(i) == Top(InDocument[i + 1], extra) - y <= Trigger
        search[b \in (0 .. Len(InDocument)) \X (0 .. Len(InDocument))] ==
            LET mid == (b[1] + b[2]) \div 2
            IN  IF b[1] >= b[2] THEN b[1]
                ELSE IF Above(mid) THEN search[<<mid + 1, b[2]>>] ELSE search[<<b[1], mid>>]
        found == search[<<0, Len(InDocument)>>]
    IN  InDocument[IF found > 0 THEN found ELSE 1]

\* getAncestorIdsWithMap
Ancestors(e) ==
    LET up[x \in 0 .. Len(Entries)] ==
            IF x = 0 \/ Entries[x].parent = 0 THEN {}
            ELSE {Entries[x].parent} \cup up[Entries[x].parent]
    IN  up[e]

\* computeVisibleNodes: from top to bottom, below an entry that is shown and open.
Visible(open) ==
    LET shown[n \in 0 .. Len(Entries)] ==
            IF n = 0 THEN {}
            ELSE IF Entries[n].parent = 0 \/ Entries[n].parent \in shown[n - 1] \cap open
                 THEN shown[n - 1] \cup {n} ELSE shown[n - 1]
    IN  shown[Len(Entries)]

\* scrollTop is set to the entry's top; the event comes if this moves the page.
JumpTo(e) ==
    /\ scrollTop' = Clamp(Top(e, shift), shift)
    /\ scrolled' = IF scrollTop' = scrollTop THEN scrolled
                   ELSE IF scrolled = "none" THEN "page" ELSE scrolled

Clear == <<"clear", 0>>
Align == <<"align", 0>>
Spy == <<"spy", 0>>
Activate(e) == <<"activate", e>>

-----------------------------------------------------------------------------
\* The page as useLayoutEffect leaves it: at the article of the address.
OpenedAt(e, at, open) ==
    /\ scrollTop = at /\ shift = 0 /\ scrolled = "page" /\ suppressed = TRUE
    /\ tasks = <<Clear, Align>> /\ listening = FALSE
    /\ active = e /\ committed = e /\ url = e /\ lastPushed = e /\ opened = e
    /\ expanded = {} /\ stored = open /\ goal = e /\ folded = FALSE

PlaceInit == \E e \in DOMAIN Entries : OpenedAt(e, Clamp(Top(e, 0), 0), {})

Reload ==
    /\ scrollTop' = Clamp(Top(url, 0), 0) /\ shift' = 0 /\ scrolled' = "page" /\ suppressed' = TRUE
    /\ tasks' = <<Clear, Align>> /\ listening' = FALSE
    /\ active' = url /\ committed' = url /\ lastPushed' = url /\ opened' = url
    /\ expanded' = {} /\ goal' = url /\ folded' = FALSE
    /\ UNCHANGED <<url, stored>>

\* The effects: sentinels, listener and a first computation, then activateArticle with
\* the article of the address; the table of contents is opened down to it.
Mounted ==
    /\ ~listening /\ listening' = TRUE
    /\ active' = opened
    /\ expanded' = stored \cup Ancestors(opened)
    /\ stored' = expanded'
    /\ UNCHANGED <<scrollTop, shift, scrolled, suppressed, tasks, committed, url, lastPushed,
                   opened, goal, folded>>

\* The fonts come while the page still waits for its second alignment.
FontsArrive ==
    /\ shift = 0 /\ Align \in ToSet(tasks)
    /\ shift' = 1
    /\ UNCHANGED <<scrollTop, scrolled, suppressed, tasks, listening, active, committed, url,
                   lastPushed, opened, expanded, stored, goal, folded>>

ReaderScrolls(y) ==
    /\ y = Clamp(y, shift) /\ y # scrollTop
    /\ scrollTop' = y /\ scrolled' = "reader"
    /\ UNCHANGED <<shift, suppressed, tasks, listening, active, committed, url, lastPushed,
                   opened, expanded, stored, goal, folded>>

\* What a callback does: next are the callbacks it asks for.
Run(s, t) ==
    CASE t = Clear    -> [s EXCEPT !.suppressed = FALSE]
      [] t = Align    -> [s EXCEPT !.suppressed = TRUE, !.active = opened,
                                   !.next = Append(@, Clear),
                                   !.at = Clamp(Top(opened, shift), shift)]
      [] t = Spy      -> [s EXCEPT !.active = Spied(s.at, shift)]
      [] t[1] = "activate" -> [s EXCEPT !.active = t[2]]

Ran(s, queue) ==
    LET after[k \in 0 .. Len(queue)] == IF k = 0 THEN s ELSE Run(after[k - 1], queue[k])
    IN  after[Len(queue)]

\* One frame: the scroll event (onScroll), then the callbacks; those they ask for in
\* turn are for the next frame.
Frame ==
    LET heard == scrolled # "none" /\ listening /\ ~suppressed
        done  == Ran([suppressed |-> suppressed, active |-> active, at |-> scrollTop, next |-> <<>>],
                     IF heard THEN Append(tasks, Spy) ELSE tasks)
    IN  /\ tasks # <<>> \/ scrolled # "none"
        /\ scrollTop' = done.at /\ suppressed' = done.suppressed
        /\ active' = done.active /\ tasks' = done.next
        /\ scrolled' = IF done.at = scrollTop THEN "none" ELSE "page"
        /\ goal' = IF heard /\ scrolled = "reader" /\ goal # -1 THEN 0 ELSE goal
        /\ UNCHANGED <<shift, listening, committed, url, lastPushed, opened, expanded, stored, folded>>

\* A bug: the jump does not hold the scroll event back.
HeldMutant == UNCHANGED suppressed

\* suppressScrollSyncOneFrame
Held == suppressed' = TRUE

\* toggle
Toggled(e) == IF e \in expanded THEN expanded \ {e} ELSE expanded \cup {e}

\* handleClick and handleArticleClick, for an entry that is in the document.  A click
\* before the page's own second alignment is undone by it.
ClickEntry(e) ==
    /\ listening /\ e \in Visible(expanded) /\ Len(tasks) < MaxTasks
    /\ Held /\ JumpTo(e)
    /\ url' = e
    /\ tasks' = tasks \o <<Clear, Activate(e)>>
    /\ expanded' = IF e \in Headings THEN Toggled(e) ELSE expanded
    /\ stored' = IF e \in Headings THEN expanded' ELSE stored
    /\ folded' = (folded \/ ~(expanded \subseteq expanded'))
    /\ goal' = IF Align \in ToSet(tasks) \/ goal = -1 THEN -1 ELSE e
    /\ UNCHANGED <<shift, listening, active, committed, lastPushed, opened>>

\* Enter or the space bar on a heading, and collapseAll.
Fold(open) ==
    /\ listening
    /\ expanded' = open /\ stored' = open
    /\ folded' = (folded \/ ~(expanded \subseteq open))
    /\ UNCHANGED <<scrollTop, shift, scrolled, suppressed, tasks, listening, active, committed,
                   url, lastPushed, opened, goal>>

\* React commits: ScrollUrlSync, and the effect of TocPanel that opens the headings.
Commit ==
    /\ listening /\ active # committed
    /\ committed' = active
    /\ url' = IF active = lastPushed THEN url ELSE active
    /\ lastPushed' = active
    /\ expanded' = expanded \cup Ancestors(active)
    /\ stored' = IF expanded' = expanded THEN stored ELSE expanded'
    /\ folded' = FALSE
    /\ UNCHANGED <<scrollTop, shift, scrolled, suppressed, tasks, listening, active, opened, goal>>

PlaceNext ==
    \/ Reload \/ Mounted \/ FontsArrive \/ Frame \/ Commit
    \/ \E y \in 0 .. Height(Len(Entries)) + 1 : ReaderScrolls(y)
    \/ \E e \in DOMAIN Entries : ClickEntry(e)
    \/ Fold({}) \/ \E h \in Headings : h \in Visible(expanded) /\ Fold(Toggled(h))

PlaceSpec == PlaceInit /\ [][PlaceNext]_placeVars

-----------------------------------------------------------------------------
Settled == listening /\ tasks = <<>> /\ scrolled = "none" /\ active = committed

\* Once the page has settled: an article that was jumped to, or at which the page was
\* opened, is the active one and the address until the reader scrolls, even where the
\* next article, or the end of the law, is already at the line; after the reader has
\* scrolled the active article is the last one that begins at or above the line; and
\* its entry can be seen in the table of contents unless the reader has closed a heading
\* (FullLawViewer.tsx:67-106, ScrollActiveArticleContext.tsx:97-127).
ReadingPlaceIsKept ==
    Settled =>
        /\ goal > 0 => active = goal /\ url = goal
        /\ goal = 0 => /\ active \in Sentinels
                       /\ \A a \in Sentinels : Top(a, shift) - scrollTop <= Trigger => a <= active
                       /\ Top(active, shift) - scrollTop <= Trigger \/ active = Min(Sentinels)
        /\ folded \/ committed \in Visible(expanded)
=============================================================================
