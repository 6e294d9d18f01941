----------------------------- MODULE ScreenProofs -----------------------------
(***************************************************************************)
(* Proofs about the reader's screens: the context menu, for any number of  *)
(* articles, clicks, requests and answers, and the chapter window, for     *)
(* laws, windows and pages of any size.                                    *)
(***************************************************************************)
EXTENDS ContextMenu, ChapterScroll, FiniteSetTheorems, SequenceTheorems,
        WellFoundedInduction, TLAPS

-----------------------------------------------------------------------------
(* The context menu.                                                         *)

MenuFields == {"isOpen", "kind", "articleId", "menuType", "projects", "templates", "toast",
               "focusedIndex", "tagInput"}
IsMenu(m) == m = [field \in MenuFields |-> m[field]]

\* What one menu shows belongs together.
Shows(m, timer) ==
    /\ m.menuType = "project_picker" => m.projects
    /\ m.menuType = "template_picker" => m.templates # NoTemplates
    /\ m.toast # "none" => timer

\* The templates are those of the article the menu is open on.
OwnTemplates(m) == m.isOpen /\ m.menuType = "template_picker" => m.templates[1] = m.articleId

\* A request that came from the menu that is open now, unless its article was taken
\* from the list, is about the article of this menu.
AskedHere(q, m) ==
    /\ q.from \in Nat /\ q.from <= opens
    /\ q.op # "pickTemplate" /\ q.from = opens /\ m.isOpen => q.articleId = m.articleId

MenuInv ==
    /\ opens \in Nat /\ IsMenu(menu)
    /\ Shows(menu, toastTimer)
    /\ ~late => OwnTemplates(menu)
    /\ \A q \in pending : AskedHere(q, menu)

LEMMA InitialMenuFacts ==
    /\ IsMenu(InitialMenu) /\ ~InitialMenu.isOpen
    /\ \A timer : Shows(InitialMenu, timer)
BY DEF InitialMenu, IsMenu, MenuFields, Shows

LEMMA MenuInvInit == MenuInit => MenuInv
BY InitialMenuFacts DEF MenuInit, MenuInv, OwnTemplates

\* A menu of the same opening that shows the same article, or no menu at all.
Follows(m) == IsMenu(m) /\ (m.isOpen => menu.isOpen /\ m.articleId = menu.articleId)

\* A step that opens no other menu and loses or answers requests.
LEMMA SameOpening ==
    ASSUME MenuInv, UNCHANGED opens, pending' \subseteq pending,
           Follows(menu'), Shows(menu', toastTimer'), ~late' => OwnTemplates(menu')
    PROVE  MenuInv'
  <1>1. ASSUME NEW q \in pending' PROVE AskedHere(q, menu)'
    BY <1>1 DEF MenuInv, AskedHere, Follows
  <1> QED BY <1>1 DEF MenuInv, Follows

\* Closing, answering with a success, a toast, the arrow keys.
LEMMA MenusFollow ==
    ASSUME MenuInv
    PROVE  /\ Follows(InitialMenu) /\ OwnTemplates(InitialMenu)
           /\ \A kind : LET m == [menu EXCEPT !.toast = kind]
                        IN  Follows(m) /\ Shows(m, TRUE) /\ (~late => OwnTemplates(m))
           /\ \A n : LET m == [menu EXCEPT !.focusedIndex = n]
                     IN  Follows(m) /\ Shows(m, toastTimer) /\ (~late => OwnTemplates(m))
  <1>1. Follows(InitialMenu) /\ OwnTemplates(InitialMenu)
    BY InitialMenuFacts DEF Follows, OwnTemplates
  <1>2. ASSUME NEW kind
        PROVE  LET m == [menu EXCEPT !.toast = kind]
               IN  Follows(m) /\ Shows(m, TRUE) /\ (~late => OwnTemplates(m))
    BY DEF MenuInv, IsMenu, MenuFields, Follows, Shows, OwnTemplates
  <1>4. ASSUME NEW n
        PROVE  LET m == [menu EXCEPT !.focusedIndex = n]
               IN  Follows(m) /\ Shows(m, toastTimer) /\ (~late => OwnTemplates(m))
    BY DEF MenuInv, IsMenu, MenuFields, Follows, Shows, OwnTemplates
  <1> QED BY <1>1, <1>2, <1>4

LEMMA BackFollows ==
    ASSUME MenuInv, NEW type \in {"main", "tag_input"},
           menu' = [menu EXCEPT !.menuType = type, !.focusedIndex = 0, !.tagInput = FALSE]
    PROVE  Follows(menu') /\ Shows(menu', toastTimer) /\ OwnTemplates(menu')
BY DEF MenuInv, IsMenu, MenuFields, Follows, Shows, OwnTemplates

LEMMA RightClickKeeps == ASSUME MenuInv, RightClick PROVE MenuInv'
  <1>1. PICK k \in MenuKinds, a \in Articles :
           menu' = [InitialMenu EXCEPT !.isOpen = TRUE, !.kind = k, !.articleId = a]
    BY DEF RightClick
  <1>2. opens' = opens + 1 /\ UNCHANGED <<pending, late, toastTimer>> BY DEF RightClick
  <1>3. IsMenu(menu') /\ menu'.menuType = "main" /\ menu'.toast = "none"
    BY <1>1 DEF InitialMenu, IsMenu, MenuFields
  <1>4. ASSUME NEW q \in pending PROVE AskedHere(q, menu)'
    BY <1>2 DEF MenuInv, AskedHere
  <1> QED BY <1>2, <1>3, <1>4 DEF MenuInv, Shows, OwnTemplates

LEMMA KeysKeep ==
    ASSUME MenuInv, CloseMenu \/ ArrowKey \/ TypeTag \/ ToastTimerFires PROVE MenuInv'
  <1>1. CASE CloseMenu
    BY <1>1, SameOpening, MenusFollow, InitialMenuFacts DEF CloseMenu
  <1>2. CASE ArrowKey
    <2>1. \/ menu' = [menu EXCEPT !.focusedIndex = menu.focusedIndex + 1]
          \/ menu' = [menu EXCEPT !.focusedIndex = menu.focusedIndex - 1]
      BY <1>2 DEF ArrowKey
    <2> QED BY <1>2, <2>1, SameOpening, MenusFollow DEF ArrowKey
  <1>3. CASE TypeTag
    <2>1. menu' = [menu EXCEPT !.tagInput = TRUE] /\ UNCHANGED <<toastTimer, pending, opens, late>>
      BY <1>3 DEF TypeTag
    <2>2. Follows(menu') /\ Shows(menu', toastTimer) /\ (~late => OwnTemplates(menu'))
      BY <2>1 DEF MenuInv, IsMenu, MenuFields, Follows, Shows, OwnTemplates
    <2> QED BY <2>1, <2>2, SameOpening
  <1>4. CASE ToastTimerFires
    <2>1. menu' = [menu EXCEPT !.toast = "none"] /\ UNCHANGED <<pending, opens, late>>
      BY <1>4 DEF ToastTimerFires
    <2>2. menu'.toast = "none" BY <2>1 DEF MenuInv, IsMenu, MenuFields
    <2>3. Follows(menu') /\ Shows(menu', TRUE) /\ (~late => OwnTemplates(menu')) BY <2>1, MenusFollow
    <2> QED BY <2>1, <2>2, <2>3, SameOpening DEF Shows
  <1> QED BY <1>1, <1>2, <1>3, <1>4

\* A request that is sent from the open menu.
LEMMA AskKeeps ==
    ASSUME MenuInv, menu.isOpen, NEW op, NEW id, NEW article,
           op # "pickTemplate" => article = menu.articleId,
           pending' = pending \cup {[op |-> op, id |-> id, from |-> opens, articleId |-> article]},
           Follows(menu'), menu'.isOpen => menu.isOpen, UNCHANGED <<toastTimer, opens, late>>,
           Shows(menu', toastTimer), ~late => OwnTemplates(menu')
    PROVE  MenuInv'
  <1> DEFINE new == [op |-> op, id |-> id, from |-> opens, articleId |-> article]
  <1>1. AskedHere(new, menu)' BY DEF MenuInv, AskedHere, Follows
  <1>2. ASSUME NEW q \in pending PROVE AskedHere(q, menu)' BY DEF MenuInv, AskedHere, Follows
  <1> QED BY <1>1, <1>2 DEF MenuInv, Follows

LEMMA PerformKeeps == ASSUME MenuInv, menu.isOpen, NEW op, Perform(op) PROVE MenuInv'
  <1>1. CASE op = "addCheckItem"
    <2>1. /\ menu' = [menu EXCEPT !.toast = "error"] /\ toastTimer' = TRUE
          /\ UNCHANGED <<pending, opens, late>>
      BY <1>1 DEF Perform, showToast
    <2> QED BY <2>1, SameOpening, MenusFollow
  <1>2. CASE op # "addCheckItem" /\ op \in Asking
    <2>1. Ask(op) /\ UNCHANGED <<opens, late>> BY <1>2 DEF Perform
    <2>2. /\ UNCHANGED <<menu, toastTimer>>
          /\ pending' = pending \cup {[op |-> op, id |-> sent, from |-> opens, articleId |->
                IF op = "pickTemplate" THEN menu.templates[1] ELSE menu.articleId]}
      BY <2>1 DEF Ask
    <2>3. Follows(menu') BY <2>2 DEF MenuInv, Follows
    <2> QED BY <2>1, <2>2, <2>3, AskKeeps DEF MenuInv
  <1>3. CASE op # "addCheckItem" /\ op \notin Asking
    <2>1. /\ ShowMenu(op) /\ UNCHANGED <<opens, late>> BY <1>3 DEF Perform
    <2>2. UNCHANGED <<toastTimer, pending>> BY <2>1 DEF ShowMenu
    <2>3. \/ menu' = [menu EXCEPT !.menuType = "main", !.focusedIndex = 0, !.tagInput = FALSE]
          \/ menu' = [menu EXCEPT !.menuType = "tag_input", !.focusedIndex = 0, !.tagInput = FALSE]
          \/ menu' = [menu EXCEPT !.menuType = "highlight_picker", !.focusedIndex = 0]
          \/ menu' = InitialMenu
      BY <2>1 DEF ShowMenu, goBack
    <2>4. CASE menu' = [menu EXCEPT !.menuType = "highlight_picker", !.focusedIndex = 0]
      <3>1. Follows(menu') /\ Shows(menu', toastTimer) /\ OwnTemplates(menu')
        BY <2>4 DEF MenuInv, IsMenu, MenuFields, Follows, Shows, OwnTemplates
      <3> QED BY <2>1, <2>2, <3>1, SameOpening
    <2>5. ASSUME NEW type \in {"main", "tag_input"},
                 menu' = [menu EXCEPT !.menuType = type, !.focusedIndex = 0, !.tagInput = FALSE]
          PROVE  MenuInv'
      BY <2>1, <2>2, <2>5, BackFollows, SameOpening
    <2>6. CASE menu' = InitialMenu
      BY <2>1, <2>2, <2>6, SameOpening, MenusFollow, InitialMenuFacts
    <2> QED BY <2>3, <2>4, <2>5, <2>6
  <1> QED BY <1>1, <1>2, <1>3

LEMMA EnterTagKeeps == ASSUME MenuInv, EnterTag PROVE MenuInv'
  <1>1. /\ menu.isOpen /\ UNCHANGED <<toastTimer, opens, late>>
        /\ pending' = pending \cup {[op |-> "submitTag", id |-> sent, from |-> opens,
                                     articleId |-> menu.articleId]}
        /\ \/ menu' = [menu EXCEPT !.menuType = "main", !.focusedIndex = 0, !.tagInput = FALSE]
           \/ menu' = menu
    BY DEF EnterTag, goBack
  <1>2. Follows(menu) BY DEF MenuInv, Follows
  <1>3. Follows(menu') /\ Shows(menu', toastTimer) /\ (~late => OwnTemplates(menu'))
    <2>1. CASE menu' = menu BY <1>2, <2>1 DEF MenuInv
    <2>2. CASE menu' = [menu EXCEPT !.menuType = "main", !.focusedIndex = 0, !.tagInput = FALSE]
      BY <2>2, BackFollows
    <2> QED BY <1>1, <2>1, <2>2
  <1> QED BY <1>1, <1>3, AskKeeps

LEMMA AnswerKeeps ==
    ASSUME MenuInv, AnswerNotes \/ AnswerProjects \/ AnswerEgov \/ AnswerDone \/ AnswerFails
    PROVE  MenuInv'
  <1>1. PICK q \in pending :
          /\ Taken(q)
          /\ \/ menu' = [menu EXCEPT !.toast = "error"] /\ toastTimer' = TRUE
             \/ menu' = InitialMenu /\ toastTimer' \in {toastTimer, TRUE}
             \/ /\ q.op = "drawingNotes" /\ toastTimer' = toastTimer
                /\ menu' = [menu EXCEPT !.menuType = "template_picker", !.projects = menu.projects,
                                        !.templates = <<q.articleId, 2>>, !.focusedIndex = 0]
             \/ /\ toastTimer' = toastTimer
                /\ menu' = [menu EXCEPT !.menuType = "project_picker", !.projects = TRUE,
                                        !.templates = menu.templates, !.focusedIndex = 0]
    BY DEF AnswerNotes, AnswerProjects, AnswerEgov, AnswerDone, AnswerFails, showToast, Succeeds, Offer
  <1>2. /\ pending' \subseteq pending /\ UNCHANGED opens
        /\ ~late' => ~late /\ q.from = opens /\ menu.isOpen
    BY <1>1 DEF Taken
  <1>3. CASE menu' = [menu EXCEPT !.toast = "error"] /\ toastTimer' = TRUE
    BY <1>2, <1>3, SameOpening, MenusFollow
  <1>4. CASE menu' = InitialMenu BY <1>2, <1>4, SameOpening, MenusFollow, InitialMenuFacts
  <1>5. CASE /\ q.op = "drawingNotes" /\ toastTimer' = toastTimer
             /\ menu' = [menu EXCEPT !.menuType = "template_picker", !.projects = menu.projects,
                                     !.templates = <<q.articleId, 2>>, !.focusedIndex = 0]
    <2>1. Follows(menu') /\ menu'.articleId = menu.articleId /\ menu'.templates = <<q.articleId, 2>>
          /\ menu'.menuType = "template_picker" /\ menu'.toast = menu.toast
      BY <1>5 DEF MenuInv, IsMenu, MenuFields, Follows
    <2>2. Shows(menu', toastTimer') BY <1>5, <2>1 DEF MenuInv, Shows, NoTemplates
    <2>3. ~late' => q.articleId = menu.articleId BY <1>2, <1>5 DEF MenuInv, AskedHere
    <2>4. ~late' => OwnTemplates(menu') BY <2>1, <2>3 DEF OwnTemplates
    <2> QED BY <1>2, <2>1, <2>2, <2>4, SameOpening
  <1>6. CASE /\ toastTimer' = toastTimer
             /\ menu' = [menu EXCEPT !.menuType = "project_picker", !.projects = TRUE,
                                     !.templates = menu.templates, !.focusedIndex = 0]
    <2>1. Follows(menu') /\ Shows(menu', toastTimer') /\ OwnTemplates(menu')
      BY <1>6 DEF MenuInv, IsMenu, MenuFields, Follows, Shows, OwnTemplates
    <2> QED BY <1>2, <2>1, SameOpening
  <1> QED BY <1>1, <1>3, <1>4, <1>5, <1>6

LEMMA MenuInvNext == MenuInv /\ [MenuNext]_menuVars => MenuInv'
  <1> SUFFICES ASSUME MenuInv, [MenuNext]_menuVars PROVE MenuInv' OBVIOUS
  <1>1. CASE UNCHANGED menuVars BY <1>1 DEF menuVars, MenuInv, AskedHere
  <1>2. CASE MenuNext
    BY <1>2, RightClickKeeps, KeysKeep, PerformKeeps, EnterTagKeeps, AnswerKeeps
       DEF MenuNext, Click, EnterKey
  <1> QED BY <1>1, <1>2

(***************************************************************************)
(* Whatever is clicked while requests are on their way and however late    *)
(* their answers are, an open picker has its list and every toast a timer; *)
(* and the templates of another article are never offered, unless an       *)
(* answer came after its menu was left (MenuIsCoherent in screens).        *)
(***************************************************************************)
THEOREM MenuStaysCoherent == MenuSpec => []MenuIsCoherent
  <1>1. MenuInv => MenuIsCoherent BY DEF MenuInv, Shows, OwnTemplates, MenuIsCoherent
  <1> QED BY <1>1, MenuInvInit, MenuInvNext, PTL DEF MenuSpec

-----------------------------------------------------------------------------
(* Numbers and places.                                                       *)

LEMMA LeastNumber ==
    ASSUME NEW S, S \subseteq Nat, S # {}
    PROVE  \E m \in S : \A n \in S : m <= n
  <1>1. PICK m \in S : \A n \in S : ~ (<<n, m>> \in OpToRel(<, Nat))
    BY NatLessThanWellFounded, WFMin
  <1>2. \A n \in S : ~ (n < m) BY <1>1 DEF OpToRel
  <1> QED BY <1>2

\* Articles of one scope: no two of them stand at the same place.
Placed(A) ==
    /\ IsFiniteSet(A)
    /\ \A a \in A : a[2] \in Int
    /\ \A a, b \in A : a[2] = b[2] => a = b

UpTo(A, a) == {b \in A : b[2] <= a[2]}

LEMMA UpToGrows ==
    ASSUME NEW A, Placed(A), NEW a \in A, NEW b \in A
    PROVE  /\ Cardinality(UpTo(A, a)) \in 1 .. Cardinality(A)
           /\ a[2] < b[2] => Cardinality(UpTo(A, a)) < Cardinality(UpTo(A, b))
  <1>1. /\ IsFiniteSet(UpTo(A, a)) /\ IsFiniteSet(UpTo(A, b))
        /\ Cardinality(UpTo(A, a)) <= Cardinality(A)
    BY FS_Subset DEF Placed, UpTo
  <1>2. Cardinality(UpTo(A, a)) \in Nat /\ Cardinality(UpTo(A, b)) \in Nat /\ Cardinality(A) \in Nat
    BY <1>1, FS_CardinalityType DEF Placed
  <1>3. a \in UpTo(A, a) /\ b \in UpTo(A, b) BY DEF Placed, UpTo
  <1>4. Cardinality(UpTo(A, a)) # 0 BY <1>1, <1>3, FS_EmptySet
  <1>5. ASSUME a[2] < b[2] PROVE Cardinality(UpTo(A, a)) < Cardinality(UpTo(A, b))
    <2>1. UpTo(A, a) \subseteq UpTo(A, b) BY <1>5 DEF UpTo, Placed
    <2>2. b \notin UpTo(A, a) BY <1>5 DEF UpTo, Placed
    <2>3. /\ Cardinality(UpTo(A, a)) <= Cardinality(UpTo(A, b))
          /\ Cardinality(UpTo(A, b)) = Cardinality(UpTo(A, a)) => UpTo(A, b) = UpTo(A, a)
      BY <1>1, <2>1, FS_Subset
    <2> QED BY <1>2, <1>3, <2>2, <2>3
  <1> QED BY <1>1, <1>2, <1>4, <1>5

\* Every place is taken once.
LEMMA PlacesAreTaken ==
    ASSUME NEW A, Placed(A)
    PROVE  \A k \in 1 .. Cardinality(A) : \E a \in A : Cardinality(UpTo(A, a)) = k
  <1> DEFINE n == Cardinality(A)
             f == [a \in A |-> Cardinality(UpTo(A, a))]
  <1>1. n \in Nat BY FS_CardinalityType DEF Placed
  <1>2. f \in [A -> 1 .. n] BY UpToGrows
  <1>3. ASSUME NEW a \in A, NEW b \in A, f[a] = f[b] PROVE a = b
    <2>1. a[2] \in Int /\ b[2] \in Int BY DEF Placed
    <2>2. /\ Cardinality(UpTo(A, a)) = Cardinality(UpTo(A, b))
          /\ Cardinality(UpTo(A, a)) \in 1 .. n
      BY <1>3, UpToGrows
    <2>3. ~ (a[2] < b[2]) BY <1>1, <2>2, UpToGrows
    <2>4. ~ (b[2] < a[2])
      <3>1. b[2] < a[2] => Cardinality(UpTo(A, b)) < Cardinality(UpTo(A, a)) BY UpToGrows
      <3> QED BY <1>1, <2>2, <3>1
    <2> QED BY <2>1, <2>3, <2>4 DEF Placed
  <1>4. f \in Injection(A, 1 .. n) BY <1>2, <1>3 DEF Injection, IsInjective
  <1>5. IsFiniteSet(1 .. n) /\ Cardinality(1 .. n) = n BY <1>1, FS_Interval
  <1>6. f \in Surjection(A, 1 .. n) BY <1>4, <1>5, FS_Injection
  <1> HIDE DEF n
  <1> QED BY <1>6 DEF Surjection, n

(***************************************************************************)
(* By their places the articles of a set come once each, in their order.   *)
(***************************************************************************)
LEMMA ByPlaceFacts ==
    ASSUME NEW A, Placed(A)
    PROVE  /\ Cardinality(A) \in Nat
           /\ ByPlace(A) \in Seq(A) /\ Len(ByPlace(A)) = Cardinality(A)
           /\ \A a \in A : \E k \in 1 .. Cardinality(A) : ByPlace(A)[k] = a
           /\ \A i, j \in 1 .. Cardinality(A) : i < j => ByPlace(A)[i][2] < ByPlace(A)[j][2]
  <1> DEFINE n == Cardinality(A)
             at(k) == CHOOSE a \in A : Cardinality({b \in A : b[2] <= a[2]}) = k
  <1>1. n \in Nat BY FS_CardinalityType DEF Placed
  <1>2. ASSUME NEW k \in 1 .. n PROVE at(k) \in A /\ Cardinality(UpTo(A, at(k))) = k
    <2>1. \E a \in A : Cardinality({b \in A : b[2] <= a[2]}) = k
      BY PlacesAreTaken DEF UpTo
    <2>2. at(k) \in A /\ Cardinality({b \in A : b[2] <= at(k)[2]}) = k BY <2>1
    <2> QED BY <2>2 DEF UpTo
  <1>3. ByPlace(A) = [k \in 1 .. n |-> at(k)] BY DEF ByPlace
  <1> HIDE DEF n, at
  <1>4. ByPlace(A) \in [1 .. n -> A] BY <1>2, <1>3
  <1>5. ByPlace(A) \in Seq(A) /\ Len(ByPlace(A)) = n BY <1>1, <1>4
  <1>6. \A k \in 1 .. n : ByPlace(A)[k] \in A /\ Cardinality(UpTo(A, ByPlace(A)[k])) = k
    BY <1>2, <1>3
  <1>7. ASSUME NEW i \in 1 .. n, NEW j \in 1 .. n, i < j
        PROVE  ByPlace(A)[i][2] < ByPlace(A)[j][2]
    <2> DEFINE a == ByPlace(A)[i]
               b == ByPlace(A)[j]
    <2>1. /\ a \in A /\ b \in A
          /\ Cardinality(UpTo(A, a)) = i /\ Cardinality(UpTo(A, b)) = j
      BY <1>6
    <2> HIDE DEF a, b
    <2>2. a[2] \in Int /\ b[2] \in Int BY <2>1 DEF Placed
    <2>3. b[2] < a[2] => j < i BY <2>1, UpToGrows
    <2>4. a[2] # b[2]
      <3>1. a[2] = b[2] => a = b BY <2>1 DEF Placed
      <3> QED BY <1>7, <2>1, <3>1
    <2>5. a[2] < b[2] BY <1>7, <1>1, <2>2, <2>3, <2>4
    <2> QED BY <2>5 DEF a, b
  <1>8. ASSUME NEW a \in A PROVE \E k \in 1 .. n : ByPlace(A)[k] = a
    <2> DEFINE k == Cardinality(UpTo(A, a))
    <2>1. k \in 1 .. n BY UpToGrows DEF n
    <2> HIDE DEF k
    <2> DEFINE b == ByPlace(A)[k]
    <2>2. b \in A /\ Cardinality(UpTo(A, b)) = k BY <1>6, <2>1
    <2> HIDE DEF b
    <2>3. a[2] \in Int /\ b[2] \in Int BY <2>2 DEF Placed
    <2>4. a[2] < b[2] => k < k BY <2>2, UpToGrows DEF k
    <2>5. b[2] < a[2] => k < k BY <2>2, UpToGrows DEF k
    <2>6. a = b BY <1>1, <2>1, <2>2, <2>3, <2>4, <2>5 DEF Placed
    <2> QED BY <2>1, <2>6 DEF b
  <1> QED BY <1>1, <1>5, <1>7, <1>8 DEF n
-----------------------------------------------------------------------------
(* Sequences put one after the other.                                        *)

Ordered(s, R) == \A i, j \in 1 .. Len(s) : i < j => <<s[i], s[j]>> \in R

LEMMA JoinedOrdered ==
    ASSUME NEW S, NEW R, NEW s \in Seq(S), NEW t \in Seq(S), Ordered(s, R), Ordered(t, R),
           \A a \in ToSet(s), b \in ToSet(t) : <<a, b>> \in R
    PROVE  /\ s \o t \in Seq(S) /\ Ordered(s \o t, R)
           /\ ToSet(s \o t) = ToSet(s) \cup ToSet(t)
  <1>1. /\ Len(s) \in Nat /\ Len(t) \in Nat /\ s \o t \in Seq(S)
        /\ Len(s \o t) = Len(s) + Len(t)
        /\ DOMAIN s = 1 .. Len(s) /\ DOMAIN t = 1 .. Len(t)
        /\ DOMAIN (s \o t) = 1 .. Len(s) + Len(t)
    OBVIOUS
  <1>2. /\ \A i \in 1 .. Len(s) : (s \o t)[i] = s[i]
        /\ \A i \in Len(s) + 1 .. Len(s) + Len(t) : (s \o t)[i] = t[i - Len(s)]
    OBVIOUS
  <1>3. ASSUME NEW i \in 1 .. Len(s \o t), NEW j \in 1 .. Len(s \o t), i < j
        PROVE  <<(s \o t)[i], (s \o t)[j]>> \in R
    <2>1. CASE j <= Len(s) BY <1>1, <1>2, <1>3, <2>1 DEF Ordered
    <2>2. CASE i > Len(s)
      <3>1. i - Len(s) \in 1 .. Len(t) /\ j - Len(s) \in 1 .. Len(t) /\ i - Len(s) < j - Len(s)
        BY <1>1, <1>3, <2>2
      <3>2. (s \o t)[i] = t[i - Len(s)] /\ (s \o t)[j] = t[j - Len(s)]
        BY <1>1, <1>2, <1>3, <2>2
      <3> QED BY <3>1, <3>2 DEF Ordered
    <2>3. CASE i <= Len(s) /\ j > Len(s)
      <3>1. (s \o t)[i] = s[i] /\ (s \o t)[j] = t[j - Len(s)] BY <1>1, <1>2, <2>3
      <3>2. s[i] \in ToSet(s) /\ t[j - Len(s)] \in ToSet(t) BY <1>1, <2>3 DEF ToSet
      <3> QED BY <3>1, <3>2
    <2>4. i \in Int /\ j \in Int BY <1>1
    <2>5. j <= Len(s) \/ i > Len(s) \/ (i <= Len(s) /\ j > Len(s)) BY <1>1, <2>4
    <2> QED BY <2>1, <2>2, <2>3, <2>5
  <1>4. ASSUME NEW x PROVE x \in ToSet(s \o t) <=> x \in ToSet(s) \/ x \in ToSet(t)
    <2>1. ASSUME x \in ToSet(s \o t) PROVE x \in ToSet(s) \/ x \in ToSet(t)
      <3>1. PICK i \in 1 .. Len(s) + Len(t) : x = (s \o t)[i] BY <1>1, <2>1 DEF ToSet
      <3>2. CASE i <= Len(s) BY <1>1, <1>2, <3>1, <3>2 DEF ToSet
      <3>3. CASE i > Len(s)
        <4>1. i - Len(s) \in DOMAIN t /\ x = t[i - Len(s)] BY <1>1, <1>2, <3>1, <3>3
        <4> QED BY <4>1 DEF ToSet
      <3> QED BY <1>1, <3>2, <3>3
    <2>2. ASSUME x \in ToSet(s) PROVE x \in ToSet(s \o t)
      <3>1. PICK i \in 1 .. Len(s) : x = s[i] BY <1>1, <2>2 DEF ToSet
      <3>2. i \in DOMAIN (s \o t) /\ x = (s \o t)[i] BY <1>1, <1>2, <3>1
      <3> QED BY <3>2 DEF ToSet
    <2>3. ASSUME x \in ToSet(t) PROVE x \in ToSet(s \o t)
      <3>1. PICK i \in 1 .. Len(t) : x = t[i] BY <1>1, <2>3 DEF ToSet
      <3>2. i + Len(s) \in Len(s) + 1 .. Len(s) + Len(t) /\ (i + Len(s)) - Len(s) = i BY <1>1
      <3>3. i + Len(s) \in DOMAIN (s \o t) /\ x = (s \o t)[i + Len(s)] BY <1>1, <1>2, <3>1, <3>2
      <3> QED BY <3>3 DEF ToSet
    <2> QED BY <2>1, <2>2, <2>3
  <1> QED BY <1>1, <1>3, <1>4 DEF Ordered

\* The first i of the sequences, one after the other.
IsJoined(f, seqs, n) ==
    f = [i \in 1 .. n |-> IF i = 1 THEN seqs[i] ELSE f[i - 1] \o seqs[i]]

LEMMA JoinedExists ==
    ASSUME NEW seqs, NEW n \in Nat
    PROVE  \E f : IsJoined(f, seqs, n)
  <1> DEFINE bad == {m \in Nat : ~ \E f : IsJoined(f, seqs, m)}
  <1>1. SUFFICES ASSUME n \in bad PROVE FALSE OBVIOUS
  <1>2. PICK m \in bad : \A k \in bad : m <= k BY <1>1, LeastNumber
  <1>3. CASE m = 0
    <2> DEFINE f == [i \in 1 .. 0 |-> 0]
    <2>1. f = [i \in 1 .. 0 |-> IF i = 1 THEN seqs[i] ELSE f[i - 1] \o seqs[i]] OBVIOUS
    <2> QED BY <1>2, <1>3, <2>1 DEF IsJoined
  <1>4. CASE m # 0
    <2>1. m - 1 \in Nat /\ m - 1 \notin bad BY <1>2, <1>4
    <2>2. PICK g : IsJoined(g, seqs, m - 1) BY <2>1
    <2> DEFINE last == IF m = 1 THEN seqs[m] ELSE g[m - 1] \o seqs[m]
               f == [i \in 1 .. m |-> IF i = m THEN last ELSE g[i]]
    <2>3. ASSUME NEW i \in 1 .. m
          PROVE  f[i] = IF i = 1 THEN seqs[i] ELSE f[i - 1] \o seqs[i]
      <3>1. CASE i = m
        <4>1. f[i] = last BY <3>1
        <4>2. i # 1 => f[i - 1] = g[i - 1] BY <2>1, <3>1
        <4> QED BY <3>1, <4>1, <4>2
      <3>2. CASE i # m
        <4>1. i \in 1 .. m - 1 BY <2>1, <3>2
        <4>2. f[i] = g[i] BY <3>2
        <4>3. g[i] = IF i = 1 THEN seqs[i] ELSE g[i - 1] \o seqs[i] BY <2>2, <4>1 DEF IsJoined
        <4>4. i # 1 => f[i - 1] = g[i - 1] BY <2>1, <4>1
        <4> QED BY <4>2, <4>3, <4>4
      <3> QED BY <3>1, <3>2
    <2>4. f = [i \in 1 .. m |-> IF i = 1 THEN seqs[i] ELSE f[i - 1] \o seqs[i]]
      <3> HIDE DEF last
      <3>1. f = [i \in 1 .. m |-> f[i]] OBVIOUS
      <3> HIDE DEF f
      <3> QED BY <2>3, <3>1
    <2> HIDE DEF f
    <2> QED BY <1>2, <2>4 DEF IsJoined
  <1> QED BY <1>3, <1>4

LEMMA FlattenIsJoined ==
    ASSUME NEW seqs, Len(seqs) \in Nat, Len(seqs) # 0
    PROVE  \E f : IsJoined(f, seqs, Len(seqs)) /\ FlattenSeq(seqs) = f[Len(seqs)]
  <1> DEFINE f == CHOOSE g : IsJoined(g, seqs, Len(seqs))
  <1>1. IsJoined(f, seqs, Len(seqs)) BY JoinedExists
  <1>2. FlattenSeq(seqs) = f[Len(seqs)] BY DEF FlattenSeq, IsJoined
  <1> HIDE DEF f
  <1> QED BY <1>1, <1>2

(***************************************************************************)
(* Sequences that are ordered, each before the next one, are ordered when  *)
(* they are put one after the other; nothing is lost and nothing is added. *)
(***************************************************************************)
LEMMA FlattenOrdered ==
    ASSUME NEW S, NEW R, NEW seqs \in Seq(Seq(S)),
           \A i \in 1 .. Len(seqs) : Ordered(seqs[i], R),
           \A i, j \in 1 .. Len(seqs) : i < j =>
               \A a \in ToSet(seqs[i]), b \in ToSet(seqs[j]) : <<a, b>> \in R
    PROVE  /\ FlattenSeq(seqs) \in Seq(S) /\ Ordered(FlattenSeq(seqs), R)
           /\ ToSet(FlattenSeq(seqs)) = UNION {ToSet(seqs[i]) : i \in 1 .. Len(seqs)}
  <1> DEFINE n == Len(seqs)
             Upto(i) == UNION {ToSet(seqs[k]) : k \in 1 .. i}
  <1>1. n \in Nat /\ \A i \in 1 .. n : seqs[i] \in Seq(S) OBVIOUS
  <1>2. CASE n = 0
    <2>1. FlattenSeq(seqs) = <<>> /\ seqs = <<>> BY <1>2 DEF FlattenSeq
    <2>2. Ordered(<<>>, R) BY DEF Ordered
    <2>3. ToSet(<<>>) = {} BY DEF ToSet
    <2> QED BY <1>2, <2>1, <2>2, <2>3
  <1>3. CASE n # 0
    <2>1. PICK f : IsJoined(f, seqs, n) /\ FlattenSeq(seqs) = f[n] BY <1>1, <1>3, FlattenIsJoined
    <2> DEFINE Good(i) == f[i] \in Seq(S) /\ Ordered(f[i], R) /\ ToSet(f[i]) = Upto(i)
               bad == {i \in 1 .. n : ~ Good(i)}
    <2>2. f[1] = seqs[1] /\ \A i \in 2 .. n : f[i] = f[i - 1] \o seqs[i]
      <3>1. \A i \in 1 .. n : f[i] = IF i = 1 THEN seqs[i] ELSE f[i - 1] \o seqs[i]
        BY <2>1 DEF IsJoined
      <3>2. 1 \in 1 .. n /\ \A i \in 2 .. n : i \in 1 .. n /\ i # 1 BY <1>1, <1>3
      <3> HIDE DEF n
      <3> QED BY <3>1, <3>2
    <2>3. bad = {}
      <3>1. SUFFICES ASSUME bad # {} PROVE FALSE OBVIOUS
      <3>2. bad \subseteq Nat BY <1>1
      <3>3. PICK i \in bad : \A k \in bad : i <= k BY <3>1, <3>2, LeastNumber
      <3>4. CASE i = 1
        <4>1. Upto(1) = ToSet(seqs[1]) OBVIOUS
        <4>2. Good(1) BY <1>1, <1>3, <2>2, <4>1
        <4> QED BY <3>3, <3>4, <4>2
      <3>5. CASE i # 1
        <4>1. i \in 2 .. n /\ i - 1 \in 1 .. n BY <1>1, <3>3, <3>5
        <4>2. Good(i - 1)
          <5>1. i \in Int BY <4>1
          <5> HIDE DEF bad
          <5>2. i - 1 \notin bad BY <3>3, <5>1
          <5> QED BY <4>1, <5>2 DEF bad
        <4>3. \A a \in ToSet(f[i - 1]), b \in ToSet(seqs[i]) : <<a, b>> \in R
          <5> SUFFICES ASSUME NEW a \in Upto(i - 1), NEW b \in ToSet(seqs[i]) PROVE <<a, b>> \in R
            BY <4>2
          <5>1. PICK k \in 1 .. i - 1 : a \in ToSet(seqs[k]) OBVIOUS
          <5>2. k \in 1 .. n /\ k < i BY SMTT(40), <1>1, <4>1
          <5> QED BY <4>1, <5>1, <5>2
        <4>4. Upto(i) = Upto(i - 1) \cup ToSet(seqs[i])
          <5>1. 1 .. i = (1 .. i - 1) \cup {i} BY <4>1
          <5> QED BY <5>1
        <4>5. seqs[i] \in Seq(S) /\ Ordered(seqs[i], R) BY <1>1, <4>1
        <4> HIDE DEF Upto
        <4>6. f[i] = f[i - 1] \o seqs[i] BY <2>2, <4>1
        <4>7. /\ f[i] \in Seq(S) /\ Ordered(f[i], R)
              /\ ToSet(f[i]) = ToSet(f[i - 1]) \cup ToSet(seqs[i])
          BY <4>2, <4>3, <4>5, <4>6, JoinedOrdered
        <4>8. Good(i) BY <4>2, <4>4, <4>7
        <4> QED BY <3>3, <4>8
      <3> QED BY <3>4, <3>5
    <2>4. n \in 1 .. n BY <1>1, <1>3
    <2> HIDE DEF Good, n
    <2>5. Good(n) BY <2>3, <2>4
    <2> QED BY <2>1, <2>5 DEF Good, n
  <1> QED BY <1>2, <1>3

-----------------------------------------------------------------------------
(* The chapter window.                                                       *)

Different == {p \in (Nat \X Nat) \X (Nat \X Nat) : p[1] # p[2]}

\* Articles of the scope s, none of them twice.
Listed(s, q) == q \in Seq({s} \X Nat) /\ Ordered(q, Different)

IsSequence(q) == Len(q) \in Nat /\ q = [i \in 1 .. Len(q) |-> q[i]]

SegmentFields == {"scope", "articles", "next", "before", "after"}

IsSegment(g) ==
    /\ g = [field \in SegmentFields |-> g[field]]
    /\ g.scope \in DOMAIN law /\ g.next \in {0} \cup DOMAIN law
    /\ Listed(g.scope, g.articles)

OneForEach(shown) ==
    \A i, j \in 1 .. Len(shown) : shown[i].scope = shown[j].scope => i = j

SegmentsOK(shown) ==
    /\ IsSequence(shown)
    /\ \A i \in 1 .. Len(shown) : IsSegment(shown[i])
    /\ OneForEach(shown)

MemoryOK(kept) ==
    /\ kept = [s \in DOMAIN law |-> kept[s]]
    /\ \A s \in DOMAIN law : Listed(s, kept[s])

\* A request is for a scope of the law, and one that reads back for the first of the page.
FetchingOK(asked, shown) ==
    /\ asked = [d \in Directions |-> asked[d]]
    /\ \A d \in Directions : asked[d] # NoRequest =>
           /\ asked[d].to \in DOMAIN law /\ shown # <<>>
           /\ d = "before" => asked[d].to = shown[1].scope

ScrollInv ==
    /\ law \in BookLaws
    /\ SegmentsOK(segments) /\ MemoryOK(memory) /\ FetchingOK(fetching, segments)

LEMMA LawFacts ==
    ASSUME law \in BookLaws
    PROVE  /\ Len(law) \in Nat /\ DOMAIN law = 1 .. Len(law)
           /\ \A s \in DOMAIN law : law[s].roots \in Nat /\ law[s].whole \in BOOLEAN
                                    /\ law[s].hidden \subseteq 1 .. law[s].roots
  <1>1. law \in Seq([roots : Nat, whole : BOOLEAN, hidden : SUBSET Nat])
        /\ \A s \in DOMAIN law : law[s].hidden \subseteq 1 .. law[s].roots
    BY ScrollAssumption
  <1>2. Len(law) \in Nat /\ DOMAIN law = 1 .. Len(law)
        /\ \A s \in 1 .. Len(law) : law[s] \in [roots : Nat, whole : BOOLEAN, hidden : SUBSET Nat]
    BY <1>1, ElementOfSeq, LenProperties
  <1> QED BY <1>1, <1>2

LEMMA NothingListed == ASSUME NEW s PROVE Listed(s, <<>>)
BY DEF Listed, Ordered

\* Articles of one scope have places.
LEMMA ScopeIsPlaced ==
    ASSUME NEW s \in Nat, NEW A, IsFiniteSet(A), A \subseteq {s} \X Nat
    PROVE  /\ Placed(A) /\ Listed(s, ByPlace(A)) /\ ToSet(ByPlace(A)) = A
  <1>1. Placed(A) BY DEF Placed
  <1> DEFINE q == ByPlace(A)
             n == Cardinality(A)
  <1>2. /\ n \in Nat /\ q \in Seq(A) /\ Len(q) = n
        /\ \A a \in A : \E k \in 1 .. n : q[k] = a
        /\ \A i, j \in 1 .. n : i < j => q[i][2] < q[j][2]
    BY <1>1, ByPlaceFacts
  <1> HIDE DEF q, n
  <1>3. \A k \in 1 .. n : q[k] \in A BY <1>2
  <1>4. q \in Seq({s} \X Nat)
    <2>1. q \in [1 .. n -> {s} \X Nat]
      <3>1. q = [k \in 1 .. n |-> q[k]] BY <1>2
      <3> QED BY <1>3, <3>1
    <2> QED BY <1>2, <2>1, IsASeq
  <1>5. Ordered(q, Different)
    <2> SUFFICES ASSUME NEW i \in 1 .. n, NEW j \in 1 .. n, i < j
                 PROVE  <<q[i], q[j]>> \in Different
      BY <1>2 DEF Ordered
    <2>1. q[i] \in {s} \X Nat /\ q[j] \in {s} \X Nat BY <1>3
    <2>2. q[i][2] < q[j][2] BY <1>2
    <2>3. q[i] # q[j] BY <2>1, <2>2
    <2> QED BY <2>1, <2>3 DEF Different
  <1>6. ToSet(q) = A
    <2>1. DOMAIN q = 1 .. n BY <1>2
    <2> QED BY <1>2, <1>3, <2>1 DEF ToSet
  <1> QED BY <1>1, <1>4, <1>5, <1>6 DEF Listed, q

LEMMA ListedFacts ==
    ASSUME NEW s \in Nat, NEW q, Listed(s, q)
    PROVE  IsFiniteSet(ToSet(q)) /\ ToSet(q) \subseteq {s} \X Nat
  <1>1. q \in Seq({s} \X Nat) /\ Len(q) \in Nat /\ DOMAIN q = 1 .. Len(q) BY DEF Listed
  <1>2. ToSet(q) \subseteq {s} \X Nat BY <1>1 DEF ToSet
  <1>3. q \in Surjection(1 .. Len(q), ToSet(q))
    <2>1. \A i \in 1 .. Len(q) : q[i] \in ToSet(q) BY <1>1 DEF ToSet
    <2>2. q \in [1 .. Len(q) -> ToSet(q)] BY <1>1, <2>1
    <2>3. \A a \in ToSet(q) : \E i \in 1 .. Len(q) : q[i] = a BY <1>1 DEF ToSet
    <2> QED BY <2>2, <2>3 DEF Surjection
  <1>4. IsFiniteSet(1 .. Len(q)) BY <1>1, FS_Interval
  <1> QED BY <1>2, <1>3, <1>4, FS_Surjection

\* What is not there yet comes once.
LEMMA WithoutFacts ==
    ASSUME NEW s \in Nat, NEW q, Listed(s, q), NEW known
    PROVE  Listed(s, Without(q, known)) /\ ToSet(Without(q, known)) = ToSet(q) \ known
  <1> DEFINE A == ToSet(q) \ known
  <1>1. IsFiniteSet(A) /\ A \subseteq {s} \X Nat BY ListedFacts, FS_Subset
  <1> QED BY <1>1, ScopeIsPlaced DEF Without

\* What the database has of a scope: articles of it, none twice, and not the scope itself.
LEMMA FetchedFacts ==
    ASSUME law \in BookLaws, NEW s \in DOMAIN law, NEW start, NEW end
    PROVE  /\ Listed(s, Fetched(s, start, end))
           /\ ToSet(Fetched(s, start, end)) = {<<s, n>> : n \in {m \in 1 .. law[s].roots :
                                 m \in start .. end - 1 /\ m \notin law[s].hidden}}
  <1> DEFINE A == {<<s, n>> : n \in {m \in 1 .. law[s].roots :
                                 m \in start .. end - 1 /\ m \notin law[s].hidden}}
             B == {s} \X (1 .. law[s].roots)
  <1>1. s \in Nat /\ law[s].roots \in Nat BY LawFacts
  <1>2. IsFiniteSet(B)
    <2>1. IsFiniteSet({s}) BY FS_Singleton
    <2>2. IsFiniteSet(1 .. law[s].roots) BY SMTT(40), <1>1, FS_Interval
    <2> QED BY <2>1, <2>2, FS_Product
  <1>3. A \subseteq B /\ A \subseteq {s} \X Nat BY <1>1
  <1>4. IsFiniteSet(A) BY <1>2, <1>3, FS_Subset
  <1> HIDE DEF A, B
  <1>5. Listed(s, ByPlace(A)) /\ ToSet(ByPlace(A)) = A BY <1>1, <1>3, <1>4, ScopeIsPlaced
  <1> QED BY <1>5 DEF Fetched, A

LEMMA WithScopeFacts ==
    ASSUME law \in BookLaws, NEW s \in DOMAIN law, NEW start, NEW q, Listed(s, q),
           <<s, 0>> \notin ToSet(q)
    PROVE  Listed(s, WithScope(s, start, q))
  <1>1. s \in Nat BY LawFacts
  <1> DEFINE own == <<<<s, 0>>>>
  <1>2. own \in Seq({s} \X Nat) /\ ToSet(own) = {<<s, 0>>} BY <1>1 DEF ToSet
  <1>3. Ordered(own, Different) BY DEF Ordered
  <1>4. \A a \in ToSet(own), b \in ToSet(q) : <<a, b>> \in Different
    <2> SUFFICES ASSUME NEW b \in ToSet(q) PROVE <<<<s, 0>>, b>> \in Different BY <1>2
    <2>1. b \in {s} \X Nat BY <1>1, ListedFacts
    <2>2. b # <<s, 0>> OBVIOUS
    <2> QED BY <1>1, <2>1, <2>2 DEF Different
  <1> HIDE DEF own
  <1>5. Listed(s, own \o q) BY <1>2, <1>3, <1>4, JoinedOrdered DEF Listed
  <1> QED BY <1>5 DEF WithScope, own

LEMMA NextScopeFacts ==
    ASSUME law \in BookLaws, NEW s
    PROVE  NextScope(s) \in {0} \cup DOMAIN law
  <1> DEFINE later == {t \in DOMAIN law : t > s /\ Total(t) > 0}
  <1>1. CASE later = {} BY <1>1 DEF NextScope
  <1>2. CASE later # {}
    <2>1. later \subseteq Nat BY LawFacts
    <2>2. \E t \in later : \A u \in later : t <= u BY <1>2, <2>1, LeastNumber
    <2>3. (CHOOSE t \in later : \A u \in later : t <= u) \in DOMAIN law BY <2>2
    <2> QED BY <1>2, <2>3 DEF NextScope
  <1> QED BY <1>1, <1>2

LEMMA CursorsFacts ==
    ASSUME law \in BookLaws, NEW s \in DOMAIN law, NEW start, NEW q, NEW step, Listed(s, q)
    PROVE  /\ IsSegment(Cursors(s, start, q, step)) /\ Cursors(s, start, q, step).scope = s
           /\ Cursors(s, start, q, step).articles = q
BY NextScopeFacts DEF Cursors, IsSegment, SegmentFields

LEMMA AnswerFacts ==
    ASSUME law \in BookLaws, NEW s \in DOMAIN law, NEW start, NEW from, NEW to, NEW step
    PROVE  LET page == Cursors(s, start, WithScope(s, start, Fetched(s, from, to)), step)
           IN  IsSegment(page) /\ page.scope = s
  <1>1. <<s, 0>> \notin ToSet(Fetched(s, from, to)) BY FetchedFacts
  <1>2. Listed(s, Fetched(s, from, to)) BY FetchedFacts
  <1>3. Listed(s, WithScope(s, start, Fetched(s, from, to))) BY <1>1, <1>2, WithScopeFacts
  <1> QED BY <1>3, CursorsFacts

\* An answer of the server is a segment of the scope that was asked for.
LEMMA WindowIsSegment ==
    ASSUME law \in BookLaws, NEW s \in DOMAIN law, NEW n
    PROVE  IsSegment(Window(<<s, n>>)) /\ Window(<<s, n>>).scope = s
BY AnswerFacts DEF Window, ScopeOf

LEMMA PageIsSegment ==
    ASSUME law \in BookLaws, NEW s \in DOMAIN law, NEW cursor, NEW direction
    PROVE  IsSegment(Page(s, cursor, direction)) /\ Page(s, cursor, direction).scope = s
BY AnswerFacts DEF Page

\* So is an answer that a switch of the law cuts off.
LEMMA CutPageIsSegment ==
    ASSUME law \in BookLaws, NEW s \in DOMAIN law, NEW cursor, NEW direction, NEW seen
    PROVE  /\ IsSegment(CutPage(s, cursor, direction, seen))
           /\ CutPage(s, cursor, direction, seen).scope = s
  <1> DEFINE start == Start(cursor, direction)
             empty == Cursors(s, start, WithScope(s, start, <<>>), PageSize)
             page == IF "articles" \in seen THEN Page(s, cursor, direction) ELSE empty
  <1>1. IsSegment(empty) /\ empty.scope = s
    <2>1. Listed(s, <<>>) /\ <<s, 0>> \notin ToSet(<<>>) BY NothingListed DEF ToSet
    <2>2. Listed(s, WithScope(s, start, <<>>)) BY <2>1, WithScopeFacts
    <2> QED BY <2>2, CursorsFacts
  <1>2. IsSegment(page) /\ page.scope = s BY <1>1, PageIsSegment
  <1> DEFINE g == [page EXCEPT !.next = 0, !.after = IF seen = {} THEN NoCursor ELSE @]
  <1>3. CutPage(s, cursor, direction, seen) = g BY DEF CutPage
  <1> HIDE DEF page
  <1>4. /\ g.scope = page.scope /\ g.next = 0 /\ g.articles = page.articles
        /\ g = [field \in SegmentFields |-> g[field]]
    BY <1>2 DEF IsSegment, SegmentFields
  <1> HIDE DEF g
  <1> QED BY <1>2, <1>3, <1>4 DEF IsSegment

\* Whatever is answered is a segment of the scope that was asked for.
LEMMA AnswersAreSegments ==
    ASSUME law \in BookLaws, NEW d \in Directions, fetching[d].to \in DOMAIN law,
           NEW page \in Answers(d)
    PROVE  IsSegment(page) /\ page.scope = fetching[d].to
  <1> DEFINE s == fetching[d].to
             c == fetching[d].cursor
  <1>1. page = Page(s, c, d) \/ \E seen \in Seen : page = CutPage(s, c, d, seen) BY DEF Answers
  <1> QED BY <1>1, PageIsSegment, CutPageIsSegment

LEMMA SequenceFacts ==
    ASSUME NEW q, IsSequence(q), NEW x, NEW S, \A i \in 1 .. Len(q) : q[i] \in S, x \in S
    PROVE  /\ q \in Seq(S) /\ DOMAIN q = 1 .. Len(q)
           /\ IsSequence(Append(q, x)) /\ Len(Append(q, x)) = Len(q) + 1
           /\ \A i \in 1 .. Len(q) : Append(q, x)[i] = q[i]
           /\ Append(q, x)[Len(q) + 1] = x
  <1>1. q \in [1 .. Len(q) -> S] /\ Len(q) \in Nat
    <2>1. q = [i \in 1 .. Len(q) |-> q[i]] /\ Len(q) \in Nat BY DEF IsSequence
    <2> QED BY <2>1
  <1>2. q \in Seq(S) BY <1>1, IsASeq
  <1>3. Append(q, x) \in Seq(S) BY <1>2
  <1>4. /\ Len(Append(q, x)) = Len(q) + 1
        /\ \A i \in 1 .. Len(q) : Append(q, x)[i] = q[i]
        /\ Append(q, x)[Len(q) + 1] = x
    BY <1>1, <1>2
  <1>5. Append(q, x) = [i \in 1 .. Len(q) + 1 |-> Append(q, x)[i]]
    <2>1. Append(q, x) \in [1 .. Len(Append(q, x)) -> S] BY <1>3, LenProperties
    <2> QED BY <1>4, <2>1
  <1> QED BY <1>1, <1>2, <1>4, <1>5 DEF IsSequence

LEMMA ReplacedFacts ==
    ASSUME NEW q, IsSequence(q), NEW k \in 1 .. Len(q), NEW x
    PROVE  /\ IsSequence([q EXCEPT ![k] = x]) /\ Len([q EXCEPT ![k] = x]) = Len(q)
           /\ [q EXCEPT ![k] = x][k] = x
           /\ \A i \in 1 .. Len(q) : i # k => [q EXCEPT ![k] = x][i] = q[i]
  <1> DEFINE r == [q EXCEPT ![k] = x]
             S == {q[i] : i \in 1 .. Len(q)} \cup {x}
  <1>1. q \in [1 .. Len(q) -> S] /\ Len(q) \in Nat
    <2>1. q = [i \in 1 .. Len(q) |-> q[i]] /\ Len(q) \in Nat BY DEF IsSequence
    <2> QED BY <2>1
  <1>2. r \in [1 .. Len(q) -> S] BY <1>1
  <1>3. r \in Seq(S) /\ Len(r) = Len(q) BY <1>1, <1>2, IsASeq
  <1>4. r[k] = x /\ \A i \in 1 .. Len(q) : i # k => r[i] = q[i] BY <1>1
  <1>5. r = [i \in 1 .. Len(r) |-> r[i]] BY <1>2, <1>3
  <1> QED BY <1>1, <1>3, <1>4, <1>5 DEF IsSequence

\* A page that shows something has a first and a last segment.
LEMMA SegmentsThere ==
    ASSUME SegmentsOK(segments), segments # <<>>
    PROVE  /\ Len(segments) \in Nat /\ 1 \in 1 .. Len(segments)
           /\ Len(segments) \in 1 .. Len(segments)
           /\ IsSegment(FirstSegment) /\ IsSegment(LastSegment)
  <1>1. Len(segments) \in Nat /\ segments = [i \in 1 .. Len(segments) |-> segments[i]]
    BY DEF SegmentsOK, IsSequence
  <1>2. Len(segments) # 0
    <2>1. SUFFICES ASSUME Len(segments) = 0 PROVE FALSE OBVIOUS
    <2>2. segments \in [1 .. 0 -> {}] BY <1>1, <2>1
    <2> QED BY <2>2
  <1>3. 1 \in 1 .. Len(segments) /\ Len(segments) \in 1 .. Len(segments) BY <1>1, <1>2
  <1> QED BY <1>1, <1>3 DEF SegmentsOK, FirstSegment, LastSegment

\* What is shown is kept by scope.
LEMMA KeptFacts ==
    ASSUME MemoryOK(memory), NEW shown, SegmentsOK(shown)
    PROVE  MemoryOK(Kept(shown))
  <1>1. DOMAIN memory = DOMAIN law BY DEF MemoryOK
  <1>2. Len(shown) \in Nat /\ DOMAIN shown = 1 .. Len(shown) BY DEF SegmentsOK, IsSequence
  <1>3. ASSUME NEW s \in DOMAIN law PROVE Listed(s, Kept(shown)[s])
    <2> DEFINE of == {i \in DOMAIN shown : shown[i].scope = s /\ shown[i].articles # <<>>}
               at == CHOOSE i \in of : \A j \in of : j <= i
    <2>1. Kept(shown)[s] = IF of = {} THEN memory[s] ELSE shown[at].articles
      BY <1>1 DEF Kept
    <2>2. CASE of = {} BY <2>1, <2>2 DEF MemoryOK
    <2>3. CASE of # {}
      <3> DEFINE back == {Len(shown) - i : i \in of}
      <3>1. back \subseteq Nat /\ back # {} BY <1>2, <2>3
      <3>2. PICK m \in back : \A k \in back : m <= k BY <3>1, LeastNumber
      <3>3. PICK i \in of : m = Len(shown) - i BY <3>2
      <3>4. \A j \in of : j <= i
        <4> SUFFICES ASSUME NEW j \in of PROVE j <= i OBVIOUS
        <4>1. Len(shown) - i <= Len(shown) - j BY <3>2, <3>3
        <4>2. i \in Int /\ j \in Int BY <1>2
        <4> QED BY <1>2, <4>1, <4>2
      <3>5. at \in of BY <3>4
      <3> HIDE DEF at
      <3>6. IsSegment(shown[at]) /\ shown[at].scope = s BY <1>2, <3>5 DEF SegmentsOK
      <3> QED BY <2>1, <2>3, <3>6 DEF IsSegment
    <2> QED BY <2>2, <2>3
  <1>4. Kept(shown) = [s \in DOMAIN law |-> Kept(shown)[s]] BY <1>1 DEF Kept
  <1> QED BY <1>3, <1>4 DEF MemoryOK

\* A segment that is replaced by one of the same scope.
LEMMA ReplacedOK ==
    ASSUME SegmentsOK(segments), NEW k \in 1 .. Len(segments), NEW g,
           IsSegment(g), g.scope = segments[k].scope
    PROVE  /\ SegmentsOK([segments EXCEPT ![k] = g])
           /\ [segments EXCEPT ![k] = g] # <<>>
           /\ [segments EXCEPT ![k] = g][1].scope = segments[1].scope
  <1> DEFINE new == [segments EXCEPT ![k] = g]
  <1>1. /\ IsSequence(new) /\ Len(new) = Len(segments) /\ new[k] = g
        /\ \A i \in 1 .. Len(segments) : i # k => new[i] = segments[i]
    BY ReplacedFacts DEF SegmentsOK
  <1> HIDE DEF new
  <1>2. \A i \in 1 .. Len(segments) : new[i].scope = segments[i].scope /\ IsSegment(new[i])
    BY <1>1 DEF SegmentsOK
  <1>3. OneForEach(new) BY <1>1, <1>2 DEF SegmentsOK, OneForEach
  <1>4. Len(segments) \in Nat BY DEF SegmentsOK, IsSequence
  <1>5. 1 \in 1 .. Len(segments) /\ new # <<>> BY <1>1, <1>4
  <1> QED BY <1>1, <1>2, <1>3, <1>5 DEF SegmentsOK, new

LEMMA ExtendedOK ==
    ASSUME ScrollInv, segments # <<>>, NEW page, IsSegment(page), page.scope = LastSegment.scope
    PROVE  /\ SegmentsOK(Extended(page)) /\ Extended(page) # <<>>
           /\ Extended(page)[1].scope = segments[1].scope
  <1> DEFINE n == Len(segments)
             old == segments[n].articles
             more == Without(page.articles, ToSet(old))
             g == [segments[n] EXCEPT !.articles = old \o more,
                                      !.after = page.after, !.next = page.next]
  <1>1. n \in 1 .. Len(segments) BY SegmentsThere DEF ScrollInv
  <1>2. IsSegment(segments[n]) BY <1>1 DEF ScrollInv, SegmentsOK
  <1> DEFINE s == segments[n].scope
  <1>3. s \in Nat /\ page.scope = s BY <1>2, LawFacts DEF ScrollInv, IsSegment, LastSegment
  <1>4. Listed(s, old) /\ Listed(s, page.articles) BY <1>2, <1>3 DEF IsSegment
  <1>5. Listed(s, more) /\ ToSet(more) = ToSet(page.articles) \ ToSet(old) BY <1>3, <1>4, WithoutFacts
  <1>6. Listed(s, old \o more)
    <2>1. \A a \in ToSet(old), b \in ToSet(more) : <<a, b>> \in Different
      <3> SUFFICES ASSUME NEW a \in ToSet(old), NEW b \in ToSet(more) PROVE <<a, b>> \in Different
        OBVIOUS
      <3>1. a \in {s} \X Nat /\ b \in {s} \X Nat BY <1>3, <1>4, <1>5, ListedFacts
      <3>2. a # b BY <1>5
      <3> QED BY <1>3, <3>1, <3>2 DEF Different
    <2> HIDE DEF more, old, s
    <2> QED BY <1>4, <1>5, <2>1, JoinedOrdered DEF Listed
  <1>7. /\ g.scope = s /\ g.articles = old \o more /\ g.next = page.next
        /\ g = [field \in SegmentFields |-> g[field]]
    <2> HIDE DEF more
    <2> QED BY <1>2 DEF IsSegment, SegmentFields
  <1>8. IsSegment(g)
    <2> HIDE DEF g, more, old
    <2> QED BY <1>2, <1>6, <1>7 DEF IsSegment
  <1>9. Extended(page) = [segments EXCEPT ![n] = g]
    BY Zenon DEF Extended, LastSegment
  <1>10. SegmentsOK(segments) /\ g.scope = segments[n].scope BY <1>7 DEF ScrollInv
  <1> HIDE DEF g, n, s
  <1>11. /\ SegmentsOK([segments EXCEPT ![n] = g])
         /\ [segments EXCEPT ![n] = g] # <<>>
         /\ [segments EXCEPT ![n] = g][1].scope = segments[1].scope
    BY <1>1, <1>8, <1>10, ReplacedOK
  <1> QED BY <1>9, <1>11

LEMMA AppendedOK ==
    ASSUME ScrollInv, segments # <<>>, NEW page, IsSegment(page)
    PROVE  /\ SegmentsOK(Appended(page)) /\ Appended(page) # <<>>
           /\ Appended(page)[1].scope = segments[1].scope
  <1> DEFINE n == Len(segments)
             g == [page EXCEPT !.articles = Without(@, ToSet(Shown))]
             S == {segments[i] : i \in 1 .. n} \cup {g}
  <1>1. SegmentsOK(segments) /\ n \in Nat /\ n # 0 BY SegmentsThere DEF ScrollInv
  <1>2. /\ g.scope = page.scope /\ g.next = page.next
        /\ g.articles = Without(page.articles, ToSet(Shown))
        /\ g = [field \in SegmentFields |-> g[field]]
    BY DEF IsSegment, SegmentFields
  <1>3. page.scope \in Nat BY LawFacts DEF ScrollInv, IsSegment
  <1>4. Listed(page.scope, g.articles) BY <1>2, <1>3, WithoutFacts DEF IsSegment
  <1> HIDE DEF g
  <1>5. IsSegment(g) BY <1>2, <1>4 DEF IsSegment
  <1>6. CASE \E i \in DOMAIN segments : segments[i].scope = page.scope
    BY <1>1, <1>6 DEF Appended
  <1>7. CASE ~ \E i \in DOMAIN segments : segments[i].scope = page.scope
    <2> DEFINE new == Append(segments, g)
    <2>1. Appended(page) = new BY <1>7 DEF Appended, g
    <2>2. /\ IsSequence(new) /\ Len(new) = n + 1 /\ new[n + 1] = g /\ DOMAIN segments = 1 .. n
          /\ \A i \in 1 .. n : new[i] = segments[i]
      <3>1. IsSequence(segments) /\ g \in S /\ \A i \in 1 .. n : segments[i] \in S
        BY <1>1 DEF SegmentsOK
      <3> HIDE DEF S
      <3> QED BY <3>1, SequenceFacts
    <2> HIDE DEF new
    <2>3. \A i \in 1 .. n + 1 : i \in 1 .. n \/ i = n + 1 BY <1>1
    <2>4. \A i \in 1 .. n + 1 : IsSegment(new[i]) BY <1>1, <1>5, <2>2, <2>3 DEF SegmentsOK
    <2>5. OneForEach(new)
      <3> SUFFICES ASSUME NEW i \in 1 .. n + 1, NEW j \in 1 .. n + 1, new[i].scope = new[j].scope
                   PROVE  i = j
        BY <2>2 DEF OneForEach
      <3>1. CASE i \in 1 .. n /\ j \in 1 .. n BY <1>1, <2>2, <3>1 DEF SegmentsOK, OneForEach
      <3>2. CASE i = n + 1 /\ j \in 1 .. n BY <1>2, <1>7, <2>2, <3>2
      <3>3. CASE i \in 1 .. n /\ j = n + 1 BY <1>2, <1>7, <2>2, <3>3
      <3> QED BY <2>3, <3>1, <3>2, <3>3
    <2>6. new # <<>> /\ 1 \in 1 .. n BY <1>1, <2>2
    <2> QED BY <2>1, <2>2, <2>4, <2>5, <2>6 DEF SegmentsOK
  <1> QED BY <1>6, <1>7

LEMMA ReadBackOK ==
    ASSUME ScrollInv, segments # <<>>, NEW page, IsSegment(page), page.scope = FirstSegment.scope,
           NEW g, g = [FirstSegment EXCEPT
                          !.articles = IF ToSet(page.articles) \ ToSet(FirstSegment.articles) = {} THEN @
                                       ELSE ByPlace((ToSet(page.articles) \ ToSet(FirstSegment.articles))
                                                     \cup ToSet(FirstSegment.articles)),
                          !.before = page.before]
    PROVE  /\ SegmentsOK([segments EXCEPT ![1] = g]) /\ [segments EXCEPT ![1] = g] # <<>>
           /\ [segments EXCEPT ![1] = g][1].scope = segments[1].scope
  <1> DEFINE s == FirstSegment.scope
             known == ToSet(FirstSegment.articles)
             fresh == ToSet(page.articles) \ known
             A == fresh \cup known
  <1>1. SegmentsOK(segments) /\ 1 \in 1 .. Len(segments) BY SegmentsThere DEF ScrollInv
  <1>2. IsSegment(FirstSegment) BY <1>1 DEF SegmentsOK, FirstSegment
  <1>3. s \in Nat BY <1>2, LawFacts DEF ScrollInv, IsSegment
  <1>4. Listed(s, FirstSegment.articles) /\ Listed(s, page.articles) BY <1>2 DEF IsSegment
  <1>5. IsFiniteSet(A) /\ A \subseteq {s} \X Nat
    <2>1. /\ IsFiniteSet(known) /\ known \subseteq {s} \X Nat
          /\ IsFiniteSet(ToSet(page.articles)) /\ ToSet(page.articles) \subseteq {s} \X Nat
      BY <1>3, <1>4, ListedFacts
    <2>2. IsFiniteSet(fresh) BY <2>1, FS_Subset
    <2> QED BY <2>1, <2>2, FS_Union
  <1>6. Listed(s, ByPlace(A)) BY <1>3, <1>5, ScopeIsPlaced
  <1>7. /\ g.scope = s /\ g.next = FirstSegment.next
        /\ g.articles = IF fresh = {} THEN FirstSegment.articles ELSE ByPlace(A)
        /\ g = [field \in SegmentFields |-> g[field]]
    BY <1>2 DEF IsSegment, SegmentFields
  <1> HIDE DEF fresh, known
  <1>8. IsSegment(g) BY <1>2, <1>4, <1>6, <1>7 DEF IsSegment
  <1>9. g.scope = segments[1].scope BY <1>7 DEF FirstSegment
  <1> QED BY <1>1, <1>8, <1>9, ReplacedOK

LEMMA OpenOK ==
    ASSUME ScrollInv, NEW s \in DOMAIN law, NEW n, Open(s, n)
    PROVE  ScrollInv'
  <1> DEFINE window == Window(<<s, n>>)
             adopt  == memory[s] # <<>> /\ Len(memory[s]) >= Len(window.articles)
             first  == IF adopt THEN [window EXCEPT !.articles = memory[s]] ELSE window
  <1>1. /\ segments' = <<first>> /\ memory' = Kept(<<first>>) /\ law' = law
        /\ fetching' = [d \in Directions |-> NoRequest]
    BY DEF Open
  <1>2. IsSegment(window) /\ window.scope = s BY WindowIsSegment DEF ScrollInv
  <1>3. Listed(s, memory[s]) BY DEF ScrollInv, MemoryOK
  <1> HIDE DEF window, adopt
  <1>4. IsSegment(first)
    <2>1. CASE adopt
      <3> DEFINE g == [window EXCEPT !.articles = memory[s]]
      <3>1. /\ g.scope = s /\ g.next = window.next /\ g.articles = memory[s]
            /\ g = [field \in SegmentFields |-> g[field]]
        BY <1>2 DEF IsSegment, SegmentFields
      <3> HIDE DEF g
      <3>2. IsSegment(g) BY <1>2, <1>3, <3>1 DEF IsSegment
      <3> QED BY <2>1, <3>2 DEF g
    <2>2. CASE ~adopt BY <1>2, <2>2
    <2> QED BY <2>1, <2>2
  <1> HIDE DEF first
  <1>5. SegmentsOK(<<first>>) BY <1>4 DEF SegmentsOK, IsSequence, OneForEach
  <1>6. MemoryOK(Kept(<<first>>)) BY <1>5, KeptFacts DEF ScrollInv
  <1>7. FetchingOK(fetching', segments') BY <1>1 DEF FetchingOK
  <1> QED BY <1>1, <1>5, <1>6, <1>7
      DEF ScrollInv, SegmentsOK, IsSegment, MemoryOK, FetchingOK

\* What is kept of what is shown, for the revision in the database.
LEMMA RememberedFacts ==
    ASSUME ScrollInv, NEW shown, SegmentsOK(shown)
    PROVE  MemoryOK(Remembered(shown))
BY KeptFacts DEF ScrollInv, Remembered

\* A step that leaves the law alone.
LEMMA SameLaw ==
    ASSUME ScrollInv, law' = law, SegmentsOK(segments'), MemoryOK(memory'),
           FetchingOK(fetching', segments')
    PROVE  ScrollInv'
BY DEF ScrollInv, SegmentsOK, IsSegment, MemoryOK, FetchingOK

LEMMA AnswerAfterOK == ScrollInv /\ AnswerAfter => ScrollInv'
  <1> SUFFICES ASSUME ScrollInv, AnswerAfter PROVE ScrollInv' OBVIOUS
  <1> DEFINE request == fetching["after"]
  <1>0. PICK page \in Answers("after") :
           segments' = IF request.to = LastSegment.scope THEN Extended(page) ELSE Appended(page)
    BY DEF AnswerAfter
  <1>1. /\ request # NoRequest /\ law' = law
        /\ segments' = IF request.to = LastSegment.scope THEN Extended(page) ELSE Appended(page)
        /\ memory' = Remembered(segments')
        /\ fetching' = [fetching EXCEPT !["after"] = NoRequest]
    BY <1>0 DEF AnswerAfter
  <1>2. request.to \in DOMAIN law /\ segments # <<>>
    BY <1>1 DEF ScrollInv, FetchingOK, Directions
  <1>3. IsSegment(page) /\ page.scope = request.to
    BY <1>0, <1>2, AnswersAreSegments DEF ScrollInv, Directions
  <1>4. SegmentsOK(segments') /\ segments' # <<>> /\ segments'[1].scope = segments[1].scope
    BY <1>1, <1>2, <1>3, ExtendedOK, AppendedOK
  <1>5. MemoryOK(memory') BY <1>1, <1>4, RememberedFacts
  <1>6. FetchingOK(fetching', segments')
    BY <1>1, <1>4 DEF ScrollInv, FetchingOK, Directions
  <1> QED BY <1>1, <1>4, <1>5, <1>6, SameLaw

LEMMA AnswerBeforeOK == ScrollInv /\ AnswerBefore => ScrollInv'
  <1> SUFFICES ASSUME ScrollInv, AnswerBefore PROVE ScrollInv' OBVIOUS
  <1> DEFINE request == fetching["before"]
             known == ToSet(FirstSegment.articles)
             Fresh(p) == ToSet(p.articles) \ known
             With(p) == [FirstSegment EXCEPT
                           !.articles = IF Fresh(p) = {} THEN @ ELSE ByPlace(Fresh(p) \cup known),
                           !.before = p.before]
  <1>0. PICK page \in Answers("before") : segments' = [segments EXCEPT ![1] = With(page)]
    BY DEF AnswerBefore
  <1>1. /\ request # NoRequest /\ law' = law
        /\ segments' = [segments EXCEPT ![1] = With(page)]
        /\ memory' = Remembered(segments')
        /\ fetching' = [fetching EXCEPT !["before"] = NoRequest]
    BY <1>0 DEF AnswerBefore
  <1>2. request.to \in DOMAIN law /\ segments # <<>> /\ request.to = segments[1].scope
    BY <1>1 DEF ScrollInv, FetchingOK, Directions
  <1>3. IsSegment(page) /\ page.scope = FirstSegment.scope
    BY <1>0, <1>2, AnswersAreSegments DEF ScrollInv, FirstSegment, Directions
  <1>4. SegmentsOK(segments') /\ segments' # <<>> /\ segments'[1].scope = segments[1].scope
    BY <1>1, <1>2, <1>3, ReadBackOK
  <1>5. MemoryOK(memory') BY <1>1, <1>4, RememberedFacts
  <1>6. FetchingOK(fetching', segments')
    BY <1>1, <1>4 DEF ScrollInv, FetchingOK, Directions
  <1> QED BY <1>1, <1>4, <1>5, <1>6, SameLaw

LEMMA FetchAfterOK == ScrollInv /\ FetchAfter => ScrollInv'
  <1> SUFFICES ASSUME ScrollInv, FetchAfter PROVE ScrollInv' OBVIOUS
  <1>1. /\ segments # <<>> /\ UNCHANGED <<law, segments, memory>> BY DEF FetchAfter
  <1> DEFINE rest == [to |-> LastSegment.scope, cursor |-> LastSegment.after]
             next == [to |-> LastSegment.next, cursor |-> 1]
             Asks(r) == /\ fetching' = [fetching EXCEPT !["after"] = r]
                        /\ r.to = LastSegment.scope \/ (r.to = LastSegment.next /\ LastSegment.next # 0)
  <1>2. PICK r : Asks(r)
    <2>1. Asks(rest) \/ Asks(next) BY DEF FetchAfter
    <2> HIDE DEF Asks
    <2> QED BY <2>1
  <1>3. IsSegment(LastSegment) BY <1>1, SegmentsThere DEF ScrollInv
  <1>4. r.to \in DOMAIN law BY <1>2, <1>3 DEF IsSegment
  <1>5. FetchingOK(fetching', segments') BY <1>1, <1>2, <1>4 DEF ScrollInv, FetchingOK, Directions
  <1> QED BY <1>1, <1>5, SameLaw DEF ScrollInv

LEMMA FetchBeforeOK == ScrollInv /\ FetchBefore => ScrollInv'
  <1> SUFFICES ASSUME ScrollInv, FetchBefore PROVE ScrollInv' OBVIOUS
  <1>1. /\ segments # <<>> /\ UNCHANGED <<law, segments, memory>> BY DEF FetchBefore
  <1>2. PICK r : fetching' = [fetching EXCEPT !["before"] = r] /\ r.to = FirstSegment.scope
    <2> DEFINE rest == [to |-> FirstSegment.scope, cursor |-> FirstSegment.before]
    <2>1. fetching' = [fetching EXCEPT !["before"] = rest] /\ rest.to = FirstSegment.scope
      BY DEF FetchBefore
    <2> HIDE DEF rest
    <2> QED BY <2>1
  <1>3. IsSegment(FirstSegment) BY <1>1, SegmentsThere DEF ScrollInv
  <1>4. r.to \in DOMAIN law BY <1>2, <1>3 DEF IsSegment
  <1>5. FetchingOK(fetching', segments')
    BY <1>1, <1>2, <1>4 DEF ScrollInv, FetchingOK, Directions, FirstSegment
  <1> QED BY <1>1, <1>5, SameLaw DEF ScrollInv

LEMMA ScrollInvInit == ScrollInit => ScrollInv
  <1> SUFFICES ASSUME ScrollInit PROVE ScrollInv OBVIOUS
  <1>1. SegmentsOK(segments) BY DEF ScrollInit, SegmentsOK, IsSequence, OneForEach
  <1>2. MemoryOK(memory) BY NothingListed DEF ScrollInit, MemoryOK
  <1>3. FetchingOK(fetching, segments) BY DEF ScrollInit, FetchingOK
  <1> QED BY <1>1, <1>2, <1>3 DEF ScrollInit, ScrollInv

LEMMA ScrollInvNext == ScrollInv /\ [ScrollNext]_scrollVars => ScrollInv'
  <1> SUFFICES ASSUME ScrollInv, [ScrollNext]_scrollVars PROVE ScrollInv' OBVIOUS
  <1>1. ASSUME NEW s \in DOMAIN law, Expire(s) PROVE ScrollInv'
    <2>1. MemoryOK(memory') BY <1>1, NothingListed DEF Expire, ScrollInv, MemoryOK
    <2> QED BY <1>1, <2>1, SameLaw DEF Expire, ScrollInv
  <1>2. ASSUME NEW d \in Directions, PageFails(d) PROVE ScrollInv'
    <2>1. FetchingOK(fetching', segments') BY <1>2 DEF PageFails, ScrollInv, FetchingOK
    <2> QED BY <1>2, <2>1, SameLaw DEF PageFails, ScrollInv
  <1>3. ASSUME UNCHANGED scrollVars PROVE ScrollInv'
    BY <1>3, SameLaw DEF scrollVars, ScrollInv
  <1>4. ASSUME SwitchLaw PROVE ScrollInv'
    <2>1. DOMAIN memory = DOMAIN law BY DEF ScrollInv, MemoryOK
    <2>2. memory' = [s \in DOMAIN law |-> <<>>] BY <1>4, <2>1 DEF SwitchLaw
    <2>3. MemoryOK(memory') BY <2>2, NothingListed DEF MemoryOK
    <2> QED BY <1>4, <2>3, SameLaw DEF SwitchLaw, ScrollInv
  <1> QED BY <1>1, <1>2, <1>3, <1>4, OpenOK, FetchAfterOK, FetchBeforeOK, AnswerAfterOK, AnswerBeforeOK
      DEF ScrollNext

\* What is shown: the segments one after the other.
LEMMA ShownOrdered ==
    ASSUME ScrollInv, NEW R,
           \A i \in 1 .. Len(segments) : Ordered(segments[i].articles, R),
           \A i, j \in 1 .. Len(segments) : i < j =>
               \A a \in ToSet(segments[i].articles), b \in ToSet(segments[j].articles) : <<a, b>> \in R
    PROVE  /\ Shown \in Seq(Nat \X Nat) /\ Ordered(Shown, R)
           /\ ToSet(Shown) = UNION {ToSet(segments[i].articles) : i \in 1 .. Len(segments)}
           /\ \A i \in 1 .. Len(segments) : ToSet(segments[i].articles) \subseteq {segments[i].scope} \X Nat
  <1> DEFINE texts == [i \in DOMAIN segments |-> segments[i].articles]
             n == Len(segments)
  <1>1. n \in Nat /\ DOMAIN segments = 1 .. n /\ \A i \in 1 .. n : IsSegment(segments[i])
    BY DEF ScrollInv, SegmentsOK, IsSequence
  <1>2. \A i \in 1 .. n : /\ segments[i].scope \in Nat
                          /\ Listed(segments[i].scope, segments[i].articles)
    BY <1>1, LawFacts DEF ScrollInv, IsSegment
  <1>3. ASSUME NEW i \in 1 .. n
        PROVE  /\ segments[i].articles \in Seq(Nat \X Nat)
               /\ ToSet(segments[i].articles) \subseteq {segments[i].scope} \X Nat
    <2> DEFINE s == segments[i].scope
               q == segments[i].articles
    <2>1. s \in Nat /\ Listed(s, q) BY <1>2
    <2> HIDE DEF s, q
    <2>2. q \in Seq({s} \X Nat) BY <2>1 DEF Listed
    <2>3. q \in Seq(Nat \X Nat) BY SMTT(40), <2>1, <2>2
    <2> QED BY <2>1, <2>3, ListedFacts DEF s, q
  <1>4. n = Len(segments) /\ texts = [i \in 1 .. n |-> segments[i].articles] BY <1>1
  <1>5. \A i \in 1 .. n : texts[i] = segments[i].articles BY <1>4
  <1> HIDE DEF texts, n
  <1>6. texts \in Seq(Seq(Nat \X Nat)) /\ Len(texts) = n
    <2>1. texts \in [1 .. n -> Seq(Nat \X Nat)] BY <1>3, <1>4
    <2> QED BY <1>1, <2>1, IsASeq
  <1>7. /\ FlattenSeq(texts) \in Seq(Nat \X Nat) /\ Ordered(FlattenSeq(texts), R)
        /\ ToSet(FlattenSeq(texts)) = UNION {ToSet(texts[i]) : i \in 1 .. Len(texts)}
    <2>1. \A i \in 1 .. Len(texts) : Ordered(texts[i], R) BY <1>4, <1>5, <1>6
    <2>2. \A i, j \in 1 .. Len(texts) : i < j =>
              \A a \in ToSet(texts[i]), b \in ToSet(texts[j]) : <<a, b>> \in R
      <3> SUFFICES ASSUME NEW i \in 1 .. n, NEW j \in 1 .. n, i < j,
                          NEW a \in ToSet(texts[i]), NEW b \in ToSet(texts[j])
                   PROVE  <<a, b>> \in R
        BY <1>6
      <3>1. a \in ToSet(segments[i].articles) /\ b \in ToSet(segments[j].articles) BY <1>5
      <3> QED BY <1>4, <3>1
    <2> QED BY <1>6, <2>1, <2>2, FlattenOrdered
  <1>8. UNION {ToSet(texts[i]) : i \in 1 .. Len(texts)} = UNION {ToSet(segments[i].articles) : i \in 1 .. n}
    <2>1. \A i \in 1 .. n : ToSet(texts[i]) = ToSet(segments[i].articles) BY <1>5
    <2>2. {ToSet(texts[i]) : i \in 1 .. n} = {ToSet(segments[i].articles) : i \in 1 .. n} BY <2>1
    <2> QED BY <1>6, <2>2
  <1>9. Shown = FlattenSeq(texts) BY DEF Shown, texts
  <1> QED BY <1>3, <1>4, <1>7, <1>8, <1>9

\* What is shown is of the scopes of the segments, none of it twice.
LEMMA ShownFacts ==
    ASSUME ScrollInv
    PROVE  /\ Shown \in Seq(Nat \X Nat) /\ Ordered(Shown, Different)
           /\ ToSet(Shown) = UNION {ToSet(segments[i].articles) : i \in 1 .. Len(segments)}
           /\ \A i \in 1 .. Len(segments) : ToSet(segments[i].articles) \subseteq {segments[i].scope} \X Nat
  <1> DEFINE n == Len(segments)
  <1>1. \A i \in 1 .. n : IsSegment(segments[i]) BY DEF ScrollInv, SegmentsOK
  <1>2. ASSUME NEW i \in 1 .. n
        PROVE  segments[i].scope \in Nat /\ Listed(segments[i].scope, segments[i].articles)
    <2>1. segments[i].scope \in DOMAIN law /\ Listed(segments[i].scope, segments[i].articles)
      BY <1>1 DEF IsSegment
    <2> QED BY <2>1, LawFacts DEF ScrollInv
  <1>3. \A i \in 1 .. n : Ordered(segments[i].articles, Different) BY <1>2 DEF Listed
  <1>4. ASSUME NEW i \in 1 .. n, NEW j \in 1 .. n, i < j,
               NEW a \in ToSet(segments[i].articles), NEW b \in ToSet(segments[j].articles)
        PROVE  <<a, b>> \in Different
    <2>1. i \in Int /\ j \in Int OBVIOUS
    <2>2. segments[i].scope # segments[j].scope
      BY <1>4, <2>1 DEF ScrollInv, SegmentsOK, OneForEach
    <2>3. a \in {segments[i].scope} \X Nat /\ b \in {segments[j].scope} \X Nat BY <1>2, ListedFacts
    <2>4. a # b BY <2>2, <2>3
    <2> QED BY <1>2, <2>3, <2>4 DEF Different
  <1> QED BY <1>3, <1>4, ShownOrdered

\* What an item draws is itself and, for a supplementary provision, articles of it.
LEMMA DrawnFacts ==
    ASSUME law \in BookLaws, NEW s \in DOMAIN law, NEW n \in Nat
    PROVE  \A a \in ToSet(Drawn(<<s, n>>)) :
               a[1] = s /\ (a = <<s, n>> \/ (n = 0 /\ a # <<s, 0>>))
  <1> DEFINE e == <<s, n>>
             below == Children(e)
  <1>1. s \in Nat BY LawFacts
  <1>2. below \in Seq({s} \X Nat) /\ \A a \in ToSet(below) : n = 0 /\ a # <<s, 0>>
    <2>1. CASE n = 0
      <3> DEFINE end == law[s].roots + 1
                 q == Fetched(s, 1, end)
      <3>1. below = q BY <2>1 DEF Children
      <3>2. Listed(s, q) /\ \A a \in ToSet(q) : \E m \in 1 .. law[s].roots : a = <<s, m>>
        BY FetchedFacts
      <3> HIDE DEF q
      <3>3. \A a \in ToSet(q) : a # <<s, 0>> BY <3>2, LawFacts
      <3> QED BY <2>1, <3>1, <3>2, <3>3 DEF Listed
    <2>2. CASE n # 0
      <3>1. below = <<>> BY <2>2 DEF Children
      <3> QED BY <3>1 DEF ToSet
    <2> QED BY <2>1, <2>2
  <1>3. ToSet(below) \subseteq {s} \X Nat BY <1>2 DEF ToSet
  <1> HIDE DEF below
  <1>4. e \in {s} \X Nat BY <1>1
  <1> DEFINE all == <<e>> \o below
  <1>5. \A a \in ToSet(all) : a = e \/ a \in ToSet(below)
    <2> HIDE DEF e
    <2> DEFINE own == <<e>>
               Here == {s} \X Nat
    <2>1. below \in Seq(Here) BY <1>2
    <2>2. own \in Seq(Here) /\ Len(own) = 1 /\ own[1] = e BY <1>4
    <2>3. ToSet(own) = {e} BY <2>2 DEF ToSet
    <2> HIDE DEF own, Here
    <2> DEFINE Pairs == Here \X Here
    <2>4. \A q \in Seq(Here) : Ordered(q, Pairs)
      <3> SUFFICES ASSUME NEW q \in Seq(Here), NEW i \in 1 .. Len(q), NEW j \in 1 .. Len(q)
                   PROVE  <<q[i], q[j]>> \in Pairs
        BY DEF Ordered
      <3>1. q[i] \in Here /\ q[j] \in Here OBVIOUS
      <3> QED BY <3>1
    <2>5. \A a \in ToSet(own), b \in ToSet(below) : <<a, b>> \in Pairs
      <3>1. \A q \in Seq(Here) : ToSet(q) \subseteq Here BY DEF ToSet
      <3> QED BY <2>1, <2>2, <3>1
    <2> HIDE DEF Pairs
    <2>6. ToSet(own \o below) = ToSet(own) \cup ToSet(below)
      BY <2>1, <2>2, <2>4, <2>5, JoinedOrdered
    <2> QED BY <2>3, <2>6 DEF own
  <1>6. Drawn(e) = all BY DEF Drawn, below
  <1> HIDE DEF all
  <1> QED BY <1>2, <1>3, <1>5, <1>6

LEMMA ShownOnce == ScrollInv => NothingLoadedTwice
  <1> SUFFICES ASSUME ScrollInv PROVE NothingLoadedTwice OBVIOUS
  <1>1. Shown \in Seq(Nat \X Nat) /\ Ordered(Shown, Different) BY ShownFacts
  <1>2. \A i, j \in DOMAIN Shown : Shown[i] = Shown[j] => i = j
    <2> SUFFICES ASSUME NEW i \in DOMAIN Shown, NEW j \in DOMAIN Shown, Shown[i] = Shown[j]
                 PROVE  i = j
      OBVIOUS
    <2>1. DOMAIN Shown = 1 .. Len(Shown) /\ Len(Shown) \in Nat BY <1>1
    <2>2. ~ (i < j) /\ ~ (j < i) BY ZenonT(40), <1>1, <2>1 DEF Ordered, Different
    <2> QED BY <2>1, <2>2
  <1>3. \A i, j \in DOMAIN segments : segments[i].scope = segments[j].scope => i = j
    BY DEF ScrollInv, SegmentsOK, IsSequence, OneForEach
  <1>4. ASSUME NEW i \in DOMAIN Shown
        PROVE  \E s \in DOMAIN law, n \in Nat : Shown[i] = <<s, n>>
    <2>1. Shown[i] \in ToSet(Shown) BY DEF ToSet
    <2>2. PICK k \in 1 .. Len(segments) : Shown[i] \in ToSet(segments[k].articles)
      BY <2>1, ShownFacts
    <2>3. Shown[i] \in {segments[k].scope} \X Nat BY <2>2, ShownFacts
    <2>4. segments[k].scope \in DOMAIN law BY DEF ScrollInv, SegmentsOK, IsSegment
    <2> QED BY <2>3, <2>4
  <1>5. ASSUME NEW i \in DOMAIN Shown, NEW j \in DOMAIN Shown, i # j,
               NEW a \in ToSet(Drawn(Shown[i])), a \in ToSet(Drawn(Shown[j]))
        PROVE  {Shown[i], Shown[j]} = {a, <<a[1], 0>>}
    <2>1. PICK s \in DOMAIN law, n \in Nat : Shown[i] = <<s, n>> BY <1>4
    <2>2. PICK t \in DOMAIN law, m \in Nat : Shown[j] = <<t, m>> BY <1>4
    <2>3. a[1] = s /\ (a = Shown[i] \/ (n = 0 /\ a # Shown[i]))
      BY <2>1, DrawnFacts DEF ScrollInv
    <2>4. a[1] = t /\ (a = Shown[j] \/ (m = 0 /\ a # Shown[j]))
      BY <1>5, <2>2, DrawnFacts DEF ScrollInv
    <2>5. Shown[i] # Shown[j] BY <1>2, <1>5
    <2> QED BY <2>1, <2>2, <2>3, <2>4, <2>5
  <1> QED BY <1>2, <1>3, <1>5 DEF NothingLoadedTwice, IsInjective

(***************************************************************************)
(* No item is loaded twice, no scope has two segments, and nothing but the *)
(* articles of a supplementary provision is drawn by two items, whatever   *)
(* windows, pages and caches overlap, for laws of any size, windows and    *)
(* pages of any length and any number of openings.                         *)
(***************************************************************************)
THEOREM NothingIsLoadedTwice == ScrollSpec => []NothingLoadedTwice
BY ScrollInvInit, ScrollInvNext, ShownOnce, PTL DEF ScrollSpec

-----------------------------------------------------------------------------
(* Reading on: the order of the text.                                       *)

\* The order of the text: by scope, then by number.
Rising == {p \in (Nat \X Nat) \X (Nat \X Nat) :
              p[1][1] < p[2][1] \/ (p[1][1] = p[2][1] /\ p[1][2] < p[2][2])}

\* The order of the text is a strict linear order.
LEMMA RisingFacts ==
    \A a, b \in Nat \X Nat :
        /\ <<a, b>> \in Rising <=> a[1] < b[1] \/ (a[1] = b[1] /\ a[2] < b[2])
        /\ <<a, b>> \in Rising => <<b, a>> \notin Rising /\ a # b
        /\ a = b \/ <<a, b>> \in Rising \/ <<b, a>> \in Rising
  <1> SUFFICES ASSUME NEW a \in Nat \X Nat, NEW b \in Nat \X Nat
               PROVE  /\ <<a, b>> \in Rising <=> a[1] < b[1] \/ (a[1] = b[1] /\ a[2] < b[2])
                      /\ <<a, b>> \in Rising => <<b, a>> \notin Rising /\ a # b
                      /\ a = b \/ <<a, b>> \in Rising \/ <<b, a>> \in Rising
    OBVIOUS
  <1>1. /\ <<a, b>> \in Rising <=> a[1] < b[1] \/ (a[1] = b[1] /\ a[2] < b[2])
        /\ <<b, a>> \in Rising <=> b[1] < a[1] \/ (b[1] = a[1] /\ b[2] < a[2])
    BY DEF Rising
  <1>2. a[1] \in Nat /\ a[2] \in Nat /\ b[1] \in Nat /\ b[2] \in Nat
        /\ a = <<a[1], a[2]>> /\ b = <<b[1], b[2]>>
    OBVIOUS
  <1> QED BY <1>1, <1>2

\* In a rising sequence the smaller member stands first.
LEMMA RisingPlaces ==
    ASSUME NEW q \in Seq(Nat \X Nat), Ordered(q, Rising),
           NEW i \in 1 .. Len(q), NEW j \in 1 .. Len(q)
    PROVE  /\ q[i] \in Nat \X Nat /\ q[j] \in Nat \X Nat
           /\ <<q[i], q[j]>> \in Rising => i < j
           /\ q[i] = q[j] => i = j
  <1>1. q[i] \in Nat \X Nat /\ q[j] \in Nat \X Nat OBVIOUS
  <1>2. i < j => <<q[i], q[j]>> \in Rising BY DEF Ordered
  <1>3. j < i => <<q[j], q[i]>> \in Rising BY DEF Ordered
  <1>4. i \in Int /\ j \in Int OBVIOUS
  <1> QED BY SMTT(40), <1>1, <1>2, <1>3, <1>4, RisingFacts

(***************************************************************************)
(* A rising sequence whose members are the first ones of another rising    *)
(* sequence begins it.                                                     *)
(***************************************************************************)
LEMMA RisingPrefix ==
    ASSUME NEW p \in Seq(Nat \X Nat), NEW t \in Seq(Nat \X Nat),
           Ordered(p, Rising), Ordered(t, Rising), ToSet(p) \subseteq ToSet(t),
           \A x \in ToSet(p), y \in ToSet(t) : <<y, x>> \in Rising => y \in ToSet(p)
    PROVE  /\ Len(p) <= Len(t)
           /\ \A k \in 1 .. Len(p) : p[k] = t[k]
  <1> DEFINE Same(k) == k <= Len(t) /\ p[k] = t[k]
             bad == {k \in 1 .. Len(p) : ~ Same(k)}
  <1>1. /\ Len(p) \in Nat /\ DOMAIN p = 1 .. Len(p)
        /\ Len(t) \in Nat /\ DOMAIN t = 1 .. Len(t)
    OBVIOUS
  <1>2. bad = {}
    <2>1. SUFFICES ASSUME bad # {} PROVE FALSE OBVIOUS
    <2>2. bad \subseteq Nat BY <1>1
    <2>3. PICK k \in bad : \A m \in bad : k <= m BY <2>1, <2>2, LeastNumber
    <2>4. k \in 1 .. Len(p) /\ k \in Nat /\ ~ Same(k) BY <1>1, <2>3
    <2>5. \A m \in 1 .. Len(p) : m < k => Same(m) BY <2>3, <2>4
    <2> HIDE DEF bad
    <2>6. p[k] \in ToSet(p) BY <1>1, <2>4 DEF ToSet
    <2>7. PICK j \in 1 .. Len(t) : p[k] = t[j] BY <1>1, <2>6 DEF ToSet
    <2>8. ~ (j < k)
      <3>1. SUFFICES ASSUME j < k PROVE FALSE OBVIOUS
      <3>2. j \in 1 .. Len(p) BY <1>1, <2>4, <3>1
      <3>3. p[j] = p[k] BY <2>5, <2>7, <3>1, <3>2
      <3>4. j = k BY <2>4, <3>2, <3>3, RisingPlaces
      <3> QED BY <2>4, <3>1, <3>4
    <2>9. k \in 1 .. Len(t) /\ j \in Int BY <1>1, <2>4, <2>8
    <2>10. k # j BY <2>4, <2>7, <2>9
    <2>11. <<t[k], t[j]>> \in Rising BY SMTT(40), <2>8, <2>9, <2>10 DEF Ordered
    <2>12. t[k] \in ToSet(t) BY <1>1, <2>9 DEF ToSet
    <2>13. t[k] \in ToSet(p) BY <2>6, <2>7, <2>11, <2>12
    <2>14. PICK m \in 1 .. Len(p) : t[k] = p[m] BY <1>1, <2>13 DEF ToSet
    <2>15. m < k
      <3>1. <<p[m], p[k]>> \in Rising BY <2>7, <2>11, <2>14
      <3> QED BY <2>4, <3>1, RisingPlaces
    <2>16. m <= Len(t) /\ t[m] = t[k] BY <2>5, <2>14, <2>15
    <2>17. m \in 1 .. Len(t) BY <1>1, <2>14, <2>16
    <2>18. m = k BY <2>9, <2>16, <2>17, RisingPlaces
    <2> QED BY <2>4, <2>15, <2>18
  <1>3. \A k \in 1 .. Len(p) : Same(k) BY <1>2
  <1>4. Len(p) <= Len(t)
    <2>1. CASE Len(p) = 0 BY <1>1, <2>1
    <2>2. CASE Len(p) # 0
      <3>1. Len(p) \in 1 .. Len(p) BY <1>1, <2>2
      <3> QED BY <1>3, <3>1
    <2> QED BY <2>1, <2>2
  <1> QED BY <1>3, <1>4

LEMMA RisingIsPrefix ==
    ASSUME NEW p \in Seq(Nat \X Nat), NEW t \in Seq(Nat \X Nat),
           Ordered(p, Rising), Ordered(t, Rising), ToSet(p) \subseteq ToSet(t),
           \A x \in ToSet(p), y \in ToSet(t) : <<y, x>> \in Rising => y \in ToSet(p)
    PROVE  IsPrefix(p, t) /\ (ToSet(t) \subseteq ToSet(p) => p = t)
  <1>1. /\ Len(p) \in Nat /\ DOMAIN p = 1 .. Len(p)
        /\ Len(t) \in Nat /\ DOMAIN t = 1 .. Len(t)
    OBVIOUS
  <1>2. Len(p) <= Len(t) /\ \A k \in 1 .. Len(p) : p[k] = t[k] BY RisingPrefix
  <1>3. IsPrefix(p, t)
    <2>1. SubSeq(p, 1, Len(p)) = [i \in 1 .. Len(p) |-> p[i]] BY <1>1
    <2>2. SubSeq(t, 1, Len(p)) = [i \in 1 .. Len(p) |-> t[i]] BY <1>1, <1>2
    <2>3. SubSeq(p, 1, Len(p)) = SubSeq(t, 1, Len(p)) BY SMTT(40), <1>2, <2>1, <2>2
    <2> QED BY <1>2, <2>3 DEF IsPrefix
  <1>4. ASSUME ToSet(t) \subseteq ToSet(p) PROVE p = t
    <2>1. \A x \in ToSet(t), y \in ToSet(p) : <<y, x>> \in Rising => y \in ToSet(t) OBVIOUS
    <2>2. Len(t) <= Len(p) BY <1>4, <2>1, RisingPrefix
    <2>3. Len(p) <= Len(t) BY <1>2
    <2>7. Len(p) \in Nat /\ Len(t) \in Nat OBVIOUS
    <2>6. Len(p) = Len(t) BY <2>2, <2>3, <2>7
    <2>4. p = [i \in 1 .. Len(p) |-> p[i]] /\ t = [i \in 1 .. Len(t) |-> t[i]] OBVIOUS
    <2>5. [i \in 1 .. Len(p) |-> p[i]] = [i \in 1 .. Len(t) |-> t[i]] BY <1>2, <2>6
    <2> QED BY <2>4, <2>5
  <1> QED BY <1>3, <1>4

PlaceOf(q, a) == SelectInSeq(q, LAMBDA b : b = a)

\* Where a member of a rising sequence stands.
LEMMA SelectedPlace ==
    ASSUME NEW q \in Seq(Nat \X Nat), Ordered(q, Rising), NEW k \in 1 .. Len(q), NEW a, a = q[k]
    PROVE  PlaceOf(q, a) = k
  <1> DEFINE I == {i \in 1 .. Len(q) : q[i] = a}
  <1>1. I = {k} BY RisingPlaces
  <1>2. PlaceOf(q, a) = IF I # {} THEN CHOOSE x \in I : \A y \in I : x =< y ELSE 0
    BY Zenon DEF PlaceOf, SelectInSeq, Min
  <1> HIDE DEF I
  <1>3. k \in Nat OBVIOUS
  <1>4. (CHOOSE x \in I : \A y \in I : x =< y) = k BY <1>1, <1>3
  <1> QED BY <1>1, <1>2, <1>4

\* A rising sequence from one of its members on.
LEMMA TailFacts ==
    ASSUME NEW q \in Seq(Nat \X Nat), Ordered(q, Rising), NEW a \in ToSet(q)
    PROVE  LET tail == SubSeq(q, PlaceOf(q, a), Len(q))
           IN  /\ tail \in Seq(Nat \X Nat) /\ Ordered(tail, Rising)
               /\ ToSet(tail) = {x \in ToSet(q) : x = a \/ <<a, x>> \in Rising}
  <1>1. Len(q) \in Nat /\ DOMAIN q = 1 .. Len(q) OBVIOUS
  <1>2. PICK k \in 1 .. Len(q) : a = q[k] BY <1>1 DEF ToSet
  <1>3. PlaceOf(q, a) = k BY <1>2, SelectedPlace
  <1> DEFINE tail == SubSeq(q, k, Len(q))
             n == Len(q) - k + 1
  <1>4. n \in Nat /\ k \in Nat BY <1>1
  <1>5. /\ tail \in Seq(Nat \X Nat) /\ Len(tail) = n /\ DOMAIN tail = 1 .. n
        /\ \A i \in 1 .. n : tail[i] = q[k + i - 1]
    <2>1. \A i \in k .. Len(q) : q[i] \in Nat \X Nat BY <1>1, <1>4
    <2>2. k <= Len(q) /\ k \in Int /\ Len(q) \in Int BY <1>1, <1>4
    <2>3. /\ tail \in Seq(Nat \X Nat)
          /\ Len(tail) = IF k <= Len(q) THEN Len(q) - k + 1 ELSE 0
          /\ \A i \in 1 .. Len(q) - k + 1 : tail[i] = q[k + i - 1]
      BY <2>1, <2>2, SubSeqProperties
    <2> HIDE DEF tail
    <2> QED BY <2>2, <2>3
  <1> HIDE DEF tail
  <1>6. \A i \in 1 .. n : k + i - 1 \in 1 .. Len(q) BY <1>1, <1>4
  <1>7. Ordered(tail, Rising)
    <2> SUFFICES ASSUME NEW i \in 1 .. n, NEW j \in 1 .. n, i < j
                 PROVE  <<tail[i], tail[j]>> \in Rising
      BY <1>5 DEF Ordered
    <2>1. k + i - 1 \in 1 .. Len(q) /\ k + j - 1 \in 1 .. Len(q) BY <1>6
    <2>2. k + i - 1 < k + j - 1 BY <1>4
    <2>3. <<q[k + i - 1], q[k + j - 1]>> \in Rising BY <2>1, <2>2 DEF Ordered
    <2> QED BY <1>5, <2>3
  <1>8. ASSUME NEW x \in ToSet(tail) PROVE x \in ToSet(q) /\ (x = a \/ <<a, x>> \in Rising)
    <2>1. PICK i \in 1 .. n : x = tail[i] BY <1>5 DEF ToSet
    <2>2. k + i - 1 \in 1 .. Len(q) /\ x = q[k + i - 1] BY <1>5, <1>6, <2>1
    <2>3. x \in ToSet(q) BY <1>1, <2>2 DEF ToSet
    <2>4. k + i - 1 = k \/ k < k + i - 1 BY <1>4
    <2>5. CASE k + i - 1 = k BY <1>2, <2>2, <2>3, <2>5
    <2>6. CASE k < k + i - 1
      <3>1. <<q[k], q[k + i - 1]>> \in Rising BY <2>2, <2>6 DEF Ordered
      <3> QED BY <1>2, <2>2, <2>3, <3>1
    <2> QED BY <2>4, <2>5, <2>6
  <1>9. ASSUME NEW x \in ToSet(q), x = a \/ <<a, x>> \in Rising PROVE x \in ToSet(tail)
    <2>1. PICK j \in 1 .. Len(q) : x = q[j] BY <1>1 DEF ToSet
    <2>2. k <= j
      <3>1. j \in Int /\ k \in Int BY <1>4
      <3>2. CASE x = a
        <4>1. j = k BY ZenonT(40), <1>2, <2>1, <3>2, RisingPlaces
        <4> QED BY <3>1, <4>1
      <3>3. CASE <<a, x>> \in Rising
        <4>1. k < j BY <1>2, <2>1, <3>3, RisingPlaces
        <4> QED BY <3>1, <4>1
      <3> QED BY <1>9, <3>2, <3>3
    <2> DEFINE i == j - k + 1
    <2>3. i \in 1 .. n /\ k + i - 1 = j BY <1>1, <1>4, <2>2
    <2> HIDE DEF i
    <2>4. x = tail[i] BY <1>5, <2>1, <2>3
    <2> QED BY <1>5, <2>3, <2>4 DEF ToSet
  <1>10. ToSet(tail) = {x \in ToSet(q) : x = a \/ <<a, x>> \in Rising} BY <1>8, <1>9
  <1> QED BY <1>3, <1>5, <1>7, <1>10 DEF tail

-----------------------------------------------------------------------------
(* Reading on: what the server answers.                                     *)

\* The first number of a scope.
Lo(s) == 1 - Offset(s)

\* The whole law is in the book.
Complete == \A s \in DOMAIN law : law[s].hidden = {}

Numbers(s, x, y) == {<<s, n>> : n \in x .. y}

\* All articles of a scope from one number to another, in their order.
Piece(q, s, x, y) ==
    /\ q \in Seq({s} \X Nat) /\ Ordered(q, Rising)
    /\ ToSet(q) = Numbers(s, x, y) /\ Len(q) = y - x + 1

\* The numbers of a scope and how many articles it has.
LEMMA ScopeFacts ==
    ASSUME law \in BookLaws, NEW s \in DOMAIN law
    PROVE  /\ s \in Nat \ {0} /\ law[s].roots \in Nat
           /\ Offset(s) \in {0, 1} /\ Lo(s) \in {0, 1} /\ Lo(s) + Offset(s) = 1
           /\ law[s].whole <=> Offset(s) = 1
           /\ Complete => Total(s) = law[s].roots + Offset(s)
  <1>1. s \in Nat \ {0} /\ law[s].roots \in Nat /\ law[s].whole \in BOOLEAN BY LawFacts
  <1>2. Offset(s) \in {0, 1} /\ (law[s].whole <=> Offset(s) = 1) BY <1>1 DEF Offset
  <1>3. Lo(s) \in {0, 1} /\ Lo(s) + Offset(s) = 1 BY <1>2 DEF Lo
  <1>4. ASSUME Complete PROVE Total(s) = law[s].roots + Offset(s)
    <2>1. law[s].hidden = {} BY <1>4 DEF Complete
    <2>2. Cardinality({}) = 0 BY FS_EmptySet
    <2>3. Total(s) = law[s].roots - 0 + Offset(s) BY <2>1, <2>2 DEF Total
    <2> QED BY <1>1, <1>2, <2>3
  <1> QED BY <1>1, <1>2, <1>3, <1>4

\* The articles between two numbers, and how many they are.
LEMMA NumbersFacts ==
    ASSUME NEW s \in Nat, NEW x \in Nat, NEW y \in Int, x <= y + 1
    PROVE  /\ IsFiniteSet(Numbers(s, x, y)) /\ Cardinality(Numbers(s, x, y)) = y - x + 1
           /\ Numbers(s, x, y) \subseteq {s} \X Nat
  <1> DEFINE f == [n \in x .. y |-> <<s, n>>]
  <1>1. f \in Surjection(x .. y, Numbers(s, x, y)) /\ f \in Injection(x .. y, Numbers(s, x, y))
    <2>1. f \in [x .. y -> Numbers(s, x, y)] BY DEF Numbers
    <2>2. \A a \in Numbers(s, x, y) : \E n \in x .. y : f[n] = a BY DEF Numbers
    <2>3. IsInjective(f) BY DEF IsInjective
    <2> QED BY <2>1, <2>2, <2>3 DEF Surjection, Injection
  <1>2. IsFiniteSet(x .. y) /\ Cardinality(x .. y) = y - x + 1 BY FS_Interval
  <1> HIDE DEF f
  <1>3. /\ IsFiniteSet(Numbers(s, x, y))
        /\ Cardinality(Numbers(s, x, y)) = Cardinality(x .. y)
    BY <1>1, <1>2, FS_Surjection
  <1> QED BY <1>2, <1>3 DEF Numbers

\* Articles of one scope that are sorted by their places rise.
LEMMA ByPlaceRises ==
    ASSUME NEW s \in Nat, NEW A, IsFiniteSet(A), A \subseteq {s} \X Nat
    PROVE  /\ ByPlace(A) \in Seq({s} \X Nat) /\ Ordered(ByPlace(A), Rising)
           /\ ToSet(ByPlace(A)) = A /\ Len(ByPlace(A)) = Cardinality(A)
  <1>1. Placed(A) /\ Listed(s, ByPlace(A)) /\ ToSet(ByPlace(A)) = A BY ScopeIsPlaced
  <1>2. /\ Len(ByPlace(A)) = Cardinality(A)
        /\ \A i, j \in 1 .. Cardinality(A) : i < j => ByPlace(A)[i][2] < ByPlace(A)[j][2]
    BY <1>1, ByPlaceFacts
  <1> DEFINE q == ByPlace(A)
  <1>3. q \in Seq({s} \X Nat) BY <1>1 DEF Listed
  <1> HIDE DEF q
  <1>4. Ordered(q, Rising)
    <2> SUFFICES ASSUME NEW i \in 1 .. Len(q), NEW j \in 1 .. Len(q), i < j
                 PROVE  <<q[i], q[j]>> \in Rising
      BY DEF Ordered
    <2>1. q[i] \in {s} \X Nat /\ q[j] \in {s} \X Nat BY <1>3
    <2>2. q[i][2] < q[j][2] BY <1>2 DEF q
    <2>3. q[i] \in Nat \X Nat /\ q[j] \in Nat \X Nat /\ q[i][1] = q[j][1] BY <2>1
    <2> QED BY <2>2, <2>3, RisingFacts
  <1> QED BY <1>1, <1>2, <1>3, <1>4 DEF q

\* All articles between two numbers, sorted by their places, are a piece.
LEMMA PieceByPlace ==
    ASSUME NEW s \in Nat, NEW x \in Nat, NEW y \in Int, x <= y + 1
    PROVE  Piece(ByPlace(Numbers(s, x, y)), s, x, y)
BY NumbersFacts, ByPlaceRises DEF Piece

\* A piece that is not empty begins with its first number.
LEMMA PieceBegins ==
    ASSUME NEW s \in Nat, NEW x \in Nat, NEW y \in Int, x <= y, NEW q, Piece(q, s, x, y)
    PROVE  q[1] = <<s, x>> /\ q # <<>>
  <1>1. /\ q \in Seq({s} \X Nat) /\ Ordered(q, Rising)
        /\ ToSet(q) = Numbers(s, x, y)
    BY DEF Piece
  <1>2. <<s, x>> \in ToSet(q)
    <2>1. x \in x .. y OBVIOUS
    <2> QED BY <1>1, <2>1 DEF Numbers
  <1>3. Len(q) \in Nat /\ DOMAIN q = 1 .. Len(q) BY <1>1
  <1>4. PICK k \in 1 .. Len(q) : q[k] = <<s, x>> BY <1>2, <1>3 DEF ToSet
  <1>5. 1 \in 1 .. Len(q) /\ k \in Nat BY <1>3, <1>4
  <1>6. q[1] \in ToSet(q) BY <1>3, <1>5 DEF ToSet
  <1>7. PICK n \in x .. y : q[1] = <<s, n>> BY <1>1, <1>6 DEF Numbers
  <1>8. k = 1
    <2>1. SUFFICES ASSUME 1 < k PROVE FALSE BY <1>3, <1>4, <1>5
    <2>2. <<q[1], q[k]>> \in Rising BY <1>1, <1>4, <1>5, <2>1 DEF Ordered
    <2>3. <<<<s, n>>, <<s, x>>>> \in Rising BY <1>4, <1>7, <2>2
    <2>4. n < x BY <2>3 DEF Rising
    <2> QED BY <1>7, <2>4
  <1> QED BY <1>3, <1>4, <1>5, <1>8

\* What the database has of a scope, numbered from one.
LEMMA FetchedPiece ==
    ASSUME law \in BookLaws, Complete, NEW s \in DOMAIN law, NEW a \in Nat \ {0}, NEW b \in Nat,
           NEW y, y = Smaller(law[s].roots, b - 1), a <= y + 1
    PROVE  y \in Int /\ y <= law[s].roots /\ Piece(Fetched(s, a, b), s, a, y)
  <1>1. s \in Nat /\ law[s].roots \in Nat BY ScopeFacts
  <1>2. y \in Int /\ y <= law[s].roots /\ y <= b - 1 /\ (y = law[s].roots \/ y = b - 1)
    BY <1>1 DEF Smaller
  <1>3. law[s].hidden = {} BY DEF Complete
  <1> DEFINE M == {m \in 1 .. law[s].roots : m \in a .. b - 1 /\ m \notin law[s].hidden}
  <1>4. M = a .. y BY <1>1, <1>2, <1>3
  <1>5. Fetched(s, a, b) = ByPlace({<<s, n>> : n \in M}) BY DEF Fetched
  <1> HIDE DEF M
  <1>6. Fetched(s, a, b) = ByPlace(Numbers(s, a, y)) BY <1>4, <1>5 DEF Numbers
  <1> QED BY <1>1, <1>2, <1>6, PieceByPlace

\* A supplementary provision comes before what it is made of.
LEMMA WithScopePiece ==
    ASSUME NEW s \in Nat, NEW y \in Int, y >= 0, NEW q, Piece(q, s, 1, y)
    PROVE  Piece(<<<<s, 0>>>> \o q, s, 0, y)
  <1> DEFINE own == <<<<s, 0>>>>
  <1>1. own \in Seq({s} \X Nat) /\ ToSet(own) = {<<s, 0>>} /\ Len(own) = 1 BY DEF ToSet
  <1>2. Ordered(own, Rising) BY DEF Ordered
  <1>3. /\ q \in Seq({s} \X Nat) /\ Ordered(q, Rising)
        /\ ToSet(q) = Numbers(s, 1, y) /\ Len(q) = y
    BY DEF Piece
  <1>4. \A a \in ToSet(own), b \in ToSet(q) : <<a, b>> \in Rising
    <2> SUFFICES ASSUME NEW n \in 1 .. y PROVE <<<<s, 0>>, <<s, n>>>> \in Rising
      BY <1>1, <1>3 DEF Numbers
    <2> QED BY DEF Rising
  <1> HIDE DEF own
  <1>5. /\ own \o q \in Seq({s} \X Nat) /\ Ordered(own \o q, Rising)
        /\ ToSet(own \o q) = ToSet(own) \cup ToSet(q)
    BY <1>1, <1>2, <1>3, <1>4, JoinedOrdered
  <1>6. ToSet(own \o q) = Numbers(s, 0, y)
    <2>1. 0 .. y = {0} \cup 1 .. y OBVIOUS
    <2> QED BY <1>1, <1>3, <1>5, <2>1 DEF Numbers
  <1>7. Len(own \o q) = 1 + y
    <2>1. own \in Seq({s} \X Nat) /\ q \in Seq({s} \X Nat) /\ Len(own) = 1 /\ Len(q) = y BY <1>1, <1>3
    <2>2. Len(own \o q) = Len(own) + Len(q) BY <2>1, ConcatProperties
    <2> QED BY <2>1, <2>2
  <1> QED BY <1>5, <1>6, <1>7 DEF Piece, own

\* A scope with something to read.
HasText(s) == Lo(s) <= law[s].roots

\* t is the scope to read after s, 0 if there is none.
NextText(s, t) ==
    \/ t = 0 /\ \A u \in DOMAIN law : s < u => ~ HasText(u)
    \/ /\ t \in DOMAIN law /\ s < t /\ HasText(t)
       /\ \A u \in DOMAIN law : s < u /\ HasText(u) => t <= u

\* A segment holds its scope from one number to another without a gap, perhaps
\* something before them and nothing after them.
Runs(g, lo, hi) ==
    /\ lo \in Nat /\ hi \in Nat /\ Lo(g.scope) <= lo /\ lo <= hi /\ hi <= law[g.scope].roots
    /\ Ordered(g.articles, Rising)
    /\ \A a \in ToSet(g.articles) : a[2] \in Lo(g.scope) .. hi
    /\ \A n \in lo .. hi : <<g.scope, n>> \in ToSet(g.articles)

\* Its cursor asks for what comes after them, if anything does.
GoesOn(g, lo, hi) ==
    IF g.after = NoCursor THEN hi = law[g.scope].roots
    ELSE /\ g.after \in Nat
         /\ lo <= g.after - Offset(g.scope) /\ g.after - Offset(g.scope) <= hi + 1
         /\ g.after - Offset(g.scope) <= law[g.scope].roots

\* A cursor for what comes before an article.
ReadsBack(cursor, lo) == cursor = NoCursor \/ cursor \in 1 .. lo

\* NextScope answers with the next scope that has a text.
LEMMA NextTextFacts ==
    ASSUME law \in BookLaws, Complete, NEW s \in DOMAIN law
    PROVE  NextText(s, NextScope(s))
  <1> DEFINE later == {t \in DOMAIN law : t > s /\ Total(t) > 0}
             first == CHOOSE t \in later : \A u \in later : t <= u
  <1>1. s \in Nat /\ \A u \in DOMAIN law : u \in Nat \ {0} BY LawFacts
  <1>2. \A u \in DOMAIN law : Total(u) > 0 <=> HasText(u)
    <2> SUFFICES ASSUME NEW u \in DOMAIN law PROVE Total(u) > 0 <=> HasText(u) OBVIOUS
    <2>1. /\ law[u].roots \in Nat /\ Total(u) = law[u].roots + Offset(u)
          /\ Offset(u) \in {0, 1} /\ Lo(u) \in {0, 1} /\ Lo(u) + Offset(u) = 1
      BY ScopeFacts
    <2> QED BY <2>1 DEF HasText
  <1>3. NextScope(s) = IF later = {} THEN 0 ELSE first BY DEF NextScope
  <1>4. \A u \in DOMAIN law : u \in later <=> s < u /\ HasText(u)
    <2> SUFFICES ASSUME NEW u \in DOMAIN law PROVE u > s <=> s < u BY <1>2
    <2> QED BY <1>1
  <1>5. later \subseteq DOMAIN law OBVIOUS
  <1>6. CASE later = {}
    <2> HIDE DEF later, first
    <2> QED BY <1>3, <1>4, <1>6 DEF NextText
  <1>7. CASE later # {}
    <2>1. later \subseteq Nat BY <1>1
    <2>2. \E t \in later : \A u \in later : t <= u BY <1>7, <2>1, LeastNumber
    <2>3. first \in later /\ \A u \in later : first <= u BY <2>2
    <2> HIDE DEF later, first
    <2> QED BY <1>3, <1>4, <1>5, <1>7, <2>3 DEF NextText
  <1> QED BY <1>6, <1>7

\* What both queries say of the numbers they found.
LEMMA CursorsRead ==
    ASSUME law \in BookLaws, Complete, NEW s \in DOMAIN law, NEW start \in Nat \ {0}, NEW step \in Nat,
           NEW q, NEW lo \in Nat, NEW hi \in Nat, lo <= hi, hi <= law[s].roots, Lo(s) <= lo,
           Piece(q, s, lo, hi)
    PROVE  LET g == Cursors(s, start, q, step)
           IN  /\ g.scope = s /\ g.articles = q /\ Runs(g, lo, hi)
               /\ NextText(s, g.next) /\ ReadsBack(g.before, start)
               /\ g.after = IF start + hi - lo < law[s].roots + Offset(s)
                            THEN start + hi - lo + 1 ELSE NoCursor
  <1> DEFINE g == Cursors(s, start, q, step)
             last == start + Len(q) - 1
  <1>1. /\ g.scope = s /\ g.articles = q /\ g.next = NextScope(s)
        /\ g.before = IF start > 1 THEN Larger(1, start - step) ELSE NoCursor
        /\ g.after = IF last < Total(s) THEN last + 1 ELSE NoCursor
    BY DEF Cursors
  <1> HIDE DEF g
  <1>2. Len(q) = hi - lo + 1 /\ ToSet(q) = Numbers(s, lo, hi) /\ Ordered(q, Rising) BY DEF Piece
  <1>3. last = start + hi - lo /\ Total(s) = law[s].roots + Offset(s) BY <1>2, ScopeFacts
  <1>4. ReadsBack(g.before, start) BY <1>1 DEF ReadsBack, Larger
  <1>5. Runs(g, lo, hi)
    <2>1. Lo(s) \in {0, 1} BY ScopeFacts
    <2>2. \A a \in Numbers(s, lo, hi) : a[2] \in Lo(s) .. hi BY <2>1 DEF Numbers
    <2>3. \A n \in lo .. hi : <<s, n>> \in Numbers(s, lo, hi) BY DEF Numbers
    <2> QED BY <1>1, <1>2, <2>2, <2>3 DEF Runs
  <1> HIDE DEF last
  <1>6. g.after = IF start + hi - lo < law[s].roots + Offset(s) THEN start + hi - lo + 1 ELSE NoCursor
    BY <1>1, <1>3
  <1> QED BY <1>1, <1>4, <1>5, <1>6, NextTextFacts DEF g

(***************************************************************************)
(* The window around an article reads on from its first article.           *)
(***************************************************************************)
LEMMA WindowReads ==
    ASSUME law \in BookLaws, Complete, NEW s \in DOMAIN law, NEW n \in 0 .. law[s].roots,
           n = 0 => law[s].whole, NEW g, g = Window(<<s, n>>)
    PROVE  \E lo, hi \in Nat : /\ g.articles[1] = <<s, lo>> /\ Runs(g, lo, hi) /\ GoesOn(g, lo, hi)
                               /\ NextText(s, g.next) /\ ReadsBack(g.before, lo)
  <1> DEFINE r == law[s].roots
             target == IF n = 0 THEN 1 ELSE n
             start == Larger(1, target - Half)
             end == target + Half + 1
             hi == Smaller(r, end - 1)
             found == Fetched(s, start, end)
             all == WithScope(s, start, found)
  <1>1. /\ s \in Nat /\ r \in Nat /\ Offset(s) \in {0, 1} /\ Lo(s) \in {0, 1} /\ Lo(s) + Offset(s) = 1
        /\ (law[s].whole <=> Offset(s) = 1)
    BY ScopeFacts
  <1>2. Half \in Nat BY ScrollAssumption
  <1>3. g = Cursors(s, start, all, Half) BY DEF Window, ScopeOf
  <1> HIDE DEF r
  <1>4. target \in Nat \ {0} /\ n \in 0 .. r /\ (target <= r \/ target = 1) BY <1>1 DEF r
  <1> HIDE DEF target
  <1>5. start \in Nat \ {0} /\ start <= target /\ (start = 1 \/ start = target - Half)
    BY <1>2, <1>4 DEF Larger
  <1>6. end \in Nat /\ hi \in Nat /\ (hi = r \/ hi = target + Half) /\ hi <= r /\ hi <= target + Half
    BY <1>1, <1>2, <1>4 DEF Smaller
  <1>7. start <= hi + 1 BY <1>1, <1>2, <1>4, <1>5, <1>6
  <1> DEFINE y == hi
  <1> HIDE DEF start, end
  <1>8. Piece(found, s, start, y)
    <2>1. y = Smaller(law[s].roots, end - 1) BY DEF r
    <2> HIDE DEF y, hi
    <2>2. start <= y + 1 BY <1>7 DEF y
    <2> QED BY <1>5, <1>6, <2>1, <2>2, FetchedPiece
  <1> HIDE DEF hi, y, found
  <1>9. y = hi BY DEF y
  <1>10. CASE law[s].whole /\ start = 1
    <2>1. all = <<<<s, 0>>>> \o found BY <1>10 DEF WithScope
    <2>2. Piece(found, s, 1, hi) BY <1>8, <1>9, <1>10
    <2>3. Piece(all, s, 0, hi) BY <1>1, <1>6, <2>1, <2>2, WithScopePiece
    <2>4. Lo(s) = 0 /\ Offset(s) = 1 BY <1>1, <1>10
    <2> HIDE DEF all
    <2>5. all[1] = <<s, 0>> BY <1>1, <1>6, <2>3, PieceBegins
    <2>6. hi <= law[s].roots BY <1>6 DEF r
    <2>7. /\ g.scope = s /\ g.articles = all /\ Runs(g, 0, hi)
          /\ NextText(s, g.next) /\ ReadsBack(g.before, start)
          /\ g.after = IF start + hi - 0 < law[s].roots + Offset(s) THEN start + hi - 0 + 1 ELSE NoCursor
      BY <1>2, <1>3, <1>5, <1>6, <2>3, <2>4, <2>6, CursorsRead
    <2>8. g.before = NoCursor
      <3>1. g.before = IF start > 1 THEN Larger(1, start - Half) ELSE NoCursor BY <1>3 DEF Cursors
      <3> QED BY <1>10, <3>1
    <2>9. GoesOn(g, 0, hi)
      <3>1. g.after = IF hi < r THEN hi + 2 ELSE NoCursor BY <1>1, <1>6, <1>10, <2>4, <2>7 DEF r
      <3>2. NoCursor \notin Nat \ {0} BY ScrollAssumption
      <3> QED BY <1>1, <1>6, <2>4, <2>7, <3>1, <3>2 DEF GoesOn, r
    <2> QED BY <1>6, <2>5, <2>7, <2>8, <2>9 DEF ReadsBack
  <1>11. CASE ~ (law[s].whole /\ start = 1)
    <2>1. all = found BY <1>11 DEF WithScope
    <2>2. Piece(all, s, start, hi) BY <1>8, <1>9, <2>1
    <2>3. start <= hi
      <3>1. n # 0 => n <= hi BY <1>2, <1>4, <1>6 DEF target
      <3>2. CASE n # 0 BY <1>4, <1>5, <1>6, <3>1, <3>2 DEF target
      <3>3. CASE n = 0
        <4>1. start = 1 BY <1>5, <3>3 DEF target
        <4> QED BY <1>11, <3>3, <4>1
      <3> QED BY <3>2, <3>3
    <2> HIDE DEF all
    <2>4. Lo(s) <= start BY <1>1, <1>5
    <2>5. all[1] = <<s, start>> BY <1>1, <1>5, <1>6, <2>2, <2>3, PieceBegins
    <2>6. hi <= law[s].roots BY <1>6 DEF r
    <2>7. /\ g.scope = s /\ g.articles = all /\ Runs(g, start, hi)
          /\ NextText(s, g.next) /\ ReadsBack(g.before, start)
          /\ g.after = IF start + hi - start < law[s].roots + Offset(s)
                       THEN start + hi - start + 1 ELSE NoCursor
      BY <1>2, <1>3, <1>5, <1>6, <2>2, <2>3, <2>4, <2>6, CursorsRead
    <2>8. GoesOn(g, start, hi)
      <3>1. g.after = IF hi < r + Offset(s) THEN hi + 1 ELSE NoCursor BY <1>5, <1>6, <2>7 DEF r
      <3>2. NoCursor \notin Nat \ {0} BY ScrollAssumption
      <3>3. ~ law[s].whole \/ start # 1 BY <1>11
      <3>4. CASE hi < r + Offset(s)
        <4>1. g.after = hi + 1 /\ g.after # NoCursor BY <1>6, <3>1, <3>2, <3>4
        <4>2. start <= hi + 1 - Offset(s) /\ hi + 1 - Offset(s) <= hi + 1 /\ hi + 1 - Offset(s) <= r
          BY <1>1, <1>5, <1>6, <2>3, <3>4
        <4>3. g.after \in Nat BY <1>6, <4>1
        <4>4. g.after - Offset(g.scope) = hi + 1 - Offset(s) /\ law[g.scope].roots = r
          <5>1. g.scope = s BY <2>7
          <5>2. law[g.scope].roots = r BY <5>1 DEF r
          <5>3. g.after - Offset(g.scope) = hi + 1 - Offset(s) BY <1>1, <1>6, <4>1, <5>1
          <5> QED BY <5>2, <5>3
        <4> QED BY <4>1, <4>2, <4>3, <4>4 DEF GoesOn
      <3>5. CASE ~ (hi < r + Offset(s))
        <4>1. g.after = NoCursor /\ hi = r BY <1>1, <1>6, <3>1, <3>5
        <4> QED BY <2>7, <4>1 DEF GoesOn, r
      <3> QED BY <3>4, <3>5
    <2> QED BY <1>5, <1>6, <2>5, <2>7, <2>8
  <1> QED BY <1>10, <1>11

(***************************************************************************)
(* A page after a cursor begins at the cursor's number.                    *)
(***************************************************************************)
LEMMA PageAfterReads ==
    ASSUME law \in BookLaws, Complete, NEW s \in DOMAIN law, NEW c \in Nat, NEW p, p = c - Offset(s),
           Lo(s) <= p, p <= law[s].roots, NEW g, g = Page(s, c, "after")
    PROVE  p \in Nat /\ \E hi \in Nat :
               /\ p <= hi /\ Piece(g.articles, s, p, hi) /\ Runs(g, p, hi)
               /\ g.scope = s /\ NextText(s, g.next)
               /\ g.after = IF hi < law[s].roots THEN hi + 1 + Offset(s) ELSE NoCursor
  <1> DEFINE r == law[s].roots
             end == Smaller(Total(s) + 1, c + PageSize)
             from == Descendant(s, c)
             to == Descendant(s, end)
             hi == Smaller(r, to - 1)
             found == Fetched(s, from, to)
             all == WithScope(s, c, found)
  <1>1. /\ s \in Nat /\ r \in Nat /\ Offset(s) \in {0, 1} /\ Lo(s) \in {0, 1} /\ Lo(s) + Offset(s) = 1
        /\ (law[s].whole <=> Offset(s) = 1) /\ Total(s) = r + Offset(s)
    BY ScopeFacts
  <1>2. PageSize \in Nat \ {0} BY ScrollAssumption
  <1>3. g = Cursors(s, c, all, PageSize) BY DEF Page, Start
  <1>4. p \in Nat /\ p <= r /\ c \in Nat \ {0} /\ c = p + Offset(s) /\ (p = 0 <=> Offset(s) = 1 /\ c = 1)
    BY <1>1
  <1> HIDE DEF r
  <1>5. from = Larger(1, p) BY <1>1, <1>4 DEF Descendant
  <1>6. to = Smaller(r + 1, p + PageSize)
    <2>1. end - Offset(s) = Smaller(r + 1, p + PageSize) BY <1>1, <1>2, <1>4 DEF Smaller
    <2>2. Smaller(r + 1, p + PageSize) >= 1 BY <1>1, <1>2, <1>4 DEF Smaller
    <2> HIDE DEF end
    <2> QED BY <1>1, <1>2, <1>4, <2>1, <2>2 DEF Descendant, Larger, Smaller
  <1> HIDE DEF from, to
  <1>7. /\ from \in Nat \ {0} /\ to \in Nat /\ hi \in Nat /\ p <= hi /\ hi <= r /\ from <= hi + 1
        /\ (from = p \/ (p = 0 /\ from = 1))
    BY <1>1, <1>2, <1>4, <1>5, <1>6 DEF Larger, Smaller
  <1> DEFINE y == hi
  <1>8. Piece(found, s, from, y)
    <2>1. y = Smaller(law[s].roots, to - 1) BY DEF r
    <2> HIDE DEF y, hi
    <2>2. from <= y + 1 BY <1>7 DEF y
    <2> QED BY <1>7, <2>1, <2>2, FetchedPiece
  <1> HIDE DEF found
  <1>9. Piece(all, s, p, hi)
    <2>1. CASE p = 0
      <3>1. all = <<<<s, 0>>>> \o found BY <1>1, <1>4, <2>1 DEF WithScope
      <3>2. Piece(found, s, 1, hi) BY <1>7, <1>8, <2>1
      <3> HIDE DEF all, hi
      <3> QED BY <1>1, <1>7, <2>1, <3>1, <3>2, WithScopePiece
    <2>2. CASE p # 0
      <3>1. ~ (law[s].whole /\ c = 1) BY <1>1, <1>4, <2>2
      <3>2. all = found BY <3>1 DEF WithScope
      <3> HIDE DEF all, hi
      <3> QED BY <1>7, <1>8, <2>2, <3>2
    <2> QED BY <2>1, <2>2
  <1> HIDE DEF y, hi, all
  <1>10. hi <= law[s].roots BY <1>7 DEF r
  <1>11. /\ g.scope = s /\ g.articles = all /\ Runs(g, p, hi) /\ NextText(s, g.next)
         /\ g.after = IF c + hi - p < law[s].roots + Offset(s) THEN c + hi - p + 1 ELSE NoCursor
    BY <1>2, <1>3, <1>4, <1>7, <1>9, <1>10, CursorsRead
  <1>12. g.after = IF hi < r THEN hi + 1 + Offset(s) ELSE NoCursor
    <2>1. c + hi - p = hi + Offset(s) BY <1>1, <1>4, <1>7
    <2>2. g.after = IF hi + Offset(s) < r + Offset(s) THEN hi + Offset(s) + 1 ELSE NoCursor
      BY <1>11, <2>1 DEF r
    <2> QED BY <1>1, <1>7, <2>2
  <1> QED BY <1>4, <1>7, <1>9, <1>11, <1>12 DEF r

(***************************************************************************)
(* A page before a cursor holds nothing from the cursor's number on.       *)
(***************************************************************************)
LEMMA PageBeforeReads ==
    ASSUME law \in BookLaws, NEW s \in DOMAIN law, NEW lo \in Nat, NEW c \in 1 .. lo,
           NEW g, g = Page(s, c, "before")
    PROVE  /\ \A a \in ToSet(g.articles) : a[2] \in Lo(s) .. lo - 1
           /\ ReadsBack(g.before, lo)
  <1> DEFINE start == Larger(1, c - PageSize)
             from == Descendant(s, start)
             to == Descendant(s, c)
             found == Fetched(s, from, to)
             all == WithScope(s, start, found)
  <1>1. /\ s \in Nat /\ law[s].roots \in Nat /\ Offset(s) \in {0, 1} /\ Lo(s) \in {0, 1}
        /\ Lo(s) + Offset(s) = 1 /\ (law[s].whole <=> Offset(s) = 1)
    BY ScopeFacts
  <1>2. PageSize \in Nat \ {0} BY ScrollAssumption
  <1>3. g = Cursors(s, start, all, PageSize) BY DEF Page, Start
  <1>4. c \in Nat /\ 1 <= c /\ c <= lo OBVIOUS
  <1>5. start \in Nat \ {0} /\ start <= c BY <1>2, <1>4 DEF Larger
  <1>6. to \in Nat /\ to <= c BY <1>1, <1>4 DEF Descendant, Larger
  <1> HIDE DEF start, from, to
  <1>7. /\ g.articles = all
        /\ g.before = IF start > 1 THEN Larger(1, start - PageSize) ELSE NoCursor
    BY <1>3 DEF Cursors
  <1>8. ReadsBack(g.before, lo) BY <1>2, <1>4, <1>5, <1>7 DEF ReadsBack, Larger
  <1>9. \A a \in ToSet(found) : a[2] \in 1 .. lo - 1
    <2>1. ToSet(found) = {<<s, n>> : n \in {m \in 1 .. law[s].roots :
                                         m \in from .. to - 1 /\ m \notin law[s].hidden}}
      BY FetchedFacts
    <2> SUFFICES ASSUME NEW n \in 1 .. law[s].roots, n \in from .. to - 1 PROVE n \in 1 .. lo - 1
      BY <2>1
    <2>2. n <= to - 1 BY <1>1, <1>6
    <2> QED BY <1>1, <1>4, <1>6, <2>2
  <1>10. ASSUME NEW a \in ToSet(all) PROVE a[2] \in Lo(s) .. lo - 1
    <2>1. CASE law[s].whole /\ start = 1
      <3>1. all = <<<<s, 0>>>> \o found BY <2>1 DEF WithScope
      <3>2. found \in Seq({s} \X Nat) BY FetchedFacts DEF Listed
      <3> DEFINE own == <<<<s, 0>>>>
      <3>3. own \in Seq({s} \X Nat) /\ ToSet(own) = {<<s, 0>>} BY <1>1 DEF ToSet
      <3> HIDE DEF own, found, all
      <3>4. ToSet(own \o found) = ToSet(own) \cup ToSet(found)
        <4> DEFINE AnyTwo == ({s} \X Nat) \X ({s} \X Nat)
        <4>1. DOMAIN own = 1 .. Len(own) /\ DOMAIN found = 1 .. Len(found)
              /\ Len(own) \in Nat /\ Len(found) \in Nat
          BY <3>2, <3>3
        <4>2. ToSet(own) \subseteq {s} \X Nat /\ ToSet(found) \subseteq {s} \X Nat
          BY <3>2, <3>3 DEF ToSet
        <4>3. Ordered(own, AnyTwo) /\ Ordered(found, AnyTwo)
          <5>1. /\ \A i \in 1 .. Len(own) : own[i] \in {s} \X Nat
                /\ \A i \in 1 .. Len(found) : found[i] \in {s} \X Nat
            BY <3>2, <3>3
          <5> QED BY <5>1 DEF Ordered
        <4>4. \A x \in ToSet(own), z \in ToSet(found) : <<x, z>> \in AnyTwo BY <4>2
        <4> HIDE DEF AnyTwo
        <4> QED BY <3>2, <3>3, <4>3, <4>4, JoinedOrdered
      <3>5. a = <<s, 0>> \/ a \in ToSet(found) BY <3>1, <3>3, <3>4 DEF own
      <3>6. Lo(s) = 0 BY <1>1, <2>1
      <3>7. 0 \in 0 .. lo - 1 /\ \A n \in 1 .. lo - 1 : n \in 0 .. lo - 1 BY <1>4
      <3> QED BY <1>9, <3>5, <3>6, <3>7
    <2>2. CASE ~ (law[s].whole /\ start = 1)
      <3>1. all = found BY <2>2 DEF WithScope
      <3> HIDE DEF found, all
      <3>2. a[2] \in 1 .. lo - 1 BY <1>9, <3>1
      <3> QED BY <1>1, <1>4, <3>2
    <2> QED BY <2>1, <2>2
  <1> QED BY <1>7, <1>8, <1>10

-----------------------------------------------------------------------------
(* Reading on: what a step leaves of what was read.                         *)

\* A segment is read from lo on, as far as it is loaded.
ReadFrom(g, lo) == \E hi \in Nat : Runs(g, lo, hi) /\ GoesOn(g, lo, hi)

\* The number a segment is read from: the first segment from the window's first article.
From(shown, a, i) == IF i = 1 THEN a[2] ELSE Lo(shown[i].scope)

Opened(shown, a) ==
    /\ a = <<shown[1].scope, a[2]>> /\ a[2] \in Nat /\ ReadsBack(shown[1].before, a[2])

\* The segments are the scopes with a text, in their order.
InOrder(shown) ==
    \A i \in 1 .. Len(shown) :
        /\ NextText(shown[i].scope, shown[i].next)
        /\ i < Len(shown) => shown[i + 1].scope = shown[i].next

\* All segments but the last one are loaded to their end.
Loaded(shown, a) ==
    \A i \in 1 .. Len(shown) :
        i < Len(shown) => Runs(shown[i], From(shown, a, i), law[shown[i].scope].roots)

\* A request for what comes before asks for numbers below the first one; a request for
\* what comes after is the one the last segment calls for.
AskedOK(asked, shown, a) ==
    /\ asked["before"] # NoRequest => asked["before"].cursor \in 1 .. a[2]
    /\ asked["after"] # NoRequest =>
           LET last == shown[Len(shown)]
           IN  \/ /\ last.after # NoCursor
                  /\ asked["after"] = [to |-> last.scope, cursor |-> last.after]
               \/ /\ last.after = NoCursor /\ last.next # 0
                  /\ asked["after"] = [to |-> last.next, cursor |-> 1]

ReadOK(shown, a, asked) ==
    /\ Opened(shown, a) /\ InOrder(shown) /\ Loaded(shown, a)
    /\ ReadFrom(shown[Len(shown)], From(shown, a, Len(shown)))
    /\ AskedOK(asked, shown, a)

Untouched == ~ origin.replaced /\ ~ switched

\* What is read of a law that is in the book as a whole, in a page that neither the cache
\* nor a switch of the law has changed.
ReadInv ==
    segments # <<>> /\ Untouched /\ Complete =>
        ReadOK(segments, origin.article, fetching)

\* What a page adds to the end of a scope.
LEMMA AddedReads ==
    ASSUME law \in BookLaws, NEW g, IsSegment(g), NEW lo, NEW old \in Nat, Runs(g, lo, old),
           NEW p \in Nat, lo <= p, p <= old + 1, NEW hi \in Nat, p <= hi, hi <= law[g.scope].roots,
           NEW q, Piece(q, g.scope, p, hi),
           NEW h, h.scope = g.scope, h.articles = g.articles \o Without(q, ToSet(g.articles))
    PROVE  Runs(h, lo, IF hi < old THEN old ELSE hi)
  <1> DEFINE s == g.scope
             new == IF hi < old THEN old ELSE hi
             A == ToSet(g.articles)
             more == Without(q, A)
  <1>1. s \in DOMAIN law /\ s \in Nat /\ Listed(s, g.articles) BY LawFacts DEF IsSegment
  <1>2. /\ lo \in Nat /\ Lo(s) <= lo /\ lo <= old /\ old <= law[s].roots
        /\ Ordered(g.articles, Rising)
        /\ \A a \in A : a[2] \in Lo(s) .. old
        /\ \A n \in lo .. old : <<s, n>> \in A
    BY DEF Runs
  <1>3. A \subseteq {s} \X Nat BY <1>1, ListedFacts
  <1>4. q \in Seq({s} \X Nat) /\ ToSet(q) = Numbers(s, p, hi) BY DEF Piece
  <1>5. Lo(s) \in {0, 1} /\ law[s].roots \in Nat BY <1>1, ScopeFacts
  <1> DEFINE B == Numbers(s, p, hi) \ A
  <1>6. IsFiniteSet(B) /\ B \subseteq {s} \X Nat
    <2>1. p <= hi + 1 OBVIOUS
    <2>2. hi \in Int OBVIOUS
    <2> HIDE DEF s
    <2>3. IsFiniteSet(Numbers(s, p, hi)) /\ Numbers(s, p, hi) \subseteq {s} \X Nat
      BY <1>1, <2>1, <2>2, NumbersFacts
    <2> QED BY <2>3, FS_Subset
  <1>7. more = ByPlace(B) BY <1>4 DEF Without
  <1> HIDE DEF s, A, B, more
  <1>8. more \in Seq({s} \X Nat) /\ Ordered(more, Rising) /\ ToSet(more) = B
    BY <1>1, <1>6, <1>7, ByPlaceRises
  <1>9. \A b \in B : b \in {s} \X Nat /\ old < b[2] /\ b[2] <= hi
    <2> SUFFICES ASSUME NEW n \in p .. hi, <<s, n>> \notin A PROVE n \in Nat /\ old < n /\ n <= hi
      BY <1>1 DEF B, Numbers
    <2>1. n \notin lo .. old BY <1>2
    <2> QED BY <1>2, <2>1
  <1>10. \A a \in A, b \in B : <<a, b>> \in Rising
    <2> SUFFICES ASSUME NEW a \in A, NEW b \in B PROVE <<a, b>> \in Rising OBVIOUS
    <2>1. a \in {s} \X Nat /\ b \in {s} \X Nat BY <1>3, <1>9
    <2>2. a[2] \in Nat /\ b[2] \in Nat /\ a[1] = b[1] BY <2>1
    <2>3. a[2] <= old /\ old < b[2] BY <1>2, <1>5, <1>9
    <2>4. a[2] < b[2] BY <2>2, <2>3
    <2>5. a \in Nat \X Nat /\ b \in Nat \X Nat BY <1>1, <2>1
    <2> QED BY <2>2, <2>4, <2>5, RisingFacts
  <1>11. g.articles \in Seq({s} \X Nat) BY <1>1 DEF Listed
  <1>12. /\ Ordered(g.articles \o more, Rising) /\ ToSet(g.articles \o more) = A \cup B
    BY <1>2, <1>8, <1>10, <1>11, JoinedOrdered DEF A
  <1>13. h.scope = s /\ h.articles = g.articles \o more BY DEF s, more, A
  <1>14. new \in Nat /\ lo <= new /\ new <= law[s].roots /\ old <= new /\ hi <= new /\ (new = old \/ new = hi)
    BY <1>2 DEF s
  <1> HIDE DEF new
  <1>15. \A a \in A \cup B : a[2] \in Lo(s) .. new
    <2>1. \A a \in A : a[2] \in Lo(s) .. new BY <1>2, <1>5, <1>14
    <2>2. ASSUME NEW b \in B PROVE b[2] \in Lo(s) .. new
      <3>1. b[2] \in Nat /\ old < b[2] /\ b[2] <= hi BY <1>9
      <3> QED BY <1>2, <1>5, <1>14, <3>1
    <2> QED BY <2>1, <2>2
  <1>16. \A n \in lo .. new : <<s, n>> \in A \cup B
    <2> SUFFICES ASSUME NEW n \in lo .. new, <<s, n>> \notin A PROVE <<s, n>> \in B OBVIOUS
    <2>1. n \notin lo .. old BY <1>2
    <2>2. n \in p .. hi BY <1>2, <1>14, <2>1
    <2> QED BY <2>2 DEF B, Numbers
  <1>17. Runs(h, lo, new) BY <1>2, <1>12, <1>13, <1>14, <1>15, <1>16 DEF Runs
  <1> QED BY <1>17 DEF new

\* The last segment with the page its cursor asked for.
LEMMA LastGoesOn ==
    ASSUME law \in BookLaws, Complete, NEW g, IsSegment(g), NEW lo, ReadFrom(g, lo), g.after # NoCursor,
           NEW page, page = Page(g.scope, g.after, "after"),
           NEW h, h.scope = g.scope, h.articles = g.articles \o Without(page.articles, ToSet(g.articles)),
           h.after = page.after, h.next = page.next
    PROVE  ReadFrom(h, lo) /\ NextText(h.scope, h.next)
  <1> DEFINE s == g.scope
             p == g.after - Offset(s)
  <1>1. PICK old \in Nat : Runs(g, lo, old) /\ GoesOn(g, lo, old) BY DEF ReadFrom
  <1>2. s \in DOMAIN law BY DEF IsSegment
  <1>3. Lo(s) \in {0, 1} /\ law[s].roots \in Nat /\ Offset(s) \in {0, 1} BY <1>2, ScopeFacts
  <1>4. lo \in Nat /\ Lo(s) <= lo /\ lo <= old /\ old <= law[s].roots BY <1>1 DEF Runs
  <1>5. g.after \in Nat /\ lo <= p /\ p <= old + 1 /\ p <= law[s].roots BY <1>1 DEF GoesOn
  <1>6. p = g.after - Offset(s) /\ Lo(s) <= p BY <1>3, <1>4, <1>5
  <1>7. page = Page(s, g.after, "after") OBVIOUS
  <1> HIDE DEF p, s
  <1>8. p \in Nat /\ \E hi \in Nat :
               /\ p <= hi /\ Piece(page.articles, s, p, hi) /\ Runs(page, p, hi)
               /\ page.scope = s /\ NextText(s, page.next)
               /\ page.after = IF hi < law[s].roots THEN hi + 1 + Offset(s) ELSE NoCursor
    BY <1>2, <1>5, <1>6, <1>7, PageAfterReads
  <1>9. PICK hi \in Nat :
               /\ p <= hi /\ Piece(page.articles, s, p, hi) /\ Runs(page, p, hi)
               /\ page.scope = s /\ NextText(s, page.next)
               /\ page.after = IF hi < law[s].roots THEN hi + 1 + Offset(s) ELSE NoCursor
    BY <1>8
  <1>10. hi <= law[s].roots BY <1>9 DEF Runs
  <1> DEFINE new == IF hi < old THEN old ELSE hi
  <1>11. Runs(h, lo, new) BY <1>1, <1>5, <1>8, <1>9, <1>10, AddedReads DEF s
  <1>12. new \in Nat /\ lo <= new /\ hi <= new /\ new <= law[s].roots BY <1>3, <1>4, <1>10
  <1>13. h.scope = s /\ h.after = page.after BY DEF s
  <1> HIDE DEF new
  <1>14. GoesOn(h, lo, new)
    <2>1. NoCursor \notin Nat \ {0} BY ScrollAssumption
    <2>2. CASE hi < law[s].roots
      <3>1. h.after = hi + 1 + Offset(s) BY <1>9, <1>13, <2>2
      <3>2. h.after \in Nat \ {0} /\ h.after - Offset(s) = hi + 1 BY <1>3, <3>1
      <3>3. h.after # NoCursor /\ h.after \in Nat BY <2>1, <3>2
      <3>4. lo <= hi + 1 /\ hi + 1 <= new + 1 /\ hi + 1 <= law[s].roots
        BY <1>3, <1>4, <1>5, <1>8, <1>9, <1>12, <2>2
      <3> QED BY <1>13, <3>2, <3>3, <3>4 DEF GoesOn
    <2>3. CASE ~ (hi < law[s].roots)
      <3>1. h.after = NoCursor BY <1>9, <1>13, <2>3
      <3>2. new = law[s].roots BY <1>3, <1>10, <1>12, <2>3
      <3> QED BY <1>13, <3>1, <3>2 DEF GoesOn
    <2> QED BY <2>2, <2>3
  <1> QED BY <1>9, <1>11, <1>12, <1>13, <1>14 DEF ReadFrom

\* The first page of the next scope.
LEMMA NextBegins ==
    ASSUME law \in BookLaws, Complete, NEW s \in DOMAIN law, HasText(s),
           NEW page, page = Page(s, 1, "after"), NEW known, ToSet(page.articles) \cap known = {},
           NEW h, h.scope = page.scope, h.articles = Without(page.articles, known),
           h.after = page.after, h.next = page.next
    PROVE  ReadFrom(h, Lo(s)) /\ NextText(s, h.next)
  <1> DEFINE c == 1
             p == c - Offset(s)
  <1>1. s \in Nat /\ Lo(s) \in {0, 1} /\ law[s].roots \in Nat /\ Offset(s) \in {0, 1} BY ScopeFacts
  <1>2. p = Lo(s) /\ p \in Nat /\ Lo(s) <= p /\ p <= law[s].roots BY <1>1 DEF Lo, HasText
  <1>3. c \in Nat /\ p = c - Offset(s) /\ page = Page(s, c, "after") OBVIOUS
  <1> HIDE DEF c, p
  <1> DEFINE Answer(hi) ==
               /\ p <= hi /\ Piece(page.articles, s, p, hi) /\ Runs(page, p, hi)
               /\ page.scope = s /\ NextText(s, page.next)
               /\ page.after = IF hi < law[s].roots THEN hi + 1 + Offset(s) ELSE NoCursor
  <1>4. p \in Nat /\ \E hi \in Nat : Answer(hi)
    <2>1. Lo(s) <= p /\ p <= law[s].roots BY <1>2
    <2> QED BY <1>3, <2>1, PageAfterReads
  <1>5. PICK hi \in Nat : Answer(hi) BY <1>4
  <1>6. /\ hi <= law[s].roots
        /\ \A a \in ToSet(page.articles) : a[2] \in Lo(s) .. hi
        /\ \A n \in p .. hi : <<s, n>> \in ToSet(page.articles)
    BY <1>5 DEF Runs
  <1>7. ToSet(page.articles) = Numbers(s, p, hi) BY <1>5 DEF Piece
  <1>8. h.articles = ByPlace(Numbers(s, p, hi))
    <2>1. ToSet(page.articles) \ known = ToSet(page.articles) OBVIOUS
    <2> QED BY <1>7, <2>1 DEF Without
  <1>9. Ordered(h.articles, Rising) /\ ToSet(h.articles) = Numbers(s, p, hi)
    <2>1. p <= hi + 1 /\ hi \in Int BY <1>4, <1>5
    <2>2. Piece(ByPlace(Numbers(s, p, hi)), s, p, hi) BY <1>1, <1>4, <2>1, PieceByPlace
    <2> QED BY <1>8, <2>2 DEF Piece
  <1>10. h.scope = s BY <1>5
  <1>11. Runs(h, p, hi) BY <1>2, <1>5, <1>6, <1>7, <1>9, <1>10 DEF Runs
  <1>12. GoesOn(h, p, hi)
    <2>1. NoCursor \notin Nat \ {0} BY ScrollAssumption
    <2>2. CASE hi < law[s].roots
      <3>1. h.after = hi + 1 + Offset(s) BY <1>5, <2>2
      <3>2. h.after \in Nat \ {0} /\ h.after - Offset(s) = hi + 1 BY <1>1, <3>1
      <3>3. h.after # NoCursor /\ h.after \in Nat BY <2>1, <3>2
      <3>4. p <= hi + 1 /\ hi + 1 <= hi + 1 /\ hi + 1 <= law[s].roots BY <1>1, <1>4, <1>5, <2>2
      <3> QED BY <1>10, <3>2, <3>3, <3>4 DEF GoesOn
    <2>3. CASE ~ (hi < law[s].roots)
      <3>1. h.after = NoCursor BY <1>5, <2>3
      <3>2. hi = law[s].roots BY <1>1, <1>6, <2>3
      <3> QED BY <1>10, <3>1, <3>2 DEF GoesOn
    <2> QED BY <2>2, <2>3
  <1> QED BY <1>2, <1>5, <1>11, <1>12 DEF ReadFrom

\* What a page before the first segment changes: nothing of what is read from lo on.
LEMMA ReadBackReads ==
    ASSUME law \in BookLaws, NEW g, IsSegment(g), NEW lo, NEW hi, Runs(g, lo, hi),
           NEW q, Listed(g.scope, q), \A a \in ToSet(q) : a[2] \in Lo(g.scope) .. lo - 1,
           NEW h, h.scope = g.scope,
           h.articles = IF ToSet(q) \ ToSet(g.articles) = {} THEN g.articles
                        ELSE ByPlace((ToSet(q) \ ToSet(g.articles)) \cup ToSet(g.articles))
    PROVE  Runs(h, lo, hi)
  <1> DEFINE s == g.scope
             known == ToSet(g.articles)
             fresh == ToSet(q) \ known
  <1>1. s \in DOMAIN law /\ s \in Nat /\ Listed(s, g.articles) BY LawFacts DEF IsSegment
  <1>2. /\ lo \in Nat /\ hi \in Nat /\ Lo(s) <= lo /\ lo <= hi /\ hi <= law[s].roots
        /\ Ordered(g.articles, Rising)
        /\ \A a \in known : a[2] \in Lo(s) .. hi
        /\ \A n \in lo .. hi : <<s, n>> \in known
    BY DEF Runs
  <1>3. Lo(s) \in {0, 1} BY <1>1, ScopeFacts
  <1>4. /\ IsFiniteSet(known) /\ known \subseteq {s} \X Nat
        /\ IsFiniteSet(ToSet(q)) /\ ToSet(q) \subseteq {s} \X Nat
    BY <1>1, ListedFacts
  <1>5. IsFiniteSet(fresh \cup known) /\ fresh \cup known \subseteq {s} \X Nat
    <2>1. IsFiniteSet(fresh) BY <1>4, FS_Subset
    <2> QED BY <1>4, <2>1, FS_Union
  <1>6. \A a \in fresh : a[2] \in Lo(s) .. hi
    <2> SUFFICES ASSUME NEW a \in fresh PROVE a[2] \in Lo(s) .. hi OBVIOUS
    <2>1. a[2] \in Lo(s) .. lo - 1 OBVIOUS
    <2> QED BY <1>2, <1>3, <2>1
  <1>7. h.articles = IF fresh = {} THEN g.articles ELSE ByPlace(fresh \cup known) OBVIOUS
  <1>8. h.scope = s OBVIOUS
  <1> HIDE DEF s, known, fresh
  <1>9. Ordered(h.articles, Rising) /\ ToSet(h.articles) = fresh \cup known
    <2>1. CASE fresh = {} BY <1>2, <1>7, <2>1 DEF known
    <2>2. CASE fresh # {} BY <1>1, <1>5, <1>7, <2>2, ByPlaceRises
    <2> QED BY <2>1, <2>2
  <1> QED BY <1>2, <1>6, <1>8, <1>9 DEF Runs

\* A step that leaves the law alone.
LEMMA SameReading ==
    ASSUME law' = law,
           segments' # <<>> /\ Untouched' /\ Complete =>
               ReadOK(segments', origin'.article, fetching')
    PROVE  ReadInv'
BY SMTT(40) DEF ReadInv, Complete, ReadOK, Opened, ReadsBack, InOrder, NextText, HasText, Lo, Offset,
       Loaded, Runs, GoesOn, ReadFrom, From, AskedOK

\* A request changes what is asked in its own direction.
LEMMA RequestFacts ==
    ASSUME FetchingOK(fetching, segments), NEW d \in Directions, NEW r,
           fetching' = [fetching EXCEPT ![d] = r]
    PROVE  fetching'[d] = r /\ \A e \in Directions : e # d => fetching'[e] = fetching[e]
BY DEF FetchingOK

\* A step that only asks, or gets no answer.
LEMMA OnlyAsks ==
    ASSUME ReadInv, UNCHANGED <<law, segments, origin, switched>>,
           segments # <<>> /\ Untouched /\ Complete =>
               AskedOK(fetching', segments, origin.article)
    PROVE  ReadInv'
BY SameReading DEF ReadInv, ReadOK, Untouched

\* The sentinel at the end asks for what the last segment calls for.
LEMMA FetchAfterReads == ScrollInv /\ ReadInv /\ FetchAfter => ReadInv'
  <1> SUFFICES ASSUME ScrollInv, ReadInv, FetchAfter PROVE ReadInv' OBVIOUS
  <1> DEFINE last == segments[Len(segments)]
             rest == [to |-> last.scope, cursor |-> last.after]
             next == [to |-> last.next, cursor |-> 1]
  <1>1. UNCHANGED <<law, segments, origin, switched>> /\ segments # <<>> BY DEF FetchAfter
  <1>2. PICK r : /\ fetching' = [fetching EXCEPT !["after"] = r]
                 /\ \/ last.after # NoCursor /\ r = rest
                    \/ last.after = NoCursor /\ last.next # 0 /\ r = next
    BY DEF FetchAfter, LastSegment
  <1>3. fetching'["after"] = r /\ fetching'["before"] = fetching["before"]
    BY <1>2, RequestFacts DEF ScrollInv, Directions
  <1>4. ASSUME Untouched, Complete PROVE AskedOK(fetching', segments, origin.article)
    <2>1. AskedOK(fetching, segments, origin.article) BY <1>1, <1>4 DEF ReadInv, ReadOK
    <2> QED BY <1>2, <1>3, <2>1 DEF AskedOK
  <1> QED BY <1>1, <1>4, OnlyAsks

\* The button asks for what comes before the first segment.
LEMMA FetchBeforeReads == ScrollInv /\ ReadInv /\ FetchBefore => ReadInv'
  <1> SUFFICES ASSUME ScrollInv, ReadInv, FetchBefore PROVE ReadInv' OBVIOUS
  <1>1. /\ UNCHANGED <<law, segments, origin, switched>> /\ segments # <<>> /\ segments[1].before # NoCursor
    BY DEF FetchBefore, FirstSegment
  <1> DEFINE r == [to |-> FirstSegment.scope, cursor |-> FirstSegment.before]
  <1>2. fetching' = [fetching EXCEPT !["before"] = r] /\ r.cursor = segments[1].before
    BY DEF FetchBefore, FirstSegment
  <1> HIDE DEF r
  <1>3. fetching'["before"] = r /\ fetching'["after"] = fetching["after"]
    BY <1>2, RequestFacts DEF ScrollInv, Directions
  <1>4. ASSUME Untouched, Complete PROVE AskedOK(fetching', segments, origin.article)
    <2>1. /\ AskedOK(fetching, segments, origin.article)
          /\ ReadsBack(segments[1].before, origin.article[2])
      BY <1>1, <1>4 DEF ReadInv, ReadOK, Opened
    <2> QED BY <1>1, <1>2, <1>3, <2>1 DEF AskedOK, ReadsBack
  <1> QED BY <1>1, <1>4, OnlyAsks

\* A page that fails leaves the text as it is.
LEMMA PageFailsReads ==
    ASSUME ScrollInv, ReadInv, NEW d \in Directions, PageFails(d)
    PROVE  ReadInv'
  <1>1. UNCHANGED <<law, segments, origin, switched>> /\ fetching' = [fetching EXCEPT ![d] = NoRequest]
    BY DEF PageFails
  <1>2. fetching'[d] = NoRequest /\ \A e \in Directions : e # d => fetching'[e] = fetching[e]
    BY <1>1, RequestFacts DEF ScrollInv
  <1>3. ASSUME segments # <<>>, Untouched, Complete
        PROVE  AskedOK(fetching', segments, origin.article)
    <2>1. AskedOK(fetching, segments, origin.article) BY <1>3 DEF ReadInv, ReadOK
    <2>2. \A e \in Directions : fetching'[e] = NoRequest \/ fetching'[e] = fetching[e] BY <1>2
    <2>3. /\ fetching'["before"] = NoRequest \/ fetching'["before"] = fetching["before"]
          /\ fetching'["after"] = NoRequest \/ fetching'["after"] = fetching["after"]
      BY <2>2 DEF Directions
    <2> QED BY <2>1, <2>3 DEF AskedOK
  <1> QED BY <1>1, <1>3, OnlyAsks

\* A window, from the server or from the cache, is read from its first article on.
LEMMA OpenReads ==
    ASSUME ScrollInv, NEW s \in DOMAIN law, NEW n \in 0 .. law[s].roots, Open(s, n)
    PROVE  ReadInv'
  <1> DEFINE window == Window(<<s, n>>)
             adopt  == memory[s] # <<>> /\ Len(memory[s]) >= Len(window.articles)
             first  == IF adopt THEN [window EXCEPT !.articles = memory[s]] ELSE window
             a == window.articles[1]
  <1>1. /\ segments' = <<first>> /\ law' = law /\ (n = 0 => law[s].whole)
        /\ fetching' = [d \in Directions |-> NoRequest]
        /\ origin' = [article |-> a, replaced |-> first # window]
        /\ switched' = FALSE
    BY DEF Open
  <1>2. window.scope = s BY WindowIsSegment DEF ScrollInv
  <1>3. window = Window(<<s, n>>) OBVIOUS
  <1> HIDE DEF window, first, adopt
  <1>4. ASSUME Untouched', Complete PROVE ReadOK(<<window>>, a, fetching')
    <2>1. PICK lo \in Nat, hi \in Nat :
             /\ a = <<s, lo>> /\ Runs(window, lo, hi) /\ GoesOn(window, lo, hi)
             /\ NextText(s, window.next) /\ ReadsBack(window.before, lo)
      <3>1. law \in BookLaws /\ (n = 0 => law[s].whole) BY <1>1 DEF ScrollInv
      <3> QED BY <1>3, <1>4, <3>1, WindowReads
    <2> HIDE DEF a
    <2> DEFINE shown == <<window>>
    <2>2. Len(shown) = 1 /\ shown[1] = window OBVIOUS
    <2>3. a[1] = s /\ a[2] = lo /\ a = <<s, a[2]>> BY <2>1
    <2> HIDE DEF shown
    <2>4. Opened(shown, a) BY <1>2, <2>1, <2>2, <2>3 DEF Opened
    <2>5. \A i \in 1 .. Len(shown) : i = 1 BY <2>2
    <2>6. InOrder(shown) BY <1>2, <2>1, <2>2, <2>5 DEF InOrder
    <2>7. Loaded(shown, a) BY <2>2, <2>5 DEF Loaded
    <2>8. ReadFrom(shown[Len(shown)], From(shown, a, Len(shown)))
      BY <2>1, <2>2, <2>3 DEF ReadFrom, From
    <2>9. fetching'["before"] = NoRequest /\ fetching'["after"] = NoRequest BY <1>1 DEF Directions
    <2>10. AskedOK(fetching', shown, a) BY <2>9 DEF AskedOK
    <2> QED BY <2>4, <2>6, <2>7, <2>8, <2>10 DEF ReadOK, shown
  <1>5. Untouched' => first = window BY <1>1 DEF Untouched
  <1>6. origin'.article = a BY <1>1
  <1> HIDE DEF a
  <1>7. ASSUME Untouched', Complete PROVE ReadOK(segments', origin'.article, fetching')
    <2>1. segments' = <<window>> BY <1>1, <1>5, <1>7
    <2> QED BY <1>4, <1>6, <1>7, <2>1
  <1> QED BY <1>1, <1>7, SameReading

\* What is shown, with another last segment.
LEMMA WithAnotherLast ==
    ASSUME ScrollInv, segments # <<>>, NEW a, ReadOK(segments, a, fetching),
           NEW h, h.scope = LastSegment.scope, h.before = LastSegment.before,
           ReadFrom(h, From(segments, a, Len(segments))), NextText(h.scope, h.next),
           fetching' = [fetching EXCEPT !["after"] = NoRequest]
    PROVE  ReadOK([segments EXCEPT ![Len(segments)] = h], a, fetching')
  <1> DEFINE n == Len(segments)
             new == [segments EXCEPT ![n] = h]
  <1>1. /\ n \in Nat /\ n \in 1 .. n /\ 1 \in 1 .. n /\ IsSequence(segments)
        /\ n = Len(segments)
    BY SegmentsThere DEF ScrollInv, SegmentsOK
  <1>2. h.scope = segments[n].scope /\ h.before = segments[n].before BY DEF LastSegment
  <1>3. /\ Opened(segments, a) /\ InOrder(segments) /\ Loaded(segments, a)
        /\ AskedOK(fetching, segments, a) /\ ReadFrom(h, From(segments, a, n))
    BY DEF ReadOK
  <1>4. new = [segments EXCEPT ![n] = h] OBVIOUS
  <1> HIDE DEF n, new
  <1>5. /\ Len(new) = n /\ new[n] = h
        /\ \A i \in 1 .. n : i # n => new[i] = segments[i]
    BY <1>1, <1>4, ReplacedFacts
  <1>6. \A i \in 1 .. n : new[i].scope = segments[i].scope /\ new[i].before = segments[i].before
    BY <1>2, <1>5
  <1>7. Opened(new, a) BY <1>1, <1>3, <1>6 DEF Opened
  <1>8. InOrder(new)
    <2> SUFFICES ASSUME NEW i \in 1 .. n
                 PROVE  /\ NextText(new[i].scope, new[i].next)
                        /\ i < n => new[i + 1].scope = new[i].next
      BY <1>5 DEF InOrder
    <2>1. NextText(segments[i].scope, segments[i].next)
          /\ (i < n => segments[i + 1].scope = segments[i].next)
      BY <1>1, <1>3 DEF InOrder
    <2>2. CASE i = n BY <1>1, <1>5, <2>2
    <2>3. CASE i # n
      <3>1. i + 1 \in 1 .. n BY <1>1, <2>3
      <3> QED BY <1>5, <1>6, <2>1, <2>3, <3>1
    <2> QED BY <2>2, <2>3
  <1>9. \A i \in 1 .. n : From(new, a, i) = From(segments, a, i) BY <1>6 DEF From
  <1>10. Loaded(new, a)
    <2> SUFFICES ASSUME NEW i \in 1 .. n, i < n
                 PROVE  Runs(new[i], From(new, a, i), law[new[i].scope].roots)
      BY <1>5 DEF Loaded
    <2>1. i # n BY <1>1
    <2> QED BY <1>1, <1>3, <1>5, <1>9, <2>1 DEF Loaded
  <1>11. ReadFrom(new[Len(new)], From(new, a, Len(new))) BY <1>1, <1>3, <1>5, <1>9
  <1>12. AskedOK(fetching', new, a)
    <2>1. fetching'["after"] = NoRequest /\ fetching'["before"] = fetching["before"]
      BY RequestFacts DEF ScrollInv, Directions
    <2> QED BY <1>3, <2>1 DEF AskedOK
  <1>13. ReadOK(new, a, fetching') BY <1>7, <1>8, <1>10, <1>11, <1>12 DEF ReadOK
  <1> QED BY <1>13 DEF new, n

\* What is shown, with another first segment that goes on like the first one.
LEMMA WithAnotherFirst ==
    ASSUME ScrollInv, segments # <<>>, NEW a, ReadOK(segments, a, fetching),
           NEW h, h.scope = FirstSegment.scope, h.after = FirstSegment.after, h.next = FirstSegment.next,
           ReadsBack(h.before, a[2]),
           \A hi : Runs(FirstSegment, a[2], hi) => Runs(h, a[2], hi),
           fetching' = [fetching EXCEPT !["before"] = NoRequest]
    PROVE  ReadOK([segments EXCEPT ![1] = h], a, fetching')
  <1> DEFINE n == Len(segments)
             new == [segments EXCEPT ![1] = h]
  <1>1. /\ n \in Nat /\ n \in 1 .. n /\ 1 \in 1 .. n /\ IsSequence(segments)
        /\ n = Len(segments)
    BY SegmentsThere DEF ScrollInv, SegmentsOK
  <1>2. /\ h.scope = segments[1].scope /\ h.after = segments[1].after /\ h.next = segments[1].next
        /\ \A hi : Runs(segments[1], a[2], hi) => Runs(h, a[2], hi)
    BY DEF FirstSegment
  <1>3. /\ Opened(segments, a) /\ InOrder(segments) /\ Loaded(segments, a)
        /\ AskedOK(fetching, segments, a) /\ ReadFrom(segments[n], From(segments, a, n))
    BY DEF ReadOK
  <1>4. new = [segments EXCEPT ![1] = h] OBVIOUS
  <1> HIDE DEF n, new
  <1>5. /\ Len(new) = n /\ new[1] = h
        /\ \A i \in 1 .. n : i # 1 => new[i] = segments[i]
    BY <1>1, <1>4, ReplacedFacts
  <1>6. \A i \in 1 .. n : /\ new[i].scope = segments[i].scope /\ new[i].next = segments[i].next
                          /\ new[i].after = segments[i].after
    BY <1>2, <1>5
  <1>7. Opened(new, a) BY <1>1, <1>3, <1>5, <1>6 DEF Opened
  <1>8. InOrder(new)
    <2> SUFFICES ASSUME NEW i \in 1 .. n
                 PROVE  /\ NextText(new[i].scope, new[i].next)
                        /\ i < n => new[i + 1].scope = new[i].next
      BY <1>5 DEF InOrder
    <2>1. NextText(segments[i].scope, segments[i].next)
          /\ (i < n => segments[i + 1].scope = segments[i].next)
      BY <1>1, <1>3 DEF InOrder
    <2>2. i < n => i + 1 \in 1 .. n BY <1>1
    <2> QED BY <1>6, <2>1, <2>2
  <1>9. \A i \in 1 .. n : From(new, a, i) = From(segments, a, i) BY <1>6 DEF From
  <1>10. \A i \in 1 .. n : \A hi :
            Runs(segments[i], From(segments, a, i), hi) => Runs(new[i], From(new, a, i), hi)
    <2> SUFFICES ASSUME NEW i \in 1 .. n, NEW hi, Runs(segments[i], From(segments, a, i), hi)
                 PROVE  Runs(new[i], From(new, a, i), hi)
      OBVIOUS
    <2>1. CASE i = 1 BY <1>2, <1>5, <2>1 DEF From
    <2>2. CASE i # 1 BY <1>5, <1>9, <2>2
    <2> QED BY <2>1, <2>2
  <1>11. Loaded(new, a)
    <2> SUFFICES ASSUME NEW i \in 1 .. n, i < n
                 PROVE  Runs(new[i], From(new, a, i), law[new[i].scope].roots)
      BY <1>5 DEF Loaded
    <2>1. Runs(segments[i], From(segments, a, i), law[segments[i].scope].roots)
      BY <1>1, <1>3 DEF Loaded
    <2> QED BY <1>6, <1>10, <2>1
  <1>12. ReadFrom(new[n], From(new, a, n))
    <2>1. PICK hi \in Nat : /\ Runs(segments[n], From(segments, a, n), hi)
                            /\ GoesOn(segments[n], From(segments, a, n), hi)
      BY <1>3 DEF ReadFrom
    <2>2. Runs(new[n], From(new, a, n), hi) BY <1>1, <1>10, <2>1
    <2>3. From(new, a, n) = From(segments, a, n) BY <1>1, <1>9
    <2>4. new[n].scope = segments[n].scope /\ new[n].after = segments[n].after BY <1>1, <1>6
    <2>5. GoesOn(new[n], From(new, a, n), hi) BY <2>1, <2>3, <2>4 DEF GoesOn
    <2> QED BY <2>2, <2>5 DEF ReadFrom
  <1>13. AskedOK(fetching', new, a)
    <2>1. fetching'["before"] = NoRequest /\ fetching'["after"] = fetching["after"]
      BY RequestFacts DEF ScrollInv, Directions
    <2>2. /\ new[n].scope = segments[n].scope /\ new[n].next = segments[n].next
          /\ new[n].after = segments[n].after
      BY <1>1, <1>6
    <2> QED BY <1>1, <1>3, <1>5, <2>1, <2>2 DEF AskedOK
  <1>14. ReadOK(new, a, fetching') BY <1>5, <1>7, <1>8, <1>11, <1>12, <1>13 DEF ReadOK
  <1> QED BY <1>14 DEF new

\* What is shown, with the first page of the next scope.
LEMMA WithAnotherScope ==
    ASSUME ScrollInv, segments # <<>>, NEW a, ReadOK(segments, a, fetching),
           LastSegment.after = NoCursor,
           NEW h, h.scope = LastSegment.next, ReadFrom(h, Lo(h.scope)), NextText(h.scope, h.next),
           fetching' = [fetching EXCEPT !["after"] = NoRequest]
    PROVE  ReadOK(Append(segments, h), a, fetching')
  <1> DEFINE n == Len(segments)
             new == Append(segments, h)
             S == {segments[i] : i \in 1 .. n} \cup {h}
  <1>1. /\ n \in Nat /\ n \in 1 .. n /\ 1 \in 1 .. n /\ IsSequence(segments) /\ n = Len(segments)
    BY SegmentsThere DEF ScrollInv, SegmentsOK
  <1>2. segments[n].next = h.scope /\ segments[n].after = NoCursor BY DEF LastSegment
  <1>3. /\ Opened(segments, a) /\ InOrder(segments) /\ Loaded(segments, a)
        /\ AskedOK(fetching, segments, a) /\ ReadFrom(segments[n], From(segments, a, n))
    BY DEF ReadOK
  <1>4. Len(new) = n + 1 /\ new[n + 1] = h /\ \A i \in 1 .. n : new[i] = segments[i]
    <2>1. h \in S /\ \A i \in 1 .. n : segments[i] \in S OBVIOUS
    <2> HIDE DEF S
    <2> QED BY <1>1, <2>1, SequenceFacts
  <1> HIDE DEF n, new
  <1>5. Opened(new, a) BY <1>1, <1>3, <1>4 DEF Opened
  <1>6. \A i \in 1 .. n + 1 : i \in 1 .. n \/ i = n + 1 BY <1>1
  <1>7. \A i \in 1 .. n : From(new, a, i) = From(segments, a, i) BY <1>4 DEF From
  <1>8. InOrder(new)
    <2> SUFFICES ASSUME NEW i \in 1 .. n + 1
                 PROVE  /\ NextText(new[i].scope, new[i].next)
                        /\ i < n + 1 => new[i + 1].scope = new[i].next
      BY <1>4 DEF InOrder
    <2>1. CASE i = n + 1 BY <1>1, <1>4, <2>1
    <2>2. CASE i = n BY <1>1, <1>2, <1>3, <1>4, <2>2 DEF InOrder
    <2>3. CASE i \in 1 .. n /\ i # n
      <3>1. i + 1 \in 1 .. n /\ i < n BY <1>1, <2>3
      <3>2. NextText(segments[i].scope, segments[i].next) /\ segments[i + 1].scope = segments[i].next
        BY <1>1, <1>3, <2>3, <3>1 DEF InOrder
      <3> QED BY <1>4, <2>3, <3>1, <3>2
    <2> QED BY <1>6, <2>1, <2>2, <2>3
  <1>9. Runs(segments[n], From(segments, a, n), law[segments[n].scope].roots)
    BY <1>2, <1>3 DEF ReadFrom, GoesOn
  <1>10. Loaded(new, a)
    <2> SUFFICES ASSUME NEW i \in 1 .. n + 1, i < n + 1
                 PROVE  Runs(new[i], From(new, a, i), law[new[i].scope].roots)
      BY <1>4 DEF Loaded
    <2>1. i \in 1 .. n BY <1>1
    <2>2. CASE i = n BY <1>4, <1>7, <1>9, <2>1, <2>2
    <2>3. CASE i # n
      <3>1. i < n BY <1>1, <2>1, <2>3
      <3> QED BY <1>1, <1>3, <1>4, <1>7, <2>1, <3>1 DEF Loaded
    <2> QED BY <2>2, <2>3
  <1>11. ReadFrom(new[Len(new)], From(new, a, Len(new)))
    <2>1. n + 1 # 1 BY <1>1
    <2> QED BY <1>4, <2>1 DEF From
  <1>12. AskedOK(fetching', new, a)
    <2>1. fetching'["after"] = NoRequest /\ fetching'["before"] = fetching["before"]
      BY RequestFacts DEF ScrollInv, Directions
    <2> QED BY <1>3, <2>1 DEF AskedOK
  <1>13. ReadOK(new, a, fetching') BY <1>5, <1>8, <1>10, <1>11, <1>12 DEF ReadOK
  <1> QED BY <1>13 DEF new

\* A page that comes for the end goes on where the last segment stopped.
LEMMA AnswerAfterReads == ScrollInv /\ ReadInv /\ AnswerAfter => ReadInv'
  <1> SUFFICES ASSUME ScrollInv, ReadInv, AnswerAfter, Untouched PROVE ReadInv'
    BY SameReading DEF AnswerAfter, Untouched
  <1> DEFINE n == Len(segments)
             last == LastSegment
             a == origin.article
             request == fetching["after"]
             page == Page(request.to, request.cursor, "after")
  <1>1. /\ request # NoRequest /\ law' = law /\ origin' = origin
        /\ segments' = IF request.to = last.scope THEN Extended(page) ELSE Appended(page)
        /\ fetching' = [fetching EXCEPT !["after"] = NoRequest]
    <2>1. Answers("after") = {page} BY DEF Answers, Untouched
    <2> HIDE DEF page, last, request
    <2>2. segments' = IF request.to = last.scope THEN Extended(page) ELSE Appended(page)
      BY <2>1 DEF AnswerAfter, request, last
    <2> QED BY <2>2 DEF AnswerAfter, request
  <1>2. request.to \in DOMAIN law /\ segments # <<>>
    BY <1>1 DEF ScrollInv, FetchingOK, Directions
  <1>3. n \in Nat /\ n \in 1 .. n /\ IsSegment(last) /\ last = segments[n] /\ law \in BookLaws
    BY <1>2, SegmentsThere DEF ScrollInv, LastSegment
  <1>4. last.scope \in DOMAIN law /\ last.scope \in Nat BY <1>3, LawFacts DEF IsSegment
  <1>5. IsSegment(page) /\ page.scope = request.to BY <1>2, <1>3, PageIsSegment
  <1>6. ASSUME Untouched, Complete PROVE ReadOK(segments', a, fetching')
    <2>1. /\ ReadOK(segments, a, fetching)
          /\ ReadFrom(last, From(segments, a, n)) /\ NextText(last.scope, last.next)
          /\ \/ last.after # NoCursor /\ request = [to |-> last.scope, cursor |-> last.after]
             \/ /\ last.after = NoCursor /\ last.next # 0
                /\ request = [to |-> last.next, cursor |-> 1]
      BY <1>1, <1>2, <1>3, <1>6 DEF ReadInv, ReadOK, InOrder, AskedOK
    <2> HIDE DEF a
    <2>2. CASE last.after # NoCursor /\ request = [to |-> last.scope, cursor |-> last.after]
      <3> DEFINE more == Without(page.articles, ToSet(last.articles))
                 h == [last EXCEPT !.articles = last.articles \o more,
                                   !.after = page.after, !.next = page.next]
      <3>1. segments' = [segments EXCEPT ![n] = h]
        <4>1. segments' = Extended(page) BY <1>1, <2>2
        <4> HIDE DEF page
        <4> QED BY <4>1, Zenon DEF Extended, LastSegment
      <3>2. page = Page(last.scope, last.after, "after") BY <2>2
      <3> HIDE DEF page, last, n
      <3>3. /\ h.scope = last.scope /\ h.before = last.before /\ h.after = page.after
            /\ h.next = page.next /\ h.articles = last.articles \o more
        <4> HIDE DEF more
        <4> QED BY <1>3 DEF IsSegment, SegmentFields
      <3>4. h.articles = last.articles \o Without(page.articles, ToSet(last.articles)) BY <3>3
      <3> HIDE DEF h, more
      <3>5. ReadFrom(h, From(segments, a, n)) /\ NextText(h.scope, h.next)
        BY <1>3, <1>6, <2>1, <2>2, <3>2, <3>3, <3>4, LastGoesOn
      <3>6. ReadOK([segments EXCEPT ![Len(segments)] = h], a, fetching')
        BY <1>1, <1>2, <2>1, <3>3, <3>5, WithAnotherLast DEF last, n
      <3> QED BY <3>1, <3>6 DEF n
    <2>3. CASE last.after = NoCursor /\ last.next # 0 /\ request = [to |-> last.next, cursor |-> 1]
      <3> DEFINE s == last.next
                 known == ToSet(Shown)
                 h == [page EXCEPT !.articles = Without(@, known)]
      <3>1. s \in DOMAIN law /\ last.scope < s /\ HasText(s) BY <2>1, <2>3 DEF NextText
      <3>2. request.to = s /\ s # last.scope BY <1>4, <2>3, <3>1
      <3>3. segments' = Appended(page) BY <1>1, <3>2
      <3>4. page = Page(s, 1, "after") /\ page.scope = s BY <1>5, <2>3, <3>2
      <3>5. CASE \E i \in DOMAIN segments : segments[i].scope = page.scope
        <4>1. segments' = segments BY <3>3, <3>5 DEF Appended
        <4>2. fetching'["after"] = NoRequest /\ fetching'["before"] = fetching["before"]
          BY <1>1, RequestFacts DEF ScrollInv, Directions
        <4> QED BY <2>1, <4>1, <4>2 DEF ReadOK, AskedOK
      <3>6. CASE ~ \E i \in DOMAIN segments : segments[i].scope = page.scope
        <4>1. segments' = Append(segments, h) BY <3>3, <3>6 DEF Appended
        <4> HIDE DEF page, last, s, known
        <4>2. /\ h.scope = page.scope /\ h.after = page.after /\ h.next = page.next
              /\ h.articles = Without(page.articles, known)
          BY <1>5 DEF IsSegment, SegmentFields
        <4> HIDE DEF h
        <4>3. ToSet(page.articles) \cap known = {}
          <5>1. /\ known = UNION {ToSet(segments[i].articles) : i \in 1 .. Len(segments)}
                /\ \A i \in 1 .. Len(segments) :
                       ToSet(segments[i].articles) \subseteq {segments[i].scope} \X Nat
            BY ShownFacts DEF known
          <5>2. ToSet(page.articles) \subseteq {s} \X Nat
            <6>1. s \in Nat /\ Listed(s, page.articles) BY <1>3, <1>5, <3>1, <3>4, LawFacts DEF IsSegment
            <6> QED BY <6>1, ListedFacts
          <5>3. \A i \in 1 .. Len(segments) : segments[i].scope # s
            <6>1. DOMAIN segments = 1 .. Len(segments) BY DEF ScrollInv, SegmentsOK, IsSequence
            <6> QED BY <3>4, <3>6, <6>1
          <5>4. ASSUME NEW x \in known, x \in {s} \X Nat PROVE FALSE
            <6>1. PICK i \in 1 .. Len(segments) : x \in ToSet(segments[i].articles) BY <5>1, <5>4
            <6>2. x \in {segments[i].scope} \X Nat BY <5>1, <6>1
            <6> QED BY <5>3, <5>4, <6>2
          <5> QED BY <5>2, <5>4
        <4>4. ReadFrom(h, Lo(s)) /\ NextText(s, h.next)
          BY <1>3, <1>6, <3>1, <3>4, <4>2, <4>3, NextBegins
        <4>5. h.scope = s BY <3>4, <4>2
        <4>6. ReadOK(Append(segments, h), a, fetching')
          BY <1>1, <1>2, <2>1, <2>3, <4>4, <4>5, WithAnotherScope DEF last, s
        <4> QED BY <4>1, <4>6
      <3> QED BY <3>5, <3>6
    <2> QED BY <2>1, <2>2, <2>3
  <1> QED BY <1>1, <1>6, SameReading

\* A page that comes for the start adds nothing behind the first article.
LEMMA AnswerBeforeReads == ScrollInv /\ ReadInv /\ AnswerBefore => ReadInv'
  <1> SUFFICES ASSUME ScrollInv, ReadInv, AnswerBefore, Untouched PROVE ReadInv'
    <2>1. ASSUME AnswerBefore, ~ Untouched PROVE ~ Untouched' /\ law' = law
      <3>1. UNCHANGED <<law, origin, switched>> BY <2>1 DEF AnswerBefore
      <3> QED BY <2>1, <3>1 DEF Untouched
    <2> QED BY <2>1, SameReading
  <1> DEFINE first == FirstSegment
             a == origin.article
             request == fetching["before"]
             page == Page(request.to, request.cursor, "before")
             known == ToSet(first.articles)
             fresh == ToSet(page.articles) \ known
             h == [first EXCEPT
                     !.articles = IF fresh = {} THEN @ ELSE ByPlace(fresh \cup known),
                     !.before = page.before]
  <1>1. /\ request # NoRequest /\ law' = law /\ origin' = origin
        /\ segments' = [segments EXCEPT ![1] = h]
        /\ fetching' = [fetching EXCEPT !["before"] = NoRequest]
    <2>1. Answers("before") = {page} BY DEF Answers, Untouched
    <2> HIDE DEF page, request
    <2>2. segments' = [segments EXCEPT ![1] = h]
      BY <2>1 DEF AnswerBefore, first, known, fresh, h
    <2> QED BY <2>2 DEF AnswerBefore, request
  <1>2. request.to \in DOMAIN law /\ segments # <<>> /\ request.to = first.scope
    BY <1>1 DEF ScrollInv, FetchingOK, Directions, FirstSegment
  <1>3. IsSegment(first) /\ law \in BookLaws BY <1>2, SegmentsThere DEF ScrollInv
  <1>4. IsSegment(page) /\ page.scope = first.scope BY <1>2, <1>3, PageIsSegment
  <1>5. page = Page(first.scope, request.cursor, "before") BY <1>2
  <1> HIDE DEF page, first, fresh, known
  <1>6. /\ h.scope = first.scope /\ h.after = first.after /\ h.next = first.next
        /\ h.before = page.before
        /\ h.articles = IF fresh = {} THEN first.articles ELSE ByPlace(fresh \cup known)
    BY <1>3 DEF IsSegment, SegmentFields
  <1> HIDE DEF h
  <1>7. ASSUME Untouched, Complete PROVE ReadOK(segments', a, fetching')
    <2>1. ReadOK(segments, a, fetching) BY <1>2, <1>7 DEF ReadInv
    <2>2. request.cursor \in 1 .. a[2] /\ a[2] \in Nat BY <1>1, <2>1 DEF ReadOK, AskedOK, Opened
    <2>3. first.scope \in DOMAIN law BY <1>3 DEF IsSegment
    <2> DEFINE lo == a[2]
               c == request.cursor
    <2>4. lo \in Nat /\ c \in 1 .. lo /\ page = Page(first.scope, c, "before") BY <1>5, <2>2
    <2> HIDE DEF lo, c
    <2>5. /\ \A x \in ToSet(page.articles) : x[2] \in Lo(first.scope) .. lo - 1
          /\ ReadsBack(page.before, lo)
      BY <1>3, <2>3, <2>4, PageBeforeReads
    <2>6. Listed(first.scope, page.articles) BY <1>4 DEF IsSegment
    <2>7. \A hi : Runs(first, lo, hi) => Runs(h, lo, hi)
      <3> SUFFICES ASSUME NEW hi, Runs(first, lo, hi) PROVE Runs(h, lo, hi) OBVIOUS
      <3>1. h.articles = IF ToSet(page.articles) \ ToSet(first.articles) = {} THEN first.articles
                         ELSE ByPlace((ToSet(page.articles) \ ToSet(first.articles))
                                       \cup ToSet(first.articles))
        BY <1>6 DEF fresh, known
      <3> QED BY <1>3, <1>6, <2>5, <2>6, <3>1, ReadBackReads
    <2>8. ReadsBack(h.before, lo) BY <1>6, <2>5
    <2>9. ReadOK([segments EXCEPT ![1] = h], a, fetching')
      <3>1. /\ \A hi : Runs(FirstSegment, a[2], hi) => Runs(h, a[2], hi)
            /\ ReadsBack(h.before, a[2])
        BY <2>7, <2>8 DEF lo, first
      <3>2. h.scope = FirstSegment.scope /\ h.after = FirstSegment.after /\ h.next = FirstSegment.next
        BY <1>6 DEF first
      <3> HIDE DEF a
      <3> QED BY <1>1, <1>2, <2>1, <3>1, <3>2, WithAnotherFirst
    <2> QED BY <1>1, <2>9
  <1> QED BY <1>1, <1>7, SameReading

\* Nothing is shown at first.
LEMMA ReadInvInit == ScrollInit => ReadInv
BY DEF ScrollInit, ReadInv

\* Every step keeps what is read from the first article on.
LEMMA ReadInvNext == ScrollInv /\ ReadInv /\ [ScrollNext]_scrollVars => ReadInv'
  <1> SUFFICES ASSUME ScrollInv, ReadInv, [ScrollNext]_scrollVars PROVE ReadInv' OBVIOUS
  <1>1. ASSUME UNCHANGED <<law, segments, origin, switched, fetching>> PROVE ReadInv'
    BY <1>1, OnlyAsks DEF ReadInv, ReadOK
  <1>2. ASSUME NEW s \in DOMAIN law, Expire(s) PROVE ReadInv' BY <1>1, <1>2 DEF Expire
  <1>3. ASSUME UNCHANGED scrollVars PROVE ReadInv' BY <1>1, <1>3 DEF scrollVars
  <1>4. ASSUME SwitchLaw PROVE ReadInv'
    <2>1. switched' /\ law' = law BY <1>4 DEF SwitchLaw
    <2> QED BY <2>1, SameReading DEF Untouched
  <1> QED BY <1>2, <1>3, <1>4, OpenReads, FetchAfterReads, FetchBeforeReads, AnswerAfterReads,
             AnswerBeforeReads, PageFailsReads
      DEF ScrollNext

-----------------------------------------------------------------------------
(* Reading on: what is shown is the text.                                   *)

\* The segments stand in the order of their scopes.
LEMMA ScopesRise ==
    ASSUME ScrollInv, InOrder(segments)
    PROVE  /\ \A i \in 1 .. Len(segments) :
                  segments[i].scope \in DOMAIN law /\ segments[i].scope \in Nat \ {0}
           /\ \A i, j \in 1 .. Len(segments) : i < j => segments[i].scope < segments[j].scope
  <1> DEFINE n == Len(segments)
             Of(i) == segments[i].scope
  <1>1. n \in Nat /\ \A i \in 1 .. n : IsSegment(segments[i])
    BY DEF ScrollInv, SegmentsOK, IsSequence
  <1>2. ASSUME NEW i \in 1 .. n PROVE Of(i) \in DOMAIN law /\ Of(i) \in Nat \ {0}
    <2>1. Of(i) \in DOMAIN law BY <1>1 DEF IsSegment
    <2> QED BY <2>1, LawFacts DEF ScrollInv
  <1>3. ASSUME NEW i \in 1 .. n, i < n PROVE Of(i) < Of(i + 1)
    <2>1. NextText(Of(i), Of(i + 1)) BY <1>3 DEF InOrder
    <2>2. Of(i + 1) # 0 BY <1>1, <1>2, <1>3
    <2> QED BY <2>1, <2>2 DEF NextText
  <1> HIDE DEF n, Of
  <1>4. ASSUME NEW i \in 1 .. n, NEW j \in 1 .. n, i < j PROVE Of(i) < Of(j)
    <2> DEFINE bad == {k \in 1 .. n : i < k /\ ~ (Of(i) < Of(k))}
    <2>1. SUFFICES ASSUME j \in bad PROVE FALSE BY <1>4
    <2>2. bad \subseteq Nat BY <1>1
    <2>3. PICK k \in bad : \A m \in bad : k <= m BY <2>1, <2>2, LeastNumber
    <2>4. k \in 1 .. n /\ i < k /\ ~ (Of(i) < Of(k)) BY <2>3
    <2>5. k - 1 \in 1 .. n /\ k - 1 < n /\ (k - 1) + 1 = k /\ (k - 1 = i \/ i < k - 1)
      BY <1>1, <2>4
    <2>6. Of(k - 1) < Of(k) BY <1>3, <2>5
    <2>7. k - 1 \notin bad
      <3> HIDE DEF bad
      <3>1. ~ (k <= k - 1) BY <2>4, <1>1
      <3> QED BY <2>3, <3>1
    <2>8. k - 1 = i \/ Of(i) < Of(k - 1) BY <2>5, <2>7
    <2>9. Of(i) \in Nat /\ Of(k) \in Nat /\ Of(k - 1) \in Nat BY <1>2, <2>4, <2>5
    <2> QED BY <2>4, <2>6, <2>8, <2>9
  <1> QED BY <1>2, <1>4 DEF n, Of

\* No scope with a text is left out between the first and the last segment.
LEMMA NoScopeIsLeftOut ==
    ASSUME ScrollInv, InOrder(segments), NEW u \in DOMAIN law, HasText(u),
           NEW k \in 1 .. Len(segments), segments[1].scope <= u, u <= segments[k].scope
    PROVE  \E j \in 1 .. Len(segments) : segments[j].scope = u
  <1> DEFINE n == Len(segments)
             Of(i) == segments[i].scope
             above == {j \in 1 .. n : u <= Of(j)}
  <1>1. n \in Nat BY DEF ScrollInv, SegmentsOK, IsSequence
  <1>2. \A i \in 1 .. n : Of(i) \in Nat \ {0} BY ScopesRise
  <1>3. u \in Nat BY LawFacts DEF ScrollInv
  <1>4. \A i \in 1 .. n : i < n => NextText(Of(i), Of(i + 1)) BY DEF InOrder
  <1>5. k \in above /\ Of(1) <= u OBVIOUS
  <1>6. above \subseteq Nat BY <1>1
  <1> HIDE DEF n, Of
  <1>7. PICK j \in above : \A m \in above : j <= m BY <1>5, <1>6, LeastNumber
  <1>8. j \in 1 .. n /\ u <= Of(j) /\ Of(j) \in Nat \ {0} BY <1>2, <1>7
  <1>9. CASE j = 1 BY <1>3, <1>5, <1>8, <1>9 DEF n, Of
  <1>10. CASE j # 1
    <2>1. j - 1 \in 1 .. n /\ j - 1 < n /\ (j - 1) + 1 = j BY <1>1, <1>8, <1>10
    <2>2. j - 1 \notin above
      <3> HIDE DEF above
      <3>1. ~ (j <= j - 1) BY <1>8, <1>1
      <3> QED BY <1>7, <3>1
    <2>3. Of(j - 1) \in Nat BY <1>2, <2>1
    <2>4. Of(j - 1) < u BY <1>3, <2>1, <2>2, <2>3
    <2>5. NextText(Of(j - 1), Of(j)) BY <1>4, <2>1
    <2>6. Of(j) <= u BY <1>8, <2>4, <2>5 DEF NextText
    <2>7. Of(j) = u BY <1>3, <1>8, <2>6
    <2> QED BY <1>8, <2>7 DEF n, Of
  <1> QED BY <1>9, <1>10

\* The text of the law.
Text == FlattenSeq([s \in DOMAIN law |->
            [i \in 1 .. law[s].roots + Offset(s) |-> <<s, i - Offset(s)>>]])

\* The law's text holds every article of every scope, in the order of the text.
LEMMA TextFacts ==
    ASSUME law \in BookLaws
    PROVE  /\ Text \in Seq(Nat \X Nat) /\ Ordered(Text, Rising)
           /\ \A x : x \in ToSet(Text) <=>
                 \E s \in DOMAIN law : \E m \in Lo(s) .. law[s].roots : x = <<s, m>>
  <1> DEFINE Of(s) == [i \in 1 .. law[s].roots + Offset(s) |-> <<s, i - Offset(s)>>]
             texts == [s \in DOMAIN law |-> Of(s)]
             n == Len(law)
  <1>1. n \in Nat /\ DOMAIN law = 1 .. n BY LawFacts
  <1>2. ASSUME NEW s \in 1 .. n
        PROVE  /\ Of(s) \in Seq(Nat \X Nat) /\ Ordered(Of(s), Rising)
               /\ ToSet(Of(s)) = Numbers(s, Lo(s), law[s].roots)
    <2> DEFINE off == Offset(s)
               m == law[s].roots + off
    <2>1. s \in Nat /\ law[s].roots \in Nat /\ off \in {0, 1} /\ Lo(s) = 1 - off
      BY <1>1, ScopeFacts DEF Lo
    <2>2. Of(s) = [i \in 1 .. m |-> <<s, i - off>>] OBVIOUS
    <2> HIDE DEF off
    <2>3. m \in Nat /\ law[s].roots = m - off BY <2>1
    <2> HIDE DEF m, Of
    <2>4. \A i \in 1 .. m : <<s, i - off>> \in Nat \X Nat BY <2>1
    <2>5. Of(s) \in [1 .. m -> Nat \X Nat] BY <2>2, <2>4
    <2>6. Of(s) \in Seq(Nat \X Nat) /\ Len(Of(s)) = m BY <2>3, <2>5, IsASeq
    <2>7. Ordered(Of(s), Rising)
      <3> SUFFICES ASSUME NEW i \in 1 .. m, NEW j \in 1 .. m, i < j
                   PROVE  <<Of(s)[i], Of(s)[j]>> \in Rising
        BY <2>6 DEF Ordered
      <3>1. Of(s)[i] = <<s, i - off>> /\ Of(s)[j] = <<s, j - off>> BY <2>2
      <3>2. i - off < j - off BY <2>1, <2>3
      <3>3. <<<<s, i - off>>, <<s, j - off>>>> \in Rising BY <2>4, <3>2 DEF Rising
      <3> QED BY <3>1, <3>3
    <2>8. ToSet(Of(s)) = Numbers(s, Lo(s), law[s].roots)
      <3>1. ToSet(Of(s)) = {<<s, i - off>> : i \in 1 .. m} BY <2>2 DEF ToSet
      <3>2. \A k \in 1 - off .. m - off : k + off \in 1 .. m /\ (k + off) - off = k BY <2>1, <2>3
      <3>3. \A i \in 1 .. m : i - off \in 1 - off .. m - off BY <2>1, <2>3
      <3>4. {<<s, i - off>> : i \in 1 .. m} = {<<s, k>> : k \in 1 - off .. m - off} BY <3>2, <3>3
      <3> QED BY <2>1, <2>3, <3>1, <3>4 DEF Numbers
    <2> QED BY <2>6, <2>7, <2>8
  <1>3. \A s \in 1 .. n : texts[s] = Of(s) BY <1>1
  <1>4. texts = [s \in 1 .. n |-> Of(s)] BY <1>1
  <1>5. Text = FlattenSeq(texts) BY DEF Text
  <1> HIDE DEF n, Of, texts
  <1>6. texts \in Seq(Seq(Nat \X Nat)) /\ Len(texts) = n
    <2>1. texts \in [1 .. n -> Seq(Nat \X Nat)] BY <1>2, <1>4
    <2> QED BY <1>1, <2>1, IsASeq
  <1>7. \A i \in 1 .. Len(texts) : Ordered(texts[i], Rising) BY <1>2, <1>3, <1>6
  <1>8. ASSUME NEW i \in 1 .. Len(texts), NEW j \in 1 .. Len(texts), i < j,
               NEW a \in ToSet(texts[i]), NEW b \in ToSet(texts[j])
        PROVE  <<a, b>> \in Rising
    <2>1. i \in 1 .. n /\ j \in 1 .. n BY <1>6
    <2>2. a \in Numbers(i, Lo(i), law[i].roots) /\ b \in Numbers(j, Lo(j), law[j].roots)
      BY <1>2, <1>3, <2>1
    <2>3. PICK k \in Lo(i) .. law[i].roots, m \in Lo(j) .. law[j].roots : a = <<i, k>> /\ b = <<j, m>>
      BY <2>2 DEF Numbers
    <2>4. Lo(i) \in {0, 1} /\ Lo(j) \in {0, 1} BY <1>1, <2>1, ScopeFacts
    <2>5. i \in Nat /\ j \in Nat /\ k \in Nat /\ m \in Nat BY <1>1, <2>1, <2>3, <2>4
    <2> QED BY <1>8, <2>3, <2>5 DEF Rising
  <1>9. /\ Text \in Seq(Nat \X Nat) /\ Ordered(Text, Rising)
        /\ ToSet(Text) = UNION {ToSet(texts[i]) : i \in 1 .. Len(texts)}
    BY <1>5, <1>6, <1>7, <1>8, FlattenOrdered
  <1>10. ASSUME NEW x
         PROVE  x \in ToSet(Text) <=>
                    \E s \in DOMAIN law : \E m \in Lo(s) .. law[s].roots : x = <<s, m>>
    <2>1. x \in ToSet(Text) <=> \E s \in 1 .. n : x \in ToSet(texts[s]) BY <1>6, <1>9
    <2>2. \A s \in 1 .. n : ToSet(texts[s]) = Numbers(s, Lo(s), law[s].roots) BY <1>2, <1>3
    <2>3. \A s \in 1 .. n : x \in ToSet(texts[s]) <=> \E m \in Lo(s) .. law[s].roots : x = <<s, m>>
      BY <2>2 DEF Numbers
    <2> QED BY <1>1, <2>1, <2>3
  <1> QED BY <1>9, <1>10

(***************************************************************************)
(* What stands from the window's first article on is the law's text from   *)
(* there, as far as it is loaded.                                          *)
(***************************************************************************)
LEMMA ReadsTheText == ScrollInv /\ ReadInv => ReadingOnSkipsNothing
  <1> SUFFICES ASSUME ScrollInv, ReadInv, segments # <<>>, Untouched, Complete
               PROVE  LET read == SubSeq(Shown, SelectInSeq(Shown, LAMBDA b : b = origin.article), Len(Shown))
                      IN  /\ IsPrefix(read, TextFrom(origin.article))
                          /\ LastSegment.after = NoCursor /\ LastSegment.next = 0 =>
                                 read = TextFrom(origin.article)
    BY DEF ReadingOnSkipsNothing, Complete, Untouched
  <1> DEFINE a == origin.article
             n == Len(segments)
             Of(i) == segments[i].scope
             Held(i) == ToSet(segments[i].articles)
             lo(i) == From(segments, a, i)
             last == segments[n]
  <1>1. ReadOK(segments, a, fetching) BY DEF ReadInv
  <1>2. /\ Opened(segments, a) /\ InOrder(segments) /\ Loaded(segments, a) /\ ReadFrom(last, lo(n))
    BY <1>1 DEF ReadOK
  <1>3. n \in Nat /\ n \in 1 .. n /\ 1 \in 1 .. n /\ last = LastSegment /\ law \in BookLaws
    BY SegmentsThere DEF ScrollInv, LastSegment
  <1>4. /\ \A i \in 1 .. n : Of(i) \in DOMAIN law /\ Of(i) \in Nat \ {0}
        /\ \A i, j \in 1 .. n : i < j => Of(i) < Of(j)
    BY <1>2, ScopesRise
  <1>5. PICK top \in Nat : Runs(last, lo(n), top) /\ GoesOn(last, lo(n), top) BY <1>2 DEF ReadFrom
  <1> DEFINE hi(i) == IF i = n THEN top ELSE law[Of(i)].roots
  <1>6. \A i \in 1 .. n : Runs(segments[i], lo(i), hi(i))
    <2> SUFFICES ASSUME NEW i \in 1 .. n PROVE Runs(segments[i], lo(i), hi(i)) OBVIOUS
    <2>1. CASE i = n BY <1>5, <2>1
    <2>2. CASE i # n
      <3>1. i < n BY <1>3, <2>2
      <3>2. Runs(segments[i], From(segments, a, i), law[segments[i].scope].roots) BY <1>2, <3>1 DEF Loaded
      <3> QED BY <2>2, <3>2
    <2> QED BY <2>1, <2>2
  <1>7. \A i \in 1 .. n : /\ lo(i) \in Nat /\ Lo(Of(i)) <= lo(i) /\ lo(i) <= hi(i) /\ hi(i) \in Nat
                          /\ hi(i) <= law[Of(i)].roots
                          /\ Ordered(segments[i].articles, Rising)
                          /\ \A x \in Held(i) : x[2] \in Lo(Of(i)) .. hi(i)
                          /\ \A m \in lo(i) .. hi(i) : <<Of(i), m>> \in Held(i)
    BY <1>6 DEF Runs
  <1>8. a = <<Of(1), a[2]>> /\ a[2] \in Nat /\ lo(1) = a[2] BY <1>2 DEF Opened, From
  <1>9. \A i \in 1 .. n : i # 1 => lo(i) = Lo(Of(i)) BY DEF From
  <1>10. /\ Shown \in Seq(Nat \X Nat) /\ ToSet(Shown) = UNION {Held(i) : i \in 1 .. n}
         /\ \A i \in 1 .. n : Held(i) \subseteq {Of(i)} \X Nat
    BY ShownFacts
  <1>11. \A i \in 1 .. n : /\ Of(i) \in DOMAIN law /\ Of(i) \in Nat /\ law[Of(i)].roots \in Nat
                           /\ Lo(Of(i)) \in {0, 1}
    BY <1>3, <1>4, ScopeFacts
  <1>12. \A u \in DOMAIN law, k \in 1 .. n : HasText(u) /\ Of(1) <= u /\ u <= Of(k) =>
             \E j \in 1 .. n : Of(j) = u
    BY <1>2, NoScopeIsLeftOut
  <1>13. NextText(Of(n), LastSegment.next) BY <1>2, <1>3 DEF InOrder
  <1>14. LastSegment.after = NoCursor => top = law[Of(n)].roots BY <1>3, <1>5 DEF GoesOn
  <1>15. \A i, j \in 1 .. n : i < j => \A x \in Held(i), y \in Held(j) : <<x, y>> \in Rising
    <2> SUFFICES ASSUME NEW i \in 1 .. n, NEW j \in 1 .. n, i < j, NEW x \in Held(i), NEW y \in Held(j)
                 PROVE  <<x, y>> \in Rising
      OBVIOUS
    <2>1. Of(i) < Of(j) BY <1>4
    <2>2. x \in {Of(i)} \X Nat /\ y \in {Of(j)} \X Nat /\ Of(i) \in Nat /\ Of(j) \in Nat BY <1>10, <1>11
    <2> HIDE DEF Of, Held
    <2>3. x \in Nat \X Nat /\ x[1] = Of(i) BY <2>2
    <2>4. y \in Nat \X Nat /\ y[1] = Of(j) BY <2>2
    <2>5. x[1] < y[1] BY <2>1, <2>3, <2>4
    <2> QED BY <2>3, <2>4, <2>5, RisingFacts
  <1>16. Ordered(Shown, Rising)
    <2>1. /\ \A i \in 1 .. Len(segments) : Ordered(segments[i].articles, Rising)
          /\ \A i, j \in 1 .. Len(segments) : i < j =>
                 \A x \in ToSet(segments[i].articles), y \in ToSet(segments[j].articles) : <<x, y>> \in Rising
      BY <1>7, <1>15
    <2> QED BY <2>1, ShownOrdered
  <1> DEFINE read == SubSeq(Shown, PlaceOf(Shown, a), Len(Shown))
             text == SubSeq(Text, PlaceOf(Text, a), Len(Text))
  <1>17. text = TextFrom(a) BY DEF TextFrom, Text, PlaceOf
  <1>18. read = SubSeq(Shown, SelectInSeq(Shown, LAMBDA b : b = origin.article), Len(Shown))
    BY DEF PlaceOf
  <1> HIDE DEF a, n, Of, Held, lo, hi, last
  <1>19. a \in ToSet(Shown)
    <2>1. a[2] \in lo(1) .. hi(1) BY <1>3, <1>7, <1>8
    <2>2. <<Of(1), a[2]>> \in Held(1) BY <1>3, <1>7, <2>1
    <2> QED BY <1>3, <1>8, <1>10, <2>2
  <1>20. \A x \in ToSet(Shown) : x \in ToSet(Text) /\ x[1] <= Of(n) /\ (x[1] = Of(n) => x[2] <= top)
    <2> SUFFICES ASSUME NEW i \in 1 .. n, NEW x \in Held(i)
                 PROVE  x \in ToSet(Text) /\ x[1] <= Of(n) /\ (x[1] = Of(n) => x[2] <= top)
      BY <1>10
    <2>1. x \in {Of(i)} \X Nat /\ x[2] \in Lo(Of(i)) .. hi(i) BY <1>7, <1>10
    <2>2. x = <<Of(i), x[2]>> /\ x[1] = Of(i) BY <2>1
    <2>3. hi(i) \in Nat /\ hi(i) <= law[Of(i)].roots BY <1>7
    <2>4. Of(i) \in DOMAIN law /\ Of(i) \in Nat /\ law[Of(i)].roots \in Nat /\ Lo(Of(i)) \in {0, 1} BY <1>11
    <2>5. x[2] \in Lo(Of(i)) .. law[Of(i)].roots BY <2>1, <2>3, <2>4
    <2>6. x \in ToSet(Text) BY <1>3, <2>2, <2>4, <2>5, TextFacts
    <2>7. Of(n) \in Nat BY <1>3, <1>11
    <2>8. CASE i = n
      <3>1. hi(i) = top BY <2>8 DEF hi
      <3>2. x[2] <= top BY <2>1, <2>3, <2>4, <3>1
      <3>3. x[1] <= Of(n) BY <2>2, <2>7, <2>8
      <3> QED BY <2>6, <3>2, <3>3
    <2>9. CASE i # n
      <3>1. i < n BY <1>3, <2>9
      <3>2. Of(i) < Of(n) BY <1>3, <1>4, <3>1
      <3> QED BY <2>2, <2>4, <2>6, <2>7, <3>2
    <2> QED BY <2>8, <2>9
  <1>21. ASSUME NEW y \in ToSet(Text), <<a, y>> \in Rising, y[1] <= Of(n), y[1] = Of(n) => y[2] <= top
         PROVE  y \in ToSet(Shown)
    <2>0. PICK u \in DOMAIN law : \E m \in Lo(u) .. law[u].roots : y = <<u, m>> BY <1>3, TextFacts
    <2>1. PICK m \in Lo(u) .. law[u].roots : y = <<u, m>> BY <2>0
    <2>2. u \in Nat /\ law[u].roots \in Nat /\ Lo(u) \in {0, 1} BY <1>3, ScopeFacts
    <2>3. m \in Nat /\ HasText(u) /\ Lo(u) <= m /\ m <= law[u].roots BY <2>1, <2>2 DEF HasText
    <2>4. Of(1) < u \/ (Of(1) = u /\ a[2] < m)
      <3>1. <<<<Of(1), a[2]>>, <<u, m>>>> \in Rising BY <1>8, <1>21, <2>1
      <3> QED BY <3>1 DEF Rising
    <2>5. Of(1) <= u /\ u <= Of(n)
      <3>1. Of(1) \in Nat BY <1>3, <1>11
      <3>2. u <= Of(n) BY <1>21, <2>1
      <3> QED BY <2>2, <2>4, <3>1, <3>2
    <2>6. PICK j \in 1 .. n : Of(j) = u BY <1>3, <1>12, <2>3, <2>5
    <2>7. lo(j) <= m
      <3>1. CASE j = 1
        <4>1. Of(1) \in Nat BY <1>3, <1>11
        <4>2. a[2] < m BY <2>2, <2>4, <2>6, <3>1, <4>1
        <4> QED BY <1>8, <2>3, <3>1, <4>2
      <3>2. CASE j # 1 BY <1>9, <2>3, <2>6, <3>2
      <3> QED BY <3>1, <3>2
    <2>8. m <= hi(j)
      <3>1. CASE j = n BY <1>21, <2>1, <2>6, <3>1 DEF hi
      <3>2. CASE j # n BY <2>3, <2>6, <3>2 DEF hi
      <3> QED BY <3>1, <3>2
    <2>9. lo(j) \in Nat /\ hi(j) \in Nat BY <1>7
    <2>10. <<Of(j), m>> \in Held(j)
      <3>1. m \in lo(j) .. hi(j) BY <2>3, <2>7, <2>8, <2>9
      <3> QED BY <1>7, <3>1
    <2> QED BY <1>10, <2>1, <2>6, <2>10
  <1>22. Text \in Seq(Nat \X Nat) /\ Ordered(Text, Rising) BY <1>3, TextFacts
  <1>23. a \in ToSet(Text) BY <1>19, <1>20
  <1>24. /\ read \in Seq(Nat \X Nat) /\ Ordered(read, Rising)
         /\ ToSet(read) = {x \in ToSet(Shown) : x = a \/ <<a, x>> \in Rising}
    BY <1>10, <1>16, <1>19, TailFacts
  <1>25. /\ text \in Seq(Nat \X Nat) /\ Ordered(text, Rising)
         /\ ToSet(text) = {x \in ToSet(Text) : x = a \/ <<a, x>> \in Rising}
    BY <1>22, <1>23, TailFacts
  <1> HIDE DEF read, text
  <1>26. ToSet(read) \subseteq ToSet(text) BY <1>20, <1>24, <1>25
  <1>27. ASSUME NEW x \in ToSet(read), NEW y \in ToSet(text), <<y, x>> \in Rising
         PROVE  y \in ToSet(read)
    <2>1. x \in ToSet(Shown) /\ y \in ToSet(Text) BY <1>24, <1>25
    <2>2. CASE y = a BY <1>19, <1>24, <2>2
    <2>3. CASE y # a
      <3>1. <<a, y>> \in Rising BY <1>25, <2>3
      <3>2. x[1] <= Of(n) /\ (x[1] = Of(n) => x[2] <= top) BY <1>20, <2>1
      <3>3. y[1] < x[1] \/ (y[1] = x[1] /\ y[2] < x[2]) BY <1>27 DEF Rising
      <3>4. /\ x[1] \in Nat /\ x[2] \in Nat /\ y[1] \in Nat /\ y[2] \in Nat BY <1>27 DEF Rising
      <3>5. Of(n) \in Nat BY <1>3, <1>11
      <3>6. y[1] <= Of(n) /\ (y[1] = Of(n) => y[2] <= top) BY <3>2, <3>3, <3>4, <3>5
      <3>7. y \in ToSet(Shown) BY <1>21, <2>1, <3>1, <3>6
      <3> QED BY <1>24, <3>1, <3>7
    <2> QED BY <2>2, <2>3
  <1>28. IsPrefix(read, text) /\ (ToSet(text) \subseteq ToSet(read) => read = text)
    BY <1>24, <1>25, <1>26, <1>27, RisingIsPrefix
  <1>29. ASSUME LastSegment.after = NoCursor, LastSegment.next = 0, NEW y \in ToSet(text)
         PROVE  y \in ToSet(read)
    <2>1. y \in ToSet(Text) BY <1>25
    <2>2. CASE y = a BY <1>19, <1>24, <2>2
    <2>3. CASE y # a
      <3>1. <<a, y>> \in Rising BY <1>25, <2>3
      <3>0. PICK u \in DOMAIN law : \E m \in Lo(u) .. law[u].roots : y = <<u, m>>
        BY <1>3, <2>1, TextFacts
      <3>2. PICK m \in Lo(u) .. law[u].roots : y = <<u, m>> BY <3>0
      <3>3. u \in Nat \ {0} /\ law[u].roots \in Nat /\ Lo(u) \in {0, 1} BY <1>3, ScopeFacts
      <3>4. HasText(u) /\ m <= law[u].roots BY <3>2, <3>3 DEF HasText
      <3>5. Of(n) \in Nat BY <1>3, <1>11
      <3>6. ~ (Of(n) < u)
        <4>1. \A v \in DOMAIN law : Of(n) < v => ~ HasText(v)
          <5>1. 0 \notin DOMAIN law BY <1>3, LawFacts
          <5> QED BY <1>13, <1>29, <5>1 DEF NextText
        <4> QED BY <3>4, <4>1
      <3>7. y[1] <= Of(n) BY <3>2, <3>3, <3>5, <3>6
      <3>8. y[1] = Of(n) => y[2] <= top BY <1>14, <1>29, <3>2, <3>4
      <3>9. y \in ToSet(Shown) BY <1>21, <2>1, <3>1, <3>7, <3>8
      <3> QED BY <1>24, <3>1, <3>9
    <2> QED BY <2>2, <2>3
  <1>30. IsPrefix(read, text) /\ (LastSegment.after = NoCursor /\ LastSegment.next = 0 => read = text)
    BY <1>28, <1>29
  <1> QED BY <1>17, <1>18, <1>30 DEF a

(***************************************************************************)
(* What stands from the first article of the window on is the text of the  *)
(* law in its order without a gap, and all of it once nothing is left to   *)
(* load: for laws of any size that are in the book as a whole, windows and *)
(* pages of any length, any number of openings, requests in both           *)
(* directions that answer or fail in any order, and a page the cache has   *)
(* not replaced (ChapterScrollViewer.tsx:24-37).                           *)
(***************************************************************************)
THEOREM ReadingOnSkipsNoArticle == ScrollSpec => []ReadingOnSkipsNothing
BY ScrollInvInit, ScrollInvNext, ReadInvInit, ReadInvNext, ReadsTheText, PTL DEF ScrollSpec

=============================================================================
