---------------------------- MODULE ContextMenu ----------------------------
(* The reader's right-click menu: useContextMenu.  Handlers start a request   *)
(* and go on when it is answered; by then the menu may be closed, or open on  *)
(* another article, and the answer changes whatever menu there is.            *)
EXTENDS Naturals, Sequences, FiniteSets

CONSTANTS
  Articles,
  NoArticle,
  ProjectCount,   \* projects the user has
  MaxFocus,       \* bound: how far the arrow keys go
  MaxSent,        \* bound: requests
  MaxOpens        \* bound: right clicks

ASSUME MenuAssumption ==
  /\ NoArticle \notin Articles /\ ProjectCount \in Nat
  /\ MaxFocus \in Nat /\ MaxSent \in Nat /\ MaxOpens \in Nat

VARIABLES
  menu,          \* ContextMenuState
  toastTimer,    \* toastTimerRef holds a timer that has not fired
  pending,         \* requests that are not answered, each with the menu it came from
  sent,          \* how many were started
  opens,         \* how many menus were opened
  rows,          \* rows the server wrote: <<kind, article>> of each request
  late           \* history: an answer came after its menu

menuVars == <<menu, toastTimer, pending, sent, opens, rows, late>>

MenuKinds == {"article", "printable", "selection", "link", "highlight"}
NoTemplates == <<NoArticle, 0>>

InitialMenu ==
  [isOpen |-> FALSE, kind |-> "none", articleId |-> NoArticle, menuType |-> "main",
   projects |-> FALSE, templates |-> NoTemplates, toast |-> "none",
   focusedIndex |-> 0, tagInput |-> FALSE]

(* What sent the server or the clipboard, and what it writes when it succeeds. *)
Asking == {"addCheckItem", "drawingNotes", "listProjects", "openEgov", "highlight",
           "submitTag", "copy", "deleteHighlight", "pickTemplate", "pickProject"}
Written(q) ==
  IF q.op \in {"addCheckItem", "pickProject", "highlight", "submitTag"}
  THEN {<<q.op, q.articleId, q.id>>} ELSE {}

MenuInit ==
  /\ menu = InitialMenu /\ toastTimer = FALSE
  /\ pending = {} /\ sent = 0 /\ opens = 0 /\ rows = {} /\ late = FALSE

-----------------------------------------------------------------------------
(* The buttons, those with a data-menu-index first, in its order. *)
Items ==
  CASE menu.menuType = "project_picker" -> <<"back">> \o [i \in 1 .. ProjectCount |-> "pickProject"]
    [] menu.menuType = "template_picker" ->
         <<"back">> \o [i \in 1 .. menu.templates[2] |-> "pickTemplate"]
    [] menu.menuType \in {"highlight_picker", "tag_input"} -> <<"back">>
    [] menu.kind = "selection" ->
         <<"toHighlightPicker", "highlight", "highlight", "toTagInput", "copy", "settings">>
    [] menu.kind = "link" -> <<"openLink", "copy", "openEgov", "settings">>
    [] menu.kind = "highlight" -> <<"deleteHighlight", "copy", "settings">>
    [] OTHER -> (IF menu.kind = "printable" THEN <<"print">> ELSE <<>>) \o
         <<"addCheckItem", "drawingNotes", "listProjects", "openEgov", "toTagInput", "settings">>

ByMouseOnly ==
  CASE menu.menuType = "highlight_picker" -> {"highlight"}
    [] menu.menuType = "tag_input" /\ menu.tagInput -> {"submitTag"}
    [] OTHER -> {}

(* What the keyboard code believes the menu holds: the template picker is     *)
(* counted by the projects.                                                   *)
menuItemCount ==
  CASE menu.menuType = "main" -> Len(Items)
    [] menu.menuType = "highlight_picker" -> 7
    [] menu.menuType = "tag_input" -> 3
    [] OTHER -> (IF menu.projects THEN ProjectCount ELSE 0) + 1

clampedIndex == IF menu.focusedIndex < menuItemCount THEN menu.focusedIndex ELSE menuItemCount - 1

-----------------------------------------------------------------------------
RightClickMutant ==
  /\ opens < MaxOpens /\ opens' = opens + 1
  /\ \E k \in MenuKinds, a \in Articles :
       menu' = [menu EXCEPT !.isOpen = TRUE, !.kind = k, !.articleId = a]
  /\ UNCHANGED <<toastTimer, pending, sent, rows, late>>

RightClick ==
  /\ opens < MaxOpens /\ opens' = opens + 1
  /\ \E k \in MenuKinds, a \in Articles :
       menu' = [InitialMenu EXCEPT !.isOpen = TRUE, !.kind = k, !.articleId = a]
  /\ UNCHANGED <<toastTimer, pending, sent, rows, late>>

(* A press outside the menu, or Escape. *)
CloseMenu ==
  /\ menu # InitialMenu /\ menu' = InitialMenu
  /\ UNCHANGED <<toastTimer, pending, sent, opens, rows, late>>

ArrowKey ==
  /\ menu.isOpen
  /\ \/ menu.focusedIndex < MaxFocus /\ menu' = [menu EXCEPT !.focusedIndex = @ + 1]
     \/ menu.focusedIndex > 0 /\ menu' = [menu EXCEPT !.focusedIndex = @ - 1]
  /\ UNCHANGED <<toastTimer, pending, sent, opens, rows, late>>

TypeTag ==
  /\ menu.isOpen /\ menu.menuType = "tag_input" /\ ~menu.tagInput
  /\ menu' = [menu EXCEPT !.tagInput = TRUE]
  /\ UNCHANGED <<toastTimer, pending, sent, opens, rows, late>>

goBack == [menu EXCEPT !.menuType = "main", !.focusedIndex = 0, !.tagInput = FALSE]

ShowMenu(op) ==
  /\ menu' = CASE op = "back" -> goBack
               [] op = "toHighlightPicker" ->
                    [menu EXCEPT !.menuType = "highlight_picker", !.focusedIndex = 0]
               [] op = "toTagInput" ->
                    [menu EXCEPT !.menuType = "tag_input", !.focusedIndex = 0, !.tagInput = FALSE]
               [] OTHER -> InitialMenu
  /\ UNCHANGED <<toastTimer, pending, sent>>

showToast(kind) == menu' = [menu EXCEPT !.toast = kind] /\ toastTimer' = TRUE

(* The handler's closure keeps the article of the menu it was clicked in.     *)
Ask(op) ==
  /\ sent < MaxSent /\ sent' = sent + 1
  /\ pending' = pending \cup {[op |-> op, id |-> sent, from |-> opens,
                           articleId |-> IF op = "pickTemplate" THEN menu.templates[1]
                                         ELSE menu.articleId]}
  /\ UNCHANGED <<menu, toastTimer>>

(* No page mounts the project provider: activeProjectId is null everywhere.   *)
Perform(op) ==
  /\ IF op = "addCheckItem"
     THEN showToast("error") /\ UNCHANGED <<pending, sent>>
     ELSE IF op \in Asking THEN Ask(op) ELSE ShowMenu(op)
  /\ UNCHANGED <<opens, rows, late>>

Click ==
  /\ menu.isOpen
  /\ \E op \in {Items[i] : i \in DOMAIN Items} \cup ByMouseOnly : Perform(op)

EnterKey ==
  /\ menu.isOpen /\ menu.focusedIndex < Len(Items)
  /\ ~(menu.menuType = "tag_input" /\ menu.tagInput)
  /\ Perform(Items[menu.focusedIndex + 1])

(* Enter in the tag field submits it and then clicks the focused "back".      *)
EnterTag ==
  /\ menu.isOpen /\ menu.menuType = "tag_input" /\ menu.tagInput
  /\ sent < MaxSent /\ sent' = sent + 1
  /\ pending' = pending \cup {[op |-> "submitTag", id |-> sent, from |-> opens,
                           articleId |-> menu.articleId]}
  /\ menu' = IF menu.focusedIndex = 0 THEN goBack ELSE menu
  /\ UNCHANGED <<toastTimer, opens, rows, late>>

-----------------------------------------------------------------------------
(* An answer.  Success shows a toast and closes, which wipes the toast.       *)
Succeeds == menu' = InitialMenu /\ toastTimer' = TRUE

Offer(menuType, projects, templates) ==
  /\ menu' = [menu EXCEPT !.menuType = menuType, !.projects = projects,
                          !.templates = templates, !.focusedIndex = 0]
  /\ UNCHANGED toastTimer

Taken(q) ==
  /\ pending' = pending \ {q}
  /\ late' = (late \/ q.from # opens \/ ~menu.isOpen)
  /\ UNCHANGED <<sent, opens>>

AnswerNotes ==
  \E q \in pending :
    /\ q.op = "drawingNotes" /\ Taken(q) /\ UNCHANGED rows
    /\ \/ showToast("error")
       \/ Succeeds
       \/ Offer("template_picker", menu.projects, <<q.articleId, 2>>)

AnswerProjects ==
  \E q \in pending :
    /\ q.op = "listProjects" /\ Taken(q) /\ UNCHANGED rows
    /\ Offer("project_picker", TRUE, menu.templates)

AnswerEgov ==
  \E q \in pending :
    /\ q.op = "openEgov" /\ Taken(q) /\ UNCHANGED rows
    /\ menu' = InitialMenu /\ UNCHANGED toastTimer

AnswerDone ==
  \E q \in pending :
    /\ q.op \notin {"drawingNotes", "listProjects", "openEgov"} /\ Taken(q)
    /\ rows' = rows \cup Written(q)
    /\ Succeeds

(* A refusal, or an answer that never arrives: the row may be there all the same. *)
AnswerFails ==
  \E q \in pending :
    /\ Taken(q)
    /\ rows' \in {rows, rows \cup Written(q)}
    /\ showToast("error")

ToastTimerFires ==
  /\ toastTimer /\ toastTimer' = FALSE
  /\ menu' = [menu EXCEPT !.toast = "none"]
  /\ UNCHANGED <<pending, sent, opens, rows, late>>

MenuNext ==
  \/ RightClick \/ CloseMenu \/ ArrowKey \/ TypeTag \/ Click \/ EnterKey \/ EnterTag
  \/ AnswerNotes \/ AnswerProjects \/ AnswerEgov \/ AnswerDone \/ AnswerFails
  \/ ToastTimerFires

MenuSpec == MenuInit /\ [][MenuNext]_menuVars

-----------------------------------------------------------------------------
(* What is on the screen belongs together: an open picker has its list, a     *)
(* toast has the timer that will take it away, and as long as no answer came  *)
(* after its menu was left, the templates offered are those of the article    *)
(* the menu is open on.                                                       *)
MenuIsCoherent ==
  /\ menu.menuType = "project_picker" => menu.projects
  /\ menu.menuType = "template_picker" => menu.templates # NoTemplates
  /\ menu.toast # "none" => toastTimer
  /\ menu.isOpen /\ menu.menuType = "template_picker" /\ ~late =>
       menu.templates[1] = menu.articleId
=============================================================================
