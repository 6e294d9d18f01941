----------------------------- MODULE MCScreens ------------------------------
(* The reader's menu, its document, the chapter window and the place in the   *)
(* law share nothing but the page: one run checks them side by side, a        *)
(* behaviour belongs to one of them.                                          *)
EXTENDS ContextMenu, LawReader, ChapterScroll, ReadingPlace

Chapter(n, hidden) == [roots |-> n, whole |-> FALSE, hidden |-> hidden]
Provision(n) == [roots |-> n, whole |-> TRUE, hidden |-> {}]

\* A whole law with a supplement, and an excerpt with a chapter that is not in it.
MCBookLaws == {<<Chapter(6, {}), Provision(5)>>, <<Chapter(5, {2, 3}), Chapter(2, {1, 2}), Chapter(1, {})>>}

\* Two chapters; the last article is too short to come to the top of the page.
Entry(kind, under, high) == [level |-> kind, parent |-> under, height |-> high]
MCEntries == <<Entry("chapter", 0, 1), Entry("article", 1, 3), Entry("article", 1, 1),
               Entry("chapter", 0, 1), Entry("article", 4, 2)>>

VARIABLE screen

screenVars == <<menuVars, readerVars, scrollVars, placeVars, screen>>

ScreenStart ==
  /\ screen \in {"menu", "reader", "scroll", "place"}
  /\ MenuInit /\ ReaderInit
  /\ ScrollInit /\ (screen # "scroll" => law = CHOOSE l \in BookLaws : TRUE)
  /\ PlaceInit /\ (screen # "place" => goal = 1)

Screens ==
  /\ UNCHANGED screen
  /\ \/ screen = "menu" /\ MenuNext /\ UNCHANGED <<readerVars, scrollVars, placeVars>>
     \/ screen = "reader" /\ ReaderNext /\ UNCHANGED <<menuVars, scrollVars, placeVars>>
     \/ screen = "scroll" /\ ScrollNext /\ UNCHANGED <<menuVars, readerVars, placeVars>>
     \/ screen = "place" /\ PlaceNext /\ UNCHANGED <<menuVars, readerVars, scrollVars>>

\* A bound: nothing is looked at beyond a state with two builds under way.
OneBuild == \A r, s \in Revisions : inFlight[r] # Idle /\ inFlight[s] # Idle => r = s

ScreensSpec == ScreenStart /\ [][Screens]_screenVars
=============================================================================
