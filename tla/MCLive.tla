------------------------------- MODULE MCLive -------------------------------
(* What must end: a run of the refresh, and the loading of a law in the       *)
(* browser.  They are checked side by side, a behaviour belongs to one of     *)
(* them; the reader's law is another than those of the run.                   *)
EXTENDS CurrentLawRefresh, TLC

CONSTANTS MaxRevision, MaxCache, MaxRequests, MaxVisits, NoDocument

VARIABLES
  readerCurrent, fate, documentCache, inFlight, page, visits, shownRevision, promises,
  effects, hook, requests, asked,
  part      \* what the behaviour is about

Reader == INSTANCE LawReader WITH current <- readerCurrent

readerVars == <<readerCurrent, fate, documentCache, inFlight, page, visits, shownRevision,
                promises, effects, hook, requests, asked>>
liveVars == <<vars, readerVars, part>>

LiveStart ==
  /\ part \in {"run", "reader"}
  /\ Init /\ Reader!ReaderInit

Live ==
  /\ UNCHANGED part
  /\ \/ part = "run" /\ Next /\ UNCHANGED readerVars
     \/ part = "reader" /\ Reader!ReaderNext /\ UNCHANGED vars

\* No step of a run is enabled before it is started, nor of the reader before a page is
\* opened, so the fairness of the one asks nothing of the other's behaviours.
LiveSpec == LiveStart /\ [][Live]_liveVars /\ Fairness /\ Reader!ReaderFairness

\* The reader does not stay on "loading" (full-law-document-cache.ts:68).
LoadingEnds == Reader!LoadingEnds
=============================================================================
