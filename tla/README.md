# Formal models of BLRA

BLRA keeps Japanese building law and shows it to practitioners.  The repository
holds two programs: the **web** application (`src/web`, Next.js, Prisma,
PostgreSQL) with the command-line tools that fill and refresh its database, and
the older **corpus server** (`src/src`, Fastify, Kysely, PostgreSQL).  Both take
the texts from the e-Gov law API.  What must not go wrong in either is the same:
a reader must be shown the whole, right text of one version of a law, must be
able to learn which one it is, and must not lose what he wrote about it.

The modules here model the parts where several processes, a database, a file
store, a browser and a changing outside source meet, and the computations on
text that decide what is shown.  TLC checks them on small instances; TLAPS
proves the main invariants for every value of the constants.

## 1. Inventory

| Component | State it keeps | Operations | Hard behaviour | What makes it correct |
|---|---|---|---|---|
| Current-law refresh (`web/src/lib/law-refresh/refresh-service.ts`, `refresh-repository.ts`, `egov-client.ts`, `web/scripts/refresh-current-laws.ts`) | `Law.currentRevisionId`, `LawRevision`, `LawPackage`, `LawRefreshRun`, `LawRefreshLawResult`, `LawSyncState`, an advisory lock, the locals of a pool of workers | start or refuse a run; per law: query, fetch, store, verify, stage, activate, record held, record failure; complete, unlock | workers interleave; runs overlap when the lock's connection dies; crashes between transactions; e-Gov changes between two requests | one active revision, never a staged one shown; a revision is written once; what is recorded as observed was shown; the report agrees with the database; every run ends and gives the lock back |
| Law XML store (`xml-store.ts`) | one directory per revision, temporary files | `put` | calls race between directory listing and rename; directories that cannot be read | a revision keeps one document; a returned path names a file |
| Candidate verification (`parse-law-xml.ts`, `diff-law-revisions.ts`, `range-resolution.ts`, `verify-candidate.ts`, `reviewed-mappings.ts`) | the revision shown, the review of the next one | walk, diff, resolve ranges, decide, review | equal rows that are renamed late; nodes that cannot be paired one to one | a key names one node; nothing that moved is shown without a review |
| Law catalogue scripts (`seed-law-book.ts`, `ingest.ts`, `enforce-law-book-scope.ts`, `backfill-current-law-durable-keys.ts`, `current-scope.ts`) | `Law`, `LawRevision`, `Article`, ranges, links | seed, ingest, restrict to the book, back-fill | run by hand in any order beside the daily refresh; a script dies between two batches | the pointer is not taken back; what is shown is in the book and whole |
| Article rendering (`article-segments.ts`, `article-renderer.tsx`, `full-law-document.ts`, `link-renderer.tsx`) | none | rows, blocks, segments, pieces of a text | three programs cut the text and none sees all of it | every sentence has one place on the page, in order, but for the losses and the cut definitions of section 6 |
| Law documents (`full-law-document-cache.ts`, `full-law-repository.ts`, `useFullLawDocument.ts`, `useConfirmedRelations.ts`) | a map of documents and of shared builds on the server, promises in the browser | open, ask, build, answer, retry, leave | the law is switched between the queries of one answer; an answer arrives after its page was left | a page shows the revision it asked for, its text whole; links and relations are missing only for a replaced revision; loading ends |
| Chapter window reader (`chapter-window.ts`, `ChapterScrollViewer.tsx`, `chapter-data-cache.ts`) | segments, cursors, a cache by chapter | open, read on, read back | answers that meet segments already changed; the law is switched while a page is open | nothing loaded twice, nothing skipped on the way down |
| Reading place (`FullLawViewer.tsx`, `ScrollActiveArticleContext.tsx`, `ScrollUrlSync.tsx`, `TocPanel.tsx`, `TocTree.tsx`) | active article, address, open entries | open, scroll, click, fold | a scroll event comes a frame after its jump, React commits later still | panel, address and page agree when the page is at rest |
| Reader's context menu (`useContextMenu.ts`) | menu, timer, requests under way | open, choose, type, close | answers that come to another menu | the menu is coherent |
| Reader's highlights on the text (`text-selection.ts`, `user-highlight-renderer.ts`, `UserHighlightContext.tsx`) | text nodes, ranges, list of marks | select, create, delete, load, cut, join | the page is cut by one list when the next comes | what is marked is what was selected |
| Practice server (`project.ts`, `activity.ts`, `default-user.ts`) | projects, check items, searches, the one user | activate, create, delete, record | statements of two requests interleave | some project stays active; one does when nobody overlaps |
| Import and export (`api/export/route.ts`, `api/import/route.ts`) | every table a user writes, a file | export, validate, resolve, import | the law is switched between resolving and writing; the history's cap | an import brings back what was exported |
| Confirmed relations (`confirmed-relation-service.ts`) | candidates and relations | suggest, confirm, reject, create, revoke | serializable transactions that conflict and give up | one relation in force, a candidate decided once, answers are true |
| Corpus server: ingest and publication (`src/src/ingest`, `routes/admin.ts`, `db/repos`) | `source_version`, `provision_version`, `audit_record`, raw files | ingest by HTTP and command line, publish, read | requests race around a lookup outside the transaction; failures between transaction and audit | a text is ingested and published once; its original is kept |
| Identity, members and sessions (`src/src/auth`, `routes/members.ts`) | users, roles, sessions | log in, first role, add, change, remove roles | user and role written apart; a change is a delete and an insert | an empty session has a reason |
| Statute parser (`src/src/parser`) | none | walk, path, numerals | repeated numbers and titles | a path names one provision; numerals read back |
| Package signing, current law checks, applicability, condition highlights, search and link index, screens, reference edges, server shell, spikes | — | — | — | not modelled, see section 5 |

Calls and shared state: `refresh-current-laws` and the catalogue scripts write
the tables from which every web route reads; the refresh service calls the XML
store before it stages and candidate verification before it activates; readers
take `Law.currentRevisionId` as the only pointer to what is public.  The practice
data point into the law by article id and, in an export, by law and number.  The
corpus server shares no tables with the web application.  `PROJECT.json` lists the
files of each part and the hazards at their lines.

Some client code is mounted by no page at this commit: the project provider, the
providers of highlights and annotations (so the marks of `TextMarks` are not drawn
in the live application), `ChapterScrollViewer` (its API is live, the viewer is
kept for comparison, `HANDOFF.md:62`), and `confirmed-relation-service.ts`, which
only its integration test calls.  They are modelled as they are written.

## 2. Modules

| Module | Models |
|---|---|
| `CurrentLawRefresh` | the refresh: one action per step of `processOneLaw` between two awaits, a database transaction being one action |
| `CurrentLawOverlap` | the same with the lock's connection lost and commits that are not acknowledged |
| `LawPublication` | the abstract promise: revisions are archived whole and once, and one step shows one archived revision |
| `CurrentLawClaims`, `CorpusClaims` | statements of the repository that the code does not keep |
| `XmlStore` | `FileSystemLawXmlStore.put` for one revision, one action per await |
| `LawWalk` | `parseLawXml`: the durable and the legacy key of every node, over any document |
| `RevisionText`, `LawReview` | diff, ranges and verdict as operators; the refresh of one law with its reviews, as actions over them |
| `LawCatalog` | the four scripts of the edition, one write or transaction a step, beside the refresh |
| `ArticlePage` | from the elements of the XML to the text on the page |
| `LawReader` | the article page, the two hooks, the document route and its cache |
| `ChapterScroll` | the window's queries and the page that joins their answers |
| `ReadingPlace` | the place in the law, the address and the table of contents |
| `ContextMenu` | the handlers of `useContextMenu` with their requests and its timer |
| `TextMarks` | selection, marks and the text nodes they cut |
| `PracticeServer` | default user, active project and search history, statement by statement |
| `Backup` | export, file, import |
| `ConfirmedRelations` | the five operations of the service with conflicts and retries |
| `CorpusIngest` | `ingestSourceVersion` and the admin handlers of the corpus server |
| `Members` | logins, sessions and the members' roles, statement by statement |
| `ProvisionPaths`, `Numerals` | `segment`'s canonical paths; the kanji numerals of both programs |
| `MC*` | constants and symmetry for TLC, and the parts that one run checks side by side |
| `*Proofs` | theorems |

Definitions named `...Mutant` stand before the definition they vary; nothing
uses them.  They record how a plausible bug at that place would look, and each
breaks the property it is listed with in `PROJECT.json`.

### 2.1 The refresh

A *version key* (e-Gov's revision id) is a number that also stands for its date;
0 is NULL.  An XML document is `<<version, edition>>`, where editions above 0
are corrections e-Gov makes under the same key; two checksums are equal exactly
when the documents are.  Article ids are derived from the document, which is
what `ArticleIdsFree` states.  Variables and rows:

| Variable | Code |
|---|---|
| `inForce`, `edition` | e-Gov (external); change at any time by `Amend` and `Correct` |
| `current`, `status`, `text`, `pkgOf` | `Law.currentRevisionId`; `LawRevision.status`, `.xmlChecksum` with its articles, `.packageId` |
| `observed`, `syncError` | `LawSyncState` |
| `store` | what `XmlStore` keeps for a revision, seen under the lock |
| `runRow`, `result`, `pkgStatus` | `LawRefreshRun`, `LawRefreshLawResult`, `LawPackage` |
| `lock`, `phase`, `mode`, `asOf`, `work` | the advisory lock, the processes, their arguments, the workers' locals |

`Start`/`Refuse` are `withRefreshLock`; `BeginLaw` … `Activate` are
`processOneLaw`, in its order; `LawFails` and the actions that use it are the
exceptions and the call of `recordFailedCheck`; `CompleteRun`, `AbortRun`,
`Unlock`, `Crash` end a run.  `Init` chooses for each law what the catalogue
scripts left: `empty` (row without a revision), `seeded` (a current revision,
never synchronised) or `synced`.  What `verifyCandidate` decides is a choice
between `VerifyHeld` and `VerifyPublishable` here; `LawReview` has the decision.

`CurrentLawRefresh!PublicationSpec` is `LawPublication!Spec` with `archive`
mapped to `text`: the refinement that says no step rewrites a revision and no
step shows one that is not archived.

### 2.2 The text of a law

`XmlStore`: `site` chooses, once, where the store runs: whether calls exclude each
other (the refresh lock does that within the program), whether a directory that
exists may fail to be listed (`catch` takes every error for an absent directory),
and whether the temporary directory is on the same device, without which `rename`
always fails.  `OneDocument` and `SameContentIsIdempotent` hold where calls
exclude each other and directories can be read; `StoredIsThere` holds everywhere.

`LawWalk`: each step is the next element of the walk, so the behaviours are the
documents.  `open` holds the calls that have not returned; a second equal row
renames the first and all that is below it, as the code does.  `KeysNameNodes`
compares the keys handed out with the definition of a path: the parent's key, the
own segment, and an occurrence exactly where there are twins.

`RevisionText` computes on sets of nodes.  `LawReview` runs the refresh on one law
with every pair of small revisions and every file of reviewed mappings a reviewer
could write.  The refresh hands an empty old revision to the diff (section 6), so
`RefreshLaw` compares nothing; `NothingMovesUnseen` is about the verdict the code
could give: were the two revisions compared, a text that only changed its number
would never pass as removed here and added there without a review that names both.

`LawCatalog`: a law of the book shown whole, one shown as an excerpt, and one that
an earlier version of the program loaded.  `job` is the command under way with its
locals; `RefreshCatalogLaw` is the refresh; `StopScript` may end a script between
any two of its writes (a transaction is one write; so are the rows of `Law` and
`LawRevision` a seed begins with and the batches of links, between which nothing here
reads).  The seed writes a law
in seven steps (the revision, the retirement of a legacy revision and of its articles,
the pointer, the revision's status, the entry, the range of the whole), then the ranges of
the excerpt, then the scope.  `ShownOf` is the SQL of `current-scope.ts`.

`ArticlePage`: behaviours build the XML element by element, in the order the parser
hands them on. `TextOf` is the parser, `BlockOf` the document, `PageSegments` the
segments (with an anchor for each row that a segment takes along), `PageText` the page.
An entry of the page is a sentence and whether it stands there whole: `DefinitionNode`
takes the keyword off the front of the definition's body, and `Cut` names the bodies that
begin with it (an element says so by `again`).  `Lost` names the sentences that the three
programs lose between them (both are listed in section 6); all others are there once,
whole, in their order.

### 2.3 The reader's screens

`LawReader`: `current` is what the refresh switches; `documentCache` and `inFlight`
are the server's documents and the builds that requests share; `page`, `hook`,
`effects` and `promises` are the browser.  A build is three queries in parallel
(`ReadMetadata`, `ReadNodes`, `ReadLinks`), each on the tables of its moment: what is not
in the current revision is out of the scope of all three, so the law may be switched
before any of them.  `FinishBuild` (or `FailBuild`) ends it: without metadata or without
nodes there is no document, without links there is one.  The relations route looks the
revision up (`GetRelations`) and reads its relations then (`ReadRelations`).  Links and
relations are seen as those of their source's law; that the law at their other end is
switched is not in the model.  `Switch` goes forward, as runs that ask for today do
(`CurrentNeverGoesBack`): were an earlier revision activated again, a document that was kept
without links would be served as the current one's.  `Arrive` and `Lose` are the ends of a request in the
browser, `RestartServer` forgets the server's maps.

`ChapterScroll`: a law is a sequence of scopes.  What the server returns and the page
keeps are items: an article, or a supplementary provision, which comes with everything
below it (`Children`), its articles included; these are items of their own as well.
`Drawn` is what `ChapterArticleBlock` makes of an item.  `fetching` holds at most one
request for each direction, as the component's flags allow.  `memory` is the cache by
chapter, which can replace a window's articles.  `SwitchLaw` is the refresh while a page
is open: a window is read within one revision, requests that come later fail
(`PageFails`), and one that was in flight (`cut`) may have been let through by the
route's check and find nothing in its queries (`CutPage`).

`ReadingPlace`: heights stand for pixels.  A frame is one action with the
order the browser keeps (scroll event, then callbacks of
`requestAnimationFrame`); React's commit is another, at any time after.

`ContextMenu`: a handler is an action; `pending` are the requests with the menu
they came from.

`TextMarks`: an article is a row of tokens with the length they have in the law and the
length they are shown with. `dom` has, by span, the list of its text nodes, with the
label in front as span 0; rendering cuts the nodes of a plain span, range after range
(`CutNext`), and cleaning joins them. A place the reader selects from or to is a span, a
node of it and an offset in the node. `blurred` and `torn` record where a selection was
made in a text already cut, or two ranges overlapped; the property leaves these out and
section 6 describes them.

### 2.4 What users write

`PracticeServer`: a step is one SQL statement under READ COMMITTED.  A statement
that finds a row locked waits and looks at it again.  `overlapped` is a history
variable: two activations were under way at once.

`Backup`: `db` is the tables an export holds, as bags of rows; `Export` writes the
file from one state of them (the route reads the tables with ten queries at a time and no
transaction, so a file written beside other requests may mix two states; such a file is
not in the model), `AlterFile` changes it on the user's disk, `ResolveRefs` looks the numbers up
before the transaction, `WriteRows` and `CommitImport` (or `RollBackImport`) are the
transaction.  The actions through `Changed` are the requests that write such rows
meanwhile, `SwitchLaw` is the refresh.

`ConfirmedRelations`: `service` is the calls; a call's transaction sees the rows as
they were at its start (`seen`), and cannot commit when another one has changed
what it read; `Conflict` begins it again, even where PostgreSQL might have let it
pass.  When `MaxAttempts` are used up `Converge` looks at the rows once more,
outside of any transaction, and answers by what it finds.

### 2.5 The corpus server

`CorpusIngest`: one law, several texts.  A text has provisions (`PathsOf`), a date
or none (`ValidFrom`), and validation's verdict (`Clean`, `Doubled`).
`provision_version` rows are written with their version and never change, so they
follow from `version`.  `OpenRaw`/`CloseRaw` are the two halves of `writeFile`;
`Commit` is the transaction, `CommitRefused` its rollback by a constraint; the
audit record is a step of its own after it, as in the handlers.  `Shown` is what
`getProvisionCurrentVersion` answers: `ORDER BY valid_from DESC` puts rows without
a date first in PostgreSQL.

`Members`: `call` is a request with its program counter; `Login` … `OpenSession` are
`resolveUserFromClaims`, the other actions the handlers of `routes/members.ts`.
A session keeps the roles its login read.  `bare` is the history the property
needs: who never had a role, or had the last one taken away.

`ProvisionPaths` walks any statute as `LawWalk` does, with the parser's own rules;
it extends `Numerals`, whose behaviours write the numbers digit by digit, so that
each is written and read back.

## 3. Runs

| Run | Instance | Shows |
|---|---|---|
| `refresh_synced` | 2 laws, 2 runs of 2 workers, synchronised laws; 442 012 states | `CurrentIsInPublishedPackage`: a shown revision belongs to a published package once its run is closed; for laws that were checked before |
| `refresh_any_start` | 1 law, 2 runs, any start, an amendment and a correction, all modes; 1 052 532 states | types, `StagedNeverPublic`, `ObservedIsCurrent`, `ReportMatchesDatabase`, refinement of `LawPublication` |
| `live` | a run of the refresh over 2 laws, and a page of a law with a retry, side by side; 105 364 states | `RunEnds`, `LockComesBack`; `LoadingEnds` |
| `refresh_overlap` | 1 law, 2 runs, 3 versions, the lock may be lost; 153 221 states | `ActiveIsCurrent`, `CurrentNeverGoesBack`, `ObservedWasShown` |
| `law_data` | store, walk, review, catalogue and page side by side; 360 354 states | `OneDocument`, `SameContentIsIdempotent`, `StoredIsThere`; `KeysNameNodes`; `NothingMovesUnseen`; `ShownStaysInBook`, `ResolvedTextIsWhole`, `CatalogKeepsCurrent`; `TextIsShownOnce` |
| `screens` | menu, reader, chapter window and reading place side by side; 671 966 states | `MenuIsCoherent`; `ServedIsWhole`, `ShownIsAsked`; `NothingLoadedTwice`, `ReadingOnSkipsNothing`; `ReadingPlaceIsKept` |
| `practice` | server, backup, marks and relations side by side | `SerialActivationKeepsOne`, `SomeProjectStaysActive`; `RestoreBringsBack`, `NewestSearchSurvives`; `MarksAreWhatWasSelected`; `RelationsAreReviewed` |
| `server` | corpus, members, paths and numerals side by side | `CorpusTypeOK`, `IngestedOnce`, `PublishedOnce`, `RawKept`; `EmptySessionsAreExplained`; `PathsNameProvisions`; `NumeralsReadBack` |
| `claim_*` | small instances | a counterexample each, see section 6 |

`live`, `law_data`, `screens`, `practice` and `server` check several modules *side by side*: the
modules share no state that matters to two of them, so a variable (`part`, `side`, `screen`)
chooses one at the start and a behaviour belongs to it alone; the others keep one
initial state.  Every module is explored as it would be in a run of its own.

**Bounds.**  All but one are CONSTANTS, named in the module that declares them.

- *Refresh.*  `MaxVersion` and `MaxEdition` bound what e-Gov publishes; with two
  versions and one correction every relation between the shown, the observed, the
  stored and the newest version occurs (equal, older, same key with other text).
  Two runs are enough for every race over a law, because a third sees what the
  second saw; the second run also stands for the retry after a crash.
- *Store.*  Three calls of `put` give a winner, a loser and a retry.
- *Text.*  Documents of five nodes have twins with something below them, inside and
  outside of tables.  Revisions of up to three nodes over three numbers and two
  texts have moves, exchanges and ambiguous pairs.  Seven elements reach two cells of
  a table in a paragraph of an article, or an item with three columns and what follows.
- *Catalogue.*  Four scripts: seed, ingest, back-fill and any one of them again
  after a crash; a batch of one article, so that two articles can be cut apart.
- *Screens.*  Two revisions and two visits, a cache of one document, four requests:
  two pages with a document and relations each, or one with two retries; `OneBuild`, the
  one constraint of a cfg, stops at a state with two builds under way, which touch each
  other only in the cache they append to.  In `live` one page with a retry, and no such
  constraint.  `Half` 1 and `PageSize` 2 on scopes of one
  to six articles have full, cut and empty pages at both ends.  The law
  of the reading place ends with an article too short to reach the top.
- *Practice.*  Three requests over two projects; one article, a history of one,
  two edits, two imports and one switch; two marks; three calls over two pairs with two
  attempts, of which one candidate is waiting.
- *Server.*  Three requests let two publish what a third ingested; three
  accounts, two of one address, from two browsers, with two changes by
  administrators; statutes of four elements; all numbers to 12 345.

Symmetry is taken over runs, laws, writers, documents, requests, projects and
browsers, and only in runs without liveness.  Deadlock is not checked where every
process executes once or a bound is used up: the system then stops, as the
programs do.

**Fairness.**  `live` has the fairness of both its parts; a part that a behaviour is not about stays in
its initial state, where nothing fair is enabled.  The refresh (`RunEnds`,
`LockComesBack`): weak fairness of the workers' and the run's own steps, given that the
process is not killed, and none of e-Gov's changes, of failures or of crashes.  It is what
Node's event loop and the time limits of the e-Gov client justify: every await settles, by
an answer or by an error.  The reader (`LoadingEnds`): weak fairness of the route's
handlers, of a build's queries and its end, and of the arrival of an answer; a query may
fail instead, a request may be lost (which is an answer too), the server may restart.  No
fairness for the reader, for retries, or for the refresh.

## 4. Proofs

| Module | Theorems |
|---|---|
| `CurrentLawProofs` | `TypeCorrect`, `ActiveRevisionIsCurrent`, `StagedIsNeverPublic`, `ObservedVersionWasShown`, `CurrentGoesForward`, for runs that may overlap; `RefreshImplementsPublication`; `ObservedVersionIsCurrent`, `ReportIsTrue`, `CurrentRevisionIsPublished`, for runs that exclude each other |
| `LawTextProofs` | `StoreTypeCorrect`, `StoredDocumentIsThere`, `SerialStoreHoldsOneDocument`, `StoredDocumentIsAcceptedAgain` (store); `NodesAreNamed` (walk); `NoArticleMovesUnseen` (review); `CatalogTypeCorrect`, `ResolvedRevisionIsWhole`, `OnlyTheBookIsShown`, `ScriptsKeepCurrent` (scripts) |
| `LawReaderProofs` | `ReaderTypeCorrect`, `ServedDocumentIsWhole`, `ReaderShowsWhatItAsked`; `TheReadingPlaceIsKept` |
| `ScreenProofs` | `MenuStaysCoherent`; `NothingIsLoadedTwice`, `ReadingOnSkipsNoArticle` |
| `PracticeProofs` | `RelationsTypeCorrect`, `RelationsReviewed`; `OneProjectIsActive`, `ActivationIsAtomic`; `NewestSearchStays`, `ImportUndoesExport` |
| `ServerProofs` | `CorpusTypeCorrect`, `DocumentIsIngestedOnce`, `VersionIsPublishedOnce`, `OriginalIsKept`; `EmptySessionsExplained`; `NumeralsAlwaysReadBack`; `PathsAlwaysNameProvisions` |
| `TextMarksProofs` | `MarksStayAsSelected` |
| `ArticlePageProofs` | `EverySentenceIsShownOnce` |

The assumptions are those of the modules (`RefreshAssumption`, `StoreAssumption`,
`WalkAssumption`, `TextAssumption`, `ReviewAssumption`, `NullAssumption`,
`CatalogAssumption`, `ReaderAssumption`, `MenuAssumption`, `ScrollAssumption`,
`PracticeAssumption`, `BackupAssumption`, `RelationsAssumption`, `AbsentAssumption`,
`CorpusAssumption`, `MembersAssumption`, `NumeralsAssumption`, `ProvisionAssumption`,
`PlaceAssumption`, `MarksAssumption`, `PageAssumption`): bounds are natural numbers,
names of different things differ, and marker values are no members of the sets they
mark. `NumeralsAssumption` keeps the numbers below a hundred million, since a law writes
a larger one with two scales, of which `kanjiToArabic` knows one; `ProvisionAssumption`
says that numbers and titles are sequences of numbers, those of a title below the myriad
(`toKanji` writes and `kanjiToNumber` reads no larger ones, and no law has ten thousand
tables). Runs, laws, documents, elements, articles, requests, calls, accounts are any
sets; no proof uses that one of them is small. The `MC` modules that the runs check
extend the modules with these assumptions, so TLC evaluates each of them.
`CurrentRevisionIsPublished` assumes `InitKinds = {"synced"}` besides,
`CurrentGoesForward` assumes `AsOfs = {MaxVersion}` (every run asks for today).

*Refresh.*  The invariant of the revisions, `RevisionInv`, joins the types, "an
active revision is the shown one" and "the shown revision has been shown before"
(active or superseded).  It is inductive without the lock: a switch compares the
pointer with what the worker read, so the one revision that can be active is the
one it supersedes.  `ObservedWasShown` needs in addition that the copy of the
observed version each worker holds was shown.  `CurrentNeverGoesBack` follows
from `ForwardInv`: nothing is on show before it is in force, and a worker starts
from a version that was in force and brings none older than the one it replaces,
since e-Gov answers with the version in force when it is asked, after the worker
read the pointer.  The refinement needs that a worker between
staging and the switch has its revision archived, since the switch does not look
at it again.  The invariants about synchronisation need the lock: they add
that a process which holds it is the only one with a worker under way, and that
what a worker read is still so.  For the packages: what a run is about to publish
is not yet on show and is in its package; the package of what is on show is owned
by a run that counts the law as updated; and a process at work has its run row
open.

*Store.*  `AloneInv`: a call that was let through is alone, and what is stored is
at most its own document; from it, two stored documents are equal.

*Walk.*  `KeysNameNodes` says nothing of the counters, and they are what makes it
true.  `WalkInv` adds: the counters number equal elements and children without a gap
and without a number given twice (`Counted`); a key is the parent's key with one step
more, and that step is unmarked exactly while the counter is at one (`Named`); every
prefix of a key is the key of some node (`PrefixesAreKeys`), so that the renaming of
all keys with a prefix cannot make two of them equal; and the call at depth *d* holds
the key, of length *d*, of its node (`CallsHoldKeys`).  A step is one visit (`Met`); it
is split by whether the element is the second of its kind, the only case in which
keys that were handed out change.  Two renamed keys are equal only when the keys
were, because the marked step was in no key before (`MarkedFacts`).

*Review.*  `AlikeIsHeld`: a removed and an added node that look alike are held
together or each by itself, since whoever is not paired one to one stays ambiguous.
A favourable verdict needs the review to cover what is held (`MovedIsCovered`).

*Catalogue.*  `CatalogInv` joins the types with: ranges belong to laws that are in the
book, and an excerpt has no range for the whole (`RangesInv`, which needs that a seed at
the range of the whole has written the entry); a resolution is of such
a range, in a revision that was whole, and resolves to articles of the book
(`ResolutionsInv`); what a script read is still so when it writes (`JobInv`), for the
rows because none is ever deleted from a whole revision, for the pointer because the
seed writes it only where it read NULL and only it fills a NULL.
`CatalogKeepsCurrent` is then a case split over the scripts' steps.

*Reader.*  `ServerInv`: the documents of the cache have their text, and their links
unless their revision was replaced (`WholeAt`); there is one for each revision; nothing is
being built that is already kept; and a query of links that found none was overtaken by a
switch.  A revision once replaced stays so, which keeps what is said of older answers.
`BrowserInv`: answers and promises are of the revision they are kept under and whole in
the same sense, none is of a revision to come, a promise and a request of the same id
agree, and an active effect waits for a request of the revision on show.  `HookInv` says
it of what is shown; `ShownIsAsked` and `ServedIsWhole` follow.

*Menu.*  `MenuInv`: a request that came from the menu that is open now is about this
menu's article; an answer that came late is what `late` records, so without it the
templates belong to the article.

*Chapter window.*  `ScrollInv`: each segment lists items of its own scope, none
twice; two segments have two scopes; what is kept of a scope is of that scope; and a
request backwards is for the first segment's scope, so that its answer is merged where it
belongs, a page that a switch has cut included.  That the
segments put one after the other repeat nothing is then `FlattenOrdered`; two different
items draw the same only where one is the provision the other belongs to, by what `Drawn`
adds to an item.  Its proof
and that of the numbering by place (`ByPlaceFacts`) take a least counterexample
(`LeastNumber`), which the provers can do where they cannot do induction.

*Reading place.*  `PlaceInv` joins the types with: an entry that is meant is brought by
the callbacks that wait (`Brings`), the scroll event of the jump is held back until they
have run, and the address is the entry's or about to follow it (`JumpInv`); after the
reader has scrolled, the active article is the one at the line or the frame that finds it
is still to come (`SpyInv`); and before the effects everything is as the page was opened,
after them the headings above the committed entry are open (`TocInv`).  `SearchFinds`
says that halving ends where what is above the line ends, which needs that what comes
later is not higher on the page (`TopGrows`); `OpenIsVisible` that an entry below open
headings is among those that the way down from the top meets.  That the sum of the
heights, the search, the ways up and down and the row of callbacks have a solution is
proved for each (`CourseExists`, `SearchExists`, `UpExists`, `ShownExists`).
`PlaceAssumption` says that entries have a height and come after their parents, and that
one of them is an article.

*Reading on.*  That nothing is skipped needs the cursors and the requests besides the
items, for a law that is in the book as a whole, a page under which it was not switched,
and a window the cache has not replaced (it puts the items of an earlier window under the
cursors of this one).
`ReadInv`, on top of `ScrollInv`: the segments are the scopes with a text, in their
order (`InOrder`); all but the last are loaded to their end (`Loaded`); the last is read
from its start as far as it is loaded, and its cursor may overlap what is loaded but
leaves no gap (`ReadFrom`, `GoesOn`); the first segment's cursor asks for nothing behind
the window's first article (`Opened`); and a request that is under way is the one the
last segment calls for, since nothing else changes that segment meanwhile (`AskedOK`). A
window, a page after and a page before are each shown to be a run of numbers
(`WindowReads`, `PageAfterReads`, `PageBeforeReads`), which a merge joins to what is
there. In the end (`ReadsTheText`) what is read and the text both rise, and what is read
holds the smaller members of the text, so it begins it (`RisingIsPrefix`).
`ScrollAssumption` says of `NoCursor`, the code's null, that it is no number from one
on.

*Marks.*  `MarksInv`: as long as no ranges of a page's list have overlapped, the page is
the article under the marks of that list (`PageIsMarked`), and whatever is known of a
highlight (in the table, on the page, in an answer under way) has its id to itself and,
unless it is blurred, covers what was selected and no token by halves (`KnownOK`).  The
first part is kept because taking marks away gives the article back (`MarksGo`), so each
rendering starts from it.  That needs what a plain span looks like under ranges that are
apart: `Sliced` says that the nodes so far show its first characters in their order, each
in the colour of the one range that has it, and every further range keeps that
(`CutNextSlices`).  For the second part, a place in the first node of a span has as many
characters before it as its offset says (`FirstNodeFacts`), so the range that is made
holds exactly the characters between the two places (`SelectedAre`, `RangeIsChosen`);
this is where selections beyond a first node fall out.  `MarksSay` puts the two together:
the nodes in the colour of a highlight show what it covers (`SpanColours`).
`MarksAssumption` says that a token has a length and something shown, the same number of
characters if it is plain.

*The article page.*  `PageInv` says how a document may go on: each element stands below
the one before it or below one above that, as the schema allows, and the columns of an
item follow it.  So what is between an element and one above it is below that too
(`Between`), which makes a depth enough for `buildSegments` to find the end of a table
(`PassedFacts`, with `AfterTable` for the first row behind it).  What is shown in the
place of a row is then a set (`Own`): the cells of a table, the keyword and the body of a
definition, the row itself.  These sets are apart and in order (`OwnApart`,
`RootsApart`), so the rows on the page rise (`PageRowsFacts`), and which they are can be
said of each element alone (`IsShown`).  A sentence that is not lost is then the text of
exactly one of them, its own row or its item's (`OneHome`), and the remarks of an appendix
are besides in one caption (`OneCaption`).  A body that is cut has a row of its own (`OneHome` says both), so it stands cut in this one
place and whole in none.  `FlatCount` and `WordCount` turn that into
the number of places in the text.  `PiecesAreWhole` follows the links one by one: the
pieces so far go from the start of the text to the cursor without a gap (`Chained`).

*Projects.*  `PracticeInv`: between the two statements of an activation the rows of the
first one are locked, still active and still the user's (`ClearedHeld`), so no other
request deletes or clears them and `SomeProjectStaysActive` follows; and an activation
that has been alone so far has seen every active project of its user
(`AloneSeesAll`), which gives `SerialActivationKeepsOne`.

*Backup.*  `HistoryInv`: what an import is about to delete leaves a search at least as
new as any it knows of (`CapKeepsNewest`), and no search is newer than the present.
`RestoreInv`, on top of it: the tables are bags, an untouched file says of each table
what was in it (`Says`), and an import about to commit adds what the file says on the
revision it resolved numbers in, but for the tags and links that are there (`Restores`).
It holds at the commit because a tag or a link is never taken away and a running import
keeps its file.  The rest is counting.  `BagOfAll` and the sums of `RestoreBringsBack`
are recursions over sets; each is shown to be the size of a finite set of pairs
(`Pile`), from one member to the next (`SummingIsTotal`, by `FiniteSetGrows`, induction
over the subsets of a finite set).  A bag whose members get other names keeps its sums
(`TotalRenamed`), so writing a row under its number and finding it again on another
revision loses none of an article's rows (`TableComesBack`), and the same one level up
for projects, which are bags of check items and may become equal on the way
(`ProjectsComeBack`).

*Relations.*  `RelationsAreReviewed` is inductive together with the types: a commit
needs that what the transaction saw is still so, which is all that keeps two
relations apart.

*Corpus.*  `IngestedOnce` is inductive with the types: a commit needs a text that
is not there, and whoever reported it before needs it there.  `PublishedOnce`
needs that a version that waits failed validation.  `RawInv` says that a request
past the file has written it and that a torn file has somebody to blame.

*Members.*  Beside the types: a request past its lookup is about an account that
exists, a change brings a role (a delete and its insert are one transaction), and
whoever has an account and no role is in `bare`.

*Numerals.*  A reading is a fold over the symbols (`Read`); its states are followed along
what was written.  `ReadJoined` reads a joined numeral on from where its first part
left off, and `KanjiAdds` says what both readings with units have in common: after what
`toKanji` writes of *n*, in a state without a waiting digit, they stand for *n* more.  The
digits are read place by place (`ReadsDigits`), and a single myriad is found where it
stands (`SplitAt`).  That the recursions of `ToKanji`, `Digits` and `Read` have a solution
is proved, not assumed: functions on ever larger domains are extended by one value
(`UpToIsIn`, the induction that a set of numbers allows where a predicate does not).

*Paths.*  `PathsInv` relates each element to what was met before it: its parent comes
earlier, its path is the parent's path with its own step, and the step of an untitled
appendix counts the provisions and appendices that were met before.  It is inductive,
since what is met later changes none of these counts (`Undisturbed`).  From it,
`SameWithin` shows that two elements of one path belong to one numbering, by
induction on both places together: equal paths have equal fronts, so the parents
agree already.  Two provisions of one path then have the same last step, which a
statute that is numbered properly rules out (`OneHolder`): numbered elements by their
number, titled appendices because `kanjiToNumber` takes no two titles for one
(`KanjiToNumberIsInjective`), untitled ones because the later counts more
(`CountsDiffer`).

Only model-checked:

- liveness (`RunEnds`, `LockComesBack`, `LoadingEnds`), out of the prover's reach.

## 5. Not modelled

- **Package signing**: computed and verified in one place, without a state.
- **Current law checks** (`verify-*.ts`): read-only predicates on the database.
- **Applicability**: pure selection by date; only the validation of a snapshot has a
  caller, `resolve-applicable-article.ts` and `link-detector.ts` have none.
- **Condition highlights**, **search and link index**, **screens**, **reference
  edges**, **server shell**: queries, forms and wiring; one request at a time on the
  state of one component.  `QuickSearch` and `SearchPanel` let a late answer replace
  a newer one.
- Within modelled parts: editing a project, a check item, an annotation or a note,
  each of which writes one row by its id (`PracticeServer`); the correction of the scroll
  position and the auxiliary data of the chapter window; widths, borders, formulas
  and the wording of labels (`ArticlePage`); fetching of the files and page data of
  the catalogue; fingerprints, normal forms and the extraction rate of the statute
  parser; the loss of a commit's acknowledgement in the relation service.
- The refresh: the time limit of the transaction that carries the advisory lock
  (600 s): when it ends first, the final unlock fails and the report is not printed,
  while the database is as after `Crash`.  Naming the same law twice on the command
  line: the second result row violates `unique(runId, lawId)` and that law counts
  as failed.

## 6. Where code and documents disagree

With a run and a counterexample:

- `claim_first_introduction`: the first revision of a law can never be activated,
  NULL being compared with `''` (`refresh-service.ts:528`).
- `claim_unreviewed_move`: the refresh compares the candidate with a revision without nodes,
  so an article that changed its number is shown without a review
  (`refresh-service.ts:389`).
- `claim_backfill_ranges`: the citations that the seed writes begin with the law's
  name, and the resolution strips 第 only at the start, so no verified range is ever
  resolved (`range-resolution.ts:77`).
- `claim_shown_published`: the corpus server shows text that waits for review
  (`provision-repo.ts:144`).

Seen while reading, without a run.  Where a property above would be false for one
of these reasons, its definition names the case it leaves out.

*Refresh.*  A law that failed is counted as unchanged and the run as succeeded
(`refresh-service.ts:602`; design document `:96`).  The first run over a seeded law
marks the revision it shows as superseded (`refresh-repository.ts:410`, comment
`:378`).  The XML is fetched by date and may be of the next version
(`egov-client.ts:219`; design document `:202`).  No mappings and no range
resolutions are written (`refresh-service.ts:504`), so every old article address
becomes historical.  A dry run writes run, result and sync rows
(`docs/operations/current-law-refresh.md:78` says it writes nothing).  The manifest
of a package names only the law staged first
(`2026-08-04-current-law-incremental-refresh-design.md:118` wants every one).  The
command line passes e-Gov ids where `Law.id` is expected
(`refresh-current-laws.ts:159`), which only seeded laws have.

*Store.*  Without the lock two calls leave two documents under one revision
(`xml-store.ts:61`); any error of `readdir` counts as an absent directory (`:138`).

*Catalogue.*  On a database with `rev_legacy` rows the seed retires the revision the
pointer stays on, and the law shows nothing until a refresh
(`seed-law-book.ts:241-264`).  The first seed fails at the ranges when it is run
before ingest.  A crash between batches leaves part of a revision that ingest and
seed take for loaded (only the back-fill notices).  Ingest sets the edition's revision
active even when it was superseded (`ingest.ts:340-345`), and `ingest <id>` rebuilds
all links knowing one law only (`:500-503`).  `enforce-law-book-scope` before the seed archives
every law.  The scope of a reader ignores the end of a range
(`current-scope.ts:48-51`).

*Documents.*  The server's cache serves superseded revisions
(`full-law-document-cache.ts:63`); a switch before the links query of a build
(`full-law-repository.ts:326-330`) leaves a document without links in the cache, which
nothing there empties but newer documents or a restart: it is served to whoever still has
the replaced revision open, and to no reader of the current one (`ServedIsWhole`); a switch between resolution and tree
gives a 404; a retry is useless once the revision is superseded.  The operator
precedence of `parseChangeNotice` counts the modified only
(`full-law-repository.ts:172`).

*The page.*  Not shown: the third and later columns of a definition item
(`article-segments.ts:155-172`), items inside a cell, the title of a table, its header row's own text and
its remarks' own sentence, and paragraphs before the first article.  The body of a
definition that begins with its keyword is shown without these words, even where they only
begin a longer one: the keyword 建築 and the body 建築物を新築し… stand as 建築 and
物を新築し… (`article-renderer.tsx:994-997`), and the ranges of the body's links are off by
as much.  The remarks of
an appendix stand in its caption and their items once more below it.  Ranges of
links count in `row.text` but cut the text without its leading label
(`article-renderer.tsx:480-495`); links of the first paragraph are not drawn.

*Reading place.*  A click in the table of contents within the first frame after opening is
undone by the second alignment (`FullLawViewer.tsx:94-96`).  When React commits
later than the next frame, a click followed by a scroll back can leave the address
on the clicked article (`ScrollUrlSync`).

*Chapter window.*  A supplementary provision comes with all that is below it
(`chapter-window.ts:570-573, 654-660`), its articles included, and they come again as items
(`:567, 649`).  `ChapterArticleBlock.tsx:239, 330-371` draws every child, so each of these
articles stands twice on the page, and two elements have the same DOM id (`:281`,
`article-renderer.tsx:503`), which
`docs/superpowers/plans/2026-08-02-reader-full-law.md:529` rules out.  A switch between the
route's check of the article (`chapter-window/route.ts:43-67`) and the page's queries
(`:106`) gives an empty page without cursors, and the reader is told that nothing is left.
A cursor before the window starts too early and the articles in
between are not loaded (`chapter-window.ts:582, 660`); the cache replaces a window's
articles but not its cursors; numbers count articles that totals leave out, so an
excerpt may stop early or ask for the same page for ever.

*Menu and marks.*  A success notice is wiped by the menu's closing; Enter chooses
another item than the one in focus when the list became shorter
(`useContextMenu.ts:519`); a late answer turns another article's menu into a picker.
Overlapping highlights repeat the text they share
(`user-highlight-renderer.ts:170-178`); a selection in a span already cut counts from
the wrong node (`text-selection.ts:182-193`); a list read before a highlight was
made drops it, or shows it twice.

*Practice data.*  Overlapping activations leave two active projects, and two first
requests two default users.  The search history is cut by what was read before
(`activity.ts:19`).  An import doubles projects, packs and templates, adds counts
again (`import/route.ts:355` calls the increment idempotent), turns system packs into user packs,
and loses references of rows without a number (`export/route.ts:216` says a backup must
preserve user references).  The checksum
covers the lengths of sections only (`export-validator.ts:36` says the normalized
JSON).  A relation can be confirmed for an article that the refresh, which is no
serializable transaction, switched away a moment before.

*Corpus server.*  An amendment with a fixed date is refused by the database before
anyone can review it (`pipeline.ts:103`).  The audit record is written after its
transaction and may be missing.  A crash while the same original is written once more
leaves a torn file for a version that was committed before (`pipeline.ts:66`; `RawKept`
names the case).  A repeated appendix title takes the path of a branch number
(`segment.ts:437`).  Numbers from 10 000 on are written in Arabic digits.

*Identity.*  An account cut off between its row and its first role stays without one
and no later login repairs it (`provision.ts:39-61`); a second account with the same
address cannot log in; a change with a stale old role grants the new one and removes
none; a session keeps its roles for eight hours.

## 7. Plan

1. One composition of `CurrentLawRefresh` with `LawReader` and `LawCatalog` over the
   same pointer, instead of the switch each of them has now.
2. `Applicability` and the search patterns as operators compared with reference
   definitions, beside `RevisionText`.
3. The remaining writes of `PracticeServer`, once one of them reads before it
   writes (`getNextPackItemOrder`, `practice.ts:203`, does already).
