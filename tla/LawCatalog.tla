------------------------------ MODULE LawCatalog ------------------------------
(***************************************************************************)
(* The scripts that keep the fixed edition of the law book: seed-law-book, *)
(* ingest, enforce-law-book-scope and backfill-current-law-durable-keys.   *)
(* They are run by hand, one at a time, over the database that the daily   *)
(* refresh switches meanwhile; each may die between two of its writes.     *)
(* What a reader sees of a law is given by the SQL of current-scope.ts.    *)
(***************************************************************************)
EXTENDS RevisionText, Sequences

CONSTANTS
    FullLaw, ExcerptLaw,  \* a law of the book, and one of which articles are in it
    OutsideLaw,           \* a law that an earlier version of the program loaded
    NoRevision,
    Articles,             \* a bound on the articles of a law
    InBook,               \* the articles of ExcerptLaw that are in the book
    BatchSize,            \* insertBatchSize
    MaxScripts            \* a bound on the scripts that are started

ASSUME CatalogAssumption ==
    /\ Articles \in Nat \ {0} /\ BatchSize \in Nat \ {0} /\ MaxScripts \in Nat
    /\ InBook \subseteq 1 .. Articles /\ InBook # {}
    /\ FullLaw # ExcerptLaw /\ OutsideLaw \notin {FullLaw, ExcerptLaw}
    /\ NoRevision \notin {"legacy", "edition", "amended"}

Book == <<FullLaw, ExcerptLaw>>
BookLaws == {FullLaw, ExcerptLaw}
CatalogLaws == BookLaws \cup {OutsideLaw}

\* rev_legacy_*, the version of the edition, and the one the refresh brings.
BookRevisions == {"legacy", "edition", "amended"}

VARIABLES
    current,      \* Law.currentRevisionId
    status,       \* LawRevision.status
    rows,         \* the Article rows of a revision that are not deleted
    entry,        \* LawBookEntry
    ranges,       \* LawBookEntryRange
    resolutions,  \* LawBookEntryRangeResolution
    links,        \* Link: the row it stands in, and the row it leads to
    job,          \* the script that runs
    started       \* how many were started

catalogVars == <<current, status, rows, entry, ranges, resolutions, links, job, started>>
databaseVars == <<current, status, rows, entry, ranges, resolutions, links>>

\* The amendment puts a new article in front: the numbers stay, the places do
\* not.  stableNodeKey holds the place (parse-law-xml.ts:590).
Node(number, order) ==
    [parent |-> "main", level |-> "article", number |-> number, order |-> order,
     body |-> number, content |-> number]

Text(r) ==
    IF r = "amended"
    THEN {Node(n, n + 1) : n \in 1 .. Articles} \cup {Node(0, 1)}
    ELSE {Node(n, n) : n \in 1 .. Articles}

StableKey(n) == <<n.number, n.order>>

NoEntry == [present |-> FALSE, counted |-> 0, validated |-> FALSE, verified |-> FALSE]
NoJob   == [script |-> "none", at |-> 0, step |-> "idle", saw |-> NoRevision, targets |-> {}]

\* A new database, or one that the migration to revisions found with laws in it.
CatalogInit ==
    /\ \E old \in BOOLEAN :
        /\ current = [l \in CatalogLaws |-> IF old THEN "legacy" ELSE NoRevision]
        /\ status = [l \in CatalogLaws |-> [r \in BookRevisions |->
                        IF old /\ r = "legacy" THEN "staged" ELSE "absent"]]
        /\ rows = [l \in CatalogLaws |-> [r \in BookRevisions |->
                        IF old /\ r = "legacy" THEN Text(r) ELSE {}]]
    /\ entry = [l \in BookLaws |-> NoEntry]
    /\ ranges = [l \in BookLaws |-> {}]
    /\ resolutions = {}
    /\ links = {}
    /\ job = NoJob
    /\ started = 0

Start(script, targets) ==
    /\ job = NoJob
    /\ started < MaxScripts
    /\ started' = started + 1
    /\ job' = [NoJob EXCEPT !.script = script, !.at = 1, !.step = "law", !.targets = targets]
    /\ UNCHANGED databaseVars

At(script, step) == job.script = script /\ job.step = step
Law == Book[job.at]

\* The loop goes on with the next law, or the script with its next part.
NextLaw(after) ==
    job' = IF job.at < Len(Book)
           THEN [job EXCEPT !.at = @ + 1, !.step = "law"]
           ELSE [job EXCEPT !.step = after]

\* A script ends, throws or dies; what it has written stays.
StopScript ==
    /\ job # NoJob
    /\ job' = NoJob
    /\ UNCHANGED <<databaseVars, started>>

-----------------------------------------------------------------------------
(* seed-law-book.ts, one law after the other, without a transaction.         *)

\* The law and the edition's revision of it; the pointer is read here.
SeedRevision ==
    /\ At("seed", "law")
    /\ status' = [status EXCEPT ![Law]["edition"] = IF @ = "absent" THEN "staged" ELSE @]
    /\ job' = [job EXCEPT !.step = "retire", !.saw = current[Law]]
    /\ UNCHANGED <<current, rows, entry, ranges, resolutions, links, started>>

\* A revision of unknown origin is taken out of use, the pointer stays on it.
SeedRetireLegacy ==
    /\ At("seed", "retire")
    /\ \/ /\ job.saw = "legacy"
          /\ status' = [status EXCEPT ![Law]["legacy"] = "superseded"]
          /\ job' = [job EXCEPT !.step = "clear"]
       \/ /\ job.saw # "legacy"
          /\ job' = [job EXCEPT !.step = "pointer"]
          /\ UNCHANGED status
    /\ UNCHANGED <<current, rows, entry, ranges, resolutions, links, started>>

SeedClearLegacy ==
    /\ At("seed", "clear")
    /\ rows' = [rows EXCEPT ![Law]["legacy"] = {}]
    /\ job' = [job EXCEPT !.step = "pointer"]
    /\ UNCHANGED <<current, status, entry, ranges, resolutions, links, started>>

\* A bug: the pointer follows the edition.
SeedPointerMutant ==
    /\ At("seed", "pointer")
    /\ current' = [current EXCEPT ![Law] = "edition"]
    /\ job' = [job EXCEPT !.step = "baseline"]
    /\ UNCHANGED <<status, rows, entry, ranges, resolutions, links, started>>

\* Only a law that had no pointer when the loop came to it gets one.
SeedPointer ==
    /\ At("seed", "pointer")
    /\ current' = IF job.saw = NoRevision
                  THEN [current EXCEPT ![Law] = "edition"] ELSE current
    /\ job' = [job EXCEPT !.step = "baseline"]
    /\ UNCHANGED <<status, rows, entry, ranges, resolutions, links, started>>

WholeRange == [rangeType |-> "entire_document"]

\* The revision of the edition is active once articles of it are loaded.
SeedBaseline ==
    /\ At("seed", "baseline")
    /\ status' = [status EXCEPT ![Law]["edition"] =
                     IF rows[Law]["edition"] # {} /\ @ = "staged" THEN "active" ELSE @]
    /\ job' = [job EXCEPT !.step = "entry"]
    /\ UNCHANGED <<current, rows, entry, ranges, resolutions, links, started>>

SeedEntry ==
    /\ At("seed", "entry")
    /\ entry' = [entry EXCEPT ![Law].present = TRUE,
                              ![Law].counted = Cardinality(rows[Law]["edition"]),
                              ![Law].validated = rows[Law]["edition"] # {}]
    /\ \/ Law = FullLaw /\ job' = [job EXCEPT !.step = "whole"]
       \/ Law # FullLaw /\ NextLaw("ranges")
    /\ UNCHANGED <<current, status, rows, ranges, resolutions, links, started>>

SeedWholeRange ==
    /\ At("seed", "whole")
    /\ ranges' = [ranges EXCEPT ![Law] = @ \cup {WholeRange}]
    /\ NextLaw("ranges")
    /\ UNCHANGED <<current, status, rows, entry, resolutions, links, started>>

\* The citation is written with the name of the law in front.
ArticleRange(n) ==
    [rangeType |-> "article", stable |-> StableKey(n),
     start |-> Citation("law", n.number), end |-> Citation("law", n.number)]

\* seedVerifiedExcerptRanges throws where an article of the book is missing.
\* One transaction; resolutions go with the ranges they are of.
SeedRanges ==
    /\ At("seed", "ranges")
    /\ LET found == {n \in rows[ExcerptLaw]["edition"] : n.number \in InBook} IN
       IF entry[ExcerptLaw].present /\ {n.number : n \in found} = InBook
       THEN /\ ranges' = [ranges EXCEPT ![ExcerptLaw] = {ArticleRange(n) : n \in found}]
            /\ resolutions' = {x \in resolutions : x.law # ExcerptLaw}
            /\ entry' = [entry EXCEPT ![ExcerptLaw].verified = TRUE]
            /\ job' = [job EXCEPT !.step = "scope"]
       ELSE job' = NoJob /\ UNCHANGED <<ranges, resolutions, entry>>
    /\ UNCHANGED <<current, status, rows, links, started>>

Outside == {l \in CatalogLaws : l \in BookLaws => ~entry[l].present}

\* A bug: the pointer of a law outside the book stays.
\* enforceLawBookScope: laws without an entry, in one transaction.
EnforceScope ==
    /\ At("seed", "scope") \/ At("scope", "law")
    /\ rows' = [l \in CatalogLaws |->
                  IF l \in Outside THEN [r \in BookRevisions |-> {}] ELSE rows[l]]
    /\ links' = {IF k.to # NoNode /\ k.to.law \in Outside THEN [k EXCEPT !.to = NoNode] ELSE k :
                    k \in {x \in links : x.from.law \notin Outside}}
    /\ status' = [l \in CatalogLaws |-> [r \in BookRevisions |->
                    IF l \in Outside /\ current[l] = r THEN "superseded" ELSE status[l][r]]]
    /\ current' = [l \in CatalogLaws |-> IF l \in Outside THEN NoRevision ELSE current[l]]
    /\ job' = NoJob
    /\ UNCHANGED <<entry, ranges, resolutions, started>>

-----------------------------------------------------------------------------
(* ingest.ts                                                                 *)

\* Without an entry the script throws; rows that are there are not loaded again.
IngestLaw ==
    /\ At("ingest", "law")
    /\ \/ Law \notin job.targets /\ NextLaw("deleteLinks")
       \/ Law \in job.targets /\ ~entry[Law].present /\ job' = NoJob
       \/ /\ Law \in job.targets /\ entry[Law].present
          /\ job' = [job EXCEPT !.step = IF rows[Law]["edition"] = {} THEN "rows" ELSE "sync"]
    /\ UNCHANGED <<databaseVars, started>>

\* insertArticleBatch: each batch is committed by itself.
InsertBatch ==
    /\ At("ingest", "rows")
    /\ LET done == Cardinality(rows[Law]["edition"])
           next == {n \in Text("edition") : n.order \in done + 1 .. done + BatchSize}
       IN  IF next = {}
           THEN job' = [job EXCEPT !.step = "sync"] /\ UNCHANGED rows
           ELSE rows' = [rows EXCEPT ![Law]["edition"] = @ \cup next] /\ UNCHANGED job
    /\ UNCHANGED <<current, status, entry, ranges, resolutions, links, started>>

\* synchronizeLawBookEntryAfterIngest: what is there is what is counted.
SyncEntry ==
    /\ At("ingest", "sync")
    /\ entry' = [entry EXCEPT ![Law].counted = Cardinality(rows[Law]["edition"]),
                              ![Law].validated = TRUE]
    /\ status' = [status EXCEPT ![Law]["edition"] = "active"]
    /\ NextLaw("deleteLinks")
    /\ UNCHANGED <<current, rows, ranges, resolutions, links, started>>

DeleteLinks ==
    /\ At("ingest", "deleteLinks")
    /\ links' = {}
    /\ job' = [job EXCEPT !.step = "links"]
    /\ UNCHANGED <<current, status, rows, entry, ranges, resolutions, started>>

RowOf(l, r, n) == [law |-> l, revision |-> r, number |-> n.number]
LiveRows == {RowOf(x[1], x[2], x[3]) : x \in
    {y \in CatalogLaws \X BookRevisions \X (Text("edition") \cup Text("amended")) :
        y[3] \in rows[y[1]][y[2]]}}

\* extractLinks over the rows of all revisions: articleNumMap keeps one row of a
\* law and a number, whichever revision it is of, and knows the laws that this
\* run was started for only.  Every article refers to article 1 of the other law.
RebuildLinks ==
    /\ At("ingest", "links")
    /\ \E pick \in [BookLaws -> BookRevisions] :
        /\ \A l \in BookLaws : (\E x \in LiveRows : x.law = l /\ x.number = 1) =>
              \E x \in LiveRows : x.law = l /\ x.number = 1 /\ x.revision = pick[l]
        /\ links' = {[from |-> x, to |->
                LET other == IF x.law = FullLaw THEN ExcerptLaw ELSE FullLaw
                    row   == [law |-> other, revision |-> pick[other], number |-> 1]
                IN  IF other \in job.targets /\ row \in LiveRows THEN row ELSE NoNode] :
                x \in LiveRows}
    /\ job' = NoJob
    /\ UNCHANGED <<current, status, rows, entry, ranges, resolutions, started>>

-----------------------------------------------------------------------------
(* backfill-current-law-durable-keys.ts                                      *)

\* A bug: the rows in the database are not compared with the original.
PlanReadyMutant(l) == current[l] # NoRevision

\* planDurableKeyBackfill: the rows of the current revision are those of its XML.
\* Rows of the migration have keys and checksums of another kind.
PlanReady(l) ==
    /\ current[l] \in {"edition", "amended"}
    /\ rows[l][current[l]] = Text(current[l])

BackfillPlan ==
    /\ At("backfill", "law")
    /\ IF PlanReady(Law)
       THEN job' = [job EXCEPT !.step = "apply", !.saw = current[Law]]
       ELSE NextLaw("done")
    /\ UNCHANGED <<databaseVars, started>>

\* The durable key where a range starts; there is none where it is blocked.
StartOf(range, doc) ==
    IF ~RangeResolved(range, doc) THEN {}
    ELSE IF range.rangeType = "article" THEN CitedArticles(range.start, doc)
    ELSE {n \in doc : n.order = 1}

\* One transaction per law.  The keys it writes are those the rows have.
BackfillApply ==
    /\ At("backfill", "apply")
    /\ resolutions' =
          {x \in resolutions : ~(x.law = Law /\ x.revision = job.saw /\ x.range \in ranges[Law])}
          \cup {[law |-> Law, revision |-> job.saw, range |-> range,
                 at |-> StartOf(range, Text(job.saw))] : range \in ranges[Law]}
    /\ NextLaw("done")
    /\ UNCHANGED <<current, status, rows, entry, ranges, links, started>>

-----------------------------------------------------------------------------
\* refresh-service.ts, as CurrentLawRefresh has it step by step: a law without a
\* pointer cannot be switched, one with an unresolved range is held, and no
\* range resolution is written for the new revision (refresh-service.ts:505).
RefreshCatalogLaw(l) ==
    /\ current[l] \notin {NoRevision, "amended"}
    /\ Publishable({}, 0, Text("amended"), ranges[l], NoReview)
    /\ rows' = [rows EXCEPT ![l]["amended"] = Text("amended")]
    /\ status' = [status EXCEPT ![l]["amended"] = "active", ![l][current[l]] = "superseded"]
    /\ current' = [current EXCEPT ![l] = "amended"]
    /\ UNCHANGED <<entry, ranges, resolutions, links, job, started>>

CatalogNext ==
    \/ Start("seed", BookLaws) \/ Start("scope", {}) \/ Start("backfill", BookLaws)
    \/ \E targets \in {BookLaws, {FullLaw}, {ExcerptLaw}} : Start("ingest", targets)
    \/ SeedRevision \/ SeedRetireLegacy \/ SeedClearLegacy \/ SeedPointer
    \/ SeedBaseline \/ SeedEntry \/ SeedWholeRange \/ SeedRanges
    \/ EnforceScope
    \/ IngestLaw \/ InsertBatch \/ SyncEntry \/ DeleteLinks \/ RebuildLinks
    \/ BackfillPlan \/ BackfillApply
    \/ StopScript
    \/ \E l \in BookLaws : RefreshCatalogLaw(l)

CatalogSpec == CatalogInit /\ [][CatalogNext]_catalogVars

-----------------------------------------------------------------------------
\* A bug: an article is known by its place.
InRangeMutant(l, n) ==
    \/ \E x \in resolutions : x.law = l /\ x.revision = current[l] /\ Key(n) \in Keys(x.at)
    \/ \E range \in ranges[l] : range.rangeType = "article" /\ range.stable[2] = n.order

\* A range resolved for the current revision, or else one of the edition whose
\* article has kept its number and its place.
InRange(l, n) ==
    \/ \E x \in resolutions : x.law = l /\ x.revision = current[l] /\ Key(n) \in Keys(x.at)
    \/ \E range \in ranges[l] : range.rangeType = "article" /\ range.stable = StableKey(n)

\* currentLawBookArticleScopeSql: what a reader sees of a law.
ShownOf(l) ==
    IF l \notin BookLaws \/ current[l] = NoRevision THEN {}
    ELSE {n \in rows[l][current[l]] :
            entry[l].present /\ (l = FullLaw \/ ~entry[l].verified \/ InRange(l, n))}

\* Once the ranges of a law have been verified, no order of scripts, crashes and
\* switches shows an article of it that is not in the book.
ShownStaysInBook ==
    entry[ExcerptLaw].verified => \A n \in ShownOf(ExcerptLaw) : n.number \in InBook

\* catalog-maintenance.ts:5-8: no script moves the pointer of a law of the book
\* that has one, so the edition never takes a law back from the refresh, not even
\* with what a script read before the switch.
CatalogKeepsCurrent ==
    [][\A l \in BookLaws : entry[l].present /\ current[l] # NoRevision =>
          current'[l] \in {current[l], "amended"}]_catalogVars

\* A revision that a crash left half loaded is taken for loaded by ingest and by
\* seed; the backfill notices it, and resolves ranges in whole revisions only.
ResolvedTextIsWhole ==
    \A x \in resolutions : rows[x.law][x.revision] = Text(x.revision)

\* current-scope.ts:21-23: after the backfill every verified excerpt is covered by
\* range resolutions, and the fallback to the places of the edition can go.
BackfillCoversRanges ==
    \A x \in resolutions : x.at # {}
=============================================================================
