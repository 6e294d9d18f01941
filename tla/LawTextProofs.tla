---------------------------- MODULE LawTextProofs ----------------------------
(***************************************************************************)
(* Proofs about the store of the law texts, about the diff of two          *)
(* revisions and the review of a law, about the scripts that keep the      *)
(* edition, and about the walk that names the nodes of a document, for any *)
(* texts, reviews and callers.                                             *)
(***************************************************************************)
EXTENDS XmlStore, LawWalk, LawReview, LawCatalog, FiniteSetTheorems, SequenceTheorems, TLAPS

-----------------------------------------------------------------------------
(* The store.                                                                *)

\* A call that has begun was given a document.
Given == \A w \in Writers : pc[w] # "idle" => doc[w] \in Documents

LEMMA StoreTypeInit == Init => StoreTypeOK /\ Given
BY DEF Init, StoreTypeOK, Steps, Given

LEMMA StoreTypeNext == StoreTypeOK /\ Given /\ [Next]_vars => (StoreTypeOK /\ Given)'
  <1> SUFFICES ASSUME StoreTypeOK, Given, [Next]_vars
               PROVE  (StoreTypeOK /\ Given)'
    OBVIOUS
  <1> USE DEF StoreTypeOK, Given, Steps
  <1>1. CASE UNCHANGED vars BY <1>1 DEF vars
  <1>2. ASSUME NEW w \in Writers, List(w) PROVE (StoreTypeOK /\ Given)'
    <2>1. PICK d \in Documents :
            /\ doc' = [doc EXCEPT ![w] = d]
            /\ \/ pc' = [pc EXCEPT ![w] = IF Unique(d) THEN "listed" ELSE "conflict"]
               \/ pc' = [pc EXCEPT ![w] = "listed"]
      BY <1>2 DEF List
    <2>2. UNCHANGED <<site, files, temp>> BY <1>2 DEF List
    <2> QED BY <2>1, <2>2
  <1>3. ASSUME NEW w \in Writers, FindSame(w) \/ WriteTemp(w)
        PROVE  (StoreTypeOK /\ Given)'
    BY <1>3 DEF FindSame, WriteTemp
  <1>4. ASSUME NEW w \in Writers, Rename(w) PROVE (StoreTypeOK /\ Given)'
    BY <1>4 DEF Rename
  <1>5. ASSUME NEW w \in Writers, Fail(w) \/ Crash(w) PROVE (StoreTypeOK /\ Given)'
    BY <1>5 DEF Fail, Crash, Running
  <1> QED BY <1>1, <1>2, <1>3, <1>4, <1>5 DEF Next, Step

(***************************************************************************)
(* Type correctness: the store only ever holds documents it was given.     *)
(***************************************************************************)
THEOREM StoreTypeCorrect == Spec => [](StoreTypeOK /\ Given)
BY StoreTypeInit, StoreTypeNext, PTL DEF Spec

\* A path that put returned names a file.
LEMMA StoredIsThereNext ==
    StoreTypeOK /\ StoredIsThere /\ [Next]_vars => StoredIsThere'
  <1> SUFFICES ASSUME StoreTypeOK, StoredIsThere, [Next]_vars
               PROVE  StoredIsThere'
    OBVIOUS
  <1> USE DEF StoreTypeOK, StoredIsThere
  <1>1. CASE UNCHANGED vars BY <1>1 DEF vars
  <1>2. ASSUME NEW w \in Writers, List(w) PROVE StoredIsThere' BY <1>2 DEF List
  <1>3. ASSUME NEW w \in Writers, FindSame(w) \/ WriteTemp(w) PROVE StoredIsThere'
    BY <1>3 DEF FindSame, WriteTemp
  <1>4. ASSUME NEW w \in Writers, Rename(w) PROVE StoredIsThere' BY <1>4 DEF Rename
  <1>5. ASSUME NEW w \in Writers, Fail(w) \/ Crash(w) PROVE StoredIsThere'
    BY <1>5 DEF Fail, Crash
  <1> QED BY <1>1, <1>2, <1>3, <1>4, <1>5 DEF Next, Step

(***************************************************************************)
(* Whatever path put returned names a file that is there, for any number   *)
(* of calls that race, crash, cannot read the directory or fail to rename. *)
(***************************************************************************)
THEOREM StoredDocumentIsThere == Spec => []StoredIsThere
  <1>1. Init => StoredIsThere BY DEF Init, StoredIsThere
  <1> QED BY <1>1, StoredIsThereNext, StoreTypeCorrect, PTL DEF Spec

\* Under the lock, on a directory that can be read: a call that was let through
\* is alone and agrees with what is stored, what is stored is one document, and
\* a call that was refused brought another one.
Locked == site.serial /\ ~site.blind

AloneInv ==
    Locked =>
        /\ \A w, o \in Writers : Running(w) /\ Running(o) => w = o
        /\ \A w \in Writers : Running(w) => files \subseteq {doc[w]}
        /\ \A w \in Writers : pc[w] = "conflict" => \E d \in files : d # doc[w]
        /\ \A d, e \in files : d = e

LEMMA AloneInit == Init => AloneInv
BY DEF Init, AloneInv, Running

LEMMA AloneNext == StoreTypeOK /\ AloneInv /\ [Next]_vars => AloneInv'
  <1> SUFFICES ASSUME StoreTypeOK, AloneInv, [Next]_vars, Locked'
               PROVE  AloneInv'
    BY DEF AloneInv
  <1>0. Locked /\ site' = site
    BY DEF Locked, Next, Step, List, FindSame, WriteTemp, Rename, Fail, Crash, vars
  <1> USE <1>0 DEF StoreTypeOK, AloneInv, Running
  <1>1. CASE UNCHANGED vars BY <1>1 DEF vars
  <1>2. ASSUME NEW w \in Writers, List(w) PROVE AloneInv'
    <2>1. PICK d \in Documents :
            /\ doc' = [doc EXCEPT ![w] = d]
            /\ pc' = [pc EXCEPT ![w] = IF Unique(d) THEN "listed" ELSE "conflict"]
      BY <1>2 DEF List, Locked
    <2>2. UNCHANGED files /\ \A o \in Writers : ~Running(o)
      BY <1>2 DEF List, Locked
    <2>3. CASE Unique(d) BY <2>1, <2>2, <2>3 DEF Unique
    <2>4. CASE ~Unique(d)
      <3>1. \E e \in files : e # d BY <2>4 DEF Unique
      <3> QED BY <2>1, <2>2, <2>4, <3>1
    <2> QED BY <2>3, <2>4
  <1>3. ASSUME NEW w \in Writers, FindSame(w) \/ WriteTemp(w) PROVE AloneInv'
    BY <1>3 DEF FindSame, WriteTemp
  <1>4. ASSUME NEW w \in Writers, Rename(w) PROVE AloneInv'
    BY <1>4 DEF Rename
  <1>5. ASSUME NEW w \in Writers, Fail(w) \/ Crash(w) PROVE AloneInv'
    BY <1>5 DEF Fail, Crash
  <1> QED BY <1>1, <1>2, <1>3, <1>4, <1>5 DEF Next, Step

LEMMA SingletonOrEmpty ==
    ASSUME \A d, e \in files : d = e
    PROVE  Cardinality(files) <= 1
  <1>1. CASE files = {} BY <1>1, FS_EmptySet
  <1>2. CASE files # {}
    <2>1. PICK d \in files : TRUE BY <1>2
    <2>2. \A e \in files : e = d BY <2>1
    <2>3. files = {d} BY <2>1, <2>2
    <2>4. Cardinality({d}) = 1 BY FS_Singleton
    <2> QED BY <2>3, <2>4
  <1> QED BY <1>1, <1>2

(***************************************************************************)
(* Where the refresh lock lets one call run at a time, and a directory     *)
(* that exists can be read, a revision holds at most one document, however *)
(* calls crash and fail.                                                   *)
(***************************************************************************)
THEOREM SerialStoreHoldsOneDocument == Spec => []OneDocument
  <1>1. AloneInv => OneDocument
    BY SingletonOrEmpty DEF AloneInv, Locked, OneDocument
  <1> QED BY <1>1, AloneInit, AloneNext, StoreTypeCorrect, PTL DEF Spec

(***************************************************************************)
(* ... and a document that was stored once is never refused.               *)
(***************************************************************************)
THEOREM StoredDocumentIsAcceptedAgain == Spec => []SameContentIsIdempotent
  <1>1. AloneInv /\ StoredIsThere => SameContentIsIdempotent
    <2> SUFFICES ASSUME AloneInv, StoredIsThere, Locked,
                        NEW w \in Writers, NEW o \in Writers,
                        pc[w] = "stored", pc[o] = "conflict"
                 PROVE  doc[w] # doc[o]
      BY DEF SameContentIsIdempotent, Locked
    <2>1. doc[w] \in files BY DEF StoredIsThere
    <2>2. PICK d \in files : d # doc[o] BY DEF AloneInv
    <2>3. doc[w] = d BY <2>1, <2>2 DEF AloneInv
    <2> QED BY <2>2, <2>3
  <1> QED BY <1>1, AloneInit, AloneNext, StoredDocumentIsThere, StoreTypeCorrect, PTL
          DEF Spec

-----------------------------------------------------------------------------
(* The diff.                                                                 *)

\* Who looks alike from one side looks alike from the other.
LEMMA AlikeBothWays ==
    ASSUME NEW old, NEW new, NEW r \in old, NEW a \in new
    PROVE  a \in Alike(r, new) <=> r \in Alike(a, old)
BY DEF Alike

(***************************************************************************)
(* A removed node and an added one that are alike are held together, or    *)
(* each of them is held by itself: neither is told as plainly removed or   *)
(* plainly added.                                                          *)
(***************************************************************************)
LEMMA AlikeIsHeld ==
    ASSUME NEW old, NEW new,
           NEW r \in Removed(old, new), NEW a \in Added(old, new), a \in Alike(r, new)
    PROVE  \/ Item("renumbered_candidate", r, a) \in Held(old, new)
           \/ /\ Item("ambiguous", r, NoNode) \in Held(old, new)
              /\ Item("ambiguous", NoNode, a) \in Held(old, new)
  <1> DEFINE Gone == Removed(old, new)
             Come == Added(old, new)
  <1>1. a \in Alike(r, Come) /\ r \in Alike(a, Gone) BY DEF Alike
  <1>2. CASE r \in ConsumedOld(old, new)
    <2>1. PICK p \in Renumbered(old, new) : p[1] = r BY <1>2 DEF ConsumedOld
    <2>2. p = <<r, p[2]>> /\ Alike(r, Come) = {p[2]} BY <2>1 DEF Renumbered
    <2>3. p[2] = a BY <1>1, <2>2
    <2>4. Item("renumbered_candidate", p[1], p[2]) \in Held(old, new) BY DEF Held
    <2> QED BY <2>1, <2>3, <2>4
  <1>3. CASE a \in ConsumedNew(old, new)
    <2>1. PICK p \in Renumbered(old, new) : p[2] = a BY <1>3 DEF ConsumedNew
    <2>2. p[1] \in Gone /\ Alike(p[1], Gone) = {p[1]} /\ a \in Alike(p[1], Come)
      BY <2>1 DEF Renumbered
    <2>3. r \in Alike(p[1], Gone) BY <1>1, <2>2 DEF Alike
    <2>4. p[1] = r BY <2>2, <2>3
    <2>5. Item("renumbered_candidate", p[1], p[2]) \in Held(old, new) BY DEF Held
    <2> QED BY <2>1, <2>4, <2>5
  <1>4. CASE r \notin ConsumedOld(old, new) /\ a \notin ConsumedNew(old, new)
    <2>1. r \in AmbiguousOld(old, new) BY <1>1, <1>4 DEF AmbiguousOld
    <2>2. a \in AmbiguousNew(old, new) BY <1>1, <1>4 DEF AmbiguousNew
    <2> QED BY <2>1, <2>2 DEF Held
  <1> QED BY <1>2, <1>3, <1>4

-----------------------------------------------------------------------------
(* The review of a law.                                                      *)

ReviewTypeOK ==
    /\ shown \in Revisions
    /\ offered \in [revision : Nat, doc : Revisions]

LEMMA ReviewTypeInit == ReviewInit => ReviewTypeOK
BY DEF ReviewInit, ReviewTypeOK

LEMMA ReviewTypeNext == ReviewTypeOK /\ [ReviewNext]_reviewVars => ReviewTypeOK'
BY ReviewAssumption
   DEF ReviewTypeOK, ReviewNext, reviewVars, Amend, LayDownReview, RefreshLaw, DropReview

\* null is not a node of a document.
LEMMA NullIsNoNode == ASSUME NEW held \in Revisions PROVE NoNode \notin held
BY NullAssumption DEF Revisions

LEMMA MovedIsCovered == ReviewTypeOK => NothingMovesUnseen
  <1> SUFFICES ASSUME ReviewTypeOK,
                      NEW r \in Removed(shown, offered.doc), NEW a \in Added(shown, offered.doc),
                      a \in Alike(r, offered.doc), DiffPublishable(shown, offered.doc, review)
               PROVE  /\ review # NoReview
                      /\ \E p \in review.mappings : p[1] = Key(r)
                      /\ \E p \in review.mappings : p[2] = Key(a)
    BY DEF NothingMovesUnseen
  <1> DEFINE held == Held(shown, offered.doc)
  <1>1. r # NoNode /\ a # NoNode
    <2>1. shown \in Revisions /\ offered.doc \in Revisions BY DEF ReviewTypeOK
    <2> QED BY <2>1, NullIsNoNode DEF Removed, Added
  <1>2. \/ Item("renumbered_candidate", r, a) \in held
        \/ Item("ambiguous", r, NoNode) \in held /\ Item("ambiguous", NoNode, a) \in held
    BY AlikeIsHeld
  <1>3. review # NoReview /\ \A item \in held : Covered(item, review)
    BY <1>2 DEF DiffPublishable
  <1>4. CASE Covered(Item("renumbered_candidate", r, a), review)
    BY <1>1, <1>3, <1>4 DEF Covered, Item
  <1>5. CASE /\ Covered(Item("ambiguous", r, NoNode), review)
             /\ Covered(Item("ambiguous", NoNode, a), review)
    BY <1>1, <1>3, <1>5 DEF Covered, Item
  <1> QED BY <1>2, <1>3, <1>4, <1>5

(***************************************************************************)
(* Whatever e-Gov publishes and whatever mappings a reviewer lays down, a  *)
(* favourable verdict on the diff names a counterpart for each article     *)
(* that only changed its number (NothingMovesUnseen in law_data).          *)
(***************************************************************************)
THEOREM NoArticleMovesUnseen == ReviewSpec => []NothingMovesUnseen
BY ReviewTypeInit, ReviewTypeNext, MovedIsCovered, PTL DEF ReviewSpec
-----------------------------------------------------------------------------
(* The scripts of the edition.                                               *)

Statuses == {"absent", "staged", "active", "superseded"}
Scripts == {"seed", "ingest", "backfill", "scope"}
JobSteps == {"law", "retire", "clear", "pointer", "baseline", "entry", "whole", "ranges", "scope", "rows", "sync",
             "deleteLinks", "links", "apply", "done"}
Entries == [present : BOOLEAN, counted : Nat, validated : BOOLEAN, verified : BOOLEAN]
Jobs == [script : Scripts, at : DOMAIN Book, step : JobSteps,
         saw : BookRevisions \cup {NoRevision}, targets : SUBSET BookLaws]
BookRanges == {WholeRange} \cup {ArticleRange(n) : n \in {m \in Text("edition") : m.number \in InBook}}

BookNodes == UNION {Text(r) : r \in BookRevisions}

CurrentOK == current \in [CatalogLaws -> BookRevisions \cup {NoRevision}]
StatusOK  == status \in [CatalogLaws -> [BookRevisions -> Statuses]]
RowsOK ==
    /\ rows \in [CatalogLaws -> [BookRevisions -> SUBSET BookNodes]]
    /\ \A l \in CatalogLaws, r \in BookRevisions : rows[l][r] \subseteq Text(r)
EntryOK  == entry \in [BookLaws -> Entries]
RangesOK == ranges \in [BookLaws -> SUBSET BookRanges]
JobOK    == job \in Jobs \cup {NoJob}

CatalogTypeOK == CurrentOK /\ StatusOK /\ RowsOK /\ EntryOK /\ RangesOK /\ JobOK

\* The verified ranges of a law are those of a law that is in the book; only the
\* whole of a law is taken without naming its articles.
RangesInv ==
    /\ \A l \in BookLaws : ranges[l] # {} => entry[l].present
    /\ WholeRange \notin ranges[ExcerptLaw]

\* What is resolved is a range of the law in a whole revision of it, and it
\* resolves to articles of the book.
ResolutionOK(x) ==
    /\ x.law \in BookLaws /\ x.range \in ranges[x.law]
    /\ x.revision \in {"edition", "amended"}
    /\ rows[x.law][x.revision] = Text(x.revision)
    /\ x.law = ExcerptLaw => \A n \in x.at : n.number \in InBook

ResolutionsInv == \A x \in resolutions : ResolutionOK(x)

\* What a script has read of a law is still so when it writes.
JobInv ==
    /\ At("backfill", "apply") =>
          job.saw \in {"edition", "amended"} /\ rows[Law][job.saw] = Text(job.saw)
    /\ job.script = "seed" /\ job.step \in {"retire", "clear", "pointer"} /\ job.saw = NoRevision =>
          current[Law] = NoRevision
    /\ At("seed", "whole") => Law = FullLaw /\ entry[FullLaw].present

CatalogInv == CatalogTypeOK /\ RangesInv /\ ResolutionsInv /\ JobInv

LEMMA BookFacts ==
    /\ DOMAIN Book = {1, 2} /\ Len(Book) = 2 /\ Book[1] = FullLaw /\ Book[2] = ExcerptLaw
    /\ \A i \in DOMAIN Book : Book[i] \in BookLaws
    /\ BookLaws \subseteq CatalogLaws
BY DEF Book, BookLaws, CatalogLaws

LEMMA NoJobFacts == NoJob.script = "none" /\ NoJob.step = "idle"
BY DEF NoJob

LEMMA JobFields ==
    ASSUME NEW j \in Jobs
    PROVE  /\ j.script \in Scripts /\ j.at \in {1, 2} /\ j.targets \in SUBSET BookLaws
           /\ j.saw \in BookRevisions \cup {NoRevision}
           /\ \A step \in JobSteps : [j EXCEPT !.step = step] \in Jobs
           /\ \A step \in JobSteps, saw \in BookRevisions \cup {NoRevision} :
                  [j EXCEPT !.step = step, !.saw = saw] \in Jobs
           /\ j.at < 2 => [j EXCEPT !.at = @ + 1, !.step = "law"] \in Jobs
  <1>1. DOMAIN Book = {1, 2} BY BookFacts
  <1>2. j.at < 2 => j.at + 1 \in {1, 2} BY <1>1 DEF Jobs
  <1>6. \A n \in {1, 2} : [j EXCEPT !.at = n, !.step = "law"] \in Jobs BY <1>1 DEF Jobs, JobSteps
  <1>3. j.at < 2 => [j EXCEPT !.at = @ + 1, !.step = "law"] \in Jobs
    <2> DEFINE n == j.at + 1
    <2>1. [j EXCEPT !.at = @ + 1, !.step = "law"] = [j EXCEPT !.at = n, !.step = "law"] BY DEF Jobs
    <2>2. j.at < 2 => n \in {1, 2} BY <1>2
    <2> HIDE DEF n
    <2> QED BY <1>6, <2>1, <2>2
  <1>4. \A step \in JobSteps : [j EXCEPT !.step = step] \in Jobs BY DEF Jobs
  <1>5. \A step \in JobSteps, saw \in BookRevisions \cup {NoRevision} :
           [j EXCEPT !.step = step, !.saw = saw] \in Jobs
    BY DEF Jobs
  <1> QED BY <1>1, <1>3, <1>4, <1>5 DEF Jobs

\* A step of a script works on a law of the book.
LEMMA AtWork ==
    ASSUME JobOK, NEW script \in Scripts, NEW step, At(script, step)
    PROVE  job \in Jobs /\ Law \in BookLaws /\ Law \in CatalogLaws
  <1>1. job \in Jobs BY NoJobFacts DEF JobOK, At, Scripts
  <1>2. job.at \in DOMAIN Book BY <1>1 DEF Jobs
  <1> QED BY <1>1, <1>2, BookFacts DEF Law

LEMMA NextLawTyped ==
    ASSUME job \in Jobs, NEW step \in JobSteps, NextLaw(step)
    PROVE  job' \in Jobs
BY JobFields, BookFacts DEF NextLaw

-----------------------------------------------------------------------------
(* What a step changes.                                                      *)

LEMMA RowsChange ==
    ASSUME JobOK, [CatalogNext]_catalogVars
    PROVE  \/ UNCHANGED rows
           \/ SeedClearLegacy /\ rows' = [rows EXCEPT ![Law]["legacy"] = {}] /\ Law \in CatalogLaws
           \/ EnforceScope
           \/ /\ InsertBatch /\ Law \in CatalogLaws
              /\ \E next \in SUBSET Text("edition") :
                    rows' = [rows EXCEPT ![Law]["edition"] = @ \cup next]
           \/ \E l \in BookLaws : /\ RefreshCatalogLaw(l)
                                  /\ rows' = [rows EXCEPT ![l]["amended"] = Text("amended")]
  <1>1. CASE SeedClearLegacy
    <2>1. Law \in CatalogLaws BY <1>1, AtWork DEF SeedClearLegacy, Scripts
    <2> QED BY <1>1, <2>1 DEF SeedClearLegacy
  <1>2. CASE InsertBatch
    <2>1. Law \in CatalogLaws BY <1>2, AtWork DEF InsertBatch, Scripts
    <2>2. \/ UNCHANGED rows
          \/ \E next \in SUBSET Text("edition") :
                rows' = [rows EXCEPT ![Law]["edition"] = @ \cup next]
      BY <1>2 DEF InsertBatch
    <2> QED BY <1>2, <2>1, <2>2
  <1>3. ASSUME NEW l \in BookLaws, RefreshCatalogLaw(l)
        PROVE  rows' = [rows EXCEPT ![l]["amended"] = Text("amended")]
    BY <1>3 DEF RefreshCatalogLaw
  <1>4. CASE \/ \E script, targets : Start(script, targets)
             \/ SeedRevision \/ SeedRetireLegacy \/ SeedPointer
             \/ SeedBaseline \/ SeedEntry \/ SeedWholeRange \/ SeedRanges
             \/ IngestLaw \/ SyncEntry \/ DeleteLinks \/ RebuildLinks
             \/ BackfillPlan \/ BackfillApply \/ StopScript \/ UNCHANGED catalogVars
    BY <1>4 DEF Start, SeedRevision, SeedRetireLegacy, SeedPointer, SeedBaseline, SeedEntry,
       SeedWholeRange, SeedRanges, IngestLaw, SyncEntry, DeleteLinks, RebuildLinks, BackfillPlan, BackfillApply, StopScript, catalogVars, databaseVars
  <1> QED BY <1>1, <1>2, <1>3, <1>4 DEF CatalogNext

LEMMA CurrentChange ==
    ASSUME JobOK, [CatalogNext]_catalogVars
    PROVE  \/ UNCHANGED current
           \/ /\ SeedPointer /\ Law \in BookLaws /\ job.saw = NoRevision
              /\ current' = [current EXCEPT ![Law] = "edition"]
           \/ /\ EnforceScope
              /\ current' = [l \in CatalogLaws |-> IF l \in Outside THEN NoRevision ELSE current[l]]
           \/ \E l \in BookLaws : /\ RefreshCatalogLaw(l) /\ current[l] # NoRevision
                                  /\ current' = [current EXCEPT ![l] = "amended"]
  <1>1. CASE SeedPointer
    <2>1. Law \in BookLaws BY <1>1, AtWork DEF SeedPointer, Scripts
    <2> QED BY <1>1, <2>1 DEF SeedPointer
  <1>2. CASE EnforceScope BY <1>2 DEF EnforceScope
  <1>3. ASSUME NEW l \in BookLaws, RefreshCatalogLaw(l)
        PROVE  current[l] # NoRevision /\ current' = [current EXCEPT ![l] = "amended"]
    BY SMTT(40), <1>3 DEF RefreshCatalogLaw
  <1>4. CASE \/ \E script, targets : Start(script, targets)
             \/ SeedRevision \/ SeedRetireLegacy \/ SeedClearLegacy
             \/ SeedBaseline \/ SeedEntry \/ SeedWholeRange \/ SeedRanges
             \/ IngestLaw \/ InsertBatch \/ SyncEntry \/ DeleteLinks \/ RebuildLinks
             \/ BackfillPlan \/ BackfillApply \/ StopScript \/ UNCHANGED catalogVars
    BY <1>4 DEF Start, SeedRevision, SeedRetireLegacy, SeedClearLegacy, SeedBaseline, SeedEntry,
       SeedWholeRange, SeedRanges, IngestLaw, InsertBatch,
       SyncEntry, DeleteLinks, RebuildLinks, BackfillPlan, BackfillApply, StopScript, catalogVars,
       databaseVars
  <1> QED BY <1>1, <1>2, <1>3, <1>4 DEF CatalogNext

\* Entries and ranges.
LEMMA BookChange ==
    ASSUME JobOK, [CatalogNext]_catalogVars
    PROVE  \/ UNCHANGED <<entry, ranges>>
           \/ /\ SeedEntry /\ Law \in BookLaws /\ UNCHANGED ranges
              /\ \E count \in {Cardinality(rows[Law]["edition"])}, known \in BOOLEAN :
                    entry' = [entry EXCEPT ![Law].present = TRUE, ![Law].counted = count,
                                           ![Law].validated = known]
           \/ /\ SeedWholeRange /\ At("seed", "whole") /\ Law \in BookLaws /\ UNCHANGED entry
              /\ ranges' = [ranges EXCEPT ![Law] = @ \cup {WholeRange}]
           \/ /\ SeedRanges /\ entry[ExcerptLaw].present
              /\ entry' = [entry EXCEPT ![ExcerptLaw].verified = TRUE]
              /\ ranges' = [ranges EXCEPT ![ExcerptLaw] =
                     {ArticleRange(n) : n \in {m \in rows[ExcerptLaw]["edition"] : m.number \in InBook}}]
           \/ /\ SyncEntry /\ Law \in BookLaws /\ UNCHANGED ranges
              /\ entry' = [entry EXCEPT ![Law].counted = Cardinality(rows[Law]["edition"]),
                                        ![Law].validated = TRUE]
  <1>1. CASE SeedEntry
    <2>1. Law \in BookLaws BY <1>1, AtWork DEF SeedEntry, Scripts
    <2> DEFINE count == Cardinality(rows[Law]["edition"])
               known == rows[Law]["edition"] # {}
    <2>2. entry' = [entry EXCEPT ![Law].present = TRUE, ![Law].counted = count,
                                 ![Law].validated = known]
      BY <1>1 DEF SeedEntry
    <2>3. known \in BOOLEAN OBVIOUS
    <2>4. UNCHANGED ranges BY <1>1 DEF SeedEntry
    <2> HIDE DEF known
    <2> QED BY <1>1, <2>1, <2>2, <2>3, <2>4
  <1>2. CASE SeedRanges BY <1>2 DEF SeedRanges
  <1>3. CASE SyncEntry
    <2>1. Law \in BookLaws BY SMTT(40), <1>3, AtWork DEF SyncEntry, Scripts
    <2> QED BY <1>3, <2>1 DEF SyncEntry
  <1>4. CASE \/ \E script, targets : Start(script, targets)
             \/ SeedRevision \/ SeedRetireLegacy \/ SeedClearLegacy \/ SeedPointer \/ SeedBaseline
             \/ EnforceScope \/ IngestLaw \/ InsertBatch \/ DeleteLinks \/ RebuildLinks
             \/ BackfillPlan \/ BackfillApply \/ StopScript
             \/ (\E l \in BookLaws : RefreshCatalogLaw(l)) \/ UNCHANGED catalogVars
    BY <1>4 DEF Start, SeedRevision, SeedRetireLegacy, SeedClearLegacy, SeedPointer, SeedBaseline,
       EnforceScope, IngestLaw, InsertBatch, DeleteLinks, RebuildLinks, BackfillPlan, BackfillApply,
       StopScript, RefreshCatalogLaw, catalogVars, databaseVars
  <1>5. CASE SeedWholeRange
    <2>1. At("seed", "whole") BY <1>5 DEF SeedWholeRange
    <2>2. Law \in BookLaws BY <2>1, AtWork DEF Scripts
    <2> QED BY <1>5, <2>1, <2>2 DEF SeedWholeRange
  <1> QED BY <1>1, <1>2, <1>3, <1>4, <1>5 DEF CatalogNext

-----------------------------------------------------------------------------
(* Types.                                                                    *)

\* A text is finite, and so is what is loaded of it.
LEMMA TextIsFinite == ASSUME NEW r \in BookRevisions PROVE IsFiniteSet(Text(r))
  <1>1. IsFiniteSet(1 .. Articles) BY FS_Interval, CatalogAssumption
  <1>2. ASSUME NEW f, f \in [1 .. Articles -> {f[n] : n \in 1 .. Articles}]
        PROVE  IsFiniteSet({f[n] : n \in 1 .. Articles})
    <2>1. f \in Surjection(1 .. Articles, {f[n] : n \in 1 .. Articles})
      BY <1>2 DEF Surjection
    <2> QED BY <1>1, <2>1, FS_Surjection
  <1>3. IsFiniteSet({Node(n, n) : n \in 1 .. Articles})
    <2> DEFINE f == [n \in 1 .. Articles |-> Node(n, n)]
    <2>1. {f[n] : n \in 1 .. Articles} = {Node(n, n) : n \in 1 .. Articles} OBVIOUS
    <2>2. f \in [1 .. Articles -> {f[n] : n \in 1 .. Articles}] OBVIOUS
    <2> HIDE DEF f
    <2> QED BY <1>2, <2>1, <2>2
  <1>4. IsFiniteSet({Node(n, n + 1) : n \in 1 .. Articles})
    <2> DEFINE f == [n \in 1 .. Articles |-> Node(n, n + 1)]
    <2>1. {f[n] : n \in 1 .. Articles} = {Node(n, n + 1) : n \in 1 .. Articles} OBVIOUS
    <2>2. f \in [1 .. Articles -> {f[n] : n \in 1 .. Articles}] OBVIOUS
    <2> HIDE DEF f
    <2> QED BY <1>2, <2>1, <2>2
  <1> QED BY <1>3, <1>4, FS_AddElement DEF Text

LEMMA LoadedCount ==
    ASSUME RowsOK, NEW l \in CatalogLaws, NEW r \in BookRevisions
    PROVE  Cardinality(rows[l][r]) \in Nat
  <1>1. rows[l][r] \subseteq Text(r) BY DEF RowsOK
  <1> QED BY <1>1, TextIsFinite, FS_Subset, FS_CardinalityType

LEMMA CatalogTypeInit == CatalogInit => CatalogTypeOK
  <1> SUFFICES ASSUME CatalogInit PROVE CatalogTypeOK OBVIOUS
  <1>1. PICK old \in BOOLEAN :
          /\ current = [l \in CatalogLaws |-> IF old THEN "legacy" ELSE NoRevision]
          /\ status = [l \in CatalogLaws |-> [r \in BookRevisions |->
                          IF old /\ r = "legacy" THEN "staged" ELSE "absent"]]
          /\ rows = [l \in CatalogLaws |-> [r \in BookRevisions |->
                          IF old /\ r = "legacy" THEN Text(r) ELSE {}]]
    BY DEF CatalogInit
  <1>2. CurrentOK BY <1>1 DEF BookRevisions, CurrentOK
  <1>3. StatusOK BY <1>1 DEF Statuses, StatusOK
  <1>4. RowsOK BY <1>1 DEF RowsOK, BookNodes
  <1>5. EntryOK BY DEF CatalogInit, EntryOK, NoEntry, Entries
  <1> QED BY <1>2, <1>3, <1>4, <1>5 DEF CatalogInit, CatalogTypeOK, RangesOK, JobOK

LEMMA RowsTyped == ASSUME CatalogTypeOK, [CatalogNext]_catalogVars PROVE RowsOK'
  <1> USE DEF RowsOK
  <1>0. RowsOK /\ JobOK /\ \A r \in BookRevisions : Text(r) \subseteq BookNodes
    BY DEF CatalogTypeOK, BookNodes
  <1>1. CASE UNCHANGED rows BY <1>0, <1>1
  <1>2. CASE Law \in CatalogLaws /\ rows' = [rows EXCEPT ![Law]["legacy"] = {}]
    BY <1>0, <1>2 DEF BookRevisions
  <1>3. CASE EnforceScope BY <1>0, <1>3 DEF EnforceScope
  <1>4. ASSUME Law \in CatalogLaws, NEW next \in SUBSET Text("edition"),
               rows' = [rows EXCEPT ![Law]["edition"] = @ \cup next]
        PROVE  RowsOK'
    BY <1>0, <1>4 DEF BookRevisions
  <1>5. ASSUME NEW l \in BookLaws, rows' = [rows EXCEPT ![l]["amended"] = Text("amended")]
        PROVE  RowsOK'
    <2>1. l \in CatalogLaws BY BookFacts
    <2> QED BY <1>0, <1>5, <2>1 DEF BookRevisions
  <1> QED BY <1>0, <1>1, <1>2, <1>3, <1>4, <1>5, RowsChange

LEMMA CurrentTyped == ASSUME CatalogTypeOK, [CatalogNext]_catalogVars PROVE CurrentOK'
BY CurrentChange, BookFacts DEF CatalogTypeOK, CurrentOK, BookRevisions

LEMMA BookTyped == ASSUME CatalogTypeOK, [CatalogNext]_catalogVars PROVE EntryOK' /\ RangesOK'
  <1>0. EntryOK /\ RangesOK /\ RowsOK /\ JobOK BY DEF CatalogTypeOK
  <1>1. CASE UNCHANGED <<entry, ranges>> BY <1>0, <1>1 DEF EntryOK, RangesOK
  <1>2. ASSUME NEW l \in BookLaws, NEW e \in Entries, entry' = [entry EXCEPT ![l] = e]
        PROVE  EntryOK'
    BY <1>0, <1>2 DEF EntryOK
  <1>3. ASSUME Law \in BookLaws, NEW count \in {Cardinality(rows[Law]["edition"])}, NEW known \in BOOLEAN,
               \/ entry' = [entry EXCEPT ![Law].present = TRUE, ![Law].counted = count,
                                         ![Law].validated = known]
               \/ entry' = [entry EXCEPT ![Law].counted = count, ![Law].validated = TRUE]
        PROVE  EntryOK'
    <2>1. count \in Nat BY <1>0, <1>3, LoadedCount, BookFacts DEF BookRevisions
    <2> DEFINE a == [entry[Law] EXCEPT !.present = TRUE, !.counted = count, !.validated = known]
               b == [entry[Law] EXCEPT !.counted = count, !.validated = TRUE]
    <2>2. entry[Law] \in Entries BY <1>0, <1>3 DEF EntryOK
    <2>3. a \in Entries /\ b \in Entries BY <2>1, <2>2 DEF Entries
    <2>4. entry' = [entry EXCEPT ![Law] = a] \/ entry' = [entry EXCEPT ![Law] = b] BY <1>0, <1>3 DEF EntryOK
    <2> HIDE DEF a, b
    <2> QED BY <1>2, <1>3, <2>3, <2>4
  <1>4. ASSUME entry' = [entry EXCEPT ![ExcerptLaw].verified = TRUE] PROVE EntryOK'
    <2> DEFINE e == [entry[ExcerptLaw] EXCEPT !.verified = TRUE]
    <2>1. ExcerptLaw \in BookLaws BY DEF BookLaws
    <2>2. entry[ExcerptLaw] \in Entries BY <1>0, <2>1 DEF EntryOK
    <2>3. e \in Entries BY <2>2 DEF Entries
    <2>4. entry' = [entry EXCEPT ![ExcerptLaw] = e] BY <1>0, <1>4 DEF EntryOK
    <2> HIDE DEF e
    <2> QED BY <1>2, <2>1, <2>3, <2>4
  <1>5. ASSUME Law \in BookLaws, ranges' = [ranges EXCEPT ![Law] = @ \cup {WholeRange}]
        PROVE  RangesOK'
    <2>1. WholeRange \in BookRanges BY DEF BookRanges
    <2> QED BY <1>0, <1>5, <2>1 DEF RangesOK
  <1>6. ASSUME ranges' = [ranges EXCEPT ![ExcerptLaw] =
                  {ArticleRange(n) : n \in {m \in rows[ExcerptLaw]["edition"] : m.number \in InBook}}]
        PROVE  RangesOK'
    <2>1. rows[ExcerptLaw]["edition"] \subseteq Text("edition")
      BY <1>0 DEF RowsOK, CatalogLaws, BookLaws, BookRevisions
    <2>2. {ArticleRange(n) : n \in {m \in rows[ExcerptLaw]["edition"] : m.number \in InBook}} \subseteq BookRanges
      BY <2>1 DEF BookRanges
    <2> QED BY <1>0, <1>6, <2>2 DEF RangesOK
  <1>7. UNCHANGED entry => EntryOK' BY <1>0 DEF EntryOK
  <1>8. UNCHANGED ranges => RangesOK' BY <1>0 DEF RangesOK
  <1> QED BY <1>0, <1>1, <1>3, <1>4, <1>5, <1>6, <1>7, <1>8, BookChange

LEMMA StatusTyped == ASSUME CatalogTypeOK, [CatalogNext]_catalogVars PROVE StatusOK'
  <1> USE DEF StatusOK, Statuses
  <1>0. StatusOK /\ JobOK /\ CurrentOK BY DEF CatalogTypeOK
  <1>1. ASSUME NEW l \in CatalogLaws, NEW r \in BookRevisions, NEW s \in Statuses,
               status' = [status EXCEPT ![l][r] = s]
        PROVE  StatusOK'
    BY <1>0, <1>1
  <1>2. CASE SeedRevision
    <2>1. Law \in CatalogLaws BY <1>0, <1>2, AtWork DEF SeedRevision, Scripts
    <2>2. status' = [status EXCEPT ![Law]["edition"] =
              IF status[Law]["edition"] = "absent" THEN "staged" ELSE status[Law]["edition"]]
      BY <1>2 DEF SeedRevision
    <2> QED BY <1>0, <2>1, <2>2 DEF BookRevisions
  <1>3. CASE SeedRetireLegacy
    <2>1. Law \in CatalogLaws BY <1>0, <1>3, AtWork DEF SeedRetireLegacy, Scripts
    <2> QED BY <1>0, <1>3, <2>1 DEF SeedRetireLegacy, BookRevisions
  <1>4. CASE SeedBaseline
    <2>1. Law \in CatalogLaws BY <1>0, <1>4, AtWork DEF SeedBaseline, Scripts
    <2>2. PICK s \in {"active", status[Law]["edition"]} : status' = [status EXCEPT ![Law]["edition"] = s]
      BY <1>4 DEF SeedBaseline
    <2>3. s \in Statuses BY <1>0, <2>1 DEF BookRevisions
    <2> QED BY <1>0, <2>1, <2>2, <2>3 DEF BookRevisions
  <1>5. CASE SyncEntry
    <2>1. Law \in CatalogLaws BY <1>0, <1>5, AtWork DEF SyncEntry, Scripts
    <2> QED BY <1>0, <1>5, <2>1 DEF SyncEntry, BookRevisions
  <1>6. CASE EnforceScope BY <1>0, <1>6 DEF EnforceScope
  <1>7. ASSUME NEW l \in BookLaws, RefreshCatalogLaw(l) PROVE StatusOK'
    <2>1. l \in CatalogLaws /\ current[l] \in BookRevisions
      BY <1>0, <1>7, BookFacts DEF RefreshCatalogLaw, CurrentOK
    <2>2. status' = [status EXCEPT ![l]["amended"] = "active", ![l][current[l]] = "superseded"]
      BY <1>7 DEF RefreshCatalogLaw
    <2> QED BY <1>0, <2>1, <2>2 DEF BookRevisions
  <1>8. CASE \/ \E script, targets : Start(script, targets)
             \/ SeedClearLegacy \/ SeedPointer \/ SeedEntry \/ SeedWholeRange \/ SeedRanges
             \/ IngestLaw \/ InsertBatch \/ DeleteLinks \/ RebuildLinks
             \/ BackfillPlan \/ BackfillApply \/ StopScript \/ UNCHANGED catalogVars
    <2>1. UNCHANGED status
      BY <1>8 DEF Start, SeedClearLegacy, SeedPointer, SeedEntry, SeedWholeRange, SeedRanges, IngestLaw, InsertBatch, DeleteLinks, RebuildLinks,
         BackfillPlan, BackfillApply, StopScript, catalogVars, databaseVars
    <2> QED BY <1>0, <2>1
  <1> QED BY <1>2, <1>3, <1>4, <1>5, <1>6, <1>7, <1>8 DEF CatalogNext

LEMMA JobTyped == ASSUME CatalogTypeOK, [CatalogNext]_catalogVars PROVE JobOK'
  <1> USE DEF JobOK, JobSteps
  <1>0. JobOK /\ CurrentOK BY DEF CatalogTypeOK
  <1>1. ASSUME NEW script \in Scripts, NEW targets \in SUBSET BookLaws, Start(script, targets)
        PROVE JobOK'
    BY <1>1, BookFacts DEF Start, NoJob, Jobs
  <1>2. CASE \/ StopScript \/ EnforceScope \/ RebuildLinks
    BY <1>2 DEF StopScript, EnforceScope, RebuildLinks
  <1>3. ASSUME NEW step \in JobSteps, job' = [job EXCEPT !.step = step], job \in Jobs PROVE JobOK'
    BY ZenonT(40), <1>3, JobFields
  <1>4. CASE SeedRevision
    <2>1. job \in Jobs /\ Law \in CatalogLaws BY <1>0, <1>4, AtWork DEF SeedRevision, Scripts
    <2>2. job' = [job EXCEPT !.step = "retire", !.saw = current[Law]] BY <1>4 DEF SeedRevision
    <2> QED BY <1>0, <2>1, <2>2, JobFields DEF CurrentOK
  <1>5. CASE SeedRetireLegacy \/ SeedClearLegacy \/ SeedPointer \/ SeedBaseline \/ DeleteLinks
    <2>1. job \in Jobs
      BY <1>0, <1>5, AtWork DEF SeedRetireLegacy, SeedClearLegacy, SeedPointer, SeedBaseline, DeleteLinks,
         Scripts
    <2>2. \E step \in JobSteps : job' = [job EXCEPT !.step = step]
      BY <1>5 DEF SeedRetireLegacy, SeedClearLegacy, SeedPointer, SeedBaseline, DeleteLinks
    <2> QED BY <1>3, <2>1, <2>2
  <1>6. CASE SeedWholeRange \/ SyncEntry \/ BackfillApply
    <2>1. job \in Jobs BY <1>0, <1>6, AtWork DEF SeedWholeRange, SyncEntry, BackfillApply, Scripts
    <2> QED BY <1>6, <2>1, NextLawTyped DEF SeedWholeRange, SyncEntry, BackfillApply
  <1>12. CASE SeedEntry
    <2>1. job \in Jobs BY <1>0, <1>12, AtWork DEF SeedEntry, Scripts
    <2>2. job' = [job EXCEPT !.step = "whole"] \/ NextLaw("ranges") BY <1>12 DEF SeedEntry
    <2> QED BY <1>3, <2>1, <2>2, NextLawTyped
  <1>7. CASE SeedRanges
    <2>1. job \in Jobs BY <1>0, <1>7, AtWork DEF SeedRanges, Scripts
    <2>2. job' = NoJob \/ job' = [job EXCEPT !.step = "scope"] BY <1>7 DEF SeedRanges
    <2> QED BY <1>3, <2>1, <2>2
  <1>8. CASE IngestLaw
    <2>1. job \in Jobs BY <1>0, <1>8, AtWork DEF IngestLaw, Scripts
    <2>2. \/ NextLaw("deleteLinks") \/ job' = NoJob
          \/ \E step \in {"rows", "sync"} : job' = [job EXCEPT !.step = step]
      BY <1>8 DEF IngestLaw
    <2> QED BY <1>3, <2>1, <2>2, NextLawTyped
  <1>9. CASE InsertBatch
    <2>1. job \in Jobs BY <1>0, <1>9, AtWork DEF InsertBatch, Scripts
    <2>2. UNCHANGED job \/ job' = [job EXCEPT !.step = "sync"] BY <1>9 DEF InsertBatch
    <2> QED BY <1>0, <1>3, <2>1, <2>2
  <1>10. CASE BackfillPlan
    <2>1. job \in Jobs /\ Law \in CatalogLaws BY <1>0, <1>10, AtWork DEF BackfillPlan, Scripts
    <2>2. \/ job' = [job EXCEPT !.step = "apply", !.saw = current[Law]]
          \/ NextLaw("done")
      BY <1>10 DEF BackfillPlan
    <2>3. current[Law] \in BookRevisions \cup {NoRevision} BY SMTT(40), <1>0, <2>1 DEF CurrentOK
    <2>4. CASE job' = [job EXCEPT !.step = "apply", !.saw = current[Law]]
      BY <2>1, <2>3, <2>4, JobFields
    <2>5. CASE NextLaw("done") BY <2>1, <2>5, NextLawTyped
    <2> QED BY <2>2, <2>4, <2>5
  <1>11. CASE UNCHANGED catalogVars \/ \E l \in BookLaws : RefreshCatalogLaw(l)
    BY <1>0, <1>11 DEF catalogVars, RefreshCatalogLaw
  <1> QED BY <1>1, <1>2, <1>4, <1>5, <1>6, <1>7, <1>8, <1>9, <1>10, <1>11, <1>12
          DEF CatalogNext, Scripts, BookLaws

LEMMA CatalogTypeNext == CatalogTypeOK /\ [CatalogNext]_catalogVars => CatalogTypeOK'
BY RowsTyped, CurrentTyped, BookTyped, StatusTyped, JobTyped DEF CatalogTypeOK

(***************************************************************************)
(* Type correctness: a law keeps one pointer, and what is loaded of a      *)
(* revision is part of its text.                                           *)
(***************************************************************************)
THEOREM CatalogTypeCorrect == CatalogSpec => []CatalogTypeOK
BY CatalogTypeInit, CatalogTypeNext, PTL DEF CatalogSpec

-----------------------------------------------------------------------------
(* The edition.                                                              *)

LEMMA PresentStays ==
    ASSUME CatalogTypeOK, [CatalogNext]_catalogVars, NEW l \in BookLaws, entry[l].present
    PROVE  entry'[l].present
BY BookChange DEF CatalogTypeOK, EntryOK, Entries

LEMMA RangesInvNext ==
    ASSUME CatalogTypeOK, RangesInv, JobInv, [CatalogNext]_catalogVars
    PROVE  RangesInv'
  <1> USE DEF RangesInv
  <1>0. EntryOK /\ RangesOK /\ JobOK /\ ExcerptLaw \in BookLaws BY DEF CatalogTypeOK, BookLaws
  <1>1. CASE UNCHANGED <<entry, ranges>> BY <1>1
  <1>2. CASE /\ At("seed", "whole") /\ Law \in BookLaws /\ UNCHANGED entry
             /\ ranges' = [ranges EXCEPT ![Law] = @ \cup {WholeRange}]
    <2>1. FullLaw # ExcerptLaw BY CatalogAssumption
    <2>2. \A l \in BookLaws : l # Law => ranges'[l] = ranges[l] BY <1>0, <1>2 DEF RangesOK
    <2>3. Law = FullLaw /\ entry[FullLaw].present BY <1>2 DEF JobInv
    <2>4. WholeRange \notin ranges'[ExcerptLaw] BY <1>0, <2>1, <2>2, <2>3
    <2> QED BY <1>2, <2>2, <2>3, <2>4
  <1>3. CASE /\ entry[ExcerptLaw].present
             /\ ranges' = [ranges EXCEPT ![ExcerptLaw] =
                   {ArticleRange(n) : n \in {m \in rows[ExcerptLaw]["edition"] : m.number \in InBook}}]
    <2>1. \A n : ArticleRange(n) # WholeRange BY DEF ArticleRange, WholeRange
    <2>2. \A l \in BookLaws : l # ExcerptLaw => ranges'[l] = ranges[l] BY <1>0, <1>3 DEF RangesOK
    <2>3. WholeRange \notin ranges'[ExcerptLaw] BY <1>0, <1>3, <2>1 DEF RangesOK
    <2> QED BY <1>0, <1>3, <2>2, <2>3, PresentStays
  <1>4. CASE UNCHANGED ranges BY <1>4, PresentStays
  <1> QED BY <1>0, <1>1, <1>2, <1>3, <1>4, BookChange

\* A range of the excerpt is one of its articles in the book.
LEMMA ExcerptRange ==
    ASSUME CatalogTypeOK, RangesInv, NEW range \in ranges[ExcerptLaw]
    PROVE  /\ range.rangeType = "article"
           /\ range.stable[1] \in InBook /\ range.start.number \in InBook
  <1>1. range \in BookRanges /\ range # WholeRange
    BY DEF CatalogTypeOK, RangesOK, RangesInv, BookLaws
  <1>2. PICK n \in {m \in Text("edition") : m.number \in InBook} : range = ArticleRange(n)
    BY <1>1 DEF BookRanges
  <1> QED BY <1>2 DEF ArticleRange, StableKey, Citation

\* A resolution that is there was there, or is written by the backfill; those of the
\* excerpt go when its ranges are written anew.
LEMMA ResolutionsChange ==
    ASSUME [CatalogNext]_catalogVars, NEW x \in resolutions'
    PROVE  /\ \/ x \in resolutions
              \/ /\ BackfillApply
                 /\ x.law = Law /\ x.revision = job.saw /\ x.range \in ranges[Law]
                 /\ x.at = StartOf(x.range, Text(job.saw))
           /\ SeedRanges => ranges' = ranges \/ x.law # ExcerptLaw
  <1>1. CASE SeedRanges
    <2>1. ~BackfillApply BY <1>1 DEF SeedRanges, BackfillApply, At
    <2> QED BY <1>1, <2>1 DEF SeedRanges
  <1>2. CASE BackfillApply
    <2>1. ~SeedRanges BY <1>2 DEF SeedRanges, BackfillApply, At
    <2> QED BY <1>2, <2>1 DEF BackfillApply
  <1>3. CASE \/ \E script, targets : Start(script, targets)
             \/ SeedRevision \/ SeedRetireLegacy \/ SeedClearLegacy \/ SeedPointer
             \/ SeedBaseline \/ SeedEntry \/ SeedWholeRange \/ EnforceScope
             \/ IngestLaw \/ InsertBatch \/ SyncEntry \/ DeleteLinks \/ RebuildLinks
             \/ BackfillPlan \/ StopScript
             \/ (\E l \in BookLaws : RefreshCatalogLaw(l)) \/ UNCHANGED catalogVars
    <2>1. UNCHANGED resolutions
      BY <1>3 DEF Start, SeedRevision, SeedRetireLegacy, SeedClearLegacy, SeedPointer, SeedBaseline,
         SeedEntry, SeedWholeRange, EnforceScope, IngestLaw, InsertBatch, SyncEntry, DeleteLinks,
         RebuildLinks, BackfillPlan, StopScript, RefreshCatalogLaw,
         catalogVars, databaseVars
    <2> QED BY SMTT(40), <1>1, <2>1
  <1> QED BY <1>1, <1>2, <1>3 DEF CatalogNext

\* A range stays, unless the ranges of the excerpt are written anew.
LEMMA RangeStays ==
    ASSUME CatalogTypeOK, [CatalogNext]_catalogVars, NEW l \in BookLaws, NEW range \in ranges[l],
           SeedRanges => ranges' = ranges \/ l # ExcerptLaw
    PROVE  range \in ranges'[l]
BY BookChange DEF CatalogTypeOK, RangesOK

\* A whole revision of a law of the book stays whole.
LEMMA WholeStays ==
    ASSUME CatalogTypeOK, [CatalogNext]_catalogVars,
           NEW l \in BookLaws, NEW r \in {"edition", "amended"},
           entry[l].present \/ ~EnforceScope, rows[l][r] = Text(r)
    PROVE  rows'[l][r] = Text(r)
  <1>0. l \in CatalogLaws /\ r \in BookRevisions /\ r # "legacy" BY BookFacts DEF BookRevisions
  <1>1. RowsOK /\ JobOK BY DEF CatalogTypeOK
  <1>2. CASE UNCHANGED rows BY <1>2
  <1>3. CASE Law \in CatalogLaws /\ rows' = [rows EXCEPT ![Law]["legacy"] = {}]
    BY <1>0, <1>1, <1>3 DEF RowsOK
  <1>4. CASE EnforceScope
    <2>1. l \notin Outside BY <1>4 DEF Outside
    <2> QED BY <1>0, <1>4, <2>1 DEF EnforceScope
  <1>5. ASSUME Law \in CatalogLaws, NEW next \in SUBSET Text("edition"),
               rows' = [rows EXCEPT ![Law]["edition"] = @ \cup next]
        PROVE  rows'[l][r] = Text(r)
    <2>1. CASE l = Law /\ r = "edition"
      <3>1. rows'[l][r] = rows[l][r] \cup next BY <1>0, <1>1, <1>5, <2>1 DEF RowsOK
      <3> QED BY <1>5, <2>1, <3>1
    <2>2. CASE l # Law \/ r # "edition" BY <1>0, <1>1, <1>5, <2>2 DEF RowsOK
    <2> QED BY <2>1, <2>2
  <1>6. ASSUME NEW m \in BookLaws, rows' = [rows EXCEPT ![m]["amended"] = Text("amended")]
        PROVE  rows'[l][r] = Text(r)
    BY <1>0, <1>1, <1>6 DEF RowsOK
  <1> QED BY <1>1, <1>2, <1>3, <1>4, <1>5, <1>6, RowsChange

LEMMA ResolutionsInvNext ==
    ASSUME CatalogInv, [CatalogNext]_catalogVars
    PROVE  ResolutionsInv'
  <1> SUFFICES ASSUME NEW x \in resolutions' PROVE ResolutionOK(x)' BY DEF ResolutionsInv
  <1>0. CatalogTypeOK /\ RangesInv /\ JobInv BY DEF CatalogInv
  <1>1. SeedRanges => ranges' = ranges \/ x.law # ExcerptLaw BY ResolutionsChange
  <1>2. CASE x \in resolutions
    <2>1. ResolutionOK(x) BY <1>2 DEF CatalogInv, ResolutionsInv
    <2>2. x.range \in ranges'[x.law] BY <1>0, <1>1, <2>1, RangeStays DEF ResolutionOK
    <2>3. entry[x.law].present BY <1>0, <2>1 DEF ResolutionOK, RangesInv
    <2>4. rows'[x.law][x.revision] = Text(x.revision)
      BY <1>0, <2>1, <2>3, WholeStays DEF ResolutionOK
    <2> QED BY <2>1, <2>2, <2>4 DEF ResolutionOK
  <1>3. CASE /\ BackfillApply
             /\ x.law = Law /\ x.revision = job.saw /\ x.range \in ranges[Law]
             /\ x.at = StartOf(x.range, Text(job.saw))
    <2>1. Law \in BookLaws BY <1>0, <1>3, AtWork DEF BackfillApply, Scripts, CatalogTypeOK
    <2>2. UNCHANGED <<rows, ranges>> BY <1>3 DEF BackfillApply
    <2>3. job.saw \in {"edition", "amended"} /\ rows[Law][job.saw] = Text(job.saw)
      BY <1>0, <1>3 DEF BackfillApply, JobInv
    <2>4. ASSUME Law = ExcerptLaw, NEW n \in x.at PROVE n.number \in InBook
      <3>1. x.range.rangeType = "article" /\ x.range.start.number \in InBook
        BY <1>0, <1>3, <2>4, ExcerptRange
      <3>2. n \in CitedArticles(x.range.start, Text(job.saw))
        BY <1>3, <2>4, <3>1 DEF StartOf
      <3> QED BY <3>1, <3>2 DEF CitedArticles
    <2> QED BY <1>3, <2>1, <2>2, <2>3, <2>4 DEF ResolutionOK
  <1> QED BY <1>2, <1>3, ResolutionsChange

\* How a script comes to the steps at which it uses what it read.
LEMMA JobChange ==
    ASSUME JobOK, [CatalogNext]_catalogVars
    PROVE  /\ At("backfill", "apply")' =>
                 \/ UNCHANGED job
                 \/ BackfillPlan /\ PlanReady(Law) /\ job' = [job EXCEPT !.step = "apply", !.saw = current[Law]]
           /\ job'.script = "seed" /\ job'.step \in {"retire", "clear", "pointer"} =>
                 \/ UNCHANGED job
                 \/ SeedRevision /\ job' = [job EXCEPT !.step = "retire", !.saw = current[Law]]
                 \/ /\ SeedRetireLegacy \/ SeedClearLegacy
                    /\ \E step \in {"clear", "pointer"} : job' = [job EXCEPT !.step = step]
           /\ At("seed", "whole")' =>
                 \/ UNCHANGED job
                 \/ SeedEntry /\ Law = FullLaw /\ job' = [job EXCEPT !.step = "whole"]
  <1> DEFINE Moves(step) == job' = [job EXCEPT !.at = @ + 1, !.step = "law"] \/ job' = [job EXCEPT !.step = step]
  <1>0. ASSUME job \in Jobs, NEW step \in {"law", "baseline", "entry", "ranges", "scope", "rows", "sync",
                 "deleteLinks", "links", "done"}, Moves(step) \/ job' = NoJob
        PROVE  job'.step \notin {"apply", "retire", "clear", "pointer", "whole"}
    BY <1>0, NoJobFacts DEF Jobs
  <1>1. ASSUME NEW script, NEW targets, Start(script, targets)
        PROVE  job'.step = "law"
    BY <1>1 DEF Start, NoJob
  <1>2. CASE SeedRevision
    <2>1. job \in Jobs /\ job.script = "seed" BY <1>2, AtWork DEF SeedRevision, Scripts, At
    <2>2. job' = [job EXCEPT !.step = "retire", !.saw = current[Law]] BY <1>2 DEF SeedRevision
    <2>3. job'.step = "retire" BY <2>1, <2>2 DEF Jobs
    <2> QED BY <1>2, <2>2, <2>3 DEF At
  <1>3. CASE SeedRetireLegacy \/ SeedClearLegacy
    <2>1. job \in Jobs /\ job.script = "seed"
      BY <1>3, AtWork DEF SeedRetireLegacy, SeedClearLegacy, Scripts, At
    <2>2. PICK step \in {"clear", "pointer"} : job' = [job EXCEPT !.step = step]
      BY <1>3 DEF SeedRetireLegacy, SeedClearLegacy
    <2>3. job'.step = step BY <2>1, <2>2 DEF Jobs
    <2> QED BY <1>3, <2>2, <2>3 DEF At
  <1>4. CASE \/ SeedPointer \/ SeedBaseline \/ SeedWholeRange \/ SeedRanges
             \/ DeleteLinks \/ SyncEntry \/ BackfillApply
    <2>1. job \in Jobs
      BY <1>4, AtWork DEF SeedPointer, SeedBaseline, SeedWholeRange, SeedRanges, DeleteLinks, SyncEntry,
         BackfillApply, Scripts
    <2>2. \/ Moves("baseline") \/ Moves("entry") \/ Moves("ranges") \/ Moves("scope") \/ Moves("links") \/ Moves("deleteLinks")
          \/ Moves("done") \/ job' = NoJob
      BY <1>4 DEF SeedPointer, SeedBaseline, SeedWholeRange, SeedRanges, DeleteLinks, SyncEntry,
         BackfillApply, NextLaw
    <2>3. job'.step \notin {"apply", "retire", "clear", "pointer", "whole"} BY <1>0, <2>1, <2>2
    <2> QED BY <2>3 DEF At
  <1>5. CASE IngestLaw \/ (InsertBatch /\ job' # job)
    <2>1. job \in Jobs BY <1>5, AtWork DEF IngestLaw, InsertBatch, Scripts
    <2>2. Moves("deleteLinks") \/ Moves("rows") \/ Moves("sync") \/ job' = NoJob
      BY <1>5 DEF IngestLaw, InsertBatch, NextLaw
    <2>3. job'.step \notin {"apply", "retire", "clear", "pointer", "whole"} BY <1>0, <2>1, <2>2
    <2> QED BY <2>3 DEF At
  <1>6. CASE BackfillPlan
    <2>1. job \in Jobs /\ job.script = "backfill" BY <1>6, AtWork DEF BackfillPlan, Scripts, At
    <2>2. CASE Moves("done")
      <3>1. job'.step \notin {"apply", "retire", "clear", "pointer", "whole"} BY <1>0, <2>1, <2>2
      <3> QED BY <3>1 DEF At
    <2>3. CASE PlanReady(Law) /\ job' = [job EXCEPT !.step = "apply", !.saw = current[Law]]
      <3>1. job'.script = "backfill" BY <2>1, <2>3 DEF Jobs
      <3> QED BY <1>6, <2>3, <3>1 DEF At
    <2> QED BY <1>6, <2>2, <2>3 DEF BackfillPlan, NextLaw
  <1>7. CASE EnforceScope \/ RebuildLinks \/ StopScript
    <2>1. job' = NoJob BY <1>7 DEF EnforceScope, RebuildLinks, StopScript
    <2> QED BY <2>1, NoJobFacts DEF At
  <1>8. CASE (\E l \in BookLaws : RefreshCatalogLaw(l)) \/ UNCHANGED catalogVars
    BY <1>8 DEF RefreshCatalogLaw, catalogVars
  <1>9. CASE SeedEntry
    <2>1. job \in Jobs BY <1>9, AtWork DEF SeedEntry, Scripts
    <2>2. CASE Moves("ranges")
      <3>1. job'.step \notin {"apply", "retire", "clear", "pointer", "whole"} BY <1>0, <2>1, <2>2
      <3> QED BY <3>1 DEF At
    <2>3. CASE Law = FullLaw /\ job' = [job EXCEPT !.step = "whole"]
      <3>1. job'.step = "whole" BY <2>1, <2>3 DEF Jobs
      <3> QED BY <1>9, <2>3, <3>1 DEF At
    <2> QED BY <1>9, <2>2, <2>3 DEF SeedEntry, NextLaw
  <1> QED BY <1>1, <1>2, <1>3, <1>4, <1>5, <1>6, <1>7, <1>8, <1>9 DEF CatalogNext, At

LEMMA PlanStays == ASSUME CatalogInv, [CatalogNext]_catalogVars, At("backfill", "apply")'
                   PROVE  job'.saw \in {"edition", "amended"} /\ rows'[Law'][job'.saw] = Text(job'.saw)
  <1>0. CatalogTypeOK /\ JobOK /\ JobInv BY DEF CatalogInv, CatalogTypeOK
  <1>1. CASE UNCHANGED job
    <2>1. At("backfill", "apply") /\ Law' = Law BY <1>1 DEF At, Law
    <2>2. job.saw \in {"edition", "amended"} /\ rows[Law][job.saw] = Text(job.saw)
      BY <1>0, <2>1 DEF JobInv
    <2>3. Law \in BookLaws BY <1>0, <2>1, AtWork DEF Scripts
    <2>4. ~EnforceScope BY <2>1 DEF EnforceScope, At
    <2> QED BY <1>0, <1>1, <2>1, <2>2, <2>3, <2>4, WholeStays
  <1>2. CASE BackfillPlan /\ PlanReady(Law) /\ job' = [job EXCEPT !.step = "apply", !.saw = current[Law]]
    <2>1. job \in Jobs BY <1>0, <1>2, AtWork DEF BackfillPlan, Scripts
    <2>2. job'.saw = current[Law] /\ job'.at = job.at BY <1>2, <2>1 DEF Jobs
    <2>3. Law' = Law BY <2>2 DEF Law
    <2>4. rows' = rows BY <1>2 DEF BackfillPlan, databaseVars
    <2> QED BY <1>2, <2>2, <2>3, <2>4 DEF PlanReady
  <1> QED BY <1>0, <1>1, <1>2, JobChange

LEMMA PointerStays ==
    ASSUME CatalogInv, [CatalogNext]_catalogVars,
           job'.script = "seed", job'.step \in {"retire", "clear", "pointer"}, job'.saw = NoRevision
    PROVE  current'[Law'] = NoRevision
  <1>0. CatalogTypeOK /\ JobOK /\ CurrentOK /\ JobInv BY DEF CatalogInv, CatalogTypeOK
  <1>1. CASE UNCHANGED job
    <2>1. job.script = "seed" /\ job.step \in {"retire", "clear", "pointer"} /\ job.saw = NoRevision
      BY <1>1
    <2>2. Law' = Law /\ current[Law] = NoRevision BY <1>0, <1>1, <2>1 DEF JobInv, Law
    <2>3. Law \in CatalogLaws BY <1>0, <2>1, AtWork DEF At, Scripts
    <2>4. ~SeedPointer
      <3> SUFFICES ASSUME SeedPointer PROVE FALSE OBVIOUS
      <3>1. job \in Jobs /\ job' = [job EXCEPT !.step = "baseline"]
        BY <1>0, AtWork DEF SeedPointer, Scripts
      <3>2. job'.step = "baseline" BY <3>1 DEF Jobs
      <3> QED BY <3>2
    <2>5. \/ UNCHANGED current
          \/ current' = [l \in CatalogLaws |-> IF l \in Outside THEN NoRevision ELSE current[l]]
          \/ \E l \in BookLaws : current[l] # NoRevision /\ current' = [current EXCEPT ![l] = "amended"]
      BY <1>0, <2>4, CurrentChange
    <2> QED BY <1>0, <2>2, <2>3, <2>5 DEF CurrentOK
  <1>2. CASE SeedRevision /\ job' = [job EXCEPT !.step = "retire", !.saw = current[Law]]
    <2>1. job \in Jobs BY <1>0, <1>2, AtWork DEF SeedRevision, Scripts
    <2>2. job'.saw = current[Law] /\ job'.at = job.at BY <1>2, <2>1 DEF Jobs
    <2>3. Law' = Law BY <2>2 DEF Law
    <2> QED BY <1>2, <2>2, <2>3 DEF SeedRevision
  <1>3. ASSUME SeedRetireLegacy \/ SeedClearLegacy,
               NEW step \in {"clear", "pointer"}, job' = [job EXCEPT !.step = step]
        PROVE  current'[Law'] = NoRevision
    <2>1. job \in Jobs /\ job.script = "seed" /\ job.step \in {"retire", "clear"}
      BY <1>0, <1>3, AtWork DEF SeedRetireLegacy, SeedClearLegacy, Scripts, At
    <2>2. job'.saw = job.saw /\ job'.at = job.at BY <1>3, <2>1 DEF Jobs
    <2>3. Law' = Law BY <2>2 DEF Law
    <2>4. current[Law] = NoRevision BY <1>0, <2>1, <2>2 DEF JobInv
    <2>5. UNCHANGED current BY <1>3 DEF SeedRetireLegacy, SeedClearLegacy
    <2> QED BY <2>3, <2>4, <2>5
  <1> QED BY <1>0, <1>1, <1>2, <1>3, JobChange

\* The whole of a law is taken only after the law is in the book.
LEMMA WholeWaits ==
    ASSUME CatalogInv, [CatalogNext]_catalogVars, At("seed", "whole")'
    PROVE  Law' = FullLaw /\ entry'[FullLaw].present
  <1>0. CatalogTypeOK /\ JobOK /\ EntryOK /\ JobInv /\ FullLaw \in BookLaws
    BY DEF CatalogInv, CatalogTypeOK, BookLaws
  <1>1. CASE UNCHANGED job
    <2>1. At("seed", "whole") /\ Law' = Law BY <1>1 DEF At, Law
    <2>2. Law = FullLaw /\ entry[FullLaw].present BY <1>0, <2>1 DEF JobInv
    <2> QED BY <1>0, <2>1, <2>2, PresentStays
  <1>2. CASE SeedEntry /\ Law = FullLaw /\ job' = [job EXCEPT !.step = "whole"]
    <2>1. job \in Jobs BY <1>0, <1>2, AtWork DEF SeedEntry, Scripts
    <2>2. job'.at = job.at BY <1>2, <2>1 DEF Jobs
    <2>3. Law' = Law BY <2>2 DEF Law
    <2>4. entry' = [entry EXCEPT ![FullLaw].present = TRUE,
                                 ![FullLaw].counted = Cardinality(rows[FullLaw]["edition"]),
                                 ![FullLaw].validated = rows[FullLaw]["edition"] # {}]
      BY <1>2 DEF SeedEntry
    <2>5. entry'[FullLaw].present BY <1>0, <2>4 DEF EntryOK, Entries
    <2> QED BY <1>2, <2>3, <2>5
  <1> QED BY <1>0, <1>1, <1>2, JobChange

LEMMA CatalogInvInit == CatalogInit => CatalogInv
  <1> SUFFICES ASSUME CatalogInit PROVE CatalogInv OBVIOUS
  <1>1. CatalogTypeOK BY CatalogTypeInit
  <1>2. RangesInv BY DEF CatalogInit, RangesInv, BookLaws
  <1>3. ResolutionsInv BY DEF CatalogInit, ResolutionsInv
  <1>4. JobInv BY NoJobFacts DEF CatalogInit, JobInv, At
  <1> QED BY <1>1, <1>2, <1>3, <1>4 DEF CatalogInv

LEMMA CatalogInvNext == CatalogInv /\ [CatalogNext]_catalogVars => CatalogInv'
  <1> SUFFICES ASSUME CatalogInv, [CatalogNext]_catalogVars PROVE CatalogInv' OBVIOUS
  <1>1. CatalogTypeOK' BY CatalogTypeNext DEF CatalogInv
  <1>2. RangesInv' BY RangesInvNext DEF CatalogInv
  <1>3. ResolutionsInv' BY ResolutionsInvNext
  <1>4. JobInv' BY PlanStays, PointerStays, WholeWaits DEF JobInv
  <1> QED BY <1>1, <1>2, <1>3, <1>4 DEF CatalogInv

(***************************************************************************)
(* However scripts, their deaths and the switches of the refresh follow    *)
(* each other, a range that was resolved is one of a revision that is      *)
(* loaded whole (ResolvedTextIsWhole in law_data).                         *)
(***************************************************************************)
THEOREM ResolvedRevisionIsWhole == CatalogSpec => []ResolvedTextIsWhole
  <1>1. CatalogInv => ResolvedTextIsWhole
    BY DEF CatalogInv, ResolutionsInv, ResolutionOK, ResolvedTextIsWhole
  <1> QED BY <1>1, CatalogInvInit, CatalogInvNext, PTL DEF CatalogSpec

(***************************************************************************)
(* Once the ranges of an excerpt have been verified, a reader sees only    *)
(* articles of the book (ShownStaysInBook in law_data).                    *)
(***************************************************************************)
THEOREM OnlyTheBookIsShown == CatalogSpec => []ShownStaysInBook
  <1>1. ASSUME CatalogInv, entry[ExcerptLaw].verified, NEW n \in ShownOf(ExcerptLaw)
        PROVE  n.number \in InBook
    <2>0. CatalogTypeOK /\ RangesInv /\ ExcerptLaw # FullLaw
      BY <1>1, CatalogAssumption DEF CatalogInv
    <2>1. InRange(ExcerptLaw, n) BY <1>1, <2>0 DEF ShownOf
    <2>2. ASSUME NEW x \in resolutions, x.law = ExcerptLaw, Key(n) \in Keys(x.at)
          PROVE  n.number \in InBook
      <3>1. \A m \in x.at : m.number \in InBook
        BY <1>1, <2>2 DEF CatalogInv, ResolutionsInv, ResolutionOK
      <3>2. PICK m \in x.at : Key(m) = Key(n) BY <2>2 DEF Keys
      <3>3. m.number = n.number BY <3>2 DEF Key
      <3> QED BY <3>1, <3>3
    <2>3. ASSUME NEW range \in ranges[ExcerptLaw], range.stable = StableKey(n)
          PROVE  n.number \in InBook
      BY <2>0, <2>3, ExcerptRange DEF StableKey
    <2> QED BY <2>1, <2>2, <2>3 DEF InRange
  <1>2. CatalogInv => ShownStaysInBook BY <1>1 DEF ShownStaysInBook
  <1> QED BY <1>2, CatalogInvInit, CatalogInvNext, PTL DEF CatalogSpec

(***************************************************************************)
(* No script gives a law of the book that has a current revision another   *)
(* one, whatever the refresh does between its reads and its writes         *)
(* (CatalogKeepsCurrent in law_data).                                      *)
(***************************************************************************)
THEOREM ScriptsKeepCurrent == CatalogSpec => CatalogKeepsCurrent
  <1>1. ASSUME CatalogInv, [CatalogNext]_catalogVars,
               NEW l \in BookLaws, entry[l].present, current[l] # NoRevision
        PROVE  current'[l] \in {current[l], "amended"}
    <2>0. JobOK /\ CurrentOK /\ JobInv /\ l \in CatalogLaws
      BY <1>1, BookFacts DEF CatalogInv, CatalogTypeOK
    <2>1. CASE UNCHANGED current BY <2>1
    <2>2. CASE SeedPointer /\ Law \in BookLaws /\ job.saw = NoRevision
               /\ current' = [current EXCEPT ![Law] = "edition"]
      <3>1. current[Law] = NoRevision BY <2>0, <2>2 DEF SeedPointer, At, JobInv
      <3> QED BY <1>1, <2>0, <2>2, <3>1 DEF CurrentOK
    <2>3. CASE current' = [m \in CatalogLaws |-> IF m \in Outside THEN NoRevision ELSE current[m]]
      <3>1. l \notin Outside BY <1>1 DEF Outside
      <3> QED BY <2>0, <2>3, <3>1
    <2>4. ASSUME NEW m \in BookLaws, current' = [current EXCEPT ![m] = "amended"]
          PROVE  current'[l] \in {current[l], "amended"}
      BY <2>0, <2>4 DEF CurrentOK
    <2> QED BY <1>1, <2>0, <2>1, <2>2, <2>3, <2>4, CurrentChange
  <1>2. CatalogInv /\ [CatalogNext]_catalogVars =>
           [\A l \in BookLaws : entry[l].present /\ current[l] # NoRevision =>
               current'[l] \in {current[l], "amended"}]_catalogVars
    BY <1>1
  <1> QED BY <1>2, CatalogInvInit, CatalogInvNext, PTL DEF CatalogSpec, CatalogKeepsCurrent

-----------------------------------------------------------------------------
(* The walk over a document.                                                 *)

\* A durable key, and so a legacy one, is a path of segments, each with a number.
KeySegments == Segments \X Nat

DurableKeys == Seq(KeySegments)

\* Keys are sequences: one more step, single steps, equality, prefixes.
LEMMA AppendFacts ==
    ASSUME NEW k \in DurableKeys, NEW s \in KeySegments
    PROVE  /\ Append(k, s) \in DurableKeys
           /\ Len(Append(k, s)) = Len(k) + 1
           /\ \A i \in 1 .. Len(k) : Append(k, s)[i] = k[i]
           /\ Append(k, s)[Len(k) + 1] = s
BY AppendProperties DEF DurableKeys

LEMMA KeyFacts ==
    ASSUME NEW k \in DurableKeys
    PROVE  Len(k) \in Nat /\ \A i \in 1 .. Len(k) : k[i] \in KeySegments
BY LenProperties, ElementOfSeq DEF DurableKeys

LEMMA SameKey ==
    ASSUME NEW k \in DurableKeys, NEW l \in DurableKeys,
           Len(k) = Len(l), \A i \in 1 .. Len(k) : k[i] = l[i]
    PROVE  k = l
BY SeqEqual DEF DurableKeys

LEMMA PrefixFacts ==
    ASSUME NEW k \in DurableKeys, NEW n \in 0 .. Len(k)
    PROVE  /\ SubSeq(k, 1, n) \in DurableKeys
           /\ Len(SubSeq(k, 1, n)) = n
           /\ \A i \in 1 .. n : SubSeq(k, 1, n)[i] = k[i]
<1>1. \A i \in 1 .. n : k[i] \in KeySegments
  BY KeyFacts
<1> QED
  BY <1>1, SubSeqProperties, KeyFacts DEF DurableKeys

\* A key starts with another one when they agree as far as that one goes.
LEMMA StartsWithFacts ==
    ASSUME NEW k \in DurableKeys, NEW first \in DurableKeys
    PROVE  StartsWith(k, first) <=>
             /\ Len(first) <= Len(k)
             /\ \A i \in 1 .. Len(first) : k[i] = first[i]
  <1>1. Len(first) \in Nat /\ Len(k) \in Nat BY KeyFacts
  <1>2. CASE Len(first) <= Len(k)
    <2> DEFINE p == SubSeq(k, 1, Len(first))
    <2>1. /\ p \in DurableKeys /\ Len(p) = Len(first)
          /\ \A i \in 1 .. Len(first) : p[i] = k[i]
      BY PrefixFacts, <1>1, <1>2
    <2> HIDE DEF p
    <2>2. p = first <=> \A i \in 1 .. Len(first) : p[i] = first[i]
      BY <2>1, SameKey
    <2>3. StartsWith(k, first) <=> p = first
      BY <1>2 DEF StartsWith, p
    <2> QED BY <1>2, <2>1, <2>2, <2>3
  <1> QED BY <1>1, <1>2 DEF StartsWith

\* The key that the first of several equal elements gets when the second is met.
Marked(first) == [first EXCEPT ![Len(first)] = <<@[1], 1>>]

NonEmptyKeys == {k \in DurableKeys : Len(k) > 0}

\* What the mark does to a key.
LEMMA MarkFacts ==
    ASSUME NEW k \in DurableKeys, NEW first \in NonEmptyKeys
    PROVE  /\ MarkFirst(k, first) \in DurableKeys
           /\ Len(MarkFirst(k, first)) = Len(k)
           /\ StartsWith(k, first) =>
                \A i \in 1 .. Len(k) :
                   MarkFirst(k, first)[i] = IF i = Len(first) THEN <<first[i][1], 1>> ELSE k[i]
           /\ ~StartsWith(k, first) => MarkFirst(k, first) = k
  <1>1. Len(first) \in Nat /\ Len(k) \in Nat /\ Len(first) > 0 BY KeyFacts DEF NonEmptyKeys
  <1>2. CASE StartsWith(k, first)
    <2>1. Len(first) \in 1 .. Len(k) /\ k[Len(first)] = first[Len(first)]
      BY <1>1, <1>2, StartsWithFacts DEF NonEmptyKeys
    <2>2. <<first[Len(first)][1], 1>> \in KeySegments
      BY <1>1, KeyFacts DEF KeySegments, NonEmptyKeys
    <2>3. MarkFirst(k, first) = [k EXCEPT ![Len(first)] = <<first[Len(first)][1], 1>>]
      BY <1>2, <2>1 DEF MarkFirst
    <2> HIDE DEF KeySegments
    <2> QED BY <1>2, <2>1, <2>2, <2>3, ExceptSeq DEF DurableKeys
  <1> QED BY <1>2 DEF MarkFirst

LEMMA MarkedFacts ==
    ASSUME NEW first \in NonEmptyKeys
    PROVE  /\ Marked(first) \in DurableKeys
           /\ Len(Marked(first)) = Len(first)
           /\ \A i \in 1 .. Len(first) :
                   Marked(first)[i] = IF i = Len(first) THEN <<first[i][1], 1>> ELSE first[i]
  <1>1. first \in DurableKeys /\ Len(first) \in Nat BY KeyFacts DEF NonEmptyKeys
  <1>2. StartsWith(first, first) BY <1>1, StartsWithFacts
  <1>3. Marked(first) = MarkFirst(first, first) BY <1>2 DEF MarkFirst, Marked
  <1> QED BY <1>1, <1>2, <1>3, MarkFacts

\* Only one key becomes a given one, where no key starts with the mark before.
LEMMA MarkIsInjective ==
    ASSUME NEW k \in DurableKeys, NEW l \in DurableKeys, NEW first \in NonEmptyKeys,
           ~StartsWith(k, Marked(first)), ~StartsWith(l, Marked(first)),
           MarkFirst(k, first) = MarkFirst(l, first)
    PROVE  k = l
  <1>1. first \in DurableKeys /\ Marked(first) \in DurableKeys /\ Len(first) \in Nat /\ Len(first) > 0
    BY MarkedFacts, KeyFacts DEF NonEmptyKeys
  <1>2. ASSUME NEW a \in DurableKeys, NEW b \in DurableKeys,
               StartsWith(a, first), MarkFirst(a, first) = MarkFirst(b, first),
               ~StartsWith(b, first)
        PROVE  StartsWith(b, Marked(first))
    <2>1. b = MarkFirst(a, first) BY <1>2, MarkFacts
    <2>2. Len(first) <= Len(a) /\ \A i \in 1 .. Len(first) : a[i] = first[i]
      BY <1>1, <1>2, StartsWithFacts
    <2>3. Len(b) = Len(a) /\ \A i \in 1 .. Len(a) :
                   b[i] = IF i = Len(first) THEN <<first[i][1], 1>> ELSE a[i]
      BY <2>1, <1>2, MarkFacts
    <2>4. \A i \in 1 .. Len(first) : Marked(first)[i] =
                   IF i = Len(first) THEN <<first[i][1], 1>> ELSE first[i]
      BY MarkedFacts
    <2>5. \A i \in 1 .. Len(first) : i \in 1 .. Len(a)
      BY <2>2, <1>1, KeyFacts
    <2>6. \A i \in 1 .. Len(first) : b[i] = Marked(first)[i]
      BY <2>2, <2>3, <2>4, <2>5
    <2> QED BY <2>2, <2>3, <2>6, <1>1, MarkedFacts, StartsWithFacts
  <1>3. CASE ~StartsWith(k, first) /\ ~StartsWith(l, first)
    BY <1>3, MarkFacts
  <1>4. CASE StartsWith(k, first) /\ StartsWith(l, first)
    <2>1. Len(k) = Len(l) BY MarkFacts
    <2>2. k[Len(first)] = l[Len(first)] BY <1>4, <1>1, StartsWithFacts
    <2>3. ASSUME NEW i \in 1 .. Len(k), i # Len(first) PROVE k[i] = l[i]
      <3>1. MarkFirst(k, first)[i] = k[i] BY <1>4, <2>3, MarkFacts
      <3>2. MarkFirst(l, first)[i] = l[i] BY <1>4, <2>1, <2>3, MarkFacts
      <3> QED BY <3>1, <3>2
    <2> QED BY <2>1, <2>2, <2>3, SameKey
  <1> QED BY <1>2, <1>3, <1>4

\* What stands below a node keeps its step when the mark goes above it.
LEMMA MarkAppend ==
    ASSUME NEW k \in DurableKeys, NEW s \in KeySegments, NEW first \in NonEmptyKeys
    PROVE  MarkFirst(Append(k, s), first) =
             IF Append(k, s) = first THEN Append(k, <<s[1], 1>>)
                                     ELSE Append(MarkFirst(k, first), s)
  <1> DEFINE a == Append(k, s)
  <1>1. first \in DurableKeys /\ Len(first) \in Nat /\ Len(first) > 0 /\ Len(k) \in Nat
    BY KeyFacts DEF NonEmptyKeys
  <1>2. a \in DurableKeys /\ Len(a) = Len(k) + 1 /\ (\A i \in 1 .. Len(k) : a[i] = k[i])
        /\ a[Len(k) + 1] = s
    BY AppendFacts
  <1>3. <<s[1], 1>> \in KeySegments BY DEF KeySegments
  <1>4. CASE a = first
    <2> DEFINE b == Append(k, <<s[1], 1>>)
    <2>1. b \in DurableKeys /\ Len(b) = Len(k) + 1 /\ (\A i \in 1 .. Len(k) : b[i] = k[i])
        /\ b[Len(k) + 1] = <<s[1], 1>>
      BY AppendFacts, <1>3
    <2>2. StartsWith(a, first) BY <1>1, <1>4, StartsWithFacts
    <2>3. MarkFirst(a, first) \in DurableKeys /\ Len(MarkFirst(a, first)) = Len(a)
          /\ \A i \in 1 .. Len(a) :
                   MarkFirst(a, first)[i] = IF i = Len(first) THEN <<first[i][1], 1>> ELSE a[i]
      BY <2>2, <1>2, MarkFacts
    <2> HIDE DEF a, b
    <2>4. \A i \in 1 .. Len(a) : MarkFirst(a, first)[i] = b[i]
      BY <1>1, <1>2, <1>4, <2>1, <2>3
    <2>5. MarkFirst(a, first) = b BY <2>1, <2>3, <2>4, <1>2, SameKey
    <2> QED BY <2>5, <1>4 DEF a, b
  <1>5. CASE a # first
    <2> DEFINE b == Append(MarkFirst(k, first), s)
    <2>1. MarkFirst(k, first) \in DurableKeys /\ Len(MarkFirst(k, first)) = Len(k) BY MarkFacts
    <2>2. b \in DurableKeys /\ Len(b) = Len(k) + 1
          /\ (\A i \in 1 .. Len(k) : b[i] = MarkFirst(k, first)[i])
          /\ b[Len(k) + 1] = s
      BY AppendFacts, <2>1
    <2> HIDE DEF a, b
    <2>3. StartsWith(a, first) <=> StartsWith(k, first)
      <3>1. ASSUME StartsWith(a, first) PROVE Len(first) <= Len(k)
        <4> SUFFICES ASSUME Len(first) > Len(k) PROVE FALSE BY <1>1
        <4>1. Len(first) = Len(a) /\ \A i \in 1 .. Len(a) : first[i] = a[i]
          BY <1>1, <1>2, <3>1, StartsWithFacts
        <4> QED BY <4>1, <1>1, <1>2, <1>5, SameKey
      <3> QED BY <3>1, <1>1, <1>2, StartsWithFacts
    <2>4. CASE ~StartsWith(k, first)
      BY <2>3, <2>4, <1>2, <1>5, MarkFacts DEF a
    <2>5. CASE StartsWith(k, first)
      <3>1. Len(first) <= Len(k) BY <2>5, <1>1, StartsWithFacts
      <3>2. MarkFirst(a, first) \in DurableKeys /\ Len(MarkFirst(a, first)) = Len(a)
          /\ \A i \in 1 .. Len(a) :
                   MarkFirst(a, first)[i] = IF i = Len(first) THEN <<first[i][1], 1>> ELSE a[i]
        BY <2>3, <2>5, <1>2, MarkFacts
      <3>3. \A i \in 1 .. Len(k) :
                   MarkFirst(k, first)[i] = IF i = Len(first) THEN <<first[i][1], 1>> ELSE k[i]
        BY <2>5, MarkFacts
      <3>4. ASSUME NEW i \in 1 .. Len(k) PROVE MarkFirst(a, first)[i] = b[i]
        <4>1. i \in 1 .. Len(a) BY <1>1, <1>2
        <4>2. MarkFirst(a, first)[i] = MarkFirst(k, first)[i]
          BY <4>1, <3>2, <3>3, <1>2
        <4> QED BY <4>2, <2>2
      <3>5. MarkFirst(a, first)[Len(k) + 1] = b[Len(k) + 1]
        BY <3>1, <3>2, <2>2, <1>1, <1>2
      <3>6. \A i \in 1 .. Len(a) : MarkFirst(a, first)[i] = b[i]
        BY <3>4, <3>5, <1>1, <1>2
      <3>7. MarkFirst(a, first) = b BY <3>2, <3>6, <2>2, <1>2, SameKey
      <3> QED BY <3>7, <1>5 DEF a, b
    <2> QED BY <2>4, <2>5
  <1> QED BY <1>4, <1>5

LEMMA FirstIsMarked ==
    ASSUME NEW k \in DurableKeys, NEW s \in KeySegments, NEW first \in NonEmptyKeys,
           Append(k, s) = first
    PROVE  MarkFirst(first, first) = Append(k, <<s[1], 1>>)
BY MarkAppend

\* The mark of a prefix is the prefix of the marked key.
LEMMA MarkPrefix ==
    ASSUME NEW k \in DurableKeys, NEW n \in 0 .. Len(k), NEW first \in NonEmptyKeys
    PROVE  SubSeq(MarkFirst(k, first), 1, n) = MarkFirst(SubSeq(k, 1, n), first)
  <1> DEFINE a == SubSeq(k, 1, n)
             b == MarkFirst(k, first)
             c == SubSeq(b, 1, n)
  <1>1. first \in DurableKeys /\ Len(first) \in Nat /\ Len(first) > 0 /\ Len(k) \in Nat
    BY KeyFacts DEF NonEmptyKeys
  <1>2. a \in DurableKeys /\ Len(a) = n /\ \A i \in 1 .. n : a[i] = k[i]
    BY PrefixFacts
  <1>3. /\ b \in DurableKeys /\ Len(b) = Len(k)
        /\ StartsWith(k, first) =>
             \A i \in 1 .. Len(k) : b[i] = IF i = Len(first) THEN <<first[i][1], 1>> ELSE k[i]
        /\ ~StartsWith(k, first) => b = k
    BY MarkFacts
  <1> HIDE DEF b
  <1>4. c \in DurableKeys /\ Len(c) = n /\ \A i \in 1 .. n : c[i] = b[i]
    BY <1>3, PrefixFacts
  <1>5. /\ MarkFirst(a, first) \in DurableKeys /\ Len(MarkFirst(a, first)) = n
        /\ StartsWith(a, first) =>
             \A i \in 1 .. n : MarkFirst(a, first)[i] = IF i = Len(first) THEN <<first[i][1], 1>> ELSE a[i]
        /\ ~StartsWith(a, first) => MarkFirst(a, first) = a
    <2> HIDE DEF a
    <2>1. /\ MarkFirst(a, first) \in DurableKeys /\ Len(MarkFirst(a, first)) = Len(a)
          /\ StartsWith(a, first) =>
               \A i \in 1 .. Len(a) :
                   MarkFirst(a, first)[i] = IF i = Len(first) THEN <<first[i][1], 1>> ELSE a[i]
          /\ ~StartsWith(a, first) => MarkFirst(a, first) = a
      BY <1>2, MarkFacts
    <2>2. Len(a) = n BY <1>2
    <2> QED BY <2>1, <2>2
  <1> HIDE DEF a, c
  <1>6. StartsWith(a, first) <=> StartsWith(k, first) /\ Len(first) <= n
    <2>1. StartsWith(a, first) <=> Len(first) <= n /\ \A i \in 1 .. Len(first) : a[i] = first[i]
      BY <1>1, <1>2, StartsWithFacts
    <2>2. StartsWith(k, first) <=>
            Len(first) <= Len(k) /\ \A i \in 1 .. Len(first) : k[i] = first[i]
      BY <1>1, StartsWithFacts
    <2>3. Len(first) <= n => Len(first) <= Len(k) /\ \A i \in 1 .. Len(first) : a[i] = k[i]
      BY <1>1, <1>2
    <2> QED BY <2>1, <2>2, <2>3
  <1>7. ASSUME NEW i \in 1 .. n PROVE c[i] = MarkFirst(a, first)[i]
    <2>1. i \in 1 .. Len(k) /\ a[i] = k[i] /\ c[i] = b[i] BY <1>1, <1>2, <1>4
    <2>2. CASE ~StartsWith(k, first) BY <2>1, <2>2, <1>3, <1>5, <1>6
    <2>3. CASE StartsWith(k, first) /\ Len(first) <= n
      <3>1. b[i] = IF i = Len(first) THEN <<first[i][1], 1>> ELSE k[i] BY <2>1, <2>3, <1>3
      <3>2. MarkFirst(a, first)[i] = IF i = Len(first) THEN <<first[i][1], 1>> ELSE a[i]
        BY <2>3, <1>5, <1>6
      <3> QED BY <3>1, <3>2, <2>1
    <2>4. CASE StartsWith(k, first) /\ ~(Len(first) <= n)
      <3>1. i # Len(first) BY <2>4, <1>1
      <3>2. b[i] = k[i] BY <3>1, <2>1, <2>4, <1>3
      <3> QED BY <3>2, <2>1, <2>4, <1>5, <1>6
    <2> QED BY <2>2, <2>3, <2>4
  <1>8. c = MarkFirst(a, first) BY <1>4, <1>5, <1>7, SameKey
  <1> QED BY <1>8 DEF a, b, c

\* What a key of one more step starts with.
LEMMA AppendPrefix ==
    ASSUME NEW k \in DurableKeys, NEW s \in KeySegments
    PROVE  /\ \A n \in 0 .. Len(k) : SubSeq(Append(k, s), 1, n) = SubSeq(k, 1, n)
           /\ SubSeq(Append(k, s), 1, Len(k) + 1) = Append(k, s)
  <1> DEFINE a == Append(k, s)
  <1>1. a \in DurableKeys /\ Len(a) = Len(k) + 1 /\ (\A i \in 1 .. Len(k) : a[i] = k[i])
        /\ Len(k) \in Nat
    BY AppendFacts, KeyFacts
  <1> HIDE DEF a
  <1>2. ASSUME NEW n \in 0 .. Len(k) PROVE SubSeq(a, 1, n) = SubSeq(k, 1, n)
    <2>1. SubSeq(k, 1, n) \in DurableKeys /\ Len(SubSeq(k, 1, n)) = n
          /\ \A i \in 1 .. n : SubSeq(k, 1, n)[i] = k[i]
      BY PrefixFacts
    <2>2. SubSeq(a, 1, n) \in DurableKeys /\ Len(SubSeq(a, 1, n)) = n
          /\ \A i \in 1 .. n : SubSeq(a, 1, n)[i] = a[i]
      BY <1>1, PrefixFacts
    <2>3. \A i \in 1 .. n : SubSeq(a, 1, n)[i] = SubSeq(k, 1, n)[i]
      BY <2>1, <2>2, <1>1
    <2> QED BY <2>1, <2>2, <2>3, SameKey
  <1>3. SubSeq(a, 1, Len(k) + 1) = a
    <2>1. SubSeq(a, 1, Len(k) + 1) \in DurableKeys /\ Len(SubSeq(a, 1, Len(k) + 1)) = Len(k) + 1
          /\ \A i \in 1 .. Len(k) + 1 : SubSeq(a, 1, Len(k) + 1)[i] = a[i]
      BY <1>1, PrefixFacts
    <2> QED BY <2>1, <1>1, SameKey
  <1> QED BY <1>2, <1>3 DEF a

\* Two keys are the same when their parents' keys and their last steps are.
LEMMA KeyParts ==
    ASSUME NEW k \in DurableKeys, NEW l \in DurableKeys,
           NEW s \in KeySegments, NEW t \in KeySegments, Append(k, s) = Append(l, t)
    PROVE  k = l /\ s = t
BY AppendInjective DEF DurableKeys

\* The law itself has the empty key, and nothing else.
LEMMA RootKey == <<>> \in DurableKeys /\ Len(<<>>) = 0 /\ \A k \in DurableKeys : Len(k) = 0 => k = <<>>
BY EmptySeq DEF DurableKeys

\* A key too short to start with another one is left alone.
LEMMA ShortIsKept ==
    ASSUME NEW k \in DurableKeys, NEW first \in NonEmptyKeys, Len(k) < Len(first)
    PROVE  MarkFirst(k, first) = k
BY KeyFacts DEF MarkFirst, StartsWith, NonEmptyKeys

-----------------------------------------------------------------------------
(***************************************************************************)
(* The state of the walk, and why the names hold: a segment is counted     *)
(* below its parent, a key is the key of the parent and one step more, and *)
(* the calls in progress hold the keys of their nodes.  That every prefix  *)
(* of a key is a key, and that a node is called the first of several only  *)
(* when there are several, is what keeps a renamed key apart from the      *)
(* others.                                                                 *)
(***************************************************************************)
WalkNodes == [parent : Nat, segment : Segments, nth : Nat, order : Nat,
              key : DurableKeys, legacy : DurableKeys]

WalkTypeOK ==
    /\ nodes \in Seq(WalkNodes)
    /\ Len(nodes) <= MaxNodes
    /\ \A i \in 1 .. Len(nodes) : nodes[i].parent \in 0 .. i - 1
    /\ open \in Seq([node : Nat, key : DurableKeys])
    /\ twins \in [(0 .. MaxNodes) \X Segments -> Nat]
    /\ orders \in [0 .. MaxNodes -> Nat]

\* The counters of the walk count: equal elements and children are numbered
\* without a gap and without a number given twice.
Counted ==
    /\ \A i \in 1 .. Len(nodes) :
           /\ nodes[i].nth \in 1 .. twins[<<nodes[i].parent, nodes[i].segment>>]
           /\ nodes[i].order \in 1 .. orders[nodes[i].parent]
    /\ \A i, j \in 1 .. Len(nodes) : i # j /\ nodes[i].parent = nodes[j].parent =>
           /\ nodes[i].order # nodes[j].order
           /\ nodes[i].segment = nodes[j].segment => nodes[i].nth # nodes[j].nth
    /\ \A p \in 0 .. MaxNodes, s \in Segments : \A n \in 1 .. twins[<<p, s>>] :
           \E i \in 1 .. Len(nodes) :
               nodes[i].parent = p /\ nodes[i].segment = s /\ nodes[i].nth = n

\* Which of several equal elements is meant; 0 where there is one.
Place(p, s, n) == IF twins[<<p, s>>] = 1 THEN 0 ELSE n

Named ==
    \A i \in 1 .. Len(nodes) :
        /\ nodes[i].key = Append(KeyOf(nodes[i].parent),
               <<nodes[i].segment, Place(nodes[i].parent, nodes[i].segment, nodes[i].nth)>>)
        /\ nodes[i].legacy = Append(LegacyOf(nodes[i].parent), <<nodes[i].segment, nodes[i].order>>)

OneNodeEach ==
    \A i, j \in 1 .. Len(nodes) :
        i # j => nodes[i].key # nodes[j].key /\ nodes[i].legacy # nodes[j].legacy

PrefixesAreKeys ==
    \A i \in 1 .. Len(nodes) : \A n \in 1 .. Len(nodes[i].key) :
        \E j \in 1 .. Len(nodes) : nodes[j].key = SubSeq(nodes[i].key, 1, n)

CallsHoldKeys ==
    \A d \in 1 .. Len(open) :
        /\ open[d].node \in 1 .. Len(nodes)
        /\ nodes[open[d].node].key = open[d].key
        /\ Len(open[d].key) = d

WalkInv ==
    /\ WalkTypeOK /\ Counted /\ Named /\ OneNodeEach /\ PrefixesAreKeys /\ CallsHoldKeys

\* Several are not all the same one.
NotAlone(p, s, n) ==
    \E i \in 1 .. Len(nodes) :
        nodes[i].parent = p /\ nodes[i].segment = s /\ nodes[i].nth # n

LEMMA SeveralAreNotAlone ==
    ASSUME Counted, NEW p \in 0 .. MaxNodes, NEW s \in Segments, NEW n,
           twins[<<p, s>>] \in Nat, twins[<<p, s>>] > 1
    PROVE  NotAlone(p, s, n)
  <1>1. \A m \in 1 .. twins[<<p, s>>] : \E i \in 1 .. Len(nodes) :
            nodes[i].parent = p /\ nodes[i].segment = s /\ nodes[i].nth = m
    BY DEF Counted
  <1>2. 1 \in 1 .. twins[<<p, s>>] /\ 2 \in 1 .. twins[<<p, s>>] OBVIOUS
  <1>3. PICK m \in 1 .. twins[<<p, s>>] : m # n BY <1>2
  <1> QED BY <1>1, <1>3 DEF NotAlone

\* The types, node by node.
LEMMA NodeFacts ==
    ASSUME WalkTypeOK
    PROVE  /\ Len(nodes) \in Nat /\ Len(open) \in Nat
           /\ \A i \in 1 .. Len(nodes) :
                /\ nodes[i] \in WalkNodes
                /\ nodes[i].segment \in Segments /\ nodes[i].nth \in Nat /\ nodes[i].order \in Nat
                /\ nodes[i].key \in DurableKeys /\ nodes[i].legacy \in DurableKeys
                /\ nodes[i].parent \in 0 .. MaxNodes /\ nodes[i].parent \in 0 .. Len(nodes)
           /\ \A d \in 1 .. Len(open) : open[d] \in [node : Nat, key : DurableKeys]
           /\ \A p \in 0 .. MaxNodes, s \in Segments : twins[<<p, s>>] \in Nat
           /\ \A p \in 0 .. Len(nodes) : KeyOf(p) \in DurableKeys /\ LegacyOf(p) \in DurableKeys
  <1>1. Len(nodes) \in Nat /\ Len(open) \in Nat
        /\ \A i \in 1 .. Len(nodes) : nodes[i] \in WalkNodes
    BY LenProperties, ElementOfSeq DEF WalkTypeOK
  <1>2. ASSUME NEW i \in 1 .. Len(nodes)
        PROVE  /\ nodes[i].segment \in Segments /\ nodes[i].nth \in Nat /\ nodes[i].order \in Nat
               /\ nodes[i].key \in DurableKeys /\ nodes[i].legacy \in DurableKeys
               /\ nodes[i].parent \in 0 .. MaxNodes /\ nodes[i].parent \in 0 .. Len(nodes)
    <2>1. nodes[i] \in WalkNodes BY <1>1
    <2>2. nodes[i].parent \in 0 .. i - 1 /\ Len(nodes) <= MaxNodes BY DEF WalkTypeOK
    <2> QED BY <2>1, <2>2, <1>1, WalkAssumption DEF WalkNodes
  <1>3. \A d \in 1 .. Len(open) : open[d] \in [node : Nat, key : DurableKeys]
    BY ElementOfSeq DEF WalkTypeOK
  <1>4. \A p \in 0 .. MaxNodes, s \in Segments : twins[<<p, s>>] \in Nat
    BY DEF WalkTypeOK
  <1>5. \A p \in 0 .. Len(nodes) : KeyOf(p) \in DurableKeys /\ LegacyOf(p) \in DurableKeys
    BY <1>1, <1>2, RootKey DEF KeyOf, LegacyOf
  <1> QED BY <1>1, <1>2, <1>3, <1>4, <1>5

-----------------------------------------------------------------------------
\* The key of the only element s under the node whose key is k.
Plain(k, s) == Append(k, <<s, 0>>)

\* The second of equal elements renames the first one and all that is below it.
Renamed(node, plain, n) ==
    [node EXCEPT !.key = IF n = 2 THEN MarkFirst(@, plain) ELSE @]

\* The row of the next element s under p.
NewNode(p, k, s) ==
    LET n == twins[<<p, s>>] + 1
    IN  [parent |-> p, segment |-> s, nth |-> n, order |-> orders[p] + 1,
         key |-> Append(k, <<s, IF n = 1 THEN 0 ELSE n>>),
         legacy |-> Append(LegacyOf(p), <<s, orders[p] + 1>>)]

\* What a visit does: the element s stands under the node p, whose key is k.
Met(p, k, s) ==
    /\ s \in Segments /\ p \in 0 .. Len(nodes) /\ k = KeyOf(p) /\ Len(k) \in 0 .. Len(open)
    /\ Len(nodes) < MaxNodes
    /\ twins' = [twins EXCEPT ![<<p, s>>] = twins[<<p, s>>] + 1]
    /\ orders' = [orders EXCEPT ![p] = orders[p] + 1]
    /\ nodes' \in Seq(WalkNodes)
    /\ Len(nodes') = Len(nodes) + 1
    /\ \A i \in 1 .. Len(nodes) :
           nodes'[i] = Renamed(nodes[i], Plain(k, s), twins[<<p, s>>] + 1)
    /\ nodes'[Len(nodes) + 1] = NewNode(p, k, s)
    /\ open' = Append(SubSeq(open, 1, Len(k)),
                   [node |-> Len(nodes) + 1, key |-> NewNode(p, k, s).key])

LEMMA NewNodeTyped ==
    ASSUME WalkTypeOK, NEW p \in 0 .. Len(nodes), Len(nodes) < MaxNodes, NEW s \in Segments
    PROVE  /\ NewNode(p, KeyOf(p), s) \in WalkNodes
           /\ Plain(KeyOf(p), s) \in NonEmptyKeys
           /\ Len(Plain(KeyOf(p), s)) = Len(KeyOf(p)) + 1
  <1> DEFINE n == twins[<<p, s>>] + 1
  <1>1. Len(nodes) \in Nat /\ p \in 0 .. MaxNodes
    <2>1. Len(nodes) \in Nat BY NodeFacts
    <2> QED BY <2>1, WalkAssumption
  <1>2. n \in Nat
    <2>1. <<p, s>> \in (0 .. MaxNodes) \X Segments BY <1>1
    <2>2. twins[<<p, s>>] \in Nat BY <2>1 DEF WalkTypeOK
    <2> QED BY <2>2
  <1>3. orders[p] + 1 \in Nat
    <2>1. orders \in [0 .. MaxNodes -> Nat] BY DEF WalkTypeOK
    <2> QED BY <1>1, <2>1
  <1>4. KeyOf(p) \in DurableKeys /\ LegacyOf(p) \in DurableKeys BY NodeFacts
  <1> HIDE DEF n
  <1>5. <<s, IF n = 1 THEN 0 ELSE n>> \in KeySegments /\ <<s, 0>> \in KeySegments
        /\ <<s, orders[p] + 1>> \in KeySegments
    BY <1>2, <1>3 DEF KeySegments
  <1>6. /\ Append(KeyOf(p), <<s, IF n = 1 THEN 0 ELSE n>>) \in DurableKeys
        /\ Append(LegacyOf(p), <<s, orders[p] + 1>>) \in DurableKeys
    BY <1>4, <1>5, AppendFacts
  <1>7. p \in Nat BY <1>1, WalkAssumption
  <1>8. NewNode(p, KeyOf(p), s) \in WalkNodes
    BY <1>2, <1>3, <1>6, <1>7 DEF NewNode, n, WalkNodes
  <1>9. Plain(KeyOf(p), s) \in DurableKeys
        /\ Len(Plain(KeyOf(p), s)) = Len(KeyOf(p)) + 1
    BY <1>4, <1>5, AppendFacts DEF Plain
  <1> QED BY <1>4, <1>8, <1>9, KeyFacts DEF NonEmptyKeys

LEMMA VisitMeets ==
    ASSUME WalkInv, NEW d \in 0 .. Len(open), NEW s \in Segments, Visit(d, s)
    PROVE  UNCHANGED <<nodes, open, twins, orders>> \/ \E p, k : Met(p, k, s)
  <1> DEFINE p == IF d = 0 THEN 0 ELSE open[d].node
             k == IF d = 0 THEN <<>> ELSE open[d].key
             n == twins[<<p, s>>] + 1
             plain == Plain(k, s)
             kept == IF n = 2
                     THEN [i \in DOMAIN nodes |-> [nodes[i] EXCEPT !.key = MarkFirst(@, plain)]]
                     ELSE nodes
  <1>1. WalkTypeOK /\ Len(nodes) \in Nat /\ Len(open) \in Nat BY NodeFacts DEF WalkInv
  <1>2. p \in 0 .. Len(nodes) /\ k = KeyOf(p) /\ Len(k) = d
    <2>1. CASE d = 0 BY <2>1, <1>1, RootKey DEF KeyOf
    <2>2. CASE d # 0
      <3>1. d \in 1 .. Len(open) BY <2>2, <1>1
      <3>2. open[d].node \in 1 .. Len(nodes) /\ nodes[open[d].node].key = open[d].key
            /\ Len(open[d].key) = d
        BY <3>1 DEF WalkInv, CallsHoldKeys
      <3> QED BY <2>2, <3>2, <1>1 DEF KeyOf
    <2> QED BY <2>1, <2>2
  <1>3. Len(nodes) < MaxNodes BY DEF Visit
  <1>4. SUFFICES ASSUME ~UNCHANGED <<nodes, open, twins, orders>> PROVE Met(p, k, s)
    OBVIOUS
  <1>5. /\ twins' = [twins EXCEPT ![<<p, s>>] = n]
        /\ orders' = [orders EXCEPT ![p] = orders[p] + 1]
        /\ nodes' = Append(kept, NewNode(p, k, s))
        /\ open' = Append(SubSeq(open, 1, d), [node |-> Len(nodes) + 1, key |-> NewNode(p, k, s).key])
    BY <1>4 DEF Visit, NewNode, Plain
  <1>6. NewNode(p, k, s) \in WalkNodes /\ plain \in NonEmptyKeys
    BY <1>1, <1>2, <1>3, NewNodeTyped
  <1> HIDE DEF plain, k, p, n
  <1>7. \A i \in 1 .. Len(nodes) : Renamed(nodes[i], plain, n) \in WalkNodes
    <2> TAKE i \in 1 .. Len(nodes)
    <2>1. nodes[i] \in WalkNodes /\ nodes[i].key \in DurableKeys BY <1>1, NodeFacts
    <2>2. MarkFirst(nodes[i].key, plain) \in DurableKeys BY <2>1, <1>6, MarkFacts
    <2> QED BY <2>1, <2>2 DEF Renamed, WalkNodes
  <1>8. DOMAIN nodes = 1 .. Len(nodes) BY <1>1, LenProperties DEF WalkTypeOK
  <1>9. /\ kept \in Seq(WalkNodes) /\ Len(kept) = Len(nodes)
        /\ \A i \in 1 .. Len(nodes) : kept[i] = Renamed(nodes[i], plain, n)
    <2>1. CASE n = 2
      <3>1. kept = [i \in 1 .. Len(nodes) |-> Renamed(nodes[i], plain, n)]
        BY <2>1, <1>8 DEF Renamed
      <3> HIDE DEF kept
      <3>2. kept \in [1 .. Len(nodes) -> WalkNodes] BY <3>1, <1>7
      <3>3. kept \in Seq(WalkNodes) BY <3>2, <1>1, SeqDef
      <3>4. Len(kept) = Len(nodes) BY <3>2, <3>3, <1>1, LenProperties
      <3> QED BY <3>1, <3>3, <3>4
    <2>2. CASE n # 2
      <3>1. kept = nodes BY <2>2
      <3>2. \A i \in 1 .. Len(nodes) : Renamed(nodes[i], plain, n) = nodes[i]
        BY <2>2, <1>1, NodeFacts DEF Renamed, WalkNodes
      <3> QED BY <3>1, <3>2, <1>1 DEF WalkTypeOK
    <2> QED BY <2>1, <2>2
  <1> HIDE DEF kept
  <1>10. /\ nodes' \in Seq(WalkNodes) /\ Len(nodes') = Len(nodes) + 1
         /\ \A i \in 1 .. Len(nodes) : nodes'[i] = Renamed(nodes[i], plain, n)
         /\ nodes'[Len(nodes) + 1] = NewNode(p, k, s)
    BY <1>5, <1>6, <1>9, AppendProperties
  <1> QED BY <1>2, <1>3, <1>5, <1>10 DEF Met, plain, n

\* Where the element stands.
LEMMA MetHere ==
    ASSUME WalkInv, NEW p, NEW k, NEW s, Met(p, k, s)
    PROVE  /\ WalkTypeOK /\ Len(nodes) \in Nat
           /\ p \in 0 .. Len(nodes) /\ p \in 0 .. MaxNodes /\ s \in Segments
           /\ k = KeyOf(p) /\ k \in DurableKeys
           /\ twins[<<p, s>>] \in Nat /\ orders[p] \in Nat
           /\ Plain(k, s) \in NonEmptyKeys /\ Len(Plain(k, s)) = Len(k) + 1
  <1>1. WalkTypeOK /\ Len(nodes) \in Nat BY NodeFacts DEF WalkInv
  <1>2. p \in 0 .. Len(nodes) /\ s \in Segments /\ k = KeyOf(p) /\ Len(nodes) < MaxNodes
    BY DEF Met
  <1>3. p \in 0 .. MaxNodes BY <1>1, <1>2, WalkAssumption
  <1>4. twins[<<p, s>>] \in Nat /\ orders[p] \in Nat BY <1>1, <1>2, <1>3 DEF WalkTypeOK
  <1>5. Plain(k, s) \in NonEmptyKeys /\ Len(Plain(k, s)) = Len(k) + 1
        /\ k \in DurableKeys
    BY <1>1, <1>2, NewNodeTyped, NodeFacts
  <1> QED BY <1>1, <1>2, <1>3, <1>4, <1>5

\* What the counters count then.
LEMMA MetCounts ==
    ASSUME WalkInv, NEW p, NEW k, NEW s, Met(p, k, s)
    PROVE  /\ twins'[<<p, s>>] = twins[<<p, s>>] + 1
           /\ \A q \in 0 .. MaxNodes, t \in Segments :
                <<q, t>> # <<p, s>> => twins'[<<q, t>>] = twins[<<q, t>>]
           /\ orders'[p] = orders[p] + 1
           /\ \A q \in 0 .. MaxNodes : q # p => orders'[q] = orders[q]
  <1>1. WalkTypeOK /\ p \in 0 .. MaxNodes /\ s \in Segments BY MetHere
  <1> QED BY <1>1 DEF Met, WalkTypeOK

\* The nodes that were there keep everything but, perhaps, their keys.
LEMMA MetOld ==
    ASSUME WalkInv, NEW p, NEW k, NEW s, Met(p, k, s), NEW i \in 1 .. Len(nodes)
    PROVE  /\ nodes'[i].parent = nodes[i].parent /\ nodes'[i].segment = nodes[i].segment
           /\ nodes'[i].nth = nodes[i].nth /\ nodes'[i].order = nodes[i].order
           /\ nodes'[i].legacy = nodes[i].legacy
           /\ twins[<<p, s>>] = 1 => nodes'[i].key = MarkFirst(nodes[i].key, Plain(k, s))
           /\ twins[<<p, s>>] # 1 => nodes'[i].key = nodes[i].key
  <1>1. nodes'[i] = Renamed(nodes[i], Plain(k, s), twins[<<p, s>>] + 1) BY DEF Met
  <1>2. nodes[i] \in WalkNodes BY MetHere, NodeFacts
  <1>3. twins[<<p, s>>] \in Nat BY MetHere
  <1> QED BY <1>1, <1>2, <1>3 DEF Renamed, WalkNodes

\* The new one.
LEMMA MetNew ==
    ASSUME WalkInv, NEW p, NEW k, NEW s, Met(p, k, s), NEW i, i = Len(nodes) + 1
    PROVE  /\ 1 .. Len(nodes') = 1 .. Len(nodes) \cup {i} /\ i \notin 1 .. Len(nodes)
           /\ nodes'[i].parent = p /\ nodes'[i].segment = s
           /\ nodes'[i].nth = twins[<<p, s>>] + 1
           /\ nodes'[i].order = orders[p] + 1
           /\ nodes'[i].key = Append(k, <<s, IF twins[<<p, s>>] = 0 THEN 0 ELSE nodes'[i].nth>>)
           /\ nodes'[i].legacy = Append(LegacyOf(p), <<s, nodes'[i].order>>)
  <1>1. Len(nodes) \in Nat /\ twins[<<p, s>>] \in Nat BY MetHere
  <1>2. nodes'[i] = NewNode(p, k, s) /\ Len(nodes') = Len(nodes) + 1 BY DEF Met
  <1>3. 1 .. Len(nodes') = 1 .. Len(nodes) \cup {i} /\ i \notin 1 .. Len(nodes) BY <1>1, <1>2
  <1>4. /\ nodes'[i].parent = p /\ nodes'[i].segment = s
        /\ nodes'[i].nth = twins[<<p, s>>] + 1 /\ nodes'[i].order = orders[p] + 1
    BY <1>2 DEF NewNode
  <1>5. nodes'[i].legacy = Append(LegacyOf(p), <<s, nodes'[i].order>>) BY <1>2 DEF NewNode
  <1>6. twins[<<p, s>>] = 0 <=> nodes'[i].nth = 1 BY <1>1, <1>4
  <1>7. nodes'[i].key = Append(k, <<s, IF nodes'[i].nth = 1 THEN 0 ELSE nodes'[i].nth>>)
    BY <1>2 DEF NewNode
  <1> QED BY <1>3, <1>4, <1>5, <1>6, <1>7

LEMMA WalkTyped ==
    ASSUME WalkInv, NEW p, NEW k, NEW s, Met(p, k, s)
    PROVE  WalkTypeOK'
  <1> DEFINE new == Len(nodes) + 1
  <1>1. /\ WalkTypeOK /\ Len(nodes) \in Nat /\ p \in 0 .. MaxNodes /\ p \in 0 .. Len(nodes)
        /\ s \in Segments /\ twins[<<p, s>>] \in Nat /\ orders[p] \in Nat
    BY MetHere
  <1>2. Len(open) \in Nat BY <1>1, NodeFacts
  <1>3. 1 .. Len(nodes') = 1 .. Len(nodes) \cup {new} /\ nodes'[new].parent = p BY MetNew
  <1>4. nodes' \in Seq(WalkNodes) /\ Len(nodes') <= MaxNodes BY <1>1, WalkAssumption DEF Met
  <1>5. \A i \in 1 .. Len(nodes') : nodes'[i].parent \in 0 .. i - 1
    <2> TAKE i \in 1 .. Len(nodes')
    <2>1. CASE i \in 1 .. Len(nodes) BY <2>1, <1>1, MetOld DEF WalkTypeOK
    <2>2. CASE i = new BY <2>2, <1>1, <1>3
    <2> QED BY <1>3, <2>1, <2>2
  <1>6. open' \in Seq([node : Nat, key : DurableKeys])
    <2> DEFINE Calls == [node : Nat, key : DurableKeys]
    <2>1. Len(k) \in 0 .. Len(open) BY DEF Met
    <2>2. \A i \in 1 .. Len(k) : open[i] \in Calls BY <2>1, <1>1, <1>2, NodeFacts
    <2>3. NewNode(p, k, s) \in WalkNodes BY <1>1, NewNodeTyped DEF Met
    <2>4. [node |-> Len(nodes) + 1, key |-> NewNode(p, k, s).key] \in Calls
      BY <2>3, <1>1 DEF WalkNodes
    <2> HIDE DEF Calls
    <2>5. SubSeq(open, 1, Len(k)) \in Seq(Calls) BY <2>1, <2>2, <1>2, SubSeqProperties
    <2>6. open' \in Seq(Calls) BY <2>4, <2>5, AppendProperties DEF Met
    <2> QED BY <2>6 DEF Calls
  <1>7. twins' \in [(0 .. MaxNodes) \X Segments -> Nat] /\ orders' \in [0 .. MaxNodes -> Nat]
    <2>1. /\ twins' = [twins EXCEPT ![<<p, s>>] = twins[<<p, s>>] + 1]
          /\ orders' = [orders EXCEPT ![p] = orders[p] + 1]
      BY DEF Met
    <2> QED BY <1>1, <2>1 DEF WalkTypeOK
  <1> QED BY <1>4, <1>5, <1>6, <1>7 DEF WalkTypeOK

LEMMA CountedStays ==
    ASSUME WalkInv, NEW p, NEW k, NEW s, Met(p, k, s)
    PROVE  Counted'
  <1> DEFINE new == Len(nodes) + 1
  <1>1. WalkTypeOK /\ Counted BY DEF WalkInv
  <1>2. p \in 0 .. MaxNodes /\ s \in Segments /\ twins[<<p, s>>] \in Nat /\ orders[p] \in Nat
    BY MetHere
  <1>3. /\ 1 .. Len(nodes') = 1 .. Len(nodes) \cup {new}
        /\ nodes'[new].parent = p /\ nodes'[new].segment = s
        /\ nodes'[new].nth = twins[<<p, s>>] + 1 /\ nodes'[new].order = orders[p] + 1
    BY MetNew
  <1>4. ASSUME NEW i \in 1 .. Len(nodes)
        PROVE  /\ nodes'[i].parent = nodes[i].parent /\ nodes'[i].segment = nodes[i].segment
               /\ nodes'[i].nth = nodes[i].nth /\ nodes'[i].order = nodes[i].order
    BY MetOld
  <1>5. ASSUME NEW i \in 1 .. Len(nodes)
        PROVE  nodes[i].parent \in 0 .. MaxNodes /\ nodes[i].segment \in Segments
    BY <1>1, NodeFacts
  <1>6. /\ twins'[<<p, s>>] = twins[<<p, s>>] + 1
        /\ \A q \in 0 .. MaxNodes, t \in Segments :
               <<q, t>> # <<p, s>> => twins'[<<q, t>>] = twins[<<q, t>>]
        /\ orders'[p] = orders[p] + 1
        /\ \A q \in 0 .. MaxNodes : q # p => orders'[q] = orders[q]
    BY MetCounts
  <1>7. ASSUME NEW i \in 1 .. Len(nodes)
        PROVE  /\ nodes[i].nth \in 1 .. twins[<<nodes[i].parent, nodes[i].segment>>]
               /\ nodes[i].order \in 1 .. orders[nodes[i].parent]
    BY <1>1 DEF Counted
  <1> HIDE DEF new
  <1>8. ASSUME NEW i \in 1 .. Len(nodes')
        PROVE  /\ nodes'[i].nth \in 1 .. twins'[<<nodes'[i].parent, nodes'[i].segment>>]
               /\ nodes'[i].order \in 1 .. orders'[nodes'[i].parent]
    <2>1. CASE i = new BY <2>1, <1>2, <1>3, <1>6
    <2>2. CASE i \in 1 .. Len(nodes)
      <3> DEFINE q == nodes[i].parent
                 t == nodes[i].segment
      <3>1. nodes'[i].parent = q /\ nodes'[i].segment = t
            /\ nodes'[i].nth = nodes[i].nth /\ nodes'[i].order = nodes[i].order
        BY <2>2, <1>4
      <3>2. q \in 0 .. MaxNodes /\ t \in Segments BY <2>2, <1>5
      <3>3. nodes[i].nth \in 1 .. twins[<<q, t>>] /\ nodes[i].order \in 1 .. orders[q]
        BY <2>2, <1>7
      <3> HIDE DEF q, t
      <3>4. twins'[<<q, t>>] = twins[<<q, t>>] \/ twins'[<<q, t>>] = twins[<<q, t>>] + 1
        BY <3>2, <1>6
      <3>5. twins[<<q, t>>] \in Nat /\ orders[q] \in Nat
        BY <3>2, <1>1 DEF WalkTypeOK
      <3>6. orders'[q] = orders[q] \/ orders'[q] = orders[q] + 1
        BY <3>2, <1>6
      <3> QED BY <3>1, <3>3, <3>4, <3>5, <3>6
    <2> QED BY <2>1, <2>2, <1>3
  <1>9. ASSUME NEW i \in 1 .. Len(nodes), nodes[i].parent = p
        PROVE  /\ nodes'[i].order # nodes'[new].order
               /\ nodes[i].segment = s => nodes'[i].nth # nodes'[new].nth
    <2>1. nodes[i].order \in 1 .. orders[p] /\ nodes'[i].order = nodes[i].order BY <1>4, <1>7, <1>9
    <2>2. nodes[i].segment = s => nodes[i].nth \in 1 .. twins[<<p, s>>] BY <1>7, <1>9
    <2>3. nodes'[i].nth = nodes[i].nth BY <1>4
    <2> QED BY <2>1, <2>2, <2>3, <1>2, <1>3
  <1>10. ASSUME NEW i \in 1 .. Len(nodes'), NEW j \in 1 .. Len(nodes'),
                i # j, nodes'[i].parent = nodes'[j].parent
         PROVE  /\ nodes'[i].order # nodes'[j].order
                /\ nodes'[i].segment = nodes'[j].segment => nodes'[i].nth # nodes'[j].nth
    <2>1. CASE i = new /\ j \in 1 .. Len(nodes) BY <2>1, <1>3, <1>4, <1>9, <1>10
    <2>2. CASE j = new /\ i \in 1 .. Len(nodes) BY <2>2, <1>3, <1>4, <1>9, <1>10
    <2>3. CASE i \in 1 .. Len(nodes) /\ j \in 1 .. Len(nodes)
      BY <2>3, <1>1, <1>4, <1>10 DEF Counted
    <2> QED BY <2>1, <2>2, <2>3, <1>3, <1>10
  <1>11. ASSUME NEW q \in 0 .. MaxNodes, NEW t \in Segments, NEW n \in 1 .. twins'[<<q, t>>]
         PROVE  \E i \in 1 .. Len(nodes') :
                    nodes'[i].parent = q /\ nodes'[i].segment = t /\ nodes'[i].nth = n
    <2>1. CASE <<q, t>> = <<p, s>> /\ n = twins[<<p, s>>] + 1 BY <2>1, <1>3
    <2>2. CASE ~(<<q, t>> = <<p, s>> /\ n = twins[<<p, s>>] + 1)
      <3>1. n \in 1 .. twins[<<q, t>>]
        <4>1. twins[<<q, t>>] \in Nat BY <1>1, NodeFacts
        <4> QED BY <4>1, <2>2, <1>2, <1>6
      <3>2. PICK i \in 1 .. Len(nodes) :
              nodes[i].parent = q /\ nodes[i].segment = t /\ nodes[i].nth = n
        BY <3>1, <1>1 DEF Counted
      <3> QED BY <3>2, <1>3, <1>4
    <2> QED BY <2>1, <2>2
  <1> QED BY <1>8, <1>10, <1>11 DEF Counted

\* Keys that lead to the root differ from all others, for keys have a last step.
LEMMA ParentsAreKnown ==
    ASSUME WalkInv, NEW p \in 0 .. Len(nodes), NEW q \in 0 .. Len(nodes)
    PROVE  KeyOf(p) = KeyOf(q) \/ LegacyOf(p) = LegacyOf(q) => p = q
  <1>1. WalkTypeOK /\ Named /\ OneNodeEach /\ Len(nodes) \in Nat BY NodeFacts DEF WalkInv
  <1>2. ASSUME NEW i \in 1 .. Len(nodes) PROVE nodes[i].key # <<>> /\ nodes[i].legacy # <<>>
    <2> DEFINE x == <<nodes[i].segment, Place(nodes[i].parent, nodes[i].segment, nodes[i].nth)>>
               y == <<nodes[i].segment, nodes[i].order>>
    <2>1. nodes[i].segment \in Segments /\ nodes[i].nth \in Nat /\ nodes[i].order \in Nat
          /\ KeyOf(nodes[i].parent) \in DurableKeys /\ LegacyOf(nodes[i].parent) \in DurableKeys
      BY <1>1, NodeFacts
    <2>2. x \in KeySegments /\ y \in KeySegments
      <3> QED BY <2>1 DEF KeySegments, Place
    <2>3. nodes[i].key = Append(KeyOf(nodes[i].parent), x)
          /\ nodes[i].legacy = Append(LegacyOf(nodes[i].parent), y)
      BY <1>1 DEF Named
    <2> HIDE DEF x, y
    <2>4. Append(KeyOf(nodes[i].parent), x) # <<>> /\ Append(LegacyOf(nodes[i].parent), y) # <<>>
      BY <2>1, <2>2, AppendProperties DEF DurableKeys
    <2> QED BY <2>3, <2>4
  <1>3. CASE p = 0 BY <1>1, <1>2, <1>3 DEF KeyOf, LegacyOf
  <1>4. CASE q = 0 BY <1>1, <1>2, <1>4 DEF KeyOf, LegacyOf
  <1>5. CASE p # 0 /\ q # 0 BY <1>1, <1>5 DEF KeyOf, LegacyOf, OneNodeEach
  <1> QED BY <1>3, <1>4, <1>5

\* A key that is built is a key of one more step.
LEMMA StepTyped ==
    ASSUME WalkTypeOK, NEW i \in 1 .. Len(nodes)
    PROVE  /\ <<nodes[i].segment, Place(nodes[i].parent, nodes[i].segment, nodes[i].nth)>> \in KeySegments
           /\ <<nodes[i].segment, nodes[i].order>> \in KeySegments
  <1>1. nodes[i].segment \in Segments /\ nodes[i].nth \in Nat /\ nodes[i].order \in Nat
    BY NodeFacts
  <1> QED BY <1>1 DEF KeySegments, Place

\* Until a second equal element is met, its first twin has a key of its own.
LEMMA FirstTwin ==
    ASSUME WalkInv, NEW p, NEW k, NEW s, Met(p, k, s), twins[<<p, s>>] = 1,
           NEW i \in 1 .. Len(nodes)
    PROVE  /\ nodes[i].key = Plain(k, s) <=> nodes[i].parent = p /\ nodes[i].segment = s
           /\ nodes[i].key # Append(k, <<s, 1>>)
           /\ nodes[i].parent = p /\ nodes[i].segment = s => nodes[i].nth = 1
  <1> DEFINE q == nodes[i].parent
             t == nodes[i].segment
             x == <<t, Place(q, t, nodes[i].nth)>>
  <1>1. /\ p \in 0 .. Len(nodes) /\ s \in Segments /\ k = KeyOf(p) /\ k \in DurableKeys
        /\ WalkTypeOK
    BY MetHere
  <1>2. q \in 0 .. Len(nodes) /\ KeyOf(q) \in DurableKeys /\ x \in KeySegments
    BY <1>1, NodeFacts, StepTyped
  <1>3. nodes[i].key = Append(KeyOf(q), x) BY DEF WalkInv, Named
  <1>4. <<s, 0>> \in KeySegments /\ <<s, 1>> \in KeySegments
    <2> QED BY <1>1 DEF KeySegments
  <1>5. nodes[i].nth \in 1 .. twins[<<q, t>>] BY DEF WalkInv, Counted
  <1>6. q = p /\ t = s => nodes[i].nth = 1 /\ x = <<s, 0>> BY <1>5 DEF Place
  <1> HIDE DEF q, t, x
  <1>7. ASSUME NEW n \in {0, 1}, Append(KeyOf(q), x) = Append(k, <<s, n>>)
        PROVE  q = p /\ x = <<s, n>>
    <2>1. KeyOf(q) = KeyOf(p) /\ x = <<s, n>> BY <1>1, <1>2, <1>4, <1>7, KeyParts
    <2> QED BY <2>1, <1>1, <1>2, ParentsAreKnown
  <1>8. \A n : x = <<s, n>> => t = s BY DEF x
  <1>9. nodes[i].key = Plain(k, s) <=> q = p /\ t = s
    BY <1>1, <1>3, <1>6, <1>7, <1>8 DEF Plain
  <1>10. nodes[i].key # Append(k, <<s, 1>>) BY <1>3, <1>6, <1>7, <1>8
  <1> QED BY <1>6, <1>9, <1>10 DEF q, t

\* The keys that nodes pass on to what stands below them, after a visit.
LEMMA PassedOn ==
    ASSUME WalkInv, NEW p, NEW k, NEW s, Met(p, k, s), NEW q \in 0 .. Len(nodes)
    PROVE  /\ twins[<<p, s>>] = 1 => KeyOf(q)' = MarkFirst(KeyOf(q), Plain(k, s))
           /\ twins[<<p, s>>] # 1 => KeyOf(q)' = KeyOf(q)
           /\ LegacyOf(q)' = LegacyOf(q)
           /\ KeyOf(p)' = k
  <1>1. /\ p \in 0 .. Len(nodes) /\ Len(nodes) \in Nat /\ k = KeyOf(p) /\ k \in DurableKeys
        /\ Plain(k, s) \in NonEmptyKeys /\ Len(Plain(k, s)) = Len(k) + 1
    BY MetHere
  <1>2. ASSUME NEW r \in 0 .. Len(nodes)
        PROVE  /\ twins[<<p, s>>] = 1 => KeyOf(r)' = MarkFirst(KeyOf(r), Plain(k, s))
               /\ twins[<<p, s>>] # 1 => KeyOf(r)' = KeyOf(r)
               /\ LegacyOf(r)' = LegacyOf(r)
    <2>1. CASE r = 0
      <3>1. MarkFirst(<<>>, Plain(k, s)) = <<>>
        BY <1>1, RootKey, ShortIsKept, KeyFacts DEF NonEmptyKeys
      <3> QED BY <2>1, <3>1 DEF KeyOf, LegacyOf
    <2>2. CASE r # 0
      <3>1. r \in 1 .. Len(nodes) BY <1>1, <2>2
      <3>2. KeyOf(r) = nodes[r].key /\ KeyOf(r)' = nodes'[r].key
            /\ LegacyOf(r) = nodes[r].legacy /\ LegacyOf(r)' = nodes'[r].legacy
        BY <2>2 DEF KeyOf, LegacyOf
      <3> QED BY <3>1, <3>2, MetOld
    <2> QED BY <2>1, <2>2
  <1>3. MarkFirst(k, Plain(k, s)) = k
    BY <1>1, KeyFacts, ShortIsKept
  <1> QED BY <1>1, <1>2, <1>3

Built(i, q, t, n) ==
    /\ nodes'[i].key = Append(KeyOf(q)', <<t, IF twins'[<<q, t>>] = 1 THEN 0 ELSE n>>)
    /\ nodes'[i].legacy = Append(LegacyOf(q)', <<t, nodes'[i].order>>)

Reads(node, q, t, n) == q = node.parent /\ t = node.segment /\ n = node.nth

\* The new key of a node that was there is built like the old one.
LEMMA OldIsNamed ==
    ASSUME WalkInv, NEW p, NEW k, NEW s, Met(p, k, s), NEW i \in 1 .. Len(nodes),
           NEW q, NEW t, NEW n, Reads(nodes[i], q, t, n)
    PROVE  Built(i, q, t, n)
  <1> DEFINE x == <<t, Place(q, t, n)>>
  <1>0. q = nodes[i].parent /\ t = nodes[i].segment /\ n = nodes[i].nth BY DEF Reads
  <1>1. /\ WalkTypeOK /\ p \in 0 .. Len(nodes) /\ p \in 0 .. MaxNodes /\ s \in Segments
        /\ k \in DurableKeys /\ k = KeyOf(p) /\ twins[<<p, s>>] \in Nat /\ Plain(k, s) \in NonEmptyKeys
    BY MetHere
  <1>2. /\ twins'[<<p, s>>] = twins[<<p, s>>] + 1
        /\ \A r \in 0 .. MaxNodes, u \in Segments :
               <<r, u>> # <<p, s>> => twins'[<<r, u>>] = twins[<<r, u>>]
    BY MetCounts
  <1>3. /\ nodes'[i].legacy = nodes[i].legacy /\ nodes'[i].order = nodes[i].order
        /\ twins[<<p, s>>] = 1 => nodes'[i].key = MarkFirst(nodes[i].key, Plain(k, s))
        /\ twins[<<p, s>>] # 1 => nodes'[i].key = nodes[i].key
    BY MetOld
  <1>4. /\ q \in 0 .. MaxNodes /\ q \in 0 .. Len(nodes) /\ t \in Segments
        /\ KeyOf(q) \in DurableKeys /\ x \in KeySegments
    BY <1>0, <1>1, NodeFacts, StepTyped
  <1>5. nodes[i].key = Append(KeyOf(q), x)
        /\ nodes[i].legacy = Append(LegacyOf(q), <<t, nodes[i].order>>)
    BY <1>0 DEF WalkInv, Named
  <1>6. n \in 1 .. twins[<<q, t>>] BY <1>0 DEF WalkInv, Counted
  <1>7. /\ twins[<<p, s>>] = 1 => KeyOf(q)' = MarkFirst(KeyOf(q), Plain(k, s))
        /\ twins[<<p, s>>] # 1 => KeyOf(q)' = KeyOf(q)
        /\ LegacyOf(q)' = LegacyOf(q)
        /\ KeyOf(p)' = k
    BY <1>4, PassedOn
  <1>8. twins[<<p, s>>] = 1 => (nodes[i].key = Plain(k, s) <=> q = p /\ t = s)
    BY <1>0, FirstTwin
  <1>9. <<q, t>> # <<p, s>> => (IF twins'[<<q, t>>] = 1 THEN 0 ELSE n) = Place(q, t, n)
    BY <1>2, <1>4 DEF Place
  <1>10. nodes'[i].legacy = Append(LegacyOf(q)', <<t, nodes'[i].order>>)
    BY <1>3, <1>5, <1>7
  <1>11. CASE twins[<<p, s>>] # 1
    <2>1. (IF twins'[<<q, t>>] = 1 THEN 0 ELSE n) = Place(q, t, n)
      <3>1. CASE <<q, t>> = <<p, s>>
        <4>1. q = p /\ t = s BY <3>1
        <4>2. twins[<<q, t>>] # 1 /\ twins'[<<q, t>>] # 1
          BY <4>1, <1>1, <1>2, <1>6, <1>11
        <4> QED BY <4>2 DEF Place
      <3> QED BY <3>1, <1>9
    <2> QED BY <2>1, <1>3, <1>5, <1>7, <1>10, <1>11 DEF Built
  <1>12. CASE twins[<<p, s>>] = 1 /\ nodes[i].key = Plain(k, s)
    <2>1. q = p /\ t = s BY <1>8, <1>12
    <2>2. n = 1 BY <2>1, <1>6, <1>12
    <2>3. nodes'[i].key = Append(KeyOf(q), <<t, 1>>)
      <3>1. x[1] = t OBVIOUS
      <3> HIDE DEF x
      <3>2. Append(KeyOf(q), x) = Plain(k, s) BY <1>5, <1>12
      <3>3. MarkFirst(Plain(k, s), Plain(k, s)) = Append(KeyOf(q), <<x[1], 1>>)
        BY <3>2, <1>1, <1>4, FirstIsMarked
      <3> QED BY <3>1, <3>3, <1>3, <1>12
    <2>4. twins'[<<q, t>>] # 1
      BY <2>1, <1>2, <1>12
    <2>5. KeyOf(q)' = KeyOf(q) BY <2>1, <1>1, <1>7
    <2> QED BY <2>2, <2>3, <2>4, <2>5, <1>10 DEF Built
  <1>13. CASE twins[<<p, s>>] = 1 /\ nodes[i].key # Plain(k, s)
    <2>1. <<q, t>> # <<p, s>> BY <1>8, <1>13
    <2>2. nodes'[i].key = Append(MarkFirst(KeyOf(q), Plain(k, s)), x)
      <3> HIDE DEF x
      <3>1. MarkFirst(Append(KeyOf(q), x), Plain(k, s)) = Append(MarkFirst(KeyOf(q), Plain(k, s)), x)
        BY SMTT(40), <1>1, <1>4, <1>5, <1>13, MarkAppend
      <3> QED BY <3>1, <1>3, <1>5, <1>13
    <2> QED BY <2>1, <2>2, <1>7, <1>9, <1>10, <1>13 DEF Built
  <1> QED BY <1>11, <1>12, <1>13

LEMMA NewIsNamed ==
    ASSUME WalkInv, NEW p, NEW k, NEW s, Met(p, k, s), NEW i, i = Len(nodes) + 1,
           NEW n, n = nodes'[i].nth
    PROVE  Built(i, p, s, n)
  <1>1. /\ n = twins[<<p, s>>] + 1
        /\ nodes'[i].key = Append(k, <<s, IF twins[<<p, s>>] = 0 THEN 0 ELSE n>>)
        /\ nodes'[i].legacy = Append(LegacyOf(p), <<s, nodes'[i].order>>)
    BY MetNew
  <1>2. p \in 0 .. Len(nodes) /\ twins[<<p, s>>] \in Nat BY MetHere
  <1>3. twins'[<<p, s>>] = twins[<<p, s>>] + 1 BY MetCounts
  <1>4. KeyOf(p)' = k /\ LegacyOf(p)' = LegacyOf(p) BY <1>2, PassedOn
  <1>5. (IF twins'[<<p, s>>] = 1 THEN 0 ELSE n) = IF twins[<<p, s>>] = 0 THEN 0 ELSE n
    BY <1>1, <1>2, <1>3
  <1> QED BY <1>1, <1>4, <1>5 DEF Built

LEMMA NamedStays ==
    ASSUME WalkInv, NEW p, NEW k, NEW s, Met(p, k, s)
    PROVE  Named'
  <1>1. ASSUME NEW i \in 1 .. Len(nodes'), NEW q, NEW t, NEW n, Reads(nodes'[i], q, t, n)
        PROVE  Built(i, q, t, n)
    <2>1. CASE i \in 1 .. Len(nodes)
      <3>1. Reads(nodes[i], q, t, n) BY <1>1, <2>1, MetOld DEF Reads
      <3> QED BY <2>1, <3>1, OldIsNamed
    <2>2. CASE i = Len(nodes) + 1
      <3>1. q = p /\ t = s /\ n = nodes'[i].nth BY <1>1, <2>2, MetNew DEF Reads
      <3> QED BY <3>1, <2>2, NewIsNamed
    <2>3. 1 .. Len(nodes') = 1 .. Len(nodes) \cup {Len(nodes) + 1} BY MetNew
    <2> QED BY <2>1, <2>2, <2>3
  <1> SUFFICES ASSUME NEW i \in 1 .. Len(nodes'), NEW q, NEW t, NEW n, Reads(nodes'[i], q, t, n)
               PROVE  Built(i, q, t, n)
    BY DEF Named, Place, Built, Reads
  <1> QED BY <1>1

\* The second of several equal elements takes no name that another node has:
\* nothing was called the first of several before there were several.
LEMMA NameIsFree ==
    ASSUME WalkInv, NEW p, NEW k, NEW s, Met(p, k, s), twins[<<p, s>>] = 1,
           NEW i \in 1 .. Len(nodes)
    PROVE  ~StartsWith(nodes[i].key, Marked(Plain(k, s)))
  <1> DEFINE m == Append(k, <<s, 1>>)
             l == nodes[i].key
  <1>1. WalkTypeOK /\ k \in DurableKeys /\ s \in Segments /\ Plain(k, s) \in NonEmptyKeys
        /\ Len(Plain(k, s)) = Len(k) + 1
    BY MetHere
  <1>2. <<s, 0>> \in KeySegments /\ <<s, 1>> \in KeySegments
    <2> QED BY <1>1 DEF KeySegments
  <1>3. m \in DurableKeys /\ Len(m) = Len(k) + 1 /\ (\A j \in 1 .. Len(k) : m[j] = k[j])
        /\ m[Len(k) + 1] = <<s, 1>> /\ Len(k) \in Nat
    BY <1>1, <1>2, AppendFacts, KeyFacts
  <1>4. (\A j \in 1 .. Len(k) : Plain(k, s)[j] = k[j]) /\ Plain(k, s)[Len(k) + 1] = <<s, 0>>
    BY <1>1, <1>2, AppendFacts DEF Plain
  <1>5. /\ Marked(Plain(k, s)) \in DurableKeys
        /\ Len(Marked(Plain(k, s))) = Len(k) + 1
        /\ \A j \in 1 .. Len(k) + 1 : Marked(Plain(k, s))[j] =
             IF j = Len(k) + 1 THEN <<Plain(k, s)[j][1], 1>> ELSE Plain(k, s)[j]
    BY <1>1, MarkedFacts
  <1> HIDE DEF m
  <1>6. Marked(Plain(k, s)) = m
    <2>1. Marked(Plain(k, s))[Len(k) + 1] = <<s, 1>> BY <1>3, <1>4, <1>5
    <2>2. \A j \in 1 .. Len(k) : Marked(Plain(k, s))[j] = k[j] BY <1>3, <1>4, <1>5
    <2>3. \A j \in 1 .. Len(k) + 1 : Marked(Plain(k, s))[j] = m[j]
      BY <2>1, <2>2, <1>3
    <2> QED BY <2>3, <1>3, <1>5, SameKey
  <1>7. l \in DurableKeys /\ Len(l) \in Nat BY <1>1, NodeFacts, KeyFacts
  <1>8. SUFFICES ASSUME StartsWith(l, m) PROVE FALSE BY <1>6
  <1>9. Len(m) \in 1 .. Len(l) /\ SubSeq(l, 1, Len(m)) = m BY <1>3, <1>7, <1>8 DEF StartsWith
  <1>10. PICK j \in 1 .. Len(nodes) : nodes[j].key = m
    BY <1>9 DEF WalkInv, PrefixesAreKeys
  <1> QED BY <1>10, FirstTwin DEF m

LEMMA KeysStayApart ==
    ASSUME WalkInv, NEW p, NEW k, NEW s, Met(p, k, s),
           NEW i \in 1 .. Len(nodes), NEW j \in 1 .. Len(nodes), nodes'[i].key = nodes'[j].key
    PROVE  nodes[i].key = nodes[j].key
  <1>1. nodes[i].key \in DurableKeys /\ nodes[j].key \in DurableKeys
        /\ Plain(k, s) \in NonEmptyKeys
    BY MetHere, NodeFacts
  <1>2. CASE twins[<<p, s>>] # 1 BY <1>2, MetOld
  <1>3. CASE twins[<<p, s>>] = 1
    <2>1. MarkFirst(nodes[i].key, Plain(k, s)) = MarkFirst(nodes[j].key, Plain(k, s))
      BY <1>3, MetOld
    <2>2. ~StartsWith(nodes[i].key, Marked(Plain(k, s)))
          /\ ~StartsWith(nodes[j].key, Marked(Plain(k, s)))
      BY <1>3, NameIsFree
    <2> QED BY <1>1, <2>1, <2>2, MarkIsInjective
  <1> QED BY <1>2, <1>3

LEMMA PassedOnTyped ==
    ASSUME WalkInv, NEW p, NEW k, NEW s, Met(p, k, s), NEW q \in 0 .. Len(nodes)
    PROVE  KeyOf(q)' \in DurableKeys /\ LegacyOf(q)' \in DurableKeys
  <1>1. WalkTypeOK /\ Plain(k, s) \in NonEmptyKeys BY MetHere
  <1>2. KeyOf(q) \in DurableKeys /\ LegacyOf(q) \in DurableKeys BY <1>1, NodeFacts
  <1>3. MarkFirst(KeyOf(q), Plain(k, s)) \in DurableKeys BY <1>1, <1>2, MarkFacts
  <1>4. CASE twins[<<p, s>>] = 1 BY <1>2, <1>3, <1>4, PassedOn
  <1>5. CASE twins[<<p, s>>] # 1 BY <1>2, <1>5, PassedOn
  <1> QED BY <1>4, <1>5

LEMMA ParentsStayApart ==
    ASSUME WalkInv, NEW p, NEW k, NEW s, Met(p, k, s), WalkTypeOK', Named',
           NEW q \in 0 .. Len(nodes), NEW r \in 0 .. Len(nodes),
           KeyOf(q)' = KeyOf(r)' \/ LegacyOf(q)' = LegacyOf(r)'
    PROVE  q = r
  <1>1. WalkTypeOK /\ Len(nodes) \in Nat /\ Len(nodes') = Len(nodes) + 1
    BY MetHere DEF Met
  <1>2. CASE LegacyOf(q)' = LegacyOf(r)'
    <2>1. LegacyOf(q) = LegacyOf(r) BY <1>2, PassedOn
    <2> QED BY <2>1, ParentsAreKnown
  <1>3. CASE KeyOf(q)' = KeyOf(r)'
    <2>1. ASSUME NEW i \in 1 .. Len(nodes) PROVE Len(nodes'[i].key) > 0
      <3>1. nodes[i].key = Append(KeyOf(nodes[i].parent),
               <<nodes[i].segment, Place(nodes[i].parent, nodes[i].segment, nodes[i].nth)>>)
        BY DEF WalkInv, Named
      <3>2. KeyOf(nodes[i].parent) \in DurableKeys /\ nodes[i].key \in DurableKeys
        BY <1>1, NodeFacts
      <3>3. <<nodes[i].segment, Place(nodes[i].parent, nodes[i].segment, nodes[i].nth)>> \in KeySegments
        BY <1>1, StepTyped
      <3>4. Len(nodes[i].key) = Len(KeyOf(nodes[i].parent)) + 1 /\ Len(KeyOf(nodes[i].parent)) \in Nat
        BY <3>1, <3>2, <3>3, AppendFacts, KeyFacts
      <3>5. Len(MarkFirst(nodes[i].key, Plain(k, s))) = Len(nodes[i].key)
        BY <3>2, MetHere, MarkFacts
      <3>6. nodes'[i].key = nodes[i].key \/ nodes'[i].key = MarkFirst(nodes[i].key, Plain(k, s))
        <4>1. CASE twins[<<p, s>>] = 1 BY <4>1, MetOld
        <4>2. CASE twins[<<p, s>>] # 1 BY <4>2, MetOld
        <4> QED BY <4>1, <4>2
      <3> QED BY <3>4, <3>5, <3>6
    <2>2. CASE q = 0 /\ r # 0
      <3>1. r \in 1 .. Len(nodes) /\ KeyOf(r)' = nodes'[r].key /\ KeyOf(q)' = <<>>
        BY <2>2, <1>1 DEF KeyOf
      <3>2. Len(nodes'[r].key) > 0 BY <3>1, <2>1
      <3>3. nodes'[r].key = <<>> BY <3>1, <1>3
      <3> QED BY <3>2, <3>3, RootKey
    <2>3. CASE r = 0 /\ q # 0
      <3>1. q \in 1 .. Len(nodes) /\ KeyOf(q)' = nodes'[q].key /\ KeyOf(r)' = <<>>
        BY <2>3, <1>1 DEF KeyOf
      <3>2. Len(nodes'[q].key) > 0 BY <3>1, <2>1
      <3>3. nodes'[q].key = <<>> BY <3>1, <1>3
      <3> QED BY <3>2, <3>3, RootKey
    <2>4. CASE q # 0 /\ r # 0
      <3>1. q \in 1 .. Len(nodes) /\ r \in 1 .. Len(nodes)
            /\ KeyOf(q)' = nodes'[q].key /\ KeyOf(r)' = nodes'[r].key
            /\ KeyOf(q) = nodes[q].key /\ KeyOf(r) = nodes[r].key
        BY <2>4, <1>1 DEF KeyOf
      <3>2. KeyOf(q) = KeyOf(r) BY <3>1, <1>3, KeysStayApart
      <3> QED BY <3>2, ParentsAreKnown
    <2> QED BY <2>2, <2>3, <2>4
  <1> QED BY <1>2, <1>3

\* Two nodes with a name in common are one.
LEMMA OneNodeStays ==
    ASSUME WalkInv, NEW p, NEW k, NEW s, Met(p, k, s), WalkTypeOK', Named', Counted'
    PROVE  OneNodeEach'
  <1> DEFINE new == Len(nodes) + 1
  <1>1. 1 .. Len(nodes') = 1 .. Len(nodes) \cup {new} /\ nodes'[new].parent = p
        /\ new \notin 1 .. Len(nodes) /\ nodes'[new].segment = s
        /\ nodes'[new].nth = twins[<<p, s>>] + 1 /\ nodes'[new].order = orders[p] + 1
    BY MetNew
  <1>2. WalkTypeOK /\ s \in Segments /\ twins[<<p, s>>] \in Nat /\ orders[p] \in Nat /\ p \in 0 .. Len(nodes) BY MetHere
  <1>3. ASSUME NEW i \in 1 .. Len(nodes), NEW j \in 1 .. Len(nodes), i # j
        PROVE  nodes'[i].key # nodes'[j].key /\ nodes'[i].legacy # nodes'[j].legacy
    <2>1. nodes[i].key # nodes[j].key /\ nodes[i].legacy # nodes[j].legacy
      BY <1>3 DEF WalkInv, OneNodeEach
    <2>2. nodes'[i].key # nodes'[j].key BY <2>1, KeysStayApart
    <2>3. nodes'[i].legacy = nodes[i].legacy /\ nodes'[j].legacy = nodes[j].legacy BY MetOld
    <2> QED BY <2>1, <2>2, <2>3
  <1>4. ASSUME NEW i \in 1 .. Len(nodes)
        PROVE  nodes'[i].key # nodes'[new].key /\ nodes'[i].legacy # nodes'[new].legacy
    <2>1. PICK q, t, n, x, y :
            /\ q = nodes'[i].parent /\ t = nodes'[i].segment /\ n = nodes'[i].nth
            /\ x = <<t, IF twins'[<<q, t>>] = 1 THEN 0 ELSE n>>
            /\ y = <<t, nodes'[i].order>>
      OBVIOUS
    <2>2. PICK m, u, v :
            /\ m = nodes'[new].nth
            /\ u = <<s, IF twins'[<<p, s>>] = 1 THEN 0 ELSE m>>
            /\ v = <<s, nodes'[new].order>>
      OBVIOUS
    <2>3. /\ nodes'[i].parent = nodes[i].parent /\ nodes'[i].segment = nodes[i].segment
          /\ nodes'[i].nth = nodes[i].nth /\ nodes'[i].order = nodes[i].order
      BY MetOld
    <2>4. /\ q \in 0 .. Len(nodes) /\ q \in 0 .. MaxNodes /\ t \in Segments
          /\ n \in Nat /\ nodes[i].order \in Nat
      BY <1>2, <2>1, <2>3, NodeFacts
    <2>5. /\ nodes'[i].key = Append(KeyOf(q)', x) /\ nodes'[i].legacy = Append(LegacyOf(q)', y)
          /\ nodes'[new].key = Append(KeyOf(p)', u) /\ nodes'[new].legacy = Append(LegacyOf(p)', v)
      BY <1>1, <2>1, <2>2 DEF Named, Place
    <2>6. /\ KeyOf(q)' \in DurableKeys /\ LegacyOf(q)' \in DurableKeys
          /\ KeyOf(p)' \in DurableKeys /\ LegacyOf(p)' \in DurableKeys
      BY <1>2, <2>4, PassedOnTyped
    <2>7. x \in KeySegments /\ y \in KeySegments /\ u \in KeySegments /\ v \in KeySegments
      <3> HIDE DEF new
      <3>1. m \in Nat BY <1>1, <1>2, <2>2
      <3>2. nodes'[new].order \in Nat BY <1>1, <1>2
      <3>3. nodes'[i].order \in Nat BY <2>3, <2>4
      <3>4. \A a \in Segments, b \in Nat : <<a, b>> \in KeySegments BY DEF KeySegments
      <3>5. x \in KeySegments /\ y \in KeySegments BY <2>1, <2>4, <3>3, <3>4
      <3>6. u \in KeySegments /\ v \in KeySegments BY <1>2, <2>2, <3>1, <3>2, <3>4
      <3> QED BY <3>5, <3>6
    <2>8. ASSUME q = p, t = s PROVE n # m /\ nodes'[i].order # nodes'[new].order
      <3>1. i \in 1 .. Len(nodes') /\ new \in 1 .. Len(nodes') /\ i # new BY <1>1
      <3>2. nodes'[i].parent = nodes'[new].parent /\ nodes'[i].segment = nodes'[new].segment
        BY <1>1, <2>1, <2>8
      <3> HIDE DEF new
      <3> QED BY <3>1, <3>2, <2>1, <2>2 DEF Counted
    <2>9. q = p /\ t = s => twins[<<p, s>>] # 0 /\ twins'[<<p, s>>] # 1
      <3>1. nodes[i].nth \in 1 .. twins[<<nodes[i].parent, nodes[i].segment>>]
        BY DEF WalkInv, Counted
      <3>2. twins'[<<p, s>>] = twins[<<p, s>>] + 1 BY MetCounts
      <3> QED BY <3>1, <3>2, <2>1, <2>3, <1>2
    <2>10. ASSUME q = p, x = u PROVE FALSE
      <3>1. t = s BY <2>1, <2>2, <2>10
      <3>2. n = m BY <3>1, <2>1, <2>2, <2>9, <2>10
      <3> QED BY <3>1, <3>2, <2>8, <2>10
    <2>11. ASSUME q = p, y = v PROVE FALSE
      BY <2>1, <2>2, <2>8, <2>11
    <2>12. nodes'[i].key # nodes'[new].key
      <3> SUFFICES ASSUME Append(KeyOf(q)', x) = Append(KeyOf(p)', u) PROVE FALSE BY <2>5
      <3>1. KeyOf(q)' = KeyOf(p)' /\ x = u BY <2>6, <2>7, KeyParts
      <3>2. q = p BY <3>1, <2>4, <1>2, ParentsStayApart
      <3> QED BY <3>1, <3>2, <2>10
    <2>13. nodes'[i].legacy # nodes'[new].legacy
      <3> SUFFICES ASSUME Append(LegacyOf(q)', y) = Append(LegacyOf(p)', v) PROVE FALSE BY <2>5
      <3>1. LegacyOf(q)' = LegacyOf(p)' /\ y = v BY <2>6, <2>7, KeyParts
      <3>2. q = p BY <3>1, <2>4, <1>2, ParentsStayApart
      <3> QED BY <3>1, <3>2, <2>11
    <2> QED BY <2>12, <2>13
  <1> QED BY <1>1, <1>3, <1>4 DEF OneNodeEach

LEMMA PrefixesStay ==
    ASSUME WalkInv, NEW p, NEW k, NEW s, Met(p, k, s)
    PROVE  PrefixesAreKeys'
  <1> DEFINE new == Len(nodes) + 1
             plain == Plain(k, s)
  <1>1. 1 .. Len(nodes') = 1 .. Len(nodes) \cup {new} BY MetNew
  <1>2. /\ WalkTypeOK /\ Len(nodes) \in Nat /\ p \in 0 .. Len(nodes) /\ k \in DurableKeys /\ k = KeyOf(p)
        /\ s \in Segments /\ twins[<<p, s>>] \in Nat
        /\ plain \in NonEmptyKeys /\ Len(plain) = Len(k) + 1
    BY MetHere
  <1> HIDE DEF new, plain
  <1>3. ASSUME NEW i \in 1 .. Len(nodes), NEW n \in 1 .. Len(nodes'[i].key)
        PROVE  \E j \in 1 .. Len(nodes) : nodes'[j].key = SubSeq(nodes'[i].key, 1, n)
    <2>1. nodes[i].key \in DurableKeys /\ Len(nodes[i].key) \in Nat BY <1>2, NodeFacts, KeyFacts
    <2>2. CASE twins[<<p, s>>] # 1
      <3>1. nodes'[i].key = nodes[i].key BY <2>2, MetOld
      <3>2. PICK j \in 1 .. Len(nodes) : nodes[j].key = SubSeq(nodes[i].key, 1, n)
        BY <1>3, <3>1 DEF WalkInv, PrefixesAreKeys
      <3>3. nodes'[j].key = nodes[j].key BY <2>2, MetOld
      <3> QED BY <3>1, <3>2, <3>3
    <2>3. CASE twins[<<p, s>>] = 1
      <3>1. nodes'[i].key = MarkFirst(nodes[i].key, plain) BY <2>3, MetOld DEF plain
      <3>2. n \in 1 .. Len(nodes[i].key) BY <1>2, <1>3, <2>1, <3>1, MarkFacts
      <3>3. PICK j \in 1 .. Len(nodes) : nodes[j].key = SubSeq(nodes[i].key, 1, n)
        BY <3>2 DEF WalkInv, PrefixesAreKeys
      <3>4. nodes'[j].key = MarkFirst(nodes[j].key, plain) BY <2>3, MetOld DEF plain
      <3>5. n \in 0 .. Len(nodes[i].key) BY <3>2
      <3>6. SubSeq(MarkFirst(nodes[i].key, plain), 1, n) = MarkFirst(SubSeq(nodes[i].key, 1, n), plain)
        BY <3>5, <2>1, <1>2, MarkPrefix
      <3> QED BY <3>1, <3>3, <3>4, <3>6
    <2> QED BY <2>2, <2>3
  <1>4. ASSUME NEW n \in 1 .. Len(nodes'[new].key)
        PROVE  \E j \in 1 .. Len(nodes') : nodes'[j].key = SubSeq(nodes'[new].key, 1, n)
    <2>1. PICK x : x = <<s, IF twins[<<p, s>>] = 0 THEN 0 ELSE nodes'[new].nth>> OBVIOUS
    <2>2. nodes'[new].key = Append(k, x) /\ nodes'[new].nth = twins[<<p, s>>] + 1
      BY <2>1, MetNew DEF new
    <2>3. x \in KeySegments
      <3> QED BY <1>2, <2>1, <2>2 DEF KeySegments
    <2>4. Len(Append(k, x)) = Len(k) + 1 /\ Len(k) \in Nat BY <1>2, <2>3, AppendFacts, KeyFacts
    <2>5. CASE n = Len(k) + 1
      <3>1. SubSeq(Append(k, x), 1, n) = Append(k, x) BY <2>3, <2>5, <1>2, AppendPrefix
      <3> QED BY <3>1, <2>2, <1>1
    <2>6. CASE n \in 1 .. Len(k)
      <3>1. SubSeq(Append(k, x), 1, n) = SubSeq(k, 1, n)
        <4>1. n \in 0 .. Len(k) BY <2>6
        <4> QED BY <4>1, <2>3, <1>2, AppendPrefix
      <3>2. p \in 1 .. Len(nodes) /\ k = nodes[p].key
        <4>1. p # 0 BY <2>6, <1>2, RootKey DEF KeyOf
        <4> QED BY <4>1, <1>2 DEF KeyOf
      <3>3. PICK j \in 1 .. Len(nodes) : nodes[j].key = SubSeq(k, 1, n)
        BY <3>2, <2>6 DEF WalkInv, PrefixesAreKeys
      <3>4. nodes[j].key \in DurableKeys BY <1>2, NodeFacts
      <3>5. Len(nodes[j].key) < Len(plain)
        <4>1. Len(SubSeq(k, 1, n)) = n
          <5>1. n \in 0 .. Len(k) BY <2>6
          <5> QED BY <5>1, <1>2, PrefixFacts
        <4> QED BY <4>1, <3>3, <2>4, <2>6, <1>2
      <3>6. nodes'[j].key = nodes[j].key
        <4>1. MarkFirst(nodes[j].key, plain) = nodes[j].key
          BY <3>4, <3>5, <1>2, ShortIsKept
        <4>2. CASE twins[<<p, s>>] = 1 BY <4>1, <4>2, MetOld DEF plain
        <4>3. CASE twins[<<p, s>>] # 1 BY <4>3, MetOld
        <4> QED BY <4>2, <4>3
      <3> QED BY <3>1, <3>3, <3>6, <2>2, <1>1
    <2>7. n \in 1 .. Len(k) + 1
      <3>1. Len(nodes'[new].key) = Len(k) + 1 BY <2>2, <2>4
      <3> QED BY <3>1
    <2>8. n = Len(k) + 1 \/ n \in 1 .. Len(k)
      <3>1. Len(k) \in Nat BY <2>4
      <3> QED BY <3>1, <2>7
    <2> QED BY <2>5, <2>6, <2>8
  <1> QED BY <1>1, <1>3, <1>4 DEF PrefixesAreKeys

LEMMA CallsStay ==
    ASSUME WalkInv, NEW p, NEW k, NEW s, Met(p, k, s)
    PROVE  CallsHoldKeys'
  <1> DEFINE new == Len(nodes) + 1
             plain == Plain(k, s)
             Calls == [node : Nat, key : DurableKeys]
             call == [node |-> new, key |-> NewNode(p, k, s).key]
             kept == SubSeq(open, 1, Len(k))
  <1>1. 1 .. Len(nodes') = 1 .. Len(nodes) \cup {new} BY MetNew
  <1>2. /\ WalkTypeOK /\ Len(nodes) \in Nat /\ p \in 0 .. Len(nodes) /\ k \in DurableKeys /\ k = KeyOf(p)
        /\ s \in Segments /\ twins[<<p, s>>] \in Nat
        /\ plain \in NonEmptyKeys /\ Len(plain) = Len(k) + 1
    BY MetHere
  <1>3. Len(k) \in 0 .. Len(open) /\ Len(open) \in Nat BY <1>2, NodeFacts DEF Met
  <1>4. NewNode(p, k, s) \in WalkNodes /\ nodes'[new] = NewNode(p, k, s)
    BY <1>2, NewNodeTyped DEF Met
  <1>5. call \in Calls BY <1>2, <1>4 DEF WalkNodes
  <1>6. \A d \in 1 .. Len(k) : open[d] \in Calls BY <1>2, <1>3, NodeFacts
  <1>7. open' = Append(kept, call) BY DEF Met
  <1> HIDE DEF new, plain, Calls, call, kept
  <1>8. kept \in Seq(Calls) /\ Len(kept) = Len(k) /\ \A d \in 1 .. Len(k) : kept[d] = open[d]
    BY <1>3, <1>6, SubSeqProperties DEF kept
  <1>9. /\ Len(open') = Len(k) + 1 /\ open'[Len(k) + 1] = call
        /\ \A d \in 1 .. Len(k) : open'[d] = open[d]
    BY <1>5, <1>7, <1>8, AppendProperties
  <1>10. ASSUME NEW d \in 1 .. Len(k)
         PROVE  /\ open[d].node \in 1 .. Len(nodes')
                /\ nodes'[open[d].node].key = open[d].key
                /\ Len(open[d].key) = d
    <2>1. /\ open[d].node \in 1 .. Len(nodes)
          /\ nodes[open[d].node].key = open[d].key
          /\ Len(open[d].key) = d
      BY <1>3 DEF WalkInv, CallsHoldKeys
    <2>2. PICK i \in 1 .. Len(nodes) : i = open[d].node BY <2>1
    <2>3. nodes[i].key \in DurableKeys /\ Len(nodes[i].key) < Len(plain)
      BY <2>1, <2>2, <1>2, <1>3, NodeFacts
    <2>4. MarkFirst(nodes[i].key, plain) = nodes[i].key BY <2>3, <1>2, ShortIsKept
    <2>5. nodes'[i].key = nodes[i].key
      <3>1. CASE twins[<<p, s>>] = 1 BY <2>4, <3>1, MetOld DEF plain
      <3>2. CASE twins[<<p, s>>] # 1 BY <3>2, MetOld
      <3> QED BY <3>1, <3>2
    <2> QED BY <2>1, <2>2, <2>5, <1>1
  <1>11. /\ call.node \in 1 .. Len(nodes') /\ nodes'[call.node].key = call.key
         /\ Len(call.key) = Len(k) + 1
    <2>1. call.node = new /\ call.key = NewNode(p, k, s).key BY DEF call
    <2>2. PICK x : x = <<s, IF twins[<<p, s>>] = 0 THEN 0 ELSE nodes'[new].nth>> OBVIOUS
    <2>3. nodes'[new].key = Append(k, x) /\ nodes'[new].nth = twins[<<p, s>>] + 1
      BY <2>2, MetNew DEF new
    <2>4. x \in KeySegments
      <3> QED BY <1>2, <2>2, <2>3 DEF KeySegments
    <2>5. Len(Append(k, x)) = Len(k) + 1 BY <1>2, <2>4, AppendFacts
    <2> QED BY <2>1, <2>3, <2>5, <1>1, <1>4
  <1>12. \A d \in 1 .. Len(open') : d \in 1 .. Len(k) \/ d = Len(k) + 1 BY <1>3, <1>9
  <1> QED BY <1>9, <1>10, <1>11, <1>12 DEF CallsHoldKeys

LEMMA WalkInvInit == WalkInit => WalkInv
  <1> SUFFICES ASSUME WalkInit PROVE WalkInv OBVIOUS
  <1>1. nodes = <<>> /\ open = <<>> /\ Len(nodes) = 0 /\ Len(open) = 0 BY DEF WalkInit
  <1>2. nodes \in Seq(WalkNodes) /\ open \in Seq([node : Nat, key : DurableKeys])
    BY <1>1, EmptySeq
  <1>3. twins \in [(0 .. MaxNodes) \X Segments -> Nat] /\ orders \in [0 .. MaxNodes -> Nat]
    <2> QED BY DEF WalkInit
  <1>4. WalkTypeOK BY <1>1, <1>2, <1>3, WalkAssumption DEF WalkTypeOK
  <1>5. Counted
    <2>1. \A p \in 0 .. MaxNodes, s \in Segments : twins[<<p, s>>] = 0
      <3> QED BY DEF WalkInit
    <2> QED BY <1>1, <2>1 DEF Counted
  <1> QED BY <1>1, <1>4, <1>5 DEF WalkInv, Named, OneNodeEach, PrefixesAreKeys, CallsHoldKeys

LEMMA WalkInvNext == WalkInv /\ [WalkNext]_walkVars => WalkInv'
  <1> SUFFICES ASSUME WalkInv, [WalkNext]_walkVars PROVE WalkInv' OBVIOUS
  <1>1. CASE UNCHANGED <<nodes, open, twins, orders>>
    <2>1. nodes' = nodes /\ open' = open /\ twins' = twins /\ orders' = orders BY <1>1
    <2>2. WalkTypeOK' BY <2>1 DEF WalkInv, WalkTypeOK
    <2>3. Counted'
      <3>1. Counted BY DEF WalkInv
      <3> QED BY SMTT(40), <2>1, <3>1 DEF Counted
    <2>4. Named' BY <2>1 DEF WalkInv, Named, Place, KeyOf, LegacyOf
    <2>5. OneNodeEach' /\ PrefixesAreKeys' /\ CallsHoldKeys'
      BY <2>1 DEF WalkInv, OneNodeEach, PrefixesAreKeys, CallsHoldKeys
    <2> QED BY <2>2, <2>3, <2>4, <2>5 DEF WalkInv
  <1>2. CASE \E p, k, s : Met(p, k, s)
    <2>1. PICK p, k, s : Met(p, k, s) BY <1>2
    <2>2. WalkTypeOK' /\ Counted' /\ Named' BY <2>1, WalkTyped, CountedStays, NamedStays
    <2>3. OneNodeEach' BY <2>1, <2>2, OneNodeStays
    <2> QED BY <2>1, <2>2, <2>3, PrefixesStay, CallsStay DEF WalkInv
  <1>3. ASSUME WalkNext PROVE UNCHANGED <<nodes, open, twins, orders>> \/ \E p, k, s : Met(p, k, s)
    <2>1. PICK d \in 0 .. Len(open), s \in Segments : Visit(d, s) BY <1>3 DEF WalkNext
    <2> QED BY <2>1, VisitMeets
  <1> QED BY <1>1, <1>2, <1>3 DEF walkVars

\* A node has no twin when the counter of its segment is at one.
LEMMA KeysAreNamed == WalkInv => KeysNameNodes
  <1> SUFFICES ASSUME WalkInv PROVE KeysNameNodes OBVIOUS
  <1>1. WalkTypeOK /\ Named /\ Counted BY DEF WalkInv
  <1>2. ASSUME NEW i \in 1 .. Len(nodes)
        PROVE  Twins(i) = {i} <=> twins[<<nodes[i].parent, nodes[i].segment>>] = 1
    <2> PICK p, s : p = nodes[i].parent /\ s = nodes[i].segment OBVIOUS
    <2>1. nodes[i].nth \in 1 .. twins[<<p, s>>] BY <1>1 DEF Counted
    <2>2. p \in 0 .. MaxNodes /\ s \in Segments /\ twins[<<p, s>>] \in Nat BY <1>1, NodeFacts
    <2>3. ASSUME twins[<<p, s>>] = 1, NEW j \in Twins(i) PROVE j = i
      <3>1. j \in 1 .. Len(nodes) /\ nodes[j].parent = p /\ nodes[j].segment = s BY <2>3 DEF Twins
      <3>2. nodes[j].nth \in 1 .. twins[<<p, s>>] BY <3>1, <1>1 DEF Counted
      <3>3. nodes[i].nth = 1 /\ nodes[j].nth = 1 BY <2>1, <2>3, <3>2
      <3> QED BY <3>1, <3>3, <1>1 DEF Counted
    <2>4. ASSUME twins[<<p, s>>] # 1 PROVE \E j \in Twins(i) : j # i
      <3>1. twins[<<p, s>>] > 1 BY <2>1, <2>2, <2>4
      <3>2. NotAlone(p, s, nodes[i].nth) BY <3>1, <1>1, <2>2, SeveralAreNotAlone
      <3> QED BY <3>2 DEF Twins, NotAlone
    <2>5. i \in Twins(i) BY DEF Twins
    <2> QED BY <2>3, <2>4, <2>5
  <1>3. ASSUME NEW i \in 1 .. Len(nodes)
        PROVE  nodes[i].key = Append(KeyOf(nodes[i].parent),
                   <<nodes[i].segment, IF Twins(i) = {i} THEN 0 ELSE nodes[i].nth>>)
    BY <1>1, <1>2 DEF Named, Place
  <1> QED BY <1>3 DEF WalkInv, KeysNameNodes, OneNodeEach, CallsHoldKeys

(***************************************************************************)
(* parseLawXml gives every node of a document, whatever the document, two  *)
(* names that no other node has, and the durable one says which of several *)
(* equal elements is meant exactly where there are several.                *)
(***************************************************************************)
THEOREM NodesAreNamed == WalkSpec => []KeysNameNodes
BY WalkInvInit, WalkInvNext, KeysAreNamed, PTL DEF WalkSpec
=============================================================================
