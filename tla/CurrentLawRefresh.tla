-------------------------- MODULE CurrentLawRefresh --------------------------
(***************************************************************************)
(* The incremental refresh of the current laws: refreshCurrentLaws and     *)
(* processOneLaw (refresh-service.ts) over the rows RefreshRepository      *)
(* writes (refresh-repository.ts), driven by the command-line tool         *)
(* (refresh-current-laws.ts).                                              *)
(*                                                                         *)
(* A process executes one run.  It takes the advisory lock, creates the    *)
(* run row, pushes every law through a pool of workers and closes the run. *)
(* A worker's program counter stands between two awaits of processOneLaw;  *)
(* a database transaction is one action.                                   *)
(*                                                                         *)
(* A version key of a law is a number that also stands for its date of     *)
(* enforcement; 0 is NULL.  The row of version v of law l is the           *)
(* LawRevision with officialVersionKey v (id rev_<v>).  An XML document is *)
(* the pair <<version, edition>> it was written for: an edition above 0 is *)
(* a correction e-Gov made under the same version key.  Checksums are      *)
(* equal exactly when the documents are.                                   *)
(***************************************************************************)
EXTENDS Naturals, FiniteSets

CONSTANTS
    Laws,         \* Law.id of the laws the run is asked to refresh
    Runs,         \* processes, each of which executes at most one run
    NoRun,        \* no process; also the package of the seeded revisions
    MaxVersion,   \* bound: version keys e-Gov publishes per law
    MaxEdition,   \* bound: corrections of one published document
    Concurrency,  \* EGOV_CONCURRENCY, the size of the worker pool
    Modes,        \* the --check / --dry-run / refresh modes runs are given
    AsOfs,        \* the --asof dates runs are given (MaxVersion is "today")
    InitKinds     \* what the catalogue scripts left behind, see Init

ASSUME RefreshAssumption ==
    /\ NoRun \notin Runs
    /\ MaxVersion \in Nat \ {0}
    /\ MaxEdition \in Nat
    /\ Concurrency \in Nat \ {0}
    /\ Modes \subseteq {"check", "dry-run", "refresh"}
    /\ AsOfs \subseteq 1..MaxVersion
    /\ InitKinds \subseteq {"empty", "seeded", "synced"}

VARIABLES
    inForce,    \* e-Gov: the newest version of each law
    edition,    \* e-Gov: corrections made to each version's document
    current,    \* Law.currentRevisionId
    status,     \* LawRevision.status per law and version
    text,       \* LawRevision.xmlChecksum (and the Articles made from it)
    pkgOf,      \* LawRevision.packageId, named by the run of the package
    observed,   \* LawSyncState.lastObservedVersionKey
    syncError,  \* LawSyncState.lastErrorCode is set
    store,      \* the XML store: the document kept under (law, version)
    runRow,     \* LawRefreshRun.status
    result,     \* LawRefreshLawResult.status per run and law
    pkgStatus,  \* LawPackage.status of the package of a run
    lock,       \* the process whose session holds the advisory lock
    phase,      \* where a process stands
    mode,       \* its command-line mode
    asOf,       \* its target date
    work        \* per run and law: the worker's local variables

egovVars == <<inForce, edition>>
revVars  == <<current, status, text, pkgOf>>
syncVars == <<observed, syncError>>
runVars  == <<runRow, result, pkgStatus>>
procVars == <<lock, phase, mode, asOf>>
dbVars   == <<revVars, syncVars, runVars>>
vars     == <<egovVars, revVars, syncVars, store, runVars, procVars, work>>

-----------------------------------------------------------------------------
Versions == 1..MaxVersion
Texts    == (0..MaxVersion) \X (0..MaxEdition)
NoText   == <<0, 0>>

RevisionStatus == {"absent", "staged", "active", "superseded"}
ResultStatus   == {"none", "unchanged", "updated", "held", "failed"}
Steps == {"todo", "prevRead", "ready", "unchanged", "fetch", "fetched",
          "stored", "stage", "staging", "staged", "done"}

\* The local variables of a worker before it has read anything.
Fresh == [pc |-> "todo", prev |-> 0, obs |-> 0, key |-> 0, xml |-> NoText,
          sawPackage |-> FALSE, outcome |-> "none"]

Work == [pc : Steps, prev : 0..MaxVersion, obs : 0..MaxVersion,
         key : 0..MaxVersion, xml : Texts, sawPackage : BOOLEAN,
         outcome : ResultStatus]

(***************************************************************************)
(* One type invariant for the module.                                      *)
(***************************************************************************)
TypeOK ==
    /\ inForce \in [Laws -> Versions]
    /\ edition \in [Laws -> [Versions -> 0..MaxEdition]]
    /\ current \in [Laws -> 0..MaxVersion]
    /\ status \in [Laws -> [Versions -> RevisionStatus]]
    /\ text \in [Laws -> [Versions -> Texts]]
    /\ pkgOf \in [Laws -> [Versions -> Runs \cup {NoRun}]]
    /\ observed \in [Laws -> 0..MaxVersion]
    /\ syncError \in [Laws -> BOOLEAN]
    /\ store \in [Laws -> [Versions -> Texts]]
    /\ runRow \in [Runs -> {"none", "running", "succeeded", "partial", "failed"}]
    /\ result \in [Runs -> [Laws -> ResultStatus]]
    /\ pkgStatus \in [Runs -> {"none", "verified", "published", "rejected"}]
    /\ lock \in Runs \cup {NoRun}
    /\ phase \in [Runs -> {"idle", "refused", "working", "unlocking", "done", "crashed"}]
    /\ mode \in [Runs -> {"check", "dry-run", "refresh"}]
    /\ asOf \in [Runs -> Versions]
    /\ work \in [Runs -> [Laws -> Work]]

(***************************************************************************)
(* What a law looks like before the first run: "empty" is the Law row      *)
(* ingest.ts upserts before the book is seeded; "seeded" is a law after    *)
(* seed-law-book.ts and ingest.ts, its baseline revision current and       *)
(* active but no LawSyncState row yet; "synced" is the same law after a    *)
(* check has recorded the version it observed.                             *)
(***************************************************************************)
Init ==
    /\ inForce = [l \in Laws |-> 1]
    /\ edition = [l \in Laws |-> [v \in Versions |-> 0]]
    /\ \E kind \in [Laws -> InitKinds] :
        /\ current = [l \in Laws |-> IF kind[l] = "empty" THEN 0 ELSE 1]
        /\ status = [l \in Laws |-> [v \in Versions |->
              IF v = 1 /\ kind[l] # "empty" THEN "active" ELSE "absent"]]
        /\ text = [l \in Laws |-> [v \in Versions |->
              IF v = 1 /\ kind[l] # "empty" THEN <<1, 0>> ELSE NoText]]
        /\ observed = [l \in Laws |-> IF kind[l] = "synced" THEN 1 ELSE 0]
    /\ pkgOf = [l \in Laws |-> [v \in Versions |-> NoRun]]
    /\ syncError = [l \in Laws |-> FALSE]
    /\ store = [l \in Laws |-> [v \in Versions |-> NoText]]
    /\ runRow = [r \in Runs |-> "none"]
    /\ result = [r \in Runs |-> [l \in Laws |-> "none"]]
    /\ pkgStatus = [r \in Runs |-> "none"]
    /\ lock = NoRun
    /\ phase = [r \in Runs |-> "idle"]
    /\ mode = [r \in Runs |-> "refresh"]
    /\ asOf = [r \in Runs |-> MaxVersion]
    /\ work = [r \in Runs |-> [l \in Laws |-> Fresh]]

-----------------------------------------------------------------------------
(***************************************************************************)
(* e-Gov, outside the program.  It answers for a date, so for a run dated  *)
(* asOf it returns the newest version enforced by then, both when asked    *)
(* for the version and when asked for the document.                        *)
(***************************************************************************)
AnswerFor(r, l) == IF inForce[l] <= asOf[r] THEN inForce[l] ELSE asOf[r]

DocumentFor(r, l) == <<AnswerFor(r, l), edition[l][AnswerFor(r, l)]>>

Amend(l) ==
    /\ inForce[l] < MaxVersion
    /\ inForce' = [inForce EXCEPT ![l] = @ + 1]
    /\ UNCHANGED <<edition, dbVars, store, procVars, work>>

Correct(l) ==
    /\ edition[l][inForce[l]] < MaxEdition
    /\ edition' = [edition EXCEPT ![l][inForce[l]] = @ + 1]
    /\ UNCHANGED <<inForce, dbVars, store, procVars, work>>

-----------------------------------------------------------------------------
(***************************************************************************)
(* The process: lock, run row, worker pool, completion, unlock.            *)
(***************************************************************************)

\* A bug: the lock is not asked for.
LockFreeMutant == TRUE

\* pg_try_advisory_lock answers at once.
LockFree == lock = NoRun

Start(r) ==
    /\ phase[r] = "idle"
    /\ LockFree
    /\ \E m \in Modes, d \in AsOfs :
        /\ mode' = [mode EXCEPT ![r] = m]
        /\ asOf' = [asOf EXCEPT ![r] = d]
    /\ lock' = r
    /\ phase' = [phase EXCEPT ![r] = "working"]
    /\ runRow' = [runRow EXCEPT ![r] = "running"]
    /\ UNCHANGED <<egovVars, revVars, syncVars, store, result, pkgStatus,
                   work>>

\* REFRESH_ALREADY_RUNNING: the process exits without a trace in the database.
Refuse(r) ==
    /\ phase[r] = "idle"
    /\ ~LockFree
    /\ phase' = [phase EXCEPT ![r] = "refused"]
    /\ UNCHANGED <<egovVars, dbVars, store, lock, mode, asOf, work>>

\* A bug: a worker is not given back when its law is done.
InFlightMutant(r) == {l \in Laws : work[r][l].pc # "todo"}

\* mapWithConcurrency hands a worker its next law when it is done with the last.
InFlight(r) == {l \in Laws : work[r][l].pc \notin {"todo", "done"}}

\* Where the worker of law l in run r stands.
At(r, l, step) == phase[r] = "working" /\ work[r][l].pc = step

Goto(r, l, step) == work' = [work EXCEPT ![r][l].pc = step]

\* processOneLaw returns: the outcome the run will report.
Finish(r, l, o) ==
    work' = [work EXCEPT ![r][l] = [@ EXCEPT !.pc = "done", !.outcome = o,
                 !.obs = 0, !.xml = NoText, !.sawPackage = FALSE]]
\* getCurrentRevisionId, the first thing processOneLaw reads.
BeginLaw(r, l) ==
    /\ At(r, l, "todo")
    /\ Cardinality(InFlight(r)) < Concurrency
    /\ work' = [work EXCEPT ![r][l] =
                  [@ EXCEPT !.pc = "prevRead", !.prev = current[l]]]
    /\ UNCHANGED <<egovVars, dbVars, store, procVars>>

\* getLastObservedVersionKey, then the result row, created as "unchanged".
ReadSync(r, l) ==
    /\ At(r, l, "prevRead")
    /\ work' = [work EXCEPT ![r][l] =
                  [@ EXCEPT !.pc = "ready", !.obs = observed[l]]]
    /\ result' = [result EXCEPT ![r][l] = "unchanged"]
    /\ UNCHANGED <<egovVars, revVars, syncVars, store, runRow, pkgStatus,
                   procVars>>

\* getLawVersionAt answered with the version observed last time.
QueryUnchanged(r, l) ==
    /\ At(r, l, "ready")
    /\ AnswerFor(r, l) = work[r][l].obs
    /\ work' = [work EXCEPT ![r][l] =
          [@ EXCEPT !.key = AnswerFor(r, l), !.obs = 0,
                    !.pc = IF mode[r] = "check" THEN "done" ELSE "unchanged",
                    !.outcome = IF mode[r] = "check" THEN "unchanged" ELSE "none"]]
    /\ UNCHANGED <<egovVars, dbVars, store, procVars>>

\* getLawVersionAt answered with another version: check mode stops here.
QueryChanged(r, l) ==
    /\ At(r, l, "ready")
    /\ AnswerFor(r, l) # work[r][l].obs
    /\ work' = [work EXCEPT ![r][l] =
          [@ EXCEPT !.key = AnswerFor(r, l), !.obs = 0,
                    !.pc = IF mode[r] = "check" THEN "done" ELSE "fetch",
                    !.outcome = IF mode[r] = "check" THEN "updated" ELSE "none"]]
    /\ UNCHANGED <<egovVars, dbVars, store, procVars>>

\* recordUnchangedCheck: two writes that share no transaction.  The second only
\* touches the phase and dates of the result row, "unchanged" already.
RecordUnchanged(r, l) ==
    /\ At(r, l, "unchanged")
    /\ observed' = [observed EXCEPT ![l] = work[r][l].key]
    /\ syncError' = [syncError EXCEPT ![l] = FALSE]
    /\ Finish(r, l, "unchanged")
    /\ UNCHANGED <<egovVars, revVars, store, runVars, procVars>>

\* getLawXmlAt asks by date, not by the version the query returned.
FetchXml(r, l) ==
    /\ At(r, l, "fetch")
    /\ work' = [work EXCEPT ![r][l] =
                  [@ EXCEPT !.pc = "fetched", !.xml = DocumentFor(r, l)]]
    /\ UNCHANGED <<egovVars, dbVars, store, procVars>>

\* FileSystemLawXmlStore.put; a second document under the same version is an
\* XML_CHECKSUM_CONFLICT, see StoreConflict.  (XmlStore models put itself.)
StoreXml(r, l) ==
    LET k == work[r][l].key IN
    /\ At(r, l, "fetched")
    /\ store[l][k] \in {NoText, work[r][l].xml}
    /\ store' = [store EXCEPT ![l][k] = work[r][l].xml]
    /\ Goto(r, l, "stored")
    /\ UNCHANGED <<egovVars, dbVars, procVars>>

\* parse, diff, ranges, reviewed decision and verifyCandidate: publishable.
\* A dry run ends here.
VerifyPublishable(r, l) ==
    /\ At(r, l, "stored")
    /\ IF mode[r] = "dry-run" THEN Finish(r, l, "updated")
                              ELSE Goto(r, l, "stage")
    /\ UNCHANGED <<egovVars, dbVars, store, procVars>>

\* A bug: the held version counts as observed.
VerifyHeldMutant(r, l) ==
    /\ At(r, l, "stored")
    /\ result' = [result EXCEPT ![r][l] = "held"]
    /\ observed' = [observed EXCEPT ![l] = work[r][l].key]
    /\ Finish(r, l, "held")
    /\ UNCHANGED <<egovVars, revVars, syncError, store, runRow, pkgStatus,
                   procVars>>

\* Not publishable: recordHeldCandidate writes the result row and nothing else.
VerifyHeld(r, l) ==
    /\ At(r, l, "stored")
    /\ result' = [result EXCEPT ![r][l] = "held"]
    /\ Finish(r, l, "held")
    /\ UNCHANGED <<egovVars, revVars, syncVars, store, runRow, pkgStatus,
                   procVars>>

\* stageCandidateRevision, its transaction open: run.packageId is read.
StageBegin(r, l) ==
    /\ At(r, l, "stage")
    /\ work' = [work EXCEPT ![r][l] =
          [@ EXCEPT !.pc = "staging", !.sawPackage = pkgStatus[r] # "none"]]
    /\ UNCHANGED <<egovVars, dbVars, store, procVars>>

\* Two transactions that both saw no package insert the same primary key.
PackageClash(r, l) == ~work[r][l].sawPackage /\ pkgStatus[r] # "none"

\* A row of the same version is reused only when it holds the same document.
ChecksumMatches(r, l) ==
    LET k == work[r][l].key IN
    status[l][k] = "absent" \/ text[l][k] = work[r][l].xml

\* Article ids are built from the document's checksum and are primary keys: a
\* second revision made from the same document cannot be inserted.  Seeded
\* revisions use another prefix.
ArticleIdsFree(r, l) ==
    \A v \in Versions :
        v # work[r][l].key /\ pkgOf[l][v] # NoRun => text[l][v] # work[r][l].xml

CanStage(r, l) ==
    /\ ~PackageClash(r, l)
    /\ ChecksumMatches(r, l)
    /\ status[l][work[r][l].key] # "absent" \/ ArticleIdsFree(r, l)

\* A bug: a row that exists is written again with the document just fetched.
StageCommitMutant(r, l) ==
    LET k == work[r][l].key IN
    /\ At(r, l, "staging")
    /\ CanStage(r, l) \/ status[l][k] # "absent"
    /\ pkgStatus' = [pkgStatus EXCEPT ![r] = "verified"]
    /\ pkgOf' = [pkgOf EXCEPT ![l][k] = r]
    /\ status' = [status EXCEPT ![l][k] = "staged"]
    /\ text' = [text EXCEPT ![l][k] = work[r][l].xml]
    /\ Goto(r, l, "staged")
    /\ UNCHANGED <<egovVars, current, syncVars, store, runRow, result, procVars>>

\* The package is created by the first transaction of the run.
StageCommit(r, l) ==
    LET k == work[r][l].key
        new == status[l][k] = "absent" IN
    /\ At(r, l, "staging")
    /\ CanStage(r, l)
    /\ IF pkgStatus[r] = "none"
         THEN pkgStatus' = [pkgStatus EXCEPT ![r] = "verified"]
         ELSE UNCHANGED pkgStatus
    /\ pkgOf' = [pkgOf EXCEPT ![l][k] = r]
    /\ IF new
         THEN /\ status' = [status EXCEPT ![l][k] = "staged"]
              /\ text' = [text EXCEPT ![l][k] = work[r][l].xml]
         ELSE UNCHANGED <<status, text>>
    /\ Goto(r, l, "staged")
    /\ UNCHANGED <<egovVars, current, syncVars, store, runRow, result, procVars>>

\* A bug: the update does not name the revision it expects.
SwapMatchesMutant(r, l) == TRUE

\* updateMany where currentRevisionId = previousRevisionId ?? "": NULL never
\* equals the empty string.
SwapMatches(r, l) == work[r][l].prev # 0 /\ current[l] = work[r][l].prev

\* A bug: the candidate is not marked active.
ActivateMutant(r, l) ==
    LET k == work[r][l].key IN
    /\ At(r, l, "staged")
    /\ SwapMatches(r, l)
    /\ current' = [current EXCEPT ![l] = k]
    /\ result' = [result EXCEPT ![r][l] = "updated"]
    /\ observed' = [observed EXCEPT ![l] = k]
    /\ syncError' = [syncError EXCEPT ![l] = FALSE]
    /\ Finish(r, l, "updated")
    /\ UNCHANGED <<egovVars, status, text, pkgOf, store, runRow, pkgStatus,
                   procVars>>

\* activateCandidateRevision: one transaction.
Activate(r, l) ==
    LET k == work[r][l].key
        p == work[r][l].prev IN
    /\ At(r, l, "staged")
    /\ SwapMatches(r, l)
    /\ current' = [current EXCEPT ![l] = k]
    /\ status' = [status EXCEPT ![l][k] = "active", ![l][p] = "superseded"]
    /\ result' = [result EXCEPT ![r][l] = "updated"]
    /\ observed' = [observed EXCEPT ![l] = k]
    /\ syncError' = [syncError EXCEPT ![l] = FALSE]
    /\ Finish(r, l, "updated")
    /\ UNCHANGED <<egovVars, text, pkgOf, store, runRow, pkgStatus, procVars>>

-----------------------------------------------------------------------------
(***************************************************************************)
(* An exception in processOneLaw: recordFailedCheck is called without the  *)
(* id of the result row, and its own failure is swallowed.                 *)
(***************************************************************************)
LawFails(r, l) ==
    /\ Finish(r, l, "failed")
    /\ \/ syncError' = [syncError EXCEPT ![l] = TRUE]
       \/ UNCHANGED syncError
    /\ UNCHANGED <<egovVars, revVars, observed, store, runVars, procVars>>

\* The steps that must fail.
StoreConflict(r, l) ==
    /\ At(r, l, "fetched")
    /\ store[l][work[r][l].key] \notin {NoText, work[r][l].xml}
    /\ LawFails(r, l)

StageRejected(r, l) == At(r, l, "staging") /\ ~CanStage(r, l) /\ LawFails(r, l)

\* CURRENT_REVISION_CHANGED.
ActivateRefused(r, l) ==
    At(r, l, "staged") /\ ~SwapMatches(r, l) /\ LawFails(r, l)

\* A step that may fail: e-Gov after the last retry, an invalid document or
\* review file, a missing key, the database.
Fault(r, l) ==
    /\ phase[r] = "working"
    /\ l \in InFlight(r)
    /\ LawFails(r, l)

\* recordUnchangedCheck fails after its first write.
RecordUnchangedTorn(r, l) ==
    /\ At(r, l, "unchanged")
    /\ observed' = [observed EXCEPT ![l] = work[r][l].key]
    /\ \E e \in BOOLEAN : syncError' = [syncError EXCEPT ![l] = e]
    /\ Finish(r, l, "failed")
    /\ UNCHANGED <<egovVars, revVars, store, runVars, procVars>>

-----------------------------------------------------------------------------
\* The statuses completeRefreshRun reads back from the result rows.
Recorded(r) == {result[r][l] : l \in Laws} \ {"none"}

RunStatus(r) ==
    IF Recorded(r) \subseteq {"failed"} THEN "failed"
    ELSE IF Recorded(r) \cap {"failed", "held"} # {} THEN "partial"
    ELSE "succeeded"

\* A bug: only a run that updated every law publishes.
PackageStatusMutant(r) ==
    IF pkgStatus[r] # "none" /\ Recorded(r) = {"updated"} THEN "published"
    ELSE pkgStatus[r]

\* A bug: the package is closed with the status of the run.
PackageStatusOfRunMutant(r) == IF pkgStatus[r] = "none" THEN "none" ELSE RunStatus(r)

PackageStatus(r) ==
    IF pkgStatus[r] = "none" THEN "none"
    ELSE IF "updated" \in Recorded(r) THEN "published"
    ELSE IF Recorded(r) # {} /\ Recorded(r) \subseteq {"held", "failed"} THEN "rejected"
    ELSE pkgStatus[r]

AllLawsDone(r) == phase[r] = "working" /\ \A l \in Laws : work[r][l].pc = "done"

CompleteRun(r) ==
    /\ AllLawsDone(r)
    /\ runRow' = [runRow EXCEPT ![r] = RunStatus(r)]
    /\ pkgStatus' = [pkgStatus EXCEPT ![r] = PackageStatus(r)]
    /\ phase' = [phase EXCEPT ![r] = "unlocking"]
    /\ UNCHANGED <<egovVars, revVars, syncVars, store, result, lock,
                   mode, asOf, work>>

\* completeRefreshRun throws; the finally clause still unlocks.
AbortRun(r) ==
    /\ AllLawsDone(r)
    /\ phase' = [phase EXCEPT ![r] = "unlocking"]
    /\ UNCHANGED <<egovVars, dbVars, store, lock, mode, asOf, work>>

\* A bug: an aborted run keeps the lock.
UnlockMutant(r) ==
    /\ phase[r] = "unlocking"
    /\ runRow[r] # "running"
    /\ lock' = IF lock = r THEN NoRun ELSE lock
    /\ phase' = [phase EXCEPT ![r] = "done"]
    /\ UNCHANGED <<egovVars, dbVars, store, mode, asOf, work>>

Unlock(r) ==
    /\ phase[r] = "unlocking"
    /\ lock' = IF lock = r THEN NoRun ELSE lock
    /\ phase' = [phase EXCEPT ![r] = "done"]
    /\ UNCHANGED <<egovVars, dbVars, store, mode, asOf, work>>

\* The process dies; PostgreSQL ends its sessions and with them the lock.
Crash(r) ==
    /\ phase[r] \in {"working", "unlocking"}
    /\ phase' = [phase EXCEPT ![r] = "crashed"]
    /\ lock' = IF lock = r THEN NoRun ELSE lock
    /\ work' = [work EXCEPT ![r] = [l \in Laws |-> Fresh]]
    /\ UNCHANGED <<egovVars, dbVars, store, mode, asOf>>

-----------------------------------------------------------------------------
LawStep(r, l) ==
    \/ BeginLaw(r, l) \/ ReadSync(r, l)
    \/ QueryUnchanged(r, l) \/ QueryChanged(r, l) \/ RecordUnchanged(r, l)
    \/ FetchXml(r, l) \/ StoreXml(r, l) \/ StoreConflict(r, l)
    \/ VerifyPublishable(r, l) \/ VerifyHeld(r, l)
    \/ StageBegin(r, l) \/ StageCommit(r, l) \/ StageRejected(r, l)
    \/ Activate(r, l) \/ ActivateRefused(r, l)

RunStep(r) == CompleteRun(r) \/ AbortRun(r) \/ Unlock(r)

Next ==
    \/ \E l \in Laws : Amend(l) \/ Correct(l)
    \/ \E r \in Runs : Start(r) \/ Refuse(r) \/ RunStep(r) \/ Crash(r)
    \/ \E r \in Runs, l \in Laws : 
          LawStep(r, l) \/ Fault(r, l) \/ RecordUnchangedTorn(r, l)

Spec == Init /\ [][Next]_vars

(***************************************************************************)
(* Node's event loop runs every ready worker and fetch gives up by itself, *)
(* so a process that is not killed keeps taking steps.  Nothing obliges    *)
(* e-Gov to amend a law, an operator to start a run, or a step to fail.    *)
(***************************************************************************)
Fairness ==
    \A r \in Runs :
        /\ \A l \in Laws : WF_vars(LawStep(r, l))
        /\ WF_vars(RunStep(r))

FairSpec == Spec /\ Fairness

-----------------------------------------------------------------------------
(***************************************************************************)
(* Properties.                                                             *)
(***************************************************************************)

\* No law has an active revision beside the one its pointer names, however
\* many runs race: step 3 of activateCandidateRevision retires the revision
\* the compare-and-swap in step 1 took the pointer from.
ActiveIsCurrent ==
    \A l \in Laws, v \in Versions : status[l][v] = "active" => current[l] = v

\* "A staged revision is not published; only activate changes the pointer"
\* (refresh-repository.ts, the invariants in its header).
StagedNeverPublic ==
    \A l \in Laws :
        current[l] # 0 => status[l][current[l]] \in {"active", "superseded"}

\* While runs exclude each other, the version a law is recorded as observed at
\* is the version it shows.  A run that finds the observed version unchanged
\* stops there, so a law recorded ahead of what it shows is never updated.
ObservedIsCurrent ==
    \A l \in Laws : observed[l] \in {0, current[l]}

\* What a run is about to report agrees with the database: a law reported
\* updated or unchanged shows the version e-Gov answered with; a law reported
\* held or failed still shows what it showed when the run looked at it
\* (design document, section 11: no failure changes the public revision).
ReportMatchesDatabase ==
    \A r \in Runs, l \in Laws :
        phase[r] \in {"working", "unlocking"} /\ mode[r] = "refresh" =>
            /\ work[r][l].outcome \in {"updated", "unchanged"}
                  => current[l] = work[r][l].key
            /\ work[r][l].outcome \in {"held", "failed"}
                  => current[l] = work[r][l].prev

\* Once the run of its package is closed, the revision a law shows belongs to a
\* published package: no run takes the revision on show away into a package
\* that is then left unpublished.
CurrentIsInPublishedPackage ==
    \A l \in Laws :
        current[l] # 0 =>
            LET r == pkgOf[l][current[l]] IN
            r # NoRun /\ runRow[r] # "running" => pkgStatus[r] = "published"

\* A law never goes back to an older version when every run asks for today,
\* not even when two runs overlap: the pointer is read before e-Gov is asked.
CurrentNeverGoesBack ==
    [][\A l \in Laws : current'[l] >= current[l]]_current

\* A version recorded as observed has been shown at some time: neither a held
\* nor a failed candidate may count as observed, or it is never tried again.
ObservedWasShown ==
    \A l \in Laws :
        observed[l] # 0 => status[l][observed[l]] \in {"active", "superseded"}

\* A run that is not killed reaches its end and gives the lock back, whatever
\* fails on the way.
RunEnds ==
    \A r \in Runs : phase[r] = "working" ~> phase[r] \in {"done", "crashed"}

LockComesBack == \A r \in Runs : lock = r ~> lock # r

\* The refresh implements the publication the reader is promised.
Publication == INSTANCE LawPublication WITH archive <- text

PublicationSpec == Publication!Spec

=============================================================================
