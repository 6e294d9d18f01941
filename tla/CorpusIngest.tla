---------------------------- MODULE CorpusIngest -----------------------------
(***************************************************************************)
(* The corpus server (src/ingest, src/routes/admin.ts and corpus.ts): the  *)
(* versions of one law, brought in by POST /admin/ingest or by the command *)
(* line, published by validation or by POST .../publish, and read through  *)
(* GET /provisions.  Sources share nothing, so one stands for all.         *)
(*                                                                         *)
(* A document is an XML text; its hash names the raw file and the          *)
(* source_version row.  The provision_version rows of a version are        *)
(* written with it in one transaction and never change, so they are not a  *)
(* variable: a version that is there has one row for each of its paths.    *)
(***************************************************************************)
EXTENDS Naturals, FiniteSets

CONSTANTS
    Requests,    \* HTTP requests and command-line runs
    Documents,   \* the texts e-Gov has for the law
    NoDocument,
    Kinds,       \* what requests do: "ingest" and "publish" by HTTP, "cli"
    PathsOf,     \* the canonical paths of a document's provisions
    ValidFrom,   \* its date of enforcement, 0 when none is fixed
    Clean,       \* the documents validation finds nothing wrong with
    Doubled      \* the documents in which a path occurs twice

ASSUME CorpusAssumption ==
    /\ NoDocument \notin Documents
    /\ Kinds \subseteq {"ingest", "cli", "publish"}
    /\ DOMAIN PathsOf = Documents
    /\ ValidFrom \in [Documents -> Nat]
    /\ Clean \subseteq Documents
    /\ Doubled \subseteq Documents \ Clean

VARIABLES
    version,   \* source_version: absent, pending review or published
    raw,       \* the raw file of each document
    audit,     \* audit_record: who did what to which version
    pc,        \* where a request stands
    kind,      \* what it does
    doc        \* the document it handles

dbVars == <<version, audit>>
vars   == <<version, raw, audit, pc, kind, doc>>

VersionStatus == {"absent", "pending", "published"}
Actions == {"INGEST", "INGEST_SKIPPED", "PUBLISH"}
Steps == {"idle", "fetched", "writing", "saved", "parsed", "ingested", "skipped",
          "read", "swapped", "answered", "refused", "error", "dead"}

\* One type invariant for the module.
CorpusTypeOK ==
    /\ version \in [Documents -> VersionStatus]
    /\ raw \in [Documents -> {"absent", "torn", "whole"}]
    /\ audit \subseteq [action : Actions, doc : Documents, by : Requests]
    /\ pc \in [Requests -> Steps]
    /\ kind \in [Requests -> {"ingest", "cli", "publish"}]
    /\ doc \in [Requests -> Documents \cup {NoDocument}]

Init ==
    /\ version = [d \in Documents |-> "absent"]
    /\ raw = [d \in Documents |-> "absent"]
    /\ audit = {}
    /\ pc = [r \in Requests |-> "idle"]
    /\ kind = [r \in Requests |-> "ingest"]
    /\ doc = [r \in Requests |-> NoDocument]

Stored == {d \in Documents : version[d] # "absent"}

Goto(r, step) == pc' = [pc EXCEPT ![r] = step]

Running(r) == pc[r] \in {"fetched", "writing", "saved", "parsed", "ingested", "skipped",
                         "read", "swapped"}

-----------------------------------------------------------------------------
(***************************************************************************)
(* ingestSourceVersion.                                                    *)
(***************************************************************************)

\* Fetched from e-Gov; the source row is upserted.
Fetch(r) ==
    /\ pc[r] = "idle"
    /\ \E k \in Kinds \cap {"ingest", "cli"}, d \in Documents :
        /\ kind' = [kind EXCEPT ![r] = k]
        /\ doc' = [doc EXCEPT ![r] = d]
    /\ Goto(r, "fetched")
    /\ UNCHANGED <<dbVars, raw>>

\* saveRawArtifact: writeFile truncates the file, then writes it.
OpenRaw(r) ==
    /\ pc[r] = "fetched"
    /\ raw' = [raw EXCEPT ![doc[r]] = "torn"]
    /\ Goto(r, "writing")
    /\ UNCHANGED <<dbVars, kind, doc>>

\* A bug: the version is looked up before the file is written to its end.
CloseRawMutant(r) ==
    /\ pc[r] = "writing"
    /\ Goto(r, "saved")
    /\ UNCHANGED <<dbVars, raw, kind, doc>>

\* Another writer of the same document may have truncated the file after this
\* one had written it.
CloseRaw(r) ==
    /\ pc[r] = "writing"
    /\ \/ raw' = [raw EXCEPT ![doc[r]] = "whole"]
       \/ /\ \E o \in Requests \ {r} : pc[o] = "writing" /\ doc[o] = doc[r]
          /\ UNCHANGED raw
    /\ Goto(r, "saved")
    /\ UNCHANGED <<dbVars, kind, doc>>

\* findSourceVersionByHash: a version that is there is skipped; any other
\* document is parsed and validated.
CompareHash(r) ==
    /\ pc[r] = "saved"
    /\ Goto(r, IF doc[r] \in Stored THEN "skipped" ELSE "parsed")
    /\ UNCHANGED <<dbVars, raw, kind, doc>>

\* no_overlapping_validity, and UNIQUE (citation_anchor, valid_from): nothing
\* ever sets valid_to, so a version with a fixed date holds its paths for good,
\* and a path that occurs twice overlaps itself.
Fits(d) ==
    ValidFrom[d] # 0 =>
        /\ d \notin Doubled
        /\ \A e \in Stored : ValidFrom[e] # 0 => PathsOf[e] \cap PathsOf[d] = {}

\* A bug: ON CONFLICT DO NOTHING in place of the unique (source_id, content_hash).
NewMutant(d) == TRUE

\* UNIQUE (source_id, content_hash).
New(d) == d \notin Stored

\* The transaction: source_version, provision, provision_version.
Commit(r) ==
    /\ pc[r] = "parsed"
    /\ New(doc[r])
    /\ Fits(doc[r])
    /\ version' = [version EXCEPT ![doc[r]] =
                      IF doc[r] \in Clean THEN "published" ELSE "pending"]
    /\ Goto(r, "ingested")
    /\ UNCHANGED <<raw, audit, kind, doc>>

\* A constraint refuses the transaction: it is rolled back and answered with 500.
CommitRefused(r) ==
    /\ pc[r] = "parsed"
    /\ ~New(doc[r]) \/ ~Fits(doc[r])
    /\ Goto(r, "error")
    /\ UNCHANGED <<dbVars, raw, kind, doc>>

\* A bug: the record takes the outcome of the ingest for its action.
RecordMutant(r, action) ==
    audit' = audit \cup {[action |-> IF action = "INGEST" THEN "INGESTED" ELSE action,
                          doc |-> doc[r], by |-> r]}

Record(r, action) ==
    audit' = audit \cup {[action |-> action, doc |-> doc[r], by |-> r]}

\* POST /admin/ingest writes its audit record after the transaction; the
\* command line writes none.
AnswerIngest(r) ==
    /\ pc[r] \in {"ingested", "skipped"}
    /\ IF kind[r] = "ingest"
         THEN Record(r, IF pc[r] = "ingested" THEN "INGEST" ELSE "INGEST_SKIPPED")
         ELSE UNCHANGED audit
    /\ Goto(r, "answered")
    /\ UNCHANGED <<version, raw, kind, doc>>

-----------------------------------------------------------------------------
(***************************************************************************)
(* POST /admin/source-versions/:id/publish.                                *)
(***************************************************************************)

\* The version is looked up; one that is published is answered with 409.
FindVersion(r) ==
    /\ pc[r] = "idle"
    /\ "publish" \in Kinds
    /\ kind' = [kind EXCEPT ![r] = "publish"]
    /\ \E d \in Stored :
        /\ doc' = [doc EXCEPT ![r] = d]
        /\ Goto(r, IF version[d] = "published" THEN "refused" ELSE "read")
    /\ UNCHANGED <<dbVars, raw>>

\* A bug: the update does not ask for a version that is still unpublished.
UnpublishedMutant(d) == TRUE

Unpublished(d) == version[d] = "pending"

\* publishSourceVersion: UPDATE ... WHERE published_at IS NULL.
Swap(r) ==
    /\ pc[r] = "read"
    /\ IF Unpublished(doc[r])
         THEN version' = [version EXCEPT ![doc[r]] = "published"] /\ Goto(r, "swapped")
         ELSE UNCHANGED version /\ Goto(r, "refused")
    /\ UNCHANGED <<raw, audit, kind, doc>>

AnswerPublish(r) ==
    /\ pc[r] = "swapped"
    /\ Record(r, "PUBLISH")
    /\ Goto(r, "answered")
    /\ UNCHANGED <<version, raw, kind, doc>>

-----------------------------------------------------------------------------
\* A step throws (e-Gov, disk, database): answered with 500, nothing is undone.
Fail(r) ==
    /\ Running(r)
    /\ Goto(r, "error")
    /\ UNCHANGED <<dbVars, raw, kind, doc>>

\* The process dies.
Crash(r) ==
    /\ Running(r)
    /\ Goto(r, "dead")
    /\ UNCHANGED <<dbVars, raw, kind, doc>>

Step(r) ==
    \/ Fetch(r) \/ OpenRaw(r) \/ CloseRaw(r) \/ CompareHash(r)
    \/ Commit(r) \/ CommitRefused(r) \/ AnswerIngest(r)
    \/ FindVersion(r) \/ Swap(r) \/ AnswerPublish(r)

Next == \E r \in Requests : Step(r) \/ Fail(r) \/ Crash(r)

Spec == Init /\ [][Next]_vars

-----------------------------------------------------------------------------
IngestedBy(r, d) ==
    \/ pc[r] = "ingested" /\ kind[r] = "ingest" /\ doc[r] = d
    \/ [action |-> "INGEST", doc |-> d, by |-> r] \in audit

\* However many requests bring the same document at the same time, at most one
\* of them reports that it ingested it, and then the version is there: the
\* lookup by hash is made outside the transaction of ingestSourceVersion, so
\* the others pass it too.
IngestedOnce ==
    \A d \in Documents : \A r \in Requests : IngestedBy(r, d) =>
        d \in Stored /\ \A s \in Requests : IngestedBy(s, d) => s = r

PublishedBy(r, d) ==
    \/ pc[r] = "swapped" /\ doc[r] = d
    \/ [action |-> "PUBLISH", doc |-> d, by |-> r] \in audit

\* However editors' requests interleave, a version is published by at most one
\* of them, and by none when its ingest published it: the handler answers the
\* others with 409, before or at the update of publishSourceVersion.
PublishedOnce ==
    \A d \in Documents : \A r \in Requests : PublishedBy(r, d) =>
        /\ version[d] = "published"
        /\ d \notin Clean
        /\ \A s \in Requests : PublishedBy(s, d) => s = r

\* The original of a version that is there can be read again from the raw
\* store; it can be incomplete only while, or after, some request was
\* interrupted in the middle of writing it (saveRawArtifact writes in place).
RawKept ==
    \A d \in Stored :
        /\ raw[d] # "absent"
        /\ raw[d] = "torn" =>
             \E r \in Requests : doc[r] = d /\ pc[r] \in {"writing", "error", "dead"}

-----------------------------------------------------------------------------
(***************************************************************************)
(* What readers get.  valid_to is never set, so every row of a path is a   *)
(* candidate; ORDER BY valid_from DESC puts the rows without a date first. *)
(***************************************************************************)
RowsOf(path) == {d \in Stored : path \in PathsOf[d]}

\* The versions getProvisionCurrentVersion may answer with.
Shown(path) ==
    LET undated == {d \in RowsOf(path) : ValidFrom[d] = 0}
    IN  IF undated # {} THEN undated
        ELSE {d \in RowsOf(path) : \A e \in RowsOf(path) : ValidFrom[e] <= ValidFrom[d]}

=============================================================================
