---------------------------- MODULE CorpusClaims -----------------------------
(***************************************************************************)
(* Statements of the repository about the corpus server that its code does *)
(* not keep.                                                               *)
(***************************************************************************)
EXTENDS MCCorpusIngest

\* "§5.3 制約: 公開済み版（published_at IS NOT NULL）のみ返す" (routes/corpus.ts,
\* line 11): readers get published versions only.  getProvisionCurrentVersion
\* and listProvisionsWithCurrentVersion never look at published_at.
ShownIsPublished ==
    \A path \in UNION {PathsOf[d] : d \in Documents} :
        \A d \in Shown(path) : version[d] = "published"
=============================================================================
