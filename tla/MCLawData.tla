------------------------------ MODULE MCLawData ------------------------------
(***************************************************************************)
(* Instances for TLC of the modules about the text of the law: the store   *)
(* of the original files, the walk that reads one, the review of a         *)
(* revision, the scripts that keep the edition, and the page that shows    *)
(* the text.  They have no state in common, so one run checks them side by *)
(* side: a behaviour belongs to one of them.                              *)
(***************************************************************************)
EXTENDS XmlStore, LawWalk, LawReview, LawCatalog, ArticlePage, TLC

VARIABLE part

lawDataVars == <<vars, walkVars, reviewVars, catalogVars, pageVars, part>>

LawDataStart ==
    /\ part \in {"store", "walk", "review", "catalog", "page"}
    /\ Init
    /\ part # "store" => site = [serial |-> TRUE, blind |-> FALSE, oneDevice |-> TRUE]
    /\ WalkInit
    /\ ReviewInit
    /\ part # "review" => shown = CHOOSE text \in Revisions : TRUE
    /\ CatalogInit
    /\ part # "catalog" => \A l \in CatalogLaws : current[l] = NoRevision
    /\ PageInit
    /\ part # "page" => linked = <<>>

LawDataParts ==
    /\ UNCHANGED part
    /\ \/ part = "store" /\ Next /\ UNCHANGED <<walkVars, reviewVars, catalogVars, pageVars>>
       \/ part = "walk" /\ WalkNext /\ UNCHANGED <<vars, reviewVars, catalogVars, pageVars>>
       \/ part = "review" /\ ReviewNext /\ UNCHANGED <<vars, walkVars, catalogVars, pageVars>>
       \/ part = "catalog" /\ CatalogNext /\ UNCHANGED <<vars, walkVars, reviewVars, pageVars>>
       \/ part = "page" /\ PageNext /\ UNCHANGED <<vars, walkVars, reviewVars, catalogVars>>

LawDataSpec == LawDataStart /\ [][LawDataParts]_lawDataVars

\* Calls of the store are interchangeable, and so are its documents.
StoreSymmetry == Permutations(Writers) \cup Permutations(Documents)
=============================================================================
