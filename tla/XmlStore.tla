------------------------------- MODULE XmlStore ------------------------------
(***************************************************************************)
(* FileSystemLawXmlStore.put (xml-store.ts): the documents kept under one  *)
(* revision of one law.  A file is named by the checksum of its content,   *)
(* so a document stands for its file.  put looks at the directory, then at *)
(* the file, writes a temporary file elsewhere and renames it; a writer    *)
(* may be overtaken by another process between any two of these awaits.    *)
(***************************************************************************)
EXTENDS Naturals, FiniteSets

CONSTANTS
    Writers,     \* calls of put, in one process or in several
    Documents,   \* the XML documents writers may bring
    NoDocument

ASSUME StoreAssumption == NoDocument \notin Documents

VARIABLES
    site,     \* where the program runs, see Sites
    files,    \* the documents whose file is in the directory of the revision
    temp,     \* the writers whose temporary file has been left in stagingDir
    pc,       \* where a call of put stands
    doc       \* the document it was given

vars == <<site, files, temp, pc, doc>>

\* serial: the refresh lock lets one call run at a time.  blind: readdir may
\* fail on a directory that exists.  oneDevice: os.tmpdir() is on the file
\* system of LAW_XML_STORAGE_DIR, so that a rename can succeed.
Sites == [serial : BOOLEAN, blind : BOOLEAN, oneDevice : BOOLEAN]

Steps == {"idle", "listed", "missing", "written", "stored", "conflict", "error", "crashed"}

\* One type invariant for the module.
StoreTypeOK ==
    /\ site \in Sites
    /\ files \subseteq Documents
    /\ temp \subseteq Writers
    /\ pc \in [Writers -> Steps]
    /\ doc \in [Writers -> Documents \cup {NoDocument}]

Init ==
    /\ site \in Sites
    /\ files = {}
    /\ temp = {}
    /\ pc = [w \in Writers |-> "idle"]
    /\ doc = [w \in Writers |-> NoDocument]

Running(w) == pc[w] \in {"listed", "missing", "written"}

\* A bug: an older document does not stop a newer one.
UniqueMutant(d) == TRUE

\* A bug: the file that is there already is taken for another document.
FirstOnlyMutant(d) == files = {}

\* No file in the directory is another document than d.
Unique(d) == files \subseteq {d}

\* readdir: a file of another document is an XML_CHECKSUM_CONFLICT.  An error of
\* readdir, whichever it is, counts as a directory that does not exist yet.
List(w) ==
    /\ pc[w] = "idle"
    /\ site.serial => \A o \in Writers : ~Running(o)
    /\ \E d \in Documents :
        /\ doc' = [doc EXCEPT ![w] = d]
        /\ \/ pc' = [pc EXCEPT ![w] = IF Unique(d) THEN "listed" ELSE "conflict"]
           \/ site.blind /\ pc' = [pc EXCEPT ![w] = "listed"]
    /\ UNCHANGED <<site, files, temp>>

\* stat: the same document has been stored before.
FindSame(w) ==
    /\ pc[w] = "listed"
    /\ pc' = [pc EXCEPT ![w] = IF doc[w] \in files THEN "stored" ELSE "missing"]
    /\ UNCHANGED <<site, files, temp, doc>>

\* mkdir and writeFile of the temporary file.
WriteTemp(w) ==
    /\ pc[w] = "missing"
    /\ pc' = [pc EXCEPT ![w] = "written"]
    /\ temp' = temp \cup {w}
    /\ UNCHANGED <<site, files, doc>>

\* A bug: a failed rename is taken for a file that another process has stored.
RenameMutant(w) ==
    /\ pc[w] = "written"
    /\ UNCHANGED <<site, doc>>
    /\ pc' = [pc EXCEPT ![w] = "stored"]
    /\ \/ site.oneDevice /\ files' = files \cup {doc[w]} /\ temp' = temp \ {w}
       \/ UNCHANGED <<files, temp>>

\* rename replaces a file of the same name.  When it fails, a file that is
\* there by now counts as stored; the temporary file stays behind.
Rename(w) ==
    /\ pc[w] = "written"
    /\ UNCHANGED <<site, doc>>
    /\ \/ /\ site.oneDevice
          /\ files' = files \cup {doc[w]}
          /\ temp' = temp \ {w}
          /\ pc' = [pc EXCEPT ![w] = "stored"]
       \/ /\ pc' = [pc EXCEPT ![w] = IF doc[w] \in files THEN "stored" ELSE "error"]
          /\ UNCHANGED <<files, temp>>

\* mkdir, writeFile or readdir throws.
Fail(w) ==
    /\ pc[w] \in {"listed", "missing"}
    /\ pc' = [pc EXCEPT ![w] = "error"]
    /\ UNCHANGED <<site, files, temp, doc>>

\* The process dies; what it has written stays.
Crash(w) ==
    /\ Running(w)
    /\ pc' = [pc EXCEPT ![w] = "crashed"]
    /\ UNCHANGED <<site, files, temp, doc>>

Step(w) == List(w) \/ FindSame(w) \/ WriteTemp(w) \/ Rename(w)

Next == \E w \in Writers : Step(w) \/ Fail(w) \/ Crash(w)

Spec == Init /\ [][Next]_vars

-----------------------------------------------------------------------------
\* Under the refresh lock a revision never holds two documents (put's comment:
\* "rejects a different content for the same revision"), not even when calls
\* crash or fail halfway.  Without the lock, or where an error of readdir is
\* taken for an absent directory, it may: the check and the rename are apart.
OneDocument == site.serial /\ ~site.blind => Cardinality(files) <= 1

\* A document that was stored once is never refused later ("storing the same
\* content again succeeds"), or its law could not be refreshed any more.
SameContentIsIdempotent ==
    site.serial /\ ~site.blind => \A w, o \in Writers :
        pc[w] = "stored" /\ pc[o] = "conflict" => doc[w] # doc[o]

\* A path that put returned names a file that is there, however writers race
\* and wherever a rename fails: the path goes into LawRevision.xmlStorageKey.
StoredIsThere == \A w \in Writers : pc[w] = "stored" => doc[w] \in files
=============================================================================
