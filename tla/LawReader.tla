----------------------------- MODULE LawReader -----------------------------
(* Reading one law in the browser while the refresh replaces it: the article  *)
(* page follows the article to the current revision, the reader loads the     *)
(* whole document and the confirmed relations of that revision through a      *)
(* cache of promises in the browser, and the server keeps whole documents by  *)
(* revision.                                                                  *)
EXTENDS Naturals, Sequences

CONSTANTS
  MaxRevision,   \* bound: revisions of the law
  MaxCache,      \* MAX_CACHE_ENTRIES
  MaxRequests,   \* bound: requests of this browser
  MaxVisits,     \* bound: pages opened
  NoDocument

ASSUME ReaderAssumption ==
  /\ MaxRevision \in Nat \ {0} /\ MaxCache \in Nat \ {0}
  /\ MaxRequests \in Nat /\ MaxVisits \in Nat

Revisions == 1 .. MaxRevision
Kinds == {"document", "relations"}

VARIABLES
  current,        \* Law.currentRevisionId
  fate,           \* each older revision's article: mapped on, or removed or unmapped
  documentCache,  \* the server's documents, oldest first
  inFlight,       \* the build under way for each revision
  page,           \* the page being opened
  visits,
  shownRevision,  \* lawRevisionId of the mounted reader, 0 when none
  promises,       \* the browser's promise for each kind and revision
  effects,        \* effects that wait for a promise
  hook,           \* state of useFullLawDocument and useConfirmedRelations
  requests,       \* requests under way
  asked           \* how many were sent

lawVars    == <<current, fate>>
serverVars == <<documentCache, inFlight>>
pageVars   == <<page, visits>>
tabVars    == <<shownRevision, promises, effects, hook>>
readerVars == <<lawVars, serverVars, pageVars, tabVars, requests, asked>>

Documents == [revision : Revisions, nodes : BOOLEAN, links : BOOLEAN]
Relations == [revision : Revisions, rows : BOOLEAN]
Values    == Documents \cup Relations \cup {NoDocument}
Queries   == {"metadata", "nodes", "links"}
Builds    == [Queries -> {"idle", "unread", "some", "none"}]
Idle      == [query \in Queries |-> "idle"]
NoPage == [step |-> "none", asked |-> 0, at |-> 0]
NoPromise == [id |-> 0, value |-> NoDocument]

RequestRecords ==
  [id : 1 .. asked, kind : Kinds, revision : Revisions,
   step : {"sent", "waiting", "found", "answered", "refused"}, value : Values]

ReaderTypeOK ==
  /\ current \in Revisions
  /\ fate \in [Revisions -> {"none", "mapped", "ended"}]
  /\ documentCache \in Seq(Documents)
  /\ inFlight \in [Revisions -> Builds]
  /\ page \in [step : {"none", "following", "reading", "historical", "notFound"},
               asked : 0 .. MaxRevision, at : 0 .. MaxRevision]
  /\ visits \in Nat /\ asked \in Nat
  /\ shownRevision \in 0 .. MaxRevision
  /\ promises \in [Kinds -> [Revisions -> [id : 0 .. asked, value : Values]]]
  /\ effects \subseteq [kind : Kinds, on : 1 .. asked, active : BOOLEAN]
  /\ hook \in [Kinds -> [status : {"none", "loading", "ready", "error"}, shown : Values]]
  /\ requests \subseteq RequestRecords

ReaderInit ==
  /\ current = 1 /\ fate = [r \in Revisions |-> "none"]
  /\ documentCache = <<>> /\ inFlight = [r \in Revisions |-> Idle]
  /\ page = NoPage /\ visits = 0
  /\ shownRevision = 0
  /\ promises = [k \in Kinds |-> [r \in Revisions |-> NoPromise]]
  /\ effects = {} /\ hook = [k \in Kinds |-> [status |-> "none", shown |-> NoDocument]]
  /\ requests = {} /\ asked = 0

-----------------------------------------------------------------------------
(* The refresh, as the tables show it.  A successor may be mapped by an older *)
(* catalogue or a reviewed package; refreshes themselves pass no mappings.    *)
(* The law goes forward, as it does in runs that ask for today.               *)
Switch ==
  /\ current < MaxRevision /\ current' = current + 1
  /\ \E f \in {"mapped", "ended"} : fate' = [fate EXCEPT ![current] = f]
  /\ UNCHANGED <<serverVars, pageVars, tabVars, requests, asked>>

-----------------------------------------------------------------------------
(* The document route.  Readers of every revision share one build.            *)
Cached(r) == {i \in DOMAIN documentCache : documentCache[i].revision = r}

Answered(q, value) == [q EXCEPT !.step = IF value = NoDocument THEN "refused" ELSE "answered",
                                 !.value = value]
Answer(q, value) == (requests \ {q}) \cup {Answered(q, value)}

StartBuild(r) ==
  IF inFlight[r] = Idle
  THEN inFlight' = [inFlight EXCEPT ![r] = [query \in Queries |-> "unread"]]
  ELSE UNCHANGED inFlight

GetDocument ==
  /\ \E q \in requests :
       /\ q.kind = "document" /\ q.step = "sent"
       /\ IF Cached(q.revision) # {}
          THEN /\ \E i \in Cached(q.revision) : requests' = Answer(q, documentCache[i])
               /\ UNCHANGED inFlight
          ELSE /\ requests' = (requests \ {q}) \cup {[q EXCEPT !.step = "waiting"]}
               /\ StartBuild(q.revision)
  /\ UNCHANGED <<lawVars, documentCache, pageVars, tabVars, asked>>

(* Another reader of the same server asks for a document. *)
OthersAsk ==
  /\ \E r \in 1 .. current : Cached(r) = {} /\ inFlight[r] = Idle /\ StartBuild(r)
  /\ UNCHANGED <<lawVars, documentCache, pageVars, tabVars, requests, asked>>

(* getFullLawDocument runs its queries in parallel, each on the tables of its *)
(* moment; what is not in the current revision is out of every query's scope. *)
ReadQuery(r, query) ==
  /\ inFlight[r][query] = "unread"
  /\ inFlight' = [inFlight EXCEPT ![r][query] = IF r = current THEN "some" ELSE "none"]
  /\ UNCHANGED <<lawVars, documentCache, pageVars, tabVars, requests, asked>>

ReadMetadata(r) == ReadQuery(r, "metadata")
ReadNodes(r)    == ReadQuery(r, "nodes")
ReadLinks(r)    == ReadQuery(r, "links")

Waiting(r) == {q \in requests : q.revision = r /\ q.step = "waiting"}

AnswerAllMutant(r, value) ==
  IF value = NoDocument THEN requests
  ELSE (requests \ Waiting(r)) \cup {Answered(q, value) : q \in Waiting(r)}

AnswerAll(r, value) == (requests \ Waiting(r)) \cup {Answered(q, value) : q \in Waiting(r)}

Trimmed(cache) == IF Len(cache) > MaxCache THEN Tail(cache) ELSE cache

Document(r) ==
  [revision |-> r, nodes |-> inFlight[r]["nodes"] = "some", links |-> inFlight[r]["links"] = "some"]

\* A bug: only the metadata decides whether there is a document.
BuiltMutant(r) == IF inFlight[r]["metadata"] = "none" THEN NoDocument ELSE Document(r)

\* There is no document without metadata or nodes; there is one without links.
Built(r) ==
  IF "none" \in {inFlight[r]["metadata"], inFlight[r]["nodes"]} THEN NoDocument ELSE Document(r)

FinishBuild(r) ==
  /\ \A query \in Queries : inFlight[r][query] \notin {"idle", "unread"}
  /\ inFlight' = [inFlight EXCEPT ![r] = Idle]
  /\ documentCache' = IF Built(r) = NoDocument THEN documentCache
                      ELSE Trimmed(Append(documentCache, Built(r)))
  /\ requests' = AnswerAll(r, Built(r))
  /\ UNCHANGED <<lawVars, pageVars, tabVars, asked>>

(* A query fails. *)
FailBuild(r) ==
  /\ inFlight[r] # Idle /\ inFlight' = [inFlight EXCEPT ![r] = Idle]
  /\ requests' = AnswerAll(r, NoDocument)
  /\ UNCHANGED <<lawVars, documentCache, pageVars, tabVars, asked>>

(* The server's memory goes; its connections too. *)
RestartServer ==
  /\ documentCache # <<>> \/ \E r \in Revisions : inFlight[r] # Idle
  /\ documentCache' = <<>> /\ inFlight' = [r \in Revisions |-> Idle]
  /\ requests' = {IF q.step = "waiting" THEN Answered(q, NoDocument) ELSE q : q \in requests}
  /\ UNCHANGED <<lawVars, pageVars, tabVars, asked>>

(* The relations route: nothing is kept on the server.  The revision is looked *)
(* up first, then its relations; one that was replaced has none any more.     *)
GetRelations ==
  /\ \E q \in requests :
       /\ q.kind = "relations" /\ q.step = "sent"
       /\ requests' = IF q.revision = current
                      THEN (requests \ {q}) \cup {[q EXCEPT !.step = "found"]}
                      ELSE Answer(q, NoDocument)
  /\ UNCHANGED <<lawVars, serverVars, pageVars, tabVars, asked>>

ReadRelations ==
  /\ \E q \in requests :
       /\ q.step = "found"
       /\ requests' = Answer(q, [revision |-> q.revision, rows |-> q.revision = current])
  /\ UNCHANGED <<lawVars, serverVars, pageVars, tabVars, asked>>

-----------------------------------------------------------------------------
(* The hooks of the mounted reader. *)
CleanupMutant(k) == {e \in effects : e.kind = k}

Cleanup(k) == {[e EXCEPT !.active = FALSE] : e \in {e \in effects : e.kind = k}}

(* An effect of kind k for revision r, with the promises of its kind as the   *)
(* page has left them.                                                        *)
Fulfilled(p) == p.value # NoDocument

Effect(k, r, known, id) ==
  [promise |-> IF known.id = 0 THEN [id |-> id, value |-> NoDocument] ELSE known,
   effect  |-> IF Fulfilled(known) THEN {}
               ELSE {[kind |-> k, on |-> IF known.id = 0 THEN id ELSE known.id, active |-> TRUE]},
   request |-> IF known.id = 0 THEN {[id |-> id, kind |-> k, revision |-> r, step |-> "sent",
                 value |-> NoDocument]}
               ELSE {},
   hook    |-> IF Fulfilled(known) THEN [status |-> "ready", shown |-> known.value]
               ELSE [status |-> "loading", shown |-> NoDocument]]

(* The promise of revision r; one of the relations may be over its minute.    *)
Known(k, r) ==
  {promises[k][r]} \cup
  (IF k = "relations" /\ Fulfilled(promises[k][r]) THEN {NoPromise} ELSE {})

Mount(r) ==
  /\ asked + 2 <= MaxRequests
  /\ shownRevision' = r
  /\ \E d \in Known("document", r), c \in Known("relations", r) :
       LET ran == [k \in Kinds |->
                     Effect(k, r, IF k = "document" THEN d ELSE c,
                            IF k = "document" THEN asked + 1 ELSE asked + 2)]
       IN /\ promises' = [k \in Kinds |-> [promises[k] EXCEPT ![r] = ran[k].promise]]
          /\ effects' = UNION {Cleanup(k) \cup ran[k].effect : k \in Kinds}
          /\ requests' = requests \cup UNION {ran[k].request : k \in Kinds}
          /\ hook' = [k \in Kinds |-> ran[k].hook]
  /\ asked' = asked + 2

(* The button of an error: the promise is thrown away and the effect runs     *)
(* again.                                                                     *)
Retry(k) ==
  /\ shownRevision # 0 /\ hook[k].status = "error"
  /\ k = "relations" => hook["document"].status = "ready"
  /\ asked < MaxRequests /\ asked' = asked + 1
  /\ LET ran == Effect(k, shownRevision, NoPromise, asked + 1)
     IN /\ promises' = [promises EXCEPT ![k][shownRevision] = ran.promise]
        /\ effects' = (effects \ {e \in effects : e.kind = k}) \cup Cleanup(k) \cup ran.effect
        /\ requests' = requests \cup ran.request
        /\ hook' = [hook EXCEPT ![k] = ran.hook]
  /\ UNCHANGED <<lawVars, serverVars, pageVars, shownRevision>>

RetryDocument  == Retry("document")
RetryRelations == Retry("relations")

(* A promise settles: it stays when it was fulfilled, it goes when it failed, *)
(* and the effects that are still active set their state.                     *)
Settle(q, value) ==
  LET waiting == {e \in effects : e.on = q.id}
      kept == promises[q.kind][q.revision].id = q.id
  IN /\ effects' = effects \ waiting
     /\ promises' = IF kept
                    THEN [promises EXCEPT ![q.kind][q.revision] =
                            IF value = NoDocument THEN NoPromise ELSE [id |-> q.id, value |-> value]]
                    ELSE promises
     /\ hook' = IF \E e \in waiting : e.active
                THEN [hook EXCEPT ![q.kind] =
                        [status |-> IF value = NoDocument THEN "error" ELSE "ready", shown |-> value]]
                ELSE hook

Arrive ==
  /\ \E q \in requests :
       /\ q.step \in {"answered", "refused"}
       /\ requests' = requests \ {q}
       /\ Settle(q, q.value)
  /\ UNCHANGED <<lawVars, serverVars, pageVars, shownRevision, asked>>

Lose ==
  /\ \E q \in requests : requests' = requests \ {q} /\ Settle(q, NoDocument)
  /\ UNCHANGED <<lawVars, serverVars, pageVars, shownRevision, asked>>

-----------------------------------------------------------------------------
(* The article page on the server: it follows the mappings one query at a     *)
(* time, then reads the article's tree.                                       *)
OpenPage ==
  /\ visits < MaxVisits /\ visits' = visits + 1
  /\ page.step \in {"none", "historical", "notFound"}
  /\ \E a \in 1 .. current : page' = [step |-> "following", asked |-> a, at |-> a]
  /\ UNCHANGED <<lawVars, serverVars, tabVars, requests, asked>>

FollowMapping ==
  /\ page.step = "following"
  /\ page' = CASE page.at = current /\ page.at = page.asked -> [page EXCEPT !.step = "reading"]
               [] page.at = current /\ page.at # page.asked -> [page EXCEPT !.asked = page.at]
               [] page.at < current /\ fate[page.at] = "mapped" -> [page EXCEPT !.at = @ + 1]
               [] OTHER -> [page EXCEPT !.step = "historical"]
  /\ UNCHANGED <<lawVars, serverVars, visits, tabVars, requests, asked>>

ReadTree ==
  /\ page.step = "reading"
  /\ IF page.asked = current
     THEN /\ page' = NoPage
          /\ Mount(page.asked)
     ELSE /\ page' = [page EXCEPT !.step = "notFound"]
          /\ UNCHANGED <<tabVars, requests, asked>>
  /\ UNCHANGED <<lawVars, serverVars, visits>>

ReaderNext ==
  \/ Switch
  \/ GetDocument \/ OthersAsk \/ RestartServer \/ GetRelations \/ ReadRelations
  \/ \E r \in Revisions :
       ReadMetadata(r) \/ ReadNodes(r) \/ ReadLinks(r) \/ FinishBuild(r) \/ FailBuild(r)
  \/ RetryDocument \/ RetryRelations \/ Arrive \/ Lose
  \/ OpenPage \/ FollowMapping \/ ReadTree

ReaderSpec == ReaderInit /\ [][ReaderNext]_readerVars

(* Queries and answers end, one way or another. *)
ReaderFairness ==
  /\ WF_readerVars(GetDocument) /\ WF_readerVars(GetRelations)
  /\ WF_readerVars(ReadRelations) /\ WF_readerVars(Arrive)
  /\ \A r \in Revisions : /\ WF_readerVars(ReadMetadata(r)) /\ WF_readerVars(ReadNodes(r))
                           /\ WF_readerVars(ReadLinks(r)) /\ WF_readerVars(FinishBuild(r))

ReaderFairSpec == ReaderSpec /\ ReaderFairness

-----------------------------------------------------------------------------
(* Whatever answers come late, after a retry or for a page that was left, the *)
(* reader shows the text and the relations of the revision it was opened for, *)
(* and of no other.                                                           *)
ShownIsAsked ==
  \A k \in Kinds :
    /\ hook[k].status = "ready" => hook[k].shown.revision = shownRevision
    /\ hook[k].status = "loading" => \E e \in effects : e.kind = k /\ e.active

(* What is served has the text whole, whatever switch falls between the       *)
(* queries of one answer, and the server keeps one document of a revision.    *)
(* Links and relations may be missing: but only those of a revision that was  *)
(* replaced while they were read, never those of the current one.             *)
ServedIsWhole ==
  LET Replaced(v) == v.revision < current
      Whole(d) == d.nodes /\ (d.links \/ Replaced(d))
  IN  /\ \A i \in DOMAIN documentCache : Whole(documentCache[i])
      /\ hook["document"].status = "ready" => Whole(hook["document"].shown)
      /\ hook["relations"].status = "ready" =>
            hook["relations"].shown.rows \/ Replaced(hook["relations"].shown)
      /\ \A i, j \in DOMAIN documentCache :
            documentCache[i].revision = documentCache[j].revision => i = j

(* The reader does not stay on "loading".                                     *)
LoadingEnds ==
  (hook["document"].status = "loading") ~> (hook["document"].status # "loading")
=============================================================================
