--------------------------- MODULE LawReaderProofs ---------------------------
(***************************************************************************)
(* Proofs about the reader: what the server keeps is whole, and what a     *)
(* page shows is what it was opened for, whatever answers come late; the   *)
(* active article, the address and the table of contents follow the place  *)
(* that is read.                                                           *)
(***************************************************************************)
EXTENDS LawReader, ReadingPlace, FiniteSetTheorems, SequenceTheorems,
        WellFoundedInduction, TLAPS

\* A document that may be kept or shown while revision c is current.
WholeAt(d, c) == d.nodes /\ (d.links \/ d.revision < c)

\* A value that may be given to a hook of kind k for revision r while c is current.
Right(k, r, v, c) ==
  v # NoDocument => /\ v.revision = r
                    /\ k = "document" => WholeAt(v, c)
                    /\ k = "relations" => v.rows \/ r < c

\* A request that may be under way while c is current.
Stands(q, c) ==
  /\ q.revision <= c
  /\ q.step = "waiting" => q.kind = "document"
  /\ q.step = "found" => q.kind = "relations"
  /\ Right(q.kind, q.revision, q.value, c)

(***************************************************************************)
(* The server: documents are whole, one for each revision, and none is     *)
(* under construction that is already kept.  A build whose links query     *)
(* found the revision replaced is one of an older revision for good.       *)
(***************************************************************************)
ServerInv ==
  /\ \A i \in DOMAIN documentCache : WholeAt(documentCache[i], current)
  /\ \A i, j \in DOMAIN documentCache :
       documentCache[i].revision = documentCache[j].revision => i = j
  /\ \A r \in Revisions : inFlight[r] # Idle => Cached(r) = {} /\ r <= current
  /\ \A r \in Revisions : inFlight[r]["links"] = "none" => r < current

(***************************************************************************)
(* The browser: answers and promises are those of their revision, a        *)
(* promise and the request it stands for agree, and an effect that is      *)
(* still active waits for a request of the revision on show.               *)
(***************************************************************************)
BrowserInv ==
  /\ shownRevision <= current
  /\ \A q \in requests : Stands(q, current)
  /\ \A k \in Kinds, r \in Revisions : Right(k, r, promises[k][r].value, current)
  /\ \A k \in Kinds, r \in Revisions, q \in requests :
       q.id = promises[k][r].id => q.kind = k /\ q.revision = r
  /\ \A e \in effects, q \in requests :
       e.active /\ e.on = q.id => e.kind = q.kind /\ q.revision = shownRevision

HookInv ==
  \A k \in Kinds :
    /\ hook[k].status = "ready" => /\ hook[k].shown # NoDocument
                                   /\ Right(k, shownRevision, hook[k].shown, current)
    /\ hook[k].status = "loading" => \E e \in effects : e.kind = k /\ e.active

ReaderInv == ReaderTypeOK /\ ServerInv /\ BrowserInv /\ HookInv

LEMMA ReaderStart == ReaderInit => ReaderInv
  <1> SUFFICES ASSUME ReaderInit PROVE ReaderInv OBVIOUS
  <1> USE ReaderAssumption DEF ReaderInit
  <1>1. ReaderTypeOK
    BY DEF ReaderTypeOK, RequestRecords, Revisions, Kinds, Values, Builds, Queries, Idle, NoPage, NoPromise
  <1>2. ServerInv BY DEF ServerInv, Cached, Idle, Queries, Revisions
  <1>3. BrowserInv BY DEF BrowserInv, Right, NoPromise, Kinds
  <1>4. HookInv BY DEF HookInv, Kinds
  <1> QED BY <1>1, <1>2, <1>3, <1>4 DEF ReaderInv

-----------------------------------------------------------------------------
(***************************************************************************)
(* Steps of the server.                                                    *)
(***************************************************************************)
\* Requests are answered, each with a value of its own revision, and nothing else of
\* the browser changes.
Serves ==
  /\ UNCHANGED <<current, promises, effects, hook, shownRevision, asked>>
  /\ \A p \in requests' : \E q \in requests :
       /\ p.id = q.id /\ p.kind = q.kind /\ p.revision = q.revision
       /\ Stands(p, current) /\ p \in RequestRecords

LEMMA ServesKeeps ==
  ASSUME ReaderInv, Serves
  PROVE  /\ BrowserInv' /\ HookInv'
         /\ requests' \subseteq RequestRecords'
  <1>1. BrowserInv' BY DEF ReaderInv, BrowserInv, Serves
  <1>2. HookInv' BY DEF ReaderInv, HookInv, Serves
  <1>3. requests' \subseteq RequestRecords'
    BY DEF Serves, RequestRecords
  <1> QED BY <1>1, <1>2, <1>3

\* What answering does to one request.
LEMMA AnsweredIs ==
  ASSUME ReaderInv, NEW q \in requests, NEW v \in Values, Right(q.kind, q.revision, v, current)
  PROVE  LET p == Answered(q, v) IN
         /\ p.id = q.id /\ p.kind = q.kind /\ p.revision = q.revision
         /\ Stands(p, current) /\ p \in RequestRecords
  <1>1. q \in RequestRecords /\ q.revision <= current
    BY DEF ReaderInv, ReaderTypeOK, BrowserInv, Stands
  <1> QED BY <1>1 DEF Answered, Stands, RequestRecords

LEMMA OldRequest ==
  ASSUME ReaderInv, NEW q \in requests
  PROVE  Stands(q, current) /\ q \in RequestRecords
  BY DEF ReaderInv, ReaderTypeOK, BrowserInv

LEMMA RequestsAnswered ==
  ASSUME ReaderInv, UNCHANGED <<current, promises, effects, hook, shownRevision, asked>>,
         NEW r \in Revisions, NEW v \in Values, requests' = AnswerAll(r, v),
         Right("document", r, v, current)
  PROVE  Serves
  <1> SUFFICES ASSUME NEW p \in requests'
               PROVE  \E q \in requests :
                        /\ p.id = q.id /\ p.kind = q.kind /\ p.revision = q.revision
                        /\ Stands(p, current) /\ p \in RequestRecords
    BY DEF Serves
  <1>1. CASE p \in requests BY <1>1, OldRequest
  <1>2. CASE p \notin requests
    <2>1. PICK q \in Waiting(r) : p = Answered(q, v) BY <1>2 DEF AnswerAll
    <2>2. q \in requests /\ q.revision = r /\ q.kind = "document"
      BY OldRequest DEF Waiting, Stands
    <2> QED BY <2>1, <2>2, AnsweredIs
  <1> QED BY <1>1, <1>2

\* A build begins only for a revision that is not kept, and for none of the future.
LEMMA BuildBegins ==
  ASSUME ReaderInv, NEW r \in Revisions, Cached(r) = {}, r <= current, StartBuild(r),
         UNCHANGED <<current, documentCache>>
  PROVE  inFlight' \in [Revisions -> Builds] /\ ServerInv'
  <1>1. inFlight \in [Revisions -> Builds] BY DEF ReaderInv, ReaderTypeOK
  <1>2. inFlight' \in [Revisions -> Builds] BY <1>1 DEF StartBuild, Builds
  <1>3. \A s \in Revisions : s # r => inFlight'[s] = inFlight[s] BY <1>1 DEF StartBuild
  <1>4. \A s \in Revisions : Cached(s)' = Cached(s) BY DEF Cached
  <1>5. inFlight'[r]["links"] = "none" => r < current
    BY <1>1 DEF StartBuild, Queries, ReaderInv, ServerInv
  <1>6. \A s \in Revisions : inFlight'[s]["links"] = "none" => s < current
    BY <1>3, <1>5 DEF ReaderInv, ServerInv
  <1> QED BY <1>2, <1>3, <1>4, <1>6 DEF ReaderInv, ServerInv

LEMMA ServerQueries ==
  ASSUME ReaderInv, NEW r \in Revisions, NEW query \in Queries, ReadQuery(r, query)
  PROVE  ReaderInv'
  <1>1. inFlight \in [Revisions -> Builds] /\ current \in Revisions
    BY DEF ReaderInv, ReaderTypeOK
  <1>2. inFlight[r] # Idle BY <1>1 DEF ReadQuery, Idle
  <1>3. UNCHANGED <<lawVars, documentCache, pageVars, tabVars, requests, asked>>
    BY DEF ReadQuery
  <1>4. /\ inFlight' \in [Revisions -> Builds]
        /\ \A s \in Revisions : s # r => inFlight'[s] = inFlight[s]
    BY <1>1 DEF ReadQuery, Builds
  <1>5. UNCHANGED current BY <1>3 DEF lawVars
  <1>6. r <= current BY <1>2 DEF ReaderInv, ServerInv
  <1>7. inFlight'[r]["links"] = "none" => r < current
    <2>1. \/ query # "links" /\ inFlight'[r]["links"] = inFlight[r]["links"]
          \/ inFlight'[r]["links"] = IF r = current THEN "some" ELSE "none"
      BY <1>1 DEF ReadQuery, Builds, Queries
    <2> QED BY <1>1, <1>6, <2>1 DEF ReaderInv, ServerInv, Revisions
  <1>8. ServerInv'
    <2>1. \A s \in Revisions : Cached(s)' = Cached(s) BY <1>3 DEF Cached
    <2>2. \A s \in Revisions : inFlight'[s]["links"] = "none" => s < current
      BY <1>4, <1>7 DEF ReaderInv, ServerInv
    <2>3. \A s \in Revisions : inFlight'[s] # Idle => Cached(s) = {} /\ s <= current
      BY <1>2, <1>4 DEF ReaderInv, ServerInv
    <2> QED BY <1>3, <1>5, <2>1, <2>2, <2>3 DEF ReaderInv, ServerInv
  <1>9. BrowserInv' /\ HookInv'
    BY <1>3, <1>5 DEF ReaderInv, BrowserInv, HookInv, tabVars
  <1>10. ReaderTypeOK'
    BY <1>3, <1>4 DEF ReaderInv, ReaderTypeOK, RequestRecords, lawVars, pageVars, tabVars
  <1> QED BY <1>8, <1>9, <1>10 DEF ReaderInv

\* A build that ends keeps its document, if it is whole, and pushes the oldest out.
LEMMA BuildEnds ==
  ASSUME ReaderInv, NEW r \in Revisions, FinishBuild(r)
  PROVE  /\ documentCache' \in Seq(Documents) /\ inFlight' \in [Revisions -> Builds]
         /\ ServerInv'
         /\ Built(r) \in Values /\ Right("document", r, Built(r), current)
  <1>1. documentCache \in Seq(Documents) /\ inFlight \in [Revisions -> Builds]
    BY DEF ReaderInv, ReaderTypeOK
  <1>2. inFlight' = [inFlight EXCEPT ![r] = Idle] /\ UNCHANGED current
    BY DEF FinishBuild, lawVars
  <1>3. /\ inFlight' \in [Revisions -> Builds] /\ inFlight'[r] = Idle
        /\ \A s \in Revisions : s # r => inFlight'[s] = inFlight[s]
    BY <1>1, <1>2 DEF Builds, Idle
  <1>4. Cached(r) = {}
    BY <1>1 DEF FinishBuild, ReaderInv, ServerInv, Idle, Queries
  <1>5. PICK d : d = Built(r) OBVIOUS
  <1>6. d # NoDocument => d \in Documents /\ d.revision = r /\ WholeAt(d, current)
    <2>1. ASSUME d # NoDocument PROVE d \in Documents /\ d.revision = r /\ WholeAt(d, current)
      <3>1. d = Document(r) /\ inFlight[r]["nodes"] # "none"
        BY <1>5, <2>1 DEF Built
      <3>2. \A query \in Queries : inFlight[r][query] \in {"some", "none"}
        BY <1>1 DEF FinishBuild, Builds
      <3>3. inFlight[r]["nodes"] = "some" BY <3>1, <3>2 DEF Queries
      <3>4. inFlight[r]["links"] = "some" \/ r < current
        BY <3>2 DEF Queries, ReaderInv, ServerInv
      <3>5. \E links \in BOOLEAN : /\ links <=> inFlight[r]["links"] = "some"
                                   /\ d = [revision |-> r, nodes |-> TRUE, links |-> links]
        BY <3>1, <3>3, Zenon DEF Document
      <3> QED BY <3>4, <3>5 DEF Documents, WholeAt
    <2> QED BY <2>1
  <1>7. Built(r) \in Values /\ Right("document", r, Built(r), current)
    BY <1>5, <1>6 DEF Values, Right
  <1>8. CASE d = NoDocument
    <2>1. UNCHANGED documentCache BY <1>5, <1>8 DEF FinishBuild
    <2>2. \A s \in Revisions : Cached(s)' = Cached(s) BY <2>1 DEF Cached
    <2>3. \A s \in Revisions : inFlight'[s]["links"] = "none" => s < current
      BY <1>3 DEF ReaderInv, ServerInv, Idle, Queries
    <2>4. ServerInv' BY <1>2, <1>3, <2>1, <2>2, <2>3 DEF ReaderInv, ServerInv
    <2> QED BY <1>1, <1>3, <1>7, <2>1, <2>4
  <1>9. CASE d # NoDocument
    <2> DEFINE grown == Append(documentCache, d)
    <2>1. grown \in Seq(Documents) /\ Len(grown) = Len(documentCache) + 1
      BY <1>1, <1>6, <1>9
    <2>2. /\ \A i \in 1 .. Len(documentCache) : grown[i] = documentCache[i]
          /\ grown[Len(documentCache) + 1] = d
      BY <1>1
    <2> HIDE DEF grown
    <2>3. documentCache' = grown \/ documentCache' = Tail(grown)
      BY <1>5, <1>9 DEF FinishBuild, Trimmed, grown
    <2>4. documentCache' \in Seq(Documents) BY <2>1, <2>3
    <2>5. PICK n \in {0, 1} : \A i \in DOMAIN documentCache' :
            i + n \in DOMAIN grown /\ documentCache'[i] = grown[i + n]
      <3>1. CASE documentCache' = grown BY <2>1, <3>1
      <3>2. CASE documentCache' = Tail(grown) BY <2>1, <3>2
      <3> QED BY <2>3, <3>1, <3>2
    <2>6. \A i \in DOMAIN grown : WholeAt(grown[i], current)
      BY <1>1, <1>6, <1>9, <2>1, <2>2 DEF ReaderInv, ServerInv
    <2>7. \A i, j \in DOMAIN grown : grown[i].revision = grown[j].revision => i = j
      BY <1>1, <1>4, <1>6, <1>9, <2>1, <2>2 DEF ReaderInv, ServerInv, Cached
    <2>8. \A s \in Revisions : inFlight'[s] # Idle =>
            \A i \in DOMAIN grown : grown[i].revision # s
      BY <1>1, <1>3, <1>6, <1>9, <2>1, <2>2 DEF ReaderInv, ServerInv, Cached
    <2>9. \A s \in Revisions : inFlight'[s] # Idle => Cached(s)' = {} /\ s <= current
      BY <1>3, <2>5, <2>8 DEF Cached, ReaderInv, ServerInv
    <2>10. \A i, j \in DOMAIN documentCache' :
             documentCache'[i].revision = documentCache'[j].revision => i = j
      <3> SUFFICES ASSUME NEW i \in DOMAIN documentCache', NEW j \in DOMAIN documentCache',
                          documentCache'[i].revision = documentCache'[j].revision
                   PROVE  i = j
        OBVIOUS
      <3>1. i + n = j + n BY <2>5, <2>7
      <3>2. i \in Nat /\ j \in Nat BY <2>4
      <3> QED BY <3>1, <3>2
    <2>11. \A s \in Revisions : inFlight'[s]["links"] = "none" => s < current
      BY <1>3 DEF ReaderInv, ServerInv, Idle, Queries
    <2>12. \A i \in DOMAIN documentCache' : WholeAt(documentCache'[i], current)
      BY <2>5, <2>6
    <2>13. ServerInv' BY <1>2, <2>9, <2>10, <2>11, <2>12 DEF ServerInv
    <2> QED BY <1>3, <1>7, <2>4, <2>13
  <1> QED BY <1>8, <1>9

\* The steps of the server and of the refresh, together.
LEMMA ServerSteps ==
  ASSUME ReaderInv,
         \/ GetDocument \/ OthersAsk \/ RestartServer \/ GetRelations \/ ReadRelations
         \/ \E r \in Revisions : FinishBuild(r) \/ FailBuild(r)
  PROVE  ReaderInv'
  <1>1. inFlight \in [Revisions -> Builds] /\ documentCache \in Seq(Documents)
        /\ current \in Revisions
    BY DEF ReaderInv, ReaderTypeOK
  \* It is enough that requests are served and that the cache stays what it is.
  <1>2. ASSUME UNCHANGED <<lawVars, pageVars>>, Serves, ServerInv',
               documentCache' \in Seq(Documents), inFlight' \in [Revisions -> Builds]
        PROVE  ReaderInv'
    <2>1. requests' \subseteq RequestRecords' /\ BrowserInv' /\ HookInv' BY <1>2, ServesKeeps
    <2>2. ReaderTypeOK'
      BY <1>2, <2>1 DEF ReaderInv, ReaderTypeOK, Serves, lawVars, pageVars
    <2> QED BY <1>2, <2>1, <2>2 DEF ReaderInv
  <1>3. UNCHANGED <<lawVars, current, pageVars, promises, effects, hook, shownRevision, asked>>
    BY DEF GetDocument, OthersAsk, RestartServer, GetRelations, ReadRelations, FinishBuild,
           FailBuild, pageVars, tabVars, lawVars
  <1>4. UNCHANGED requests => Serves BY <1>3, OldRequest DEF Serves
  \* A request is answered or made to wait.
  <1>5. ASSUME NEW q \in requests, NEW p, requests' = (requests \ {q}) \cup {p},
               p.id = q.id, p.kind = q.kind, p.revision = q.revision,
               Stands(p, current), p \in RequestRecords
        PROVE  Serves
    BY <1>3, <1>5, OldRequest DEF Serves
  <1>6. CASE GetDocument
    <2>1. PICK q \in requests :
            /\ q.kind = "document"
            /\ IF Cached(q.revision) # {}
               THEN /\ \E i \in Cached(q.revision) : requests' = Answer(q, documentCache[i])
                    /\ UNCHANGED inFlight
               ELSE /\ requests' = (requests \ {q}) \cup {[q EXCEPT !.step = "waiting"]}
                    /\ StartBuild(q.revision)
      BY <1>6 DEF GetDocument
    <2>2. q \in RequestRecords /\ Stands(q, current) /\ UNCHANGED documentCache
      BY <1>6, OldRequest DEF GetDocument
    <2>3. CASE Cached(q.revision) # {}
      <3>1. PICK i \in Cached(q.revision) : requests' = Answer(q, documentCache[i])
        BY <2>1, <2>3
      <3>2. /\ documentCache[i] \in Values /\ documentCache[i].revision = q.revision
            /\ WholeAt(documentCache[i], current)
        BY <1>1 DEF Cached, Values, ReaderInv, ServerInv
      <3>3. Right(q.kind, q.revision, documentCache[i], current) BY <2>1, <3>2 DEF Right
      <3>4. Serves BY <1>5, <3>1, <3>2, <3>3, AnsweredIs DEF Answer
      <3>5. ServerInv'
        BY <1>3, <2>1, <2>2, <2>3 DEF ReaderInv, ServerInv, Cached
      <3> QED BY <1>1, <1>2, <1>3, <2>1, <2>2, <2>3, <3>4, <3>5
    <2>4. CASE Cached(q.revision) = {}
      <3>1. q.revision \in Revisions /\ q.revision <= current
        BY <2>2 DEF RequestRecords, Stands
      <3>2. inFlight' \in [Revisions -> Builds] /\ ServerInv'
        BY <1>3, <2>1, <2>2, <2>4, <3>1, BuildBegins
      <3>3. Serves
        <4> DEFINE p == [q EXCEPT !.step = "waiting"]
        <4>1. /\ p.id = q.id /\ p.kind = q.kind /\ p.revision = q.revision
              /\ p.value = q.value /\ p.step = "waiting" /\ p \in RequestRecords
          BY <2>2 DEF RequestRecords
        <4>2. requests' = (requests \ {q}) \cup {p} BY <2>1, <2>4
        <4> HIDE DEF p
        <4>3. Stands(p, current) BY <2>1, <2>2, <4>1 DEF Stands
        <4> QED BY <1>5, <4>1, <4>2, <4>3
      <3> QED BY <1>1, <1>2, <1>3, <2>2, <3>2, <3>3
    <2> QED BY <2>3, <2>4
  <1>7. CASE OthersAsk
    <2>1. PICK r \in Revisions : r <= current /\ Cached(r) = {} /\ StartBuild(r)
      BY <1>1, <1>7, ReaderAssumption DEF OthersAsk, Revisions
    <2>2. UNCHANGED <<documentCache, requests>> BY <1>7 DEF OthersAsk
    <2> QED BY <1>1, <1>2, <1>3, <1>4, <2>1, <2>2, BuildBegins
  <1>8. CASE RestartServer
    <2>1. documentCache' = <<>> /\ inFlight' = [r \in Revisions |-> Idle]
      BY <1>8 DEF RestartServer
    <2>2. /\ documentCache' \in Seq(Documents) /\ inFlight' \in [Revisions -> Builds]
          /\ ServerInv'
      BY <2>1 DEF Builds, Queries, Idle, ServerInv, Cached
    <2>3. NoDocument \in Values /\ \A q \in requests : Right(q.kind, q.revision, NoDocument, current)
      BY DEF Values, Right
    <2>4. Serves
      <3> SUFFICES ASSUME NEW p \in requests'
                   PROVE  \E q \in requests :
                            /\ p.id = q.id /\ p.kind = q.kind /\ p.revision = q.revision
                            /\ Stands(p, current) /\ p \in RequestRecords
        BY <1>3 DEF Serves
      <3>1. PICK q \in requests :
              p = IF q.step = "waiting" THEN Answered(q, NoDocument) ELSE q
        BY <1>8 DEF RestartServer
      <3>2. CASE q.step = "waiting" BY <2>3, <3>1, <3>2, AnsweredIs
      <3>3. CASE q.step # "waiting" BY <3>1, <3>3, OldRequest
      <3> QED BY <3>2, <3>3
    <2> QED BY <1>2, <1>3, <2>2, <2>4
  <1>9. ASSUME NEW q \in requests, q.kind = "relations", NEW v \in Values,
               Right("relations", q.revision, v, current), requests' = Answer(q, v),
               UNCHANGED serverVars
        PROVE  ReaderInv'
    <2>1. Serves BY <1>5, <1>9, AnsweredIs DEF Answer
    <2>2. UNCHANGED <<documentCache, inFlight>> BY <1>9 DEF serverVars
    <2>3. ServerInv' BY <1>3, <2>2 DEF ReaderInv, ServerInv, Cached
    <2> QED BY <1>1, <1>2, <1>3, <2>1, <2>2, <2>3
  <1>10. CASE GetRelations
    <2>1. PICK q \in requests :
            /\ q.kind = "relations"
            /\ requests' = IF q.revision = current
                           THEN (requests \ {q}) \cup {[q EXCEPT !.step = "found"]}
                           ELSE Answer(q, NoDocument)
      BY <1>10 DEF GetRelations
    <2>2. UNCHANGED serverVars BY <1>10 DEF GetRelations
    <2>3. CASE q.revision = current
      <3> DEFINE p == [q EXCEPT !.step = "found"]
      <3>1. Stands(q, current) /\ q \in RequestRecords BY OldRequest
      <3>2. /\ p.id = q.id /\ p.kind = q.kind /\ p.revision = q.revision
            /\ p.value = q.value /\ p.step = "found" /\ p \in RequestRecords
        BY <3>1 DEF RequestRecords
      <3>3. requests' = (requests \ {q}) \cup {p} BY <2>1, <2>3
      <3> HIDE DEF p
      <3>4. Stands(p, current) BY <2>1, <3>1, <3>2 DEF Stands
      <3>5. Serves BY <1>5, <3>2, <3>3, <3>4
      <3>6. UNCHANGED <<documentCache, inFlight>> BY <2>2 DEF serverVars
      <3>7. ServerInv' BY <1>3, <3>6 DEF ReaderInv, ServerInv, Cached
      <3> QED BY <1>1, <1>2, <1>3, <3>5, <3>6, <3>7
    <2>4. CASE q.revision # current
      <3>1. NoDocument \in Values /\ Right("relations", q.revision, NoDocument, current)
        BY DEF Values, Right
      <3> QED BY <1>9, <2>1, <2>2, <2>4, <3>1
    <2> QED BY <2>3, <2>4
  <1>11. CASE ReadRelations
    <2>1. PICK q \in requests :
            /\ q.step = "found"
            /\ requests' = Answer(q, [revision |-> q.revision, rows |-> q.revision = current])
      BY <1>11 DEF ReadRelations
    <2>2. q.kind = "relations" /\ q.revision \in Revisions /\ q.revision <= current
      BY <2>1, OldRequest DEF Stands, RequestRecords
    <2>3. PICK rows \in BOOLEAN : rows <=> q.revision = current BY Zenon
    <2>4. PICK v : v = [revision |-> q.revision, rows |-> rows] OBVIOUS
    <2>5. requests' = Answer(q, v) BY <2>1, <2>3, <2>4, Zenon
    <2>6. v \in Values BY <2>2, <2>4 DEF Values, Relations
    <2>7. v.revision = q.revision /\ (v.rows \/ q.revision < current)
      BY <1>1, <2>2, <2>3, <2>4 DEF Revisions
    <2>8. Right("relations", q.revision, v, current) BY <2>7 DEF Right
    <2>9. UNCHANGED serverVars BY <1>11 DEF ReadRelations
    <2> QED BY <1>9, <2>2, <2>5, <2>6, <2>8, <2>9
  <1>12. ASSUME NEW r \in Revisions, FinishBuild(r) PROVE ReaderInv'
    <2>1. requests' = AnswerAll(r, Built(r)) BY <1>12 DEF FinishBuild
    <2>2. Serves BY <1>3, <1>12, <2>1, BuildEnds, RequestsAnswered
    <2> QED BY <1>2, <1>3, <1>12, <2>2, BuildEnds
  <1>13. ASSUME NEW r \in Revisions, FailBuild(r) PROVE ReaderInv'
    <2>1. /\ inFlight' = [inFlight EXCEPT ![r] = Idle] /\ UNCHANGED documentCache
          /\ requests' = AnswerAll(r, NoDocument)
      BY <1>13 DEF FailBuild
    <2>2. inFlight' \in [Revisions -> Builds]
      BY <1>1, <2>1 DEF Builds, Idle
    <2>3. \A s \in Revisions : inFlight'[s] = Idle \/ inFlight'[s] = inFlight[s]
      BY <1>1, <2>1
    <2>4. ServerInv'
      BY <1>3, <2>1, <2>3 DEF Queries, Idle, ReaderInv, ServerInv, Cached
    <2>5. NoDocument \in Values /\ Right("document", r, NoDocument, current) BY DEF Values, Right
    <2>6. Serves BY <1>3, <2>1, <2>5, RequestsAnswered
    <2> QED BY <1>1, <1>2, <1>3, <2>1, <2>2, <2>4, <2>6
  <1> QED BY <1>6, <1>7, <1>8, <1>10, <1>11, <1>12, <1>13

-----------------------------------------------------------------------------
(***************************************************************************)
(* Steps of the browser.  An effect that runs for kind k and revision r    *)
(* takes the promise there is, or makes one with a new request.            *)
(***************************************************************************)
Hooks   == [status : {"none", "loading", "ready", "error"}, shown : Values]
Promise(n) == [id : 0 .. n, value : Values]
Waits(n)   == [kind : Kinds, on : 1 .. n, active : BOOLEAN]

\* What one effect leaves: o is the promise, w the effects, s the requests, h the hook.
EffectRan(k, r, n, id, o, w, s, h) ==
  /\ o \in Promise(n) /\ o.id # 0 /\ Right(k, r, o.value, current)
  /\ \/ o.id = promises[k][r].id /\ s = {}
     \/ o.id = id /\ s = {[id |-> id, kind |-> k, revision |-> r, step |-> "sent",
                          value |-> NoDocument]}
  /\ w \subseteq Waits(n) /\ \A e \in w : e.kind = k /\ e.on = o.id
  /\ h \in Hooks
  /\ h.status = "ready" => h.shown # NoDocument /\ Right(k, r, h.shown, current)
  /\ h.status = "loading" => \E e \in w : e.active

LEMMA EffectRuns ==
  ASSUME ReaderInv, NEW k \in Kinds, NEW r \in Revisions,
         NEW known \in {promises[k][r], NoPromise}, NEW n \in Nat, NEW id \in (asked + 1) .. n
  PROVE  LET ran == Effect(k, r, known, id) IN
         EffectRan(k, r, n, id, ran.promise, ran.effect, ran.request, ran.hook)
  <1>1. asked \in Nat /\ promises[k][r] \in Promise(asked) /\ NoDocument \in Values
    BY DEF ReaderInv, ReaderTypeOK, Promise, Values
  <1>2. known \in Promise(n) /\ Right(k, r, known.value, current)
    BY <1>1 DEF NoPromise, Promise, Right, ReaderInv, BrowserInv
  <1>3. id \in 1 .. n BY <1>1
  <1>4. known.id # 0 => known = promises[k][r] BY DEF NoPromise
  <1> DEFINE ran == Effect(k, r, known, id)
  <1>5. /\ ran.promise = IF known.id = 0 THEN [id |-> id, value |-> NoDocument] ELSE known
        /\ ran.effect = IF Fulfilled(known) THEN {}
                        ELSE {[kind |-> k, on |-> ran.promise.id, active |-> TRUE]}
        /\ ran.request = IF known.id = 0
                         THEN {[id |-> id, kind |-> k, revision |-> r, step |-> "sent",
                                value |-> NoDocument]}
                         ELSE {}
        /\ ran.hook = IF Fulfilled(known) THEN [status |-> "ready", shown |-> known.value]
                      ELSE [status |-> "loading", shown |-> NoDocument]
    BY DEF Effect
  <1> HIDE DEF ran
  <1>6. ran.promise \in Promise(n) /\ ran.promise.id # 0 /\ Right(k, r, ran.promise.value, current)
    BY <1>1, <1>2, <1>3, <1>5 DEF Promise, Right
  <1>7. ran.promise.id \in 1 .. n BY <1>6 DEF Promise
  <1>8. /\ ran.effect \subseteq Waits(n)
        /\ \A e \in ran.effect : e.kind = k /\ e.on = ran.promise.id
    <2> DEFINE e == [kind |-> k, on |-> ran.promise.id, active |-> TRUE]
    <2>1. e \in Waits(n) /\ e.kind = k /\ e.on = ran.promise.id BY <1>7 DEF Waits
    <2>2. ran.effect \subseteq {e} BY <1>5
    <2> HIDE DEF e
    <2> QED BY <2>1, <2>2
  <1>9. /\ ran.hook \in Hooks
        /\ ran.hook.status = "ready" =>
             ran.hook.shown # NoDocument /\ Right(k, r, ran.hook.shown, current)
        /\ ran.hook.status = "loading" => \E e \in ran.effect : e.active
    <2>1. CASE Fulfilled(known)
      <3>1. ran.hook = [status |-> "ready", shown |-> known.value] BY <1>5, <2>1
      <3> QED BY <1>2, <2>1, <3>1 DEF Hooks, Fulfilled, Promise
    <2>2. CASE ~Fulfilled(known)
      <3>1. ran.hook = [status |-> "loading", shown |-> NoDocument] BY <1>5, <2>2
      <3>2. \E e \in ran.effect : e.active
        <4> DEFINE e == [kind |-> k, on |-> ran.promise.id, active |-> TRUE]
        <4>1. e.active /\ ran.effect = {e} BY <1>5, <2>2
        <4> HIDE DEF e
        <4> QED BY <4>1
      <3> QED BY <1>1, <3>1, <3>2 DEF Hooks
    <2> QED BY <2>1, <2>2
  <1>10. \/ ran.promise.id = promises[k][r].id /\ ran.request = {}
         \/ /\ ran.promise.id = id
            /\ ran.request = {[id |-> id, kind |-> k, revision |-> r, step |-> "sent",
                               value |-> NoDocument]}
    BY <1>4, <1>5
  <1>11. EffectRan(k, r, n, id, ran.promise, ran.effect, ran.request, ran.hook)
    BY <1>6, <1>8, <1>9, <1>10 DEF EffectRan
  <1> QED BY <1>11 DEF ran

\* The effects of the kinds in ks run for revision r, those of the others are left
\* alone; all of them run when the page changes to another revision.
Reruns(ks, r, id, o, w, s, h) ==
  /\ ks = Kinds \/ shownRevision = r
  /\ r <= current /\ UNCHANGED current
  /\ shownRevision' = r /\ asked' \in Nat /\ asked <= asked'
  /\ \A k \in ks : id[k] \in (asked + 1) .. asked'
  /\ \A k, j \in ks : id[k] = id[j] => k = j
  /\ \A k \in ks : EffectRan(k, r, asked', id[k], o[k], w[k], s[k], h[k])
  /\ promises' = [k \in Kinds |-> IF k \in ks THEN [promises[k] EXCEPT ![r] = o[k]]
                                  ELSE promises[k]]
  /\ \A e \in effects' : \/ e \in Waits(asked) /\ ~e.active
                         \/ \E k \in ks : e \in w[k]
                         \/ e \in effects /\ e.kind \notin ks
  /\ \A k \in ks : w[k] \subseteq effects'
  /\ \A e \in effects : e.kind \notin ks => e \in effects'
  /\ requests' = requests \cup UNION {s[k] : k \in ks}
  /\ hook' = [k \in Kinds |-> IF k \in ks THEN h[k] ELSE hook[k]]
  /\ UNCHANGED <<lawVars, serverVars>>
  /\ page' \in [step : {"none", "following", "reading", "historical", "notFound"},
                asked : 0 .. MaxRevision, at : 0 .. MaxRevision]
  /\ visits' \in Nat

LEMMA EffectsRun ==
  ASSUME ReaderInv, NEW ks \in SUBSET Kinds, NEW r \in Revisions,
         NEW id, NEW o, NEW w, NEW s, NEW h, Reruns(ks, r, id, o, w, s, h)
  PROVE  ReaderInv'
  <1> USE DEF Reruns
  <1>1. /\ asked \in Nat /\ NoDocument \in Values
        /\ promises \in [Kinds -> [Revisions -> Promise(asked)]]
        /\ effects \subseteq Waits(asked) /\ hook \in [Kinds -> Hooks]
        /\ requests \subseteq RequestRecords
    BY DEF ReaderInv, ReaderTypeOK, Promise, Waits, Hooks, Values
  <1>2. Promise(asked) \subseteq Promise(asked') /\ Waits(asked) \subseteq Waits(asked')
    BY <1>1 DEF Promise, Waits
  <1>3. RequestRecords \subseteq RequestRecords' BY <1>1 DEF RequestRecords, Values
  <1>4. \A k \in ks : o[k] \in Promise(asked') BY DEF EffectRan
  <1>5. promises' \in [Kinds -> [Revisions -> Promise(asked')]] BY <1>1, <1>2, <1>4
  <1>6. \A k \in Kinds, v \in Revisions :
          promises'[k][v] = IF k \in ks /\ v = r THEN o[k] ELSE promises[k][v]
    BY <1>1
  \* New requests.
  <1>7. \A q \in requests' :
          \/ q \in requests
          \/ \E k \in ks : /\ o[k].id = id[k]
                           /\ q = [id |-> id[k], kind |-> k, revision |-> r,
                                   step |-> "sent", value |-> NoDocument]
    BY DEF EffectRan
  <1>8. \A q \in requests : q.id \in 1 .. asked BY <1>1 DEF RequestRecords
  <1>9. requests' \subseteq RequestRecords'
    <2> SUFFICES ASSUME NEW q \in requests' PROVE q \in RequestRecords' OBVIOUS
    <2>1. CASE q \in requests BY <1>1, <1>3, <2>1
    <2>2. CASE q \notin requests
      <3>1. PICK k \in ks : q = [id |-> id[k], kind |-> k, revision |-> r,
                                step |-> "sent", value |-> NoDocument]
        BY <1>7, <2>2
      <3>2. id[k] \in 1 .. asked' BY <1>1
      <3> QED BY <1>1, <3>1, <3>2 DEF RequestRecords, Values
    <2> QED BY <2>1, <2>2
  <1>10. effects' \subseteq Waits(asked') BY <1>1, <1>2 DEF EffectRan
  <1>11. hook' \in [Kinds -> Hooks] BY <1>1 DEF EffectRan
  <1>12. ReaderTypeOK'
    <2>1. Values' = Values BY DEF Values
    <2>2. shownRevision' \in 0 .. MaxRevision BY ReaderAssumption DEF Revisions
    <2> QED BY <1>5, <1>9, <1>10, <1>11, <2>1, <2>2
        DEF ReaderInv, ReaderTypeOK, Promise, Waits, Hooks, lawVars, serverVars
  <1>13. ServerInv' BY DEF ReaderInv, ServerInv, Cached, serverVars
  <1>14. \A q \in requests' : Stands(q, current)
    BY <1>7 DEF ReaderInv, BrowserInv, Right, Stands
  <1>15. \A k \in Kinds, v \in Revisions : Right(k, v, promises'[k][v].value, current)
    BY <1>6 DEF ReaderInv, BrowserInv, EffectRan
  <1>16. ASSUME NEW k \in Kinds, NEW v \in Revisions, NEW q \in requests',
                q.id = promises'[k][v].id
         PROVE  q.kind = k /\ q.revision = v
    <2>1. promises[k][v].id \in 0 .. asked BY <1>1 DEF Promise
    <2>2. CASE q \in requests
      <3>1. promises'[k][v].id = promises[k][v].id
        <4>1. CASE k \in ks /\ v = r
          <5>1. promises'[k][v].id = o[k].id BY <1>6, <4>1
          <5>2. q.id \in 1 .. asked BY <1>8, <2>2
          <5>3. o[k].id = promises[k][r].id \/ o[k].id = id[k] BY <4>1 DEF EffectRan
          <5>4. k \in ks => id[k] > asked BY <1>1
          <5> QED BY <1>1, <1>16, <4>1, <5>1, <5>2, <5>3, <5>4
        <4>2. CASE ~(k \in ks /\ v = r) BY <1>6, <4>2
        <4> QED BY <4>1, <4>2
      <3> QED BY <1>16, <2>2, <3>1 DEF ReaderInv, BrowserInv
    <2>3. CASE q \notin requests
      <3>1. PICK j \in ks : q = [id |-> id[j], kind |-> j, revision |-> r,
                                step |-> "sent", value |-> NoDocument]
        BY <1>7, <2>3
      <3>2. id[j] > asked BY <1>1
      <3>3. k \in ks /\ v = r /\ o[k].id = id[j] BY <1>1, <1>6, <1>16, <2>1, <3>1, <3>2
      <3>4. o[k].id = id[k] BY <1>1, <2>1, <3>2, <3>3 DEF EffectRan
      <3> QED BY <3>1, <3>3, <3>4
    <2> QED BY <2>2, <2>3
  <1>17. ASSUME NEW e \in effects', NEW q \in requests', e.active, e.on = q.id
         PROVE  e.kind = q.kind /\ q.revision = r
    <2>1. CASE \E k \in ks : e \in w[k]
      <3>1. PICK k \in ks : e \in w[k] BY <2>1
      <3>2. k \in Kinds /\ e.kind = k /\ q.id = promises'[k][r].id
        BY <1>6, <1>17, <3>1 DEF EffectRan
      <3>3. q.kind = k /\ q.revision = r BY <1>16, <3>2
      <3> QED BY <3>2, <3>3
    <2>2. CASE e \in effects /\ e.kind \notin ks
      <3>1. shownRevision = r BY <1>1, <2>2 DEF Waits
      <3>2. e.on \in 1 .. asked BY <1>1, <2>2 DEF Waits
      <3>3. q \in requests BY <1>1, <1>7, <1>17, <3>2
      <3> QED BY <1>17, <2>2, <3>1, <3>3 DEF ReaderInv, BrowserInv
    <2> QED BY <1>17, <2>1, <2>2
  <1>18. BrowserInv'
    <2>1. \A k \in Kinds, v \in Revisions, q \in requests' :
            q.id = promises'[k][v].id => q.kind = k /\ q.revision = v
      BY <1>16
    <2>2. \A e \in effects', q \in requests' :
            e.active /\ e.on = q.id => e.kind = q.kind /\ q.revision = shownRevision'
      BY <1>17
    <2> QED BY <1>14, <1>15, <2>1, <2>2 DEF BrowserInv
  <1>19. HookInv'
    <2> SUFFICES ASSUME NEW k \in Kinds
                 PROVE  /\ hook'[k].status = "ready" => /\ hook'[k].shown # NoDocument
                                                        /\ Right(k, r, hook'[k].shown, current)
                        /\ hook'[k].status = "loading" =>
                             \E e \in effects' : e.kind = k /\ e.active
      BY DEF HookInv
    <2>1. CASE k \in ks BY <2>1 DEF EffectRan
    <2>2. CASE k \notin ks BY <2>2 DEF ReaderInv, HookInv
    <2> QED BY <2>1, <2>2
  <1> QED BY <1>12, <1>13, <1>18, <1>19 DEF ReaderInv

\* Waiting effects of one kind, all of them told that their page is gone.
LEMMA CleanedUp ==
  ASSUME ReaderInv, NEW k \in Kinds
  PROVE  \A e \in Cleanup(k) : e \in Waits(asked) /\ ~e.active /\ e.kind = k
  <1>1. effects \subseteq Waits(asked) BY DEF ReaderInv, ReaderTypeOK, Waits
  <1>2. SUFFICES ASSUME NEW d \in effects, d.kind = k
                 PROVE  LET e == [d EXCEPT !.active = FALSE]
                        IN  e \in Waits(asked) /\ ~e.active /\ e.kind = k
    BY DEF Cleanup
  <1> QED BY <1>1, <1>2 DEF Waits

LEMMA MountKeeps ==
  ASSUME ReaderInv, NEW r \in Revisions, r <= current, Mount(r), page' = NoPage,
         UNCHANGED <<lawVars, serverVars, visits>>
  PROVE  ReaderInv'
  <1>1. asked \in Nat /\ visits \in Nat BY DEF ReaderInv, ReaderTypeOK
  <1>2. asked' = asked + 2 /\ shownRevision' = r /\ UNCHANGED current BY DEF Mount, lawVars
  <1> DEFINE id == [k \in Kinds |-> IF k = "document" THEN asked + 1 ELSE asked + 2]
  <1>3. PICK d \in Known("document", r), c \in Known("relations", r) :
          LET ran == [k \in Kinds |->
                        Effect(k, r, IF k = "document" THEN d ELSE c,
                               IF k = "document" THEN asked + 1 ELSE asked + 2)]
          IN /\ promises' = [k \in Kinds |-> [promises[k] EXCEPT ![r] = ran[k].promise]]
             /\ effects' = UNION {Cleanup(k) \cup ran[k].effect : k \in Kinds}
             /\ requests' = requests \cup UNION {ran[k].request : k \in Kinds}
             /\ hook' = [k \in Kinds |-> ran[k].hook]
    BY DEF Mount
  <1> DEFINE ran == [k \in Kinds |->
                       Effect(k, r, IF k = "document" THEN d ELSE c,
                              IF k = "document" THEN asked + 1 ELSE asked + 2)]
             o == [k \in Kinds |-> ran[k].promise]
             w == [k \in Kinds |-> ran[k].effect]
             s == [k \in Kinds |-> ran[k].request]
             h == [k \in Kinds |-> ran[k].hook]
  <1>4. \A k \in Kinds : id[k] \in (asked + 1) .. asked' BY <1>1, <1>2 DEF Kinds
  <1>5. \A k, j \in Kinds : id[k] = id[j] => k = j BY <1>1 DEF Kinds
  <1>6. ASSUME NEW k \in Kinds
        PROVE  EffectRan(k, r, asked', id[k], ran[k].promise, ran[k].effect, ran[k].request,
                         ran[k].hook)
    <2> DEFINE known == IF k = "document" THEN d ELSE c
    <2>1. known \in {promises[k][r], NoPromise} BY DEF Known, Kinds
    <2>2. ran[k] = Effect(k, r, known, id[k]) OBVIOUS
    <2>3. asked' \in Nat /\ id[k] \in (asked + 1) .. asked' BY <1>1, <1>2, <1>4
    <2> HIDE DEF ran, known, id
    <2> QED BY <2>1, <2>2, <2>3, EffectRuns
  <1> HIDE DEF ran, id
  <1>7. promises' = [k \in Kinds |-> IF k \in Kinds THEN [promises[k] EXCEPT ![r] = o[k]]
                                      ELSE promises[k]]
    BY <1>3 DEF ran
  <1>8. /\ \A e \in effects' : \/ e \in Waits(asked) /\ ~e.active
                               \/ \E k \in Kinds : e \in w[k]
        /\ \A k \in Kinds : w[k] \subseteq effects'
    BY <1>3, CleanedUp DEF ran
  <1>9. requests' = requests \cup UNION {s[k] : k \in Kinds} BY <1>3 DEF ran
  <1>10. hook' = [k \in Kinds |-> IF k \in Kinds THEN h[k] ELSE hook[k]] BY <1>3 DEF ran
  <1>11. \A k \in Kinds : EffectRan(k, r, asked', id[k], o[k], w[k], s[k], h[k]) BY <1>6
  <1>12. \A e \in effects : e.kind \in Kinds BY DEF ReaderInv, ReaderTypeOK
  <1>13. page' \in [step : {"none", "following", "reading", "historical", "notFound"},
                    asked : 0 .. MaxRevision, at : 0 .. MaxRevision] /\ visits' \in Nat
    BY <1>1, ReaderAssumption DEF NoPage
  <1>14. asked' \in Nat /\ asked <= asked' BY <1>1, <1>2
  <1> HIDE DEF o, w, s, h
  <1>15. Reruns(Kinds, r, id, o, w, s, h)
    BY <1>2, <1>4, <1>5, <1>7, <1>8, <1>9, <1>10, <1>11, <1>12, <1>13, <1>14 DEF Reruns
  <1> QED BY <1>15, EffectsRun

LEMMA RetryKeeps ==
  ASSUME ReaderInv, NEW k \in Kinds, Retry(k)
  PROVE  ReaderInv'
  <1>1. /\ asked \in Nat /\ visits \in Nat /\ shownRevision \in Revisions
        /\ promises \in [Kinds -> [Revisions -> Promise(asked)]]
        /\ hook \in [Kinds -> Hooks] /\ effects \subseteq Waits(asked)
    BY DEF ReaderInv, ReaderTypeOK, Retry, Revisions, Promise, Hooks, Waits
  <1> DEFINE r == shownRevision
             ran == Effect(k, r, NoPromise, asked + 1)
             id == [j \in {k} |-> asked + 1]
             o == [j \in {k} |-> ran.promise]
             w == [j \in {k} |-> ran.effect]
             s == [j \in {k} |-> ran.request]
             h == [j \in {k} |-> ran.hook]
  <1>2. /\ asked' = asked + 1 /\ shownRevision' = r /\ r <= current
        /\ UNCHANGED <<lawVars, current, serverVars, pageVars>>
    BY DEF Retry, lawVars, ReaderInv, BrowserInv
  <1>3. /\ promises' = [promises EXCEPT ![k][r] = ran.promise]
        /\ effects' = (effects \ {e \in effects : e.kind = k}) \cup Cleanup(k) \cup ran.effect
        /\ requests' = requests \cup ran.request
        /\ hook' = [hook EXCEPT ![k] = ran.hook]
    BY DEF Retry
  <1>4. EffectRan(k, r, asked', asked + 1, ran.promise, ran.effect, ran.request, ran.hook)
    <2>1. asked' \in Nat /\ asked + 1 \in (asked + 1) .. asked' BY <1>1, <1>2
    <2> HIDE DEF ran
    <2> QED BY <1>1, <2>1, EffectRuns DEF ran
  <1> HIDE DEF ran
  <1>5. promises' = [j \in Kinds |-> IF j \in {k} THEN [promises[j] EXCEPT ![r] = o[j]]
                                     ELSE promises[j]]
    BY <1>1, <1>3
  <1>6. /\ \A e \in effects' : \/ e \in Waits(asked) /\ ~e.active
                               \/ \E j \in {k} : e \in w[j]
                               \/ e \in effects /\ e.kind \notin {k}
        /\ \A j \in {k} : w[j] \subseteq effects'
        /\ \A e \in effects : e.kind \notin {k} => e \in effects'
    BY <1>3, CleanedUp
  <1>7. requests' = requests \cup UNION {s[j] : j \in {k}} BY <1>3
  <1>8. hook' = [j \in Kinds |-> IF j \in {k} THEN h[j] ELSE hook[j]] BY <1>1, <1>3
  <1>9. \A j \in {k} : EffectRan(j, r, asked', id[j], o[j], w[j], s[j], h[j]) BY <1>4
  <1>10. /\ \A j \in {k} : id[j] \in (asked + 1) .. asked'
         /\ asked' \in Nat /\ asked <= asked'
    BY <1>1, <1>2
  <1>11. page' \in [step : {"none", "following", "reading", "historical", "notFound"},
                    asked : 0 .. MaxRevision, at : 0 .. MaxRevision] /\ visits' \in Nat
    BY <1>2 DEF ReaderInv, ReaderTypeOK, pageVars
  <1> HIDE DEF id, o, w, s, h
  <1>12. Reruns({k}, r, id, o, w, s, h)
    BY <1>1, <1>2, <1>5, <1>6, <1>7, <1>8, <1>9, <1>10, <1>11 DEF Reruns
  <1> QED BY <1>1, <1>12, EffectsRun

-----------------------------------------------------------------------------
(***************************************************************************)
(* A promise settles, with the answer that came or with none.              *)
(***************************************************************************)
LEMMA SettleKeeps ==
  ASSUME ReaderInv, NEW q \in requests, NEW v \in {q.value, NoDocument},
         requests' = requests \ {q}, Settle(q, v),
         UNCHANGED <<lawVars, serverVars, pageVars, shownRevision, asked>>
  PROVE  ReaderInv'
  <1>1. /\ asked \in Nat /\ NoDocument \in Values
        /\ promises \in [Kinds -> [Revisions -> Promise(asked)]]
        /\ effects \subseteq Waits(asked) /\ hook \in [Kinds -> Hooks]
        /\ requests \subseteq RequestRecords
    BY DEF ReaderInv, ReaderTypeOK, Promise, Waits, Hooks, Values
  <1>2. /\ q.kind \in Kinds /\ q.revision \in Revisions /\ q.id \in 1 .. asked
        /\ v \in Values /\ Right(q.kind, q.revision, v, current) /\ UNCHANGED current
    BY <1>1 DEF RequestRecords, ReaderInv, BrowserInv, Stands, Right, lawVars
  <1> DEFINE k == q.kind
             r == q.revision
             o == IF v = NoDocument THEN NoPromise ELSE [id |-> q.id, value |-> v]
             h == [status |-> IF v = NoDocument THEN "error" ELSE "ready", shown |-> v]
             waiting == {e \in effects : e.on = q.id}
  <1>3. /\ effects' = effects \ waiting
        /\ \/ UNCHANGED promises
           \/ promises[k][r].id = q.id /\ promises' = [promises EXCEPT ![k][r] = o]
        /\ IF \E e \in waiting : e.active THEN hook' = [hook EXCEPT ![k] = h]
                                          ELSE UNCHANGED hook
    BY DEF Settle
  <1>4. /\ o \in Promise(asked) /\ Right(k, r, o.value, current) /\ o.id \in {0, q.id}
        /\ h \in Hooks
    BY <1>1, <1>2 DEF Promise, Hooks, NoPromise, Right
  <1>5. h.status # "loading" /\ (h.status = "ready" => h.shown # NoDocument /\ h.shown = v)
    OBVIOUS
  <1> HIDE DEF o, h
  <1>6. promises' \in [Kinds -> [Revisions -> Promise(asked)]]
    <2>1. CASE UNCHANGED promises BY <1>1, <2>1
    <2>2. CASE promises' = [promises EXCEPT ![k][r] = o]
      <3>1. PICK f : f = [promises[k] EXCEPT ![r] = o] OBVIOUS
      <3>2. f \in [Revisions -> Promise(asked)] BY <1>1, <1>2, <1>4, <3>1
      <3>3. promises' = [promises EXCEPT ![k] = f] BY <2>2, <3>1
      <3> QED BY <1>1, <3>2, <3>3
    <2> QED BY <1>3, <2>1, <2>2
  <1>7. \A j \in Kinds, s \in Revisions :
          \/ promises'[j][s] = promises[j][s]
          \/ j = k /\ s = r /\ promises[k][r].id = q.id /\ promises'[j][s] = o
    BY <1>1, <1>2, <1>3
  <1>8. ReaderTypeOK'
    <2>1. Values' = Values /\ RequestRecords' = RequestRecords BY DEF Values, RequestRecords
    <2>2. hook' \in [Kinds -> Hooks] BY <1>1, <1>2, <1>3, <1>4
    <2>3. effects' \subseteq Waits(asked) /\ requests' \subseteq RequestRecords BY <1>1, <1>3
    <2> QED BY <1>6, <2>1, <2>2, <2>3
        DEF ReaderInv, ReaderTypeOK, Promise, Waits, Hooks, lawVars, serverVars, pageVars
  <1>9. ServerInv' BY <1>2 DEF ReaderInv, ServerInv, Cached, serverVars
  <1>10. BrowserInv'
    <2>1. \A j \in Kinds, s \in Revisions : Right(j, s, promises'[j][s].value, current)
      BY <1>4, <1>7 DEF ReaderInv, BrowserInv
    <2>2. ASSUME NEW j \in Kinds, NEW s \in Revisions, NEW p \in requests',
                 p.id = promises'[j][s].id
          PROVE  p.kind = j /\ p.revision = s
      <3>1. p \in requests /\ p.id # 0 BY <1>1 DEF RequestRecords
      <3>2. p.id = promises[j][s].id BY <1>4, <1>7, <2>2, <3>1
      <3> QED BY <3>1, <3>2 DEF ReaderInv, BrowserInv
    <2>3. \A e \in effects', p \in requests' :
            e.active /\ e.on = p.id => e.kind = p.kind /\ p.revision = shownRevision'
      BY <1>3 DEF ReaderInv, BrowserInv
    <2>4. \A p \in requests' : Stands(p, current)
      BY DEF ReaderInv, BrowserInv
    <2>5. shownRevision' <= current' BY <1>2 DEF ReaderInv, BrowserInv
    <2> QED BY <1>2, <2>1, <2>2, <2>3, <2>4, <2>5 DEF BrowserInv
  <1>11. HookInv'
    <2>1. \A e \in waiting : e.active => e.kind = k /\ r = shownRevision
      BY DEF ReaderInv, BrowserInv
    <2> SUFFICES ASSUME NEW j \in Kinds
                 PROVE  /\ hook'[j].status = "ready" =>
                             /\ hook'[j].shown # NoDocument
                             /\ Right(j, shownRevision, hook'[j].shown, current)
                        /\ hook'[j].status = "loading" =>
                             \E e \in effects' : e.kind = j /\ e.active
      BY <1>2 DEF HookInv
    <2>2. CASE j = k /\ \E e \in waiting : e.active
      <3>1. hook'[j] = h BY <1>1, <1>2, <1>3, <2>2
      <3> QED BY <1>2, <1>5, <2>1, <2>2, <3>1
    <2>3. CASE j # k \/ ~\E e \in waiting : e.active
      <3>1. hook'[j] = hook[j] BY <1>1, <1>3, <2>3
      <3>2. \A e \in effects : e.kind = j /\ e.active => e \in effects' BY <1>3, <2>1, <2>3
      <3> QED BY <3>1, <3>2 DEF ReaderInv, HookInv
    <2> QED BY <2>2, <2>3
  <1> QED BY <1>8, <1>9, <1>10, <1>11 DEF ReaderInv

\* What stands stands when the law goes on to a later revision.
LEMMA LaterStands ==
  ASSUME ReaderInv, current' \in Nat, current <= current',
         UNCHANGED <<serverVars, tabVars, requests, asked>>
  PROVE  ServerInv' /\ BrowserInv' /\ HookInv'
  <1>1. /\ current \in Nat /\ shownRevision \in Nat /\ documentCache \in Seq(Documents)
        /\ requests \subseteq RequestRecords /\ Revisions \subseteq Nat
        /\ UNCHANGED <<documentCache, inFlight, shownRevision, promises, effects, hook>>
    BY DEF ReaderInv, ReaderTypeOK, Revisions, serverVars, tabVars
  <1>2. ASSUME NEW d, d.revision \in Nat, WholeAt(d, current) PROVE WholeAt(d, current')
    BY <1>1, <1>2 DEF WholeAt
  <1>3. ASSUME NEW k, NEW r \in Nat, NEW v, Right(k, r, v, current)
        PROVE  Right(k, r, v, current')
    <2>1. v # NoDocument => v.revision = r BY <1>3 DEF Right
    <2> QED BY <1>1, <1>3, <2>1 DEF Right, WholeAt
  <1>4. ASSUME NEW q \in requests PROVE Stands(q, current')
    <2>1. Stands(q, current) /\ q.revision \in Nat BY <1>1, OldRequest DEF RequestRecords
    <2> QED BY <1>1, <1>3, <2>1 DEF Stands
  <1>5. ServerInv'
    <2>1. \A i \in DOMAIN documentCache : WholeAt(documentCache[i], current')
      <3> TAKE i \in DOMAIN documentCache
      <3>1. documentCache[i] \in Documents BY <1>1
      <3>2. documentCache[i].revision \in Revisions BY <3>1 DEF Documents
      <3> QED BY <1>1, <1>2, <3>2 DEF ReaderInv, ServerInv
    <2>2. \A r \in Revisions : inFlight[r] # Idle => r <= current'
      <3>1. \A r \in Revisions : inFlight[r] # Idle => r <= current BY DEF ReaderInv, ServerInv
      <3>2. \A r \in Revisions : r \in Nat BY <1>1
      <3>3. ASSUME NEW r \in Nat, r <= current PROVE r <= current' BY <1>1, <3>3
      <3> QED BY <3>1, <3>2, <3>3
    <2>3. \A r \in Revisions : inFlight[r]["links"] = "none" => r < current'
      <3>1. \A r \in Revisions : inFlight[r]["links"] = "none" => r < current
        BY DEF ReaderInv, ServerInv
      <3>2. \A r \in Revisions : r \in Nat BY <1>1
      <3>3. ASSUME NEW r \in Nat, r < current PROVE r < current' BY <1>1, <3>3
      <3> QED BY <3>1, <3>2, <3>3
    <2> QED BY <1>1, <2>1, <2>2, <2>3 DEF ReaderInv, ServerInv, Cached
  <1>6. BrowserInv'
    <2>1. shownRevision <= current' BY <1>1 DEF ReaderInv, BrowserInv
    <2>2. \A k \in Kinds, r \in Revisions : Right(k, r, promises[k][r].value, current')
      BY <1>1, <1>3 DEF ReaderInv, BrowserInv
    <2> QED BY <1>1, <1>4, <2>1, <2>2 DEF ReaderInv, BrowserInv
  <1>7. HookInv'
    BY <1>1, <1>3 DEF ReaderInv, HookInv
  <1> QED BY <1>5, <1>6, <1>7

\* The steps that change neither the server nor what is on show.
LEMMA PageKeeps ==
  ASSUME ReaderInv, Switch \/ OpenPage \/ FollowMapping \/ (ReadTree /\ page.asked # current)
  PROVE  ReaderInv'
  <1>1. UNCHANGED <<serverVars, tabVars, requests, asked>>
    BY DEF Switch, OpenPage, FollowMapping, ReadTree
  <1>2. /\ current \in Revisions /\ visits \in Nat
        /\ fate \in [Revisions -> {"none", "mapped", "ended"}]
        /\ page \in [step : {"none", "following", "reading", "historical", "notFound"},
                     asked : 0 .. MaxRevision, at : 0 .. MaxRevision]
    BY DEF ReaderInv, ReaderTypeOK
  <1>3. /\ current' \in Revisions /\ current <= current'
        /\ fate' \in [Revisions -> {"none", "mapped", "ended"}]
    <2>1. CASE Switch
      <3>1. PICK f \in {"mapped", "ended"} : fate' = [fate EXCEPT ![current] = f]
        BY <2>1 DEF Switch
      <3>2. fate' \in [Revisions -> {"none", "mapped", "ended"}] BY <1>2, <3>1
      <3>3. current' \in Revisions /\ current <= current'
        BY <1>2, <2>1, ReaderAssumption DEF Switch, Revisions
      <3> QED BY <3>2, <3>3
    <2>2. CASE ~Switch
      <3>1. UNCHANGED <<current, fate>> BY <2>2 DEF OpenPage, FollowMapping, ReadTree, lawVars
      <3> QED BY <1>2, <3>1 DEF Revisions
    <2> QED BY <2>1, <2>2
  <1>4. visits' \in Nat BY <1>2 DEF Switch, OpenPage, FollowMapping, ReadTree, pageVars
  <1>5. page' \in [step : {"none", "following", "reading", "historical", "notFound"},
                   asked : 0 .. MaxRevision, at : 0 .. MaxRevision]
    <2>1. CASE Switch BY <1>2, <2>1 DEF Switch, pageVars
    <2>2. CASE OpenPage
      <3>1. PICK a \in 1 .. current : page' = [step |-> "following", asked |-> a, at |-> a]
        BY <2>2 DEF OpenPage
      <3>2. a \in 0 .. MaxRevision BY <1>2, ReaderAssumption DEF Revisions
      <3> QED BY <3>1, <3>2
    <2>3. CASE FollowMapping
      <3>1. \/ page' = [page EXCEPT !.step = "reading"]
            \/ page' = [page EXCEPT !.asked = page.at]
            \/ page.at < current /\ page' = [page EXCEPT !.at = page.at + 1]
            \/ page' = [page EXCEPT !.step = "historical"]
        BY <2>3 DEF FollowMapping
      <3>2. page.at < current => page.at + 1 \in 0 .. MaxRevision
        BY <1>2, ReaderAssumption DEF Revisions
      <3> QED BY <1>2, <3>1, <3>2
    <2>4. CASE ReadTree /\ page.asked # current BY <1>2, <2>4 DEF ReadTree
    <2> QED BY <2>1, <2>2, <2>3, <2>4
  <1>6. ReaderTypeOK'
    BY <1>1, <1>3, <1>4, <1>5
    DEF ReaderInv, ReaderTypeOK, RequestRecords, Values, serverVars, tabVars
  <1>7. ServerInv' /\ BrowserInv' /\ HookInv'
    BY <1>1, <1>3, LaterStands DEF Revisions
  <1> QED BY <1>6, <1>7 DEF ReaderInv

LEMMA ReaderStep == ReaderInv /\ [ReaderNext]_readerVars => ReaderInv'
  <1> SUFFICES ASSUME ReaderInv, [ReaderNext]_readerVars PROVE ReaderInv' OBVIOUS
  <1>1. CASE \/ GetDocument \/ OthersAsk \/ RestartServer \/ GetRelations \/ ReadRelations
             \/ \E r \in Revisions : FinishBuild(r) \/ FailBuild(r)
    BY <1>1, ServerSteps
  <1>2. CASE \E r \in Revisions : ReadMetadata(r) \/ ReadNodes(r) \/ ReadLinks(r)
    BY <1>2, ServerQueries DEF ReadMetadata, ReadNodes, ReadLinks, Queries
  <1>3. CASE RetryDocument \/ RetryRelations
    BY <1>3, RetryKeeps DEF RetryDocument, RetryRelations, Kinds
  <1>4. CASE Arrive \/ Lose
    <2>1. PICK q \in requests :
            /\ requests' = requests \ {q}
            /\ Settle(q, q.value) \/ Settle(q, NoDocument)
      BY <1>4 DEF Arrive, Lose
    <2>2. UNCHANGED <<lawVars, serverVars, pageVars, shownRevision, asked>>
      BY <1>4 DEF Arrive, Lose
    <2> QED BY <2>1, <2>2, SettleKeeps
  <1>5. CASE Switch \/ OpenPage \/ FollowMapping \/ (ReadTree /\ page.asked # current)
    BY <1>5, PageKeeps
  <1>6. CASE ReadTree /\ page.asked = current
    <2>1. current \in Revisions /\ current <= current
      BY DEF ReaderInv, ReaderTypeOK, Revisions
    <2>2. /\ Mount(current) /\ page' = NoPage
          /\ UNCHANGED <<lawVars, serverVars, visits>>
      BY <1>6 DEF ReadTree
    <2> QED BY <2>1, <2>2, MountKeeps
  <1>7. CASE UNCHANGED readerVars
    <2>1. /\ UNCHANGED <<current, fate, documentCache, inFlight, page, visits, shownRevision>>
          /\ UNCHANGED <<promises, effects, hook, requests, asked>>
      BY <1>7 DEF readerVars, lawVars, serverVars, pageVars, tabVars
    <2>2. ReaderTypeOK' BY <2>1 DEF ReaderInv, ReaderTypeOK, RequestRecords, Values
    <2>3. ServerInv' BY <2>1 DEF ReaderInv, ServerInv, Cached
    <2>4. BrowserInv' BY <2>1 DEF ReaderInv, BrowserInv
    <2>5. HookInv' BY <2>1 DEF ReaderInv, HookInv
    <2> QED BY <2>2, <2>3, <2>4, <2>5 DEF ReaderInv
  <1> QED BY <1>1, <1>2, <1>3, <1>4, <1>5, <1>6, <1>7 DEF ReaderNext

(***************************************************************************)
(* The document route's cache and the two hooks, for any number of         *)
(* revisions, requests and readers.                                        *)
(***************************************************************************)

\* Every reachable state of the reader and its server is well typed.
THEOREM ReaderTypeCorrect == ReaderSpec => []ReaderTypeOK
  <1>1. ReaderInv => ReaderTypeOK BY DEF ReaderInv
  <1> QED BY <1>1, ReaderStart, ReaderStep, PTL DEF ReaderSpec

\* What the server keeps, and what a page shows of it, has the text whole, once for
\* each revision; its links, and the relations on show, are missing only when the
\* revision was replaced (getOrBuildFullLawDocument, getFullLawDocument).
THEOREM ServedDocumentIsWhole == ReaderSpec => []ServedIsWhole
  <1>1. ASSUME ReaderInv PROVE ServedIsWhole
    <2>1. hook["document"].status = "ready" => WholeAt(hook["document"].shown, current)
      BY <1>1 DEF ReaderInv, HookInv, Right, Kinds
    <2>2. hook["relations"].status = "ready" =>
            \/ hook["relations"].shown.rows
            \/ hook["relations"].shown.revision < current
      BY <1>1 DEF ReaderInv, HookInv, Right, Kinds
    <2> QED BY <1>1, <2>1, <2>2 DEF ReaderInv, ServerInv, ServedIsWhole, WholeAt
  <1> QED BY <1>1, ReaderStart, ReaderStep, PTL DEF ReaderSpec

\* A page shows the revision it was opened for, whatever answers come late, and waits
\* only for an answer that will be heard (useFullLawDocument, useConfirmedRelations).
THEOREM ReaderShowsWhatItAsked == ReaderSpec => []ShownIsAsked
  <1>1. ReaderInv => ShownIsAsked
    BY DEF ReaderInv, HookInv, ShownIsAsked, Right
  <1> QED BY <1>1, ReaderStart, ReaderStep, PTL DEF ReaderSpec

\* A set of numbers has a least one.
LEMMA LeastNumber ==
    ASSUME NEW S, S \subseteq Nat, S # {}
    PROVE  \E m \in S : \A n \in S : m <= n
  <1>1. PICK m \in S : \A n \in S : ~ (<<n, m>> \in OpToRel(<, Nat))
    BY NatLessThanWellFounded, WFMin
  <1>2. \A n \in S : ~ (n < m) BY <1>1 DEF OpToRel
  <1> QED BY <1>2

-----------------------------------------------------------------------------
(* The reading place: what is computed place by place.                       *)

\* Induction for a set of numbers.
LEMMA UpToIsIn ==
    ASSUME NEW n \in Nat, NEW Good, 0 \in Good, \A i \in 1 .. n : i - 1 \in Good => i \in Good
    PROVE  \A i \in 0 .. n : i \in Good
  <1> DEFINE Bad == {i \in 0 .. n : i \notin Good}
  <1>1. SUFFICES ASSUME Bad # {} PROVE FALSE BY <1>1
  <1>2. PICK m \in Bad : \A i \in Bad : m <= i
    <2>1. Bad \subseteq Nat OBVIOUS
    <2> HIDE DEF Bad
    <2> QED BY <1>1, <2>1, LeastNumber
  <1>3. m \in 1 .. n BY <1>2
  <1>4. m - 1 \in Good BY <1>2, <1>3
  <1> QED BY <1>2, <1>3, <1>4

\* f is what comes of the steps 1 to n.
IsCourse(f, step, start, n) ==
    /\ f[0] = start
    /\ \A i \in 1 .. n : f[i] = step[<<f[i - 1], i>>]

\* There is such a course for every number of steps.
LEMMA CourseExists ==
    ASSUME NEW S, NEW n \in Nat, NEW step \in [S \X (1 .. n) -> S], NEW start \in S
    PROVE  \E f \in [0 .. n -> S] : IsCourse(f, step, start, n)
  <1> DEFINE Good == {k \in 0 .. n : \E f \in [0 .. k -> S] : IsCourse(f, step, start, k)}
  <1>1. 0 \in Good
    <2> DEFINE f == [i \in 0 .. 0 |-> start]
    <2>1. f \in [0 .. 0 -> S] /\ IsCourse(f, step, start, 0) BY DEF IsCourse
    <2> QED BY <2>1
  <1>2. ASSUME NEW k \in 1 .. n, k - 1 \in Good PROVE k \in Good
    <2>1. PICK f \in [0 .. k - 1 -> S] : IsCourse(f, step, start, k - 1) BY <1>2
    <2> DEFINE g == [i \in 0 .. k |-> IF i = k THEN step[<<f[k - 1], k>>] ELSE f[i]]
    <2>2. f[k - 1] \in S BY <2>1
    <2>3. step[<<f[k - 1], k>>] \in S BY <2>2
    <2>4. g \in [0 .. k -> S] BY <2>1, <2>3
    <2>5. g[0] = start BY <2>1 DEF IsCourse
    <2>6. ASSUME NEW i \in 1 .. k PROVE g[i] = step[<<g[i - 1], i>>]
      <3>1. CASE i = k
        <4>1. g[i] = step[<<f[k - 1], k>>] /\ g[i - 1] = f[k - 1] BY <3>1
        <4> QED BY <3>1, <4>1
      <3>2. CASE i # k
        <4>1. i \in 1 .. k - 1 /\ g[i] = f[i] /\ g[i - 1] = f[i - 1] BY <3>2
        <4> QED BY <2>1, <4>1 DEF IsCourse
      <3> QED BY <3>1, <3>2
    <2>7. IsCourse(g, step, start, k) BY <2>5, <2>6 DEF IsCourse
    <2> QED BY <2>4, <2>7
  <1> HIDE DEF Good
  <1>3. \A k \in 0 .. n : k \in Good BY <1>1, <1>2, UpToIsIn
  <1>4. n \in Good BY <1>3
  <1> QED BY <1>4 DEF Good

\* What is known of a law: its entries have a height and come after their parents.
LEMMA EntriesFacts ==
    /\ Len(Entries) \in Nat /\ DOMAIN Entries = 1 .. Len(Entries)
    /\ \A e \in DOMAIN Entries :
           /\ e \in Nat \ {0} /\ Entries[e].height \in Nat \ {0}
           /\ Entries[e].parent \in Nat /\ Entries[e].parent < e
    /\ Sentinels \subseteq DOMAIN Entries /\ Sentinels # {} /\ IsFiniteSet(Sentinels)
  <1>1. Len(Entries) \in Nat /\ DOMAIN Entries = 1 .. Len(Entries) BY PlaceAssumption
  <1>2. ASSUME NEW e \in DOMAIN Entries
        PROVE  /\ e \in Nat \ {0} /\ Entries[e].height \in Nat \ {0}
               /\ Entries[e].parent \in Nat /\ Entries[e].parent < e
    BY <1>1, <1>2, PlaceAssumption
  <1>3. Sentinels \subseteq DOMAIN Entries /\ Sentinels # {} BY PlaceAssumption DEF Sentinels
  <1>4. IsFiniteSet(1 .. Len(Entries)) BY <1>1, FS_Interval
  <1>5. IsFiniteSet(Sentinels) BY <1>1, <1>3, <1>4, FS_Subset
  <1> QED BY <1>1, <1>2, <1>3, <1>5

\* The heights add up.
LEMMA HeightFacts ==
    /\ \A n \in 0 .. Len(Entries) : Height(n) \in Nat
    /\ \A e \in DOMAIN Entries : Height(e) = Height(e - 1) + Entries[e].height
  <1> DEFINE n == Len(Entries)
             step == [x \in Nat \X (1 .. n) |-> x[1] + Entries[x[2]].height]
             Solves(f) == f = [k \in 0 .. n |-> IF k = 0 THEN 0 ELSE f[k - 1] + Entries[k].height]
             sum == CHOOSE f : Solves(f)
  <1>1. n \in Nat /\ DOMAIN Entries = 1 .. n BY EntriesFacts
  <1>2. step \in [Nat \X (1 .. n) -> Nat]
    <2>1. \A x \in Nat \X (1 .. n) : x[1] \in Nat /\ Entries[x[2]].height \in Nat
      BY <1>1, EntriesFacts
    <2> QED BY <2>1
  <1>3. \A x \in Nat, k \in 1 .. n : step[<<x, k>>] = x + Entries[k].height OBVIOUS
  <1> HIDE DEF n, step
  <1>4. PICK g \in [0 .. n -> Nat] : IsCourse(g, step, 0, n) BY <1>1, <1>2, CourseExists
  <1>5. Solves(g)
    <2>1. ASSUME NEW k \in 0 .. n PROVE g[k] = (IF k = 0 THEN 0 ELSE g[k - 1] + Entries[k].height)
      <3>1. CASE k = 0 BY <1>4, <3>1 DEF IsCourse
      <3>2. CASE k # 0
        <4>1. k \in 1 .. n /\ k - 1 \in 0 .. n BY <1>1, <3>2
        <4> QED BY <1>3, <1>4, <3>2, <4>1 DEF IsCourse
      <3> QED BY <3>1, <3>2
    <2> QED BY <1>4, <2>1
  <1>6. Solves(sum) BY <1>5
  <1>7. \A k : Height(k) = sum[k] BY DEF Height, n
  <1> HIDE DEF sum
  <1> DEFINE Good == {k \in 0 .. n : sum[k] \in Nat}
  <1>8. \A k \in 0 .. n : k \in Good
    <2>1. 0 \in Good BY <1>1, <1>6
    <2>2. ASSUME NEW k \in 1 .. n, k - 1 \in Good PROVE k \in Good
      <3>1. sum[k] = sum[k - 1] + Entries[k].height BY <1>1, <1>6
      <3>2. sum[k - 1] \in Nat /\ Entries[k].height \in Nat BY <1>1, <2>2, EntriesFacts
      <3> QED BY <3>1, <3>2
    <2> HIDE DEF Good
    <2> QED BY <1>1, <2>1, <2>2, UpToIsIn
  <1>9. ASSUME NEW e \in 1 .. n PROVE Height(e) = Height(e - 1) + Entries[e].height
    <2>1. sum[e] = sum[e - 1] + Entries[e].height BY <1>1, <1>6
    <2> QED BY <1>7, <2>1
  <1> QED BY <1>1, <1>7, <1>8, <1>9 DEF n

\* What comes later begins lower.
LEMMA HeightGrows ==
    ASSUME NEW a \in 0 .. Len(Entries), NEW b \in 0 .. Len(Entries), a <= b
    PROVE  Height(a) <= Height(b)
  <1> DEFINE n == Len(Entries)
             Good == {k \in 0 .. n : a <= k => Height(a) <= Height(k)}
  <1>1. n \in Nat /\ DOMAIN Entries = 1 .. n BY EntriesFacts
  <1>2. \A k \in 0 .. n : k \in Good
    <2>1. 0 \in Good BY <1>1, HeightFacts
    <2>2. ASSUME NEW k \in 1 .. n, k - 1 \in Good PROVE k \in Good
      <3>1. Height(k) = Height(k - 1) + Entries[k].height /\ Entries[k].height \in Nat
        BY <1>1, EntriesFacts, HeightFacts
      <3>2. Height(k - 1) \in Nat /\ Height(k) \in Nat /\ Height(a) \in Nat BY <1>1, HeightFacts
      <3>3. a = k \/ a > k \/ a <= k - 1 BY <1>1
      <3>4. CASE a <= k - 1
        <4>1. Height(a) <= Height(k - 1) BY <2>2, <3>4
        <4> QED BY <3>1, <3>2, <4>1
      <3>5. CASE a = k \/ a > k BY <3>2, <3>5
      <3> QED BY <3>3, <3>4, <3>5
    <2> HIDE DEF Good
    <2> QED BY <1>1, <2>1, <2>2, UpToIsIn
  <1> QED BY <1>2

-----------------------------------------------------------------------------
(* The reading place: the article at the line.                               *)

\* Bounds at most w apart.
Between(n, w) == {b \in (0 .. n) \X (0 .. n) : b[2] - b[1] <= w}

\* What one step of the search makes of the bounds.
Halving(f, above, b) ==
    LET mid == (b[1] + b[2]) \div 2
    IN  IF b[1] >= b[2] THEN b[1]
        ELSE IF above[mid] THEN f[<<mid + 1, b[2]>>] ELSE f[<<b[1], mid>>]

\* The middle of two bounds makes both parts smaller.
LEMMA MiddleFacts ==
    ASSUME NEW n \in Nat, NEW b \in (0 .. n) \X (0 .. n), b[1] < b[2],
           NEW mid, mid = (b[1] + b[2]) \div 2
    PROVE  /\ mid \in 0 .. n - 1 /\ b[1] <= mid /\ mid < b[2]
           /\ <<mid + 1, b[2]>> \in (0 .. n) \X (0 .. n) /\ b[2] - (mid + 1) < b[2] - b[1]
           /\ <<b[1], mid>> \in (0 .. n) \X (0 .. n) /\ mid - b[1] < b[2] - b[1]
  <1>1. b[1] \in 0 .. n /\ b[2] \in 0 .. n OBVIOUS
  <1> DEFINE lo == b[1]
             hi == b[2]
  <1> HIDE DEF lo, hi
  <1>2. lo \in 0 .. n /\ hi \in 0 .. n /\ lo < hi /\ mid = (lo + hi) \div 2 BY <1>1 DEF lo, hi
  <1>3. mid \in Int /\ lo <= mid /\ mid < hi BY <1>2
  <1>4. mid \in 0 .. n - 1 /\ mid + 1 \in 0 .. n /\ mid \in 0 .. n
        /\ hi - (mid + 1) < hi - lo /\ mid - lo < hi - lo
    BY <1>2, <1>3
  <1> QED BY <1>1, <1>3, <1>4 DEF lo, hi

\* The search by halving has a solution.
LEMMA SearchExists ==
    ASSUME NEW n \in Nat, NEW above
    PROVE  \E f : f = [b \in (0 .. n) \X (0 .. n) |-> Halving(f, above, b)]
  <1> DEFINE All == (0 .. n) \X (0 .. n)
             Solved(f, w) == \A b \in Between(n, w) : f[b] = Halving(f, above, b)
             Good == {w \in 0 .. n : \E f \in [All -> 0 .. n] : Solved(f, w)}
  <1>1. 0 \in Good
    <2> DEFINE f == [b \in All |-> b[1]]
    <2>1. f \in [All -> 0 .. n] OBVIOUS
    <2>2. ASSUME NEW b \in Between(n, 0) PROVE f[b] = Halving(f, above, b)
      <3>1. b \in All /\ b[1] >= b[2] BY DEF Between
      <3> QED BY <3>1 DEF Halving
    <2> HIDE DEF f
    <2> QED BY <2>1, <2>2
  <1>2. ASSUME NEW w \in 1 .. n, w - 1 \in Good PROVE w \in Good
    <2>1. PICK f \in [All -> 0 .. n] : Solved(f, w - 1) BY <1>2
    <2> DEFINE g == [b \in All |-> IF b \in Between(n, w) THEN Halving(f, above, b) ELSE 0]
    <2>3. ASSUME NEW b \in Between(n, w) PROVE Halving(f, above, b) \in 0 .. n
      <3>1. b \in All /\ b[1] \in 0 .. n BY DEF Between
      <3>2. CASE b[1] >= b[2] BY <3>1, <3>2 DEF Halving
      <3>3. CASE ~ (b[1] >= b[2])
        <4> DEFINE mid == (b[1] + b[2]) \div 2
        <4>1. b[1] < b[2] BY <3>1, <3>3
        <4>2. <<mid + 1, b[2]>> \in All /\ <<b[1], mid>> \in All BY <3>1, <4>1, MiddleFacts
        <4>3. Halving(f, above, b) = (IF above[mid] THEN f[<<mid + 1, b[2]>>] ELSE f[<<b[1], mid>>])
          BY <3>3 DEF Halving
        <4> HIDE DEF mid, All
        <4> QED BY <2>1, <4>2, <4>3
      <3> QED BY <3>2, <3>3
    <2>4. g \in [All -> 0 .. n]
      <3>1. 0 \in 0 .. n OBVIOUS
      <3> HIDE DEF All
      <3> QED BY <2>3, <3>1
    <2>5. \A b \in Between(n, w - 1) : b \in All /\ b \in Between(n, w) /\ g[b] = f[b]
      <3> SUFFICES ASSUME NEW b \in Between(n, w - 1)
                   PROVE  b \in All /\ b \in Between(n, w) /\ g[b] = f[b]
        OBVIOUS
      <3>1. b \in All /\ b \in Between(n, w) BY DEF Between
      <3>2. f[b] = Halving(f, above, b) BY <2>1
      <3>3. g[b] = Halving(f, above, b) BY <3>1
      <3> QED BY <3>1, <3>2, <3>3
    <2>6. ASSUME NEW b \in Between(n, w) PROVE g[b] = Halving(g, above, b)
      <3>1. b \in All /\ b[1] \in 0 .. n /\ b[2] \in 0 .. n /\ b[2] - b[1] <= w BY DEF Between
      <3>2. g[b] = Halving(f, above, b) BY <3>1
      <3>3. CASE b[1] >= b[2] BY <3>2, <3>3 DEF Halving
      <3>4. CASE ~ (b[1] >= b[2])
        <4> DEFINE mid == (b[1] + b[2]) \div 2
                   r == <<mid + 1, b[2]>>
                   l == <<b[1], mid>>
        <4>1. b[1] < b[2] BY <3>1, <3>4
        <4>2. /\ mid \in 0 .. n - 1 /\ b[1] <= mid /\ mid < b[2]
              /\ r \in All /\ b[2] - (mid + 1) < b[2] - b[1]
              /\ l \in All /\ mid - b[1] < b[2] - b[1]
          BY <3>1, <4>1, MiddleFacts
        <4>3. r[1] = mid + 1 /\ r[2] = b[2] /\ l[1] = b[1] /\ l[2] = mid OBVIOUS
        <4>4. Halving(f, above, b) = (IF above[mid] THEN f[r] ELSE f[l])
          BY <3>4 DEF Halving
        <4>5. Halving(g, above, b) = (IF above[mid] THEN g[r] ELSE g[l])
          BY <3>4 DEF Halving
        <4> HIDE DEF mid, r, l, g
        <4>6. r \in Between(n, w - 1) /\ l \in Between(n, w - 1)
          <5>1. r[2] - r[1] <= w - 1 /\ l[2] - l[1] <= w - 1 BY <3>1, <4>2, <4>3
          <5> QED BY <4>2, <5>1 DEF Between
        <4>7. g[r] = f[r] /\ g[l] = f[l] BY <2>5, <4>6
        <4> QED BY <3>2, <4>4, <4>5, <4>7
      <3> QED BY <3>3, <3>4
    <2> HIDE DEF g
    <2> QED BY <2>4, <2>6
  <1> HIDE DEF Good
  <1>3. \A w \in 0 .. n : w \in Good BY <1>1, <1>2, UpToIsIn
  <1>4. n \in Good BY <1>3
  <1>5. PICK f \in [All -> 0 .. n] : Solved(f, n) BY <1>4 DEF Good
  <1>6. ASSUME NEW b \in All PROVE f[b] = Halving(f, above, b)
    <2>1. b \in Between(n, n) BY DEF Between
    <2> QED BY <1>5, <2>1
  <1> HIDE DEF All
  <1>7. f = [b \in All |-> Halving(f, above, b)] BY <1>5, <1>6
  <1> QED BY <1>7 DEF All

\* Where what is above ends, between two bounds.
Ends(above, b, k) ==
    /\ b[1] <= k /\ k <= b[2]
    /\ \A i \in b[1] .. k - 1 : above[i]
    /\ \A i \in k .. b[2] - 1 : ~ above[i]

(***************************************************************************)
(* Halving finds where what is above ends.                                 *)
(***************************************************************************)
LEMMA SearchFinds ==
    ASSUME NEW n \in Nat, NEW above,
           \A i, j \in 0 .. n - 1 : i <= j /\ above[j] => above[i],
           NEW f, f = [b \in (0 .. n) \X (0 .. n) |-> Halving(f, above, b)]
    PROVE  f[<<0, n>>] \in 0 .. n /\ \A i \in 0 .. n - 1 : above[i] <=> i < f[<<0, n>>]
  <1> DEFINE All == (0 .. n) \X (0 .. n)
             Found(b) == b[1] <= b[2] => f[b] \in 0 .. n /\ Ends(above, b, f[b])
             Good == {w \in 0 .. n : \A b \in Between(n, w) : Found(b)}
  <1>1. 0 \in Good
    <2> SUFFICES ASSUME NEW b \in Between(n, 0), b[1] <= b[2]
                 PROVE  f[b] \in 0 .. n /\ Ends(above, b, f[b])
      <3>1. 0 \in 0 .. n OBVIOUS
      <3> QED BY <3>1
    <2>1. b \in All /\ b[1] \in 0 .. n /\ b[2] \in 0 .. n /\ b[2] - b[1] <= 0 BY DEF Between
    <2>2. b[1] = b[2] BY <2>1
    <2>3. f[b] = b[1] BY <2>1, <2>2 DEF Halving
    <2> QED BY <2>1, <2>2, <2>3 DEF Ends
  <1>2. ASSUME NEW w \in 1 .. n, w - 1 \in Good PROVE w \in Good
    <2> SUFFICES ASSUME NEW b \in Between(n, w), b[1] <= b[2]
                 PROVE  f[b] \in 0 .. n /\ Ends(above, b, f[b])
      <3>1. w \in 0 .. n OBVIOUS
      <3> QED BY <3>1
    <2>1. b \in All /\ b[1] \in 0 .. n /\ b[2] \in 0 .. n /\ b[2] - b[1] <= w BY DEF Between
    <2>2. f[b] = Halving(f, above, b) BY <2>1
    <2>3. CASE b[1] = b[2]
      <3>1. f[b] = b[1] BY <2>1, <2>2, <2>3 DEF Halving
      <3> QED BY <2>1, <2>3, <3>1 DEF Ends
    <2>4. CASE b[1] # b[2]
      <3> DEFINE mid == (b[1] + b[2]) \div 2
                 r == <<mid + 1, b[2]>>
                 l == <<b[1], mid>>
      <3>1. b[1] < b[2] BY <2>1, <2>4
      <3>2. /\ mid \in 0 .. n - 1 /\ b[1] <= mid /\ mid < b[2]
            /\ r \in All /\ b[2] - (mid + 1) < b[2] - b[1]
            /\ l \in All /\ mid - b[1] < b[2] - b[1]
        BY SMTT(40), <2>1, <3>1, MiddleFacts
      <3>3. r[1] = mid + 1 /\ r[2] = b[2] /\ l[1] = b[1] /\ l[2] = mid BY ZenonT(30)
      <3>4. f[b] = (IF above[mid] THEN f[r] ELSE f[l])
        <4>1. ~ (b[1] >= b[2]) BY <2>1, <3>1
        <4> QED BY <2>2, <4>1 DEF Halving
      <3> HIDE DEF mid, r, l
      <3>5. r \in Between(n, w - 1) /\ l \in Between(n, w - 1)
        <4>1. r[2] - r[1] <= w - 1 /\ l[2] - l[1] <= w - 1 BY <2>1, <3>2, <3>3
        <4> QED BY <3>2, <4>1 DEF Between
      <3>6. r[1] <= r[2] /\ l[1] <= l[2] BY <2>1, <3>2, <3>3
      <3>7. /\ f[r] \in 0 .. n /\ Ends(above, r, f[r])
            /\ f[l] \in 0 .. n /\ Ends(above, l, f[l])
        BY <1>2, <3>5, <3>6
      <3>8. CASE above[mid]
        <4>1. f[b] = f[r] BY <3>4, <3>8
        <4>2. ASSUME NEW i \in b[1] .. f[r] - 1 PROVE above[i]
          <5>1. CASE i <= mid
            <6>1. i \in 0 .. n - 1 BY <2>1, <3>2, <5>1
            <6> QED BY <3>2, <3>8, <5>1, <6>1
          <5>2. CASE ~ (i <= mid)
            <6>1. i \in r[1] .. f[r] - 1 BY <2>1, <3>2, <3>3, <3>7, <5>2
            <6> QED BY <3>7, <6>1 DEF Ends
          <5> QED BY <5>1, <5>2
        <4>3. b[1] <= f[r] /\ f[r] <= b[2] BY <2>1, <3>2, <3>3, <3>7 DEF Ends
        <4>4. \A i \in f[r] .. b[2] - 1 : ~ above[i] BY <3>3, <3>7 DEF Ends
        <4> QED BY <3>7, <4>1, <4>2, <4>3, <4>4 DEF Ends
      <3>9. CASE ~ above[mid]
        <4>1. f[b] = f[l] BY <3>4, <3>9
        <4>2. ASSUME NEW i \in f[l] .. b[2] - 1 PROVE ~ above[i]
          <5>1. CASE mid <= i
            <6>1. i \in 0 .. n - 1 BY <2>1, <3>2, <3>7, <5>1
            <6> QED BY <3>2, <3>9, <5>1, <6>1
          <5>2. CASE ~ (mid <= i)
            <6>1. i \in f[l] .. l[2] - 1 BY <2>1, <3>2, <3>3, <3>7, <5>2
            <6> QED BY <3>7, <6>1 DEF Ends
          <5> QED BY <5>1, <5>2
        <4>3. b[1] <= f[l] /\ f[l] <= b[2] BY <2>1, <3>2, <3>3, <3>7 DEF Ends
        <4>4. \A i \in b[1] .. f[l] - 1 : above[i] BY <3>3, <3>7 DEF Ends
        <4> QED BY <3>7, <4>1, <4>2, <4>3, <4>4 DEF Ends
      <3> QED BY <3>8, <3>9
    <2> QED BY <2>3, <2>4
  <1> HIDE DEF Good
  <1>3. \A w \in 0 .. n : w \in Good BY <1>1, <1>2, UpToIsIn
  <1> DEFINE all == <<0, n>>
  <1>4. all \in Between(n, n) /\ all[1] = 0 /\ all[2] = n BY DEF Between
  <1>5. n \in Good BY <1>3
  <1> HIDE DEF all
  <1>6. f[all] \in 0 .. n /\ Ends(above, all, f[all])
    <2>1. Found(all) BY <1>4, <1>5 DEF Good
    <2> QED BY <1>4, <2>1
  <1>7. ASSUME NEW i \in 0 .. n - 1 PROVE above[i] <=> i < f[all]
    <2>1. i \in all[1] .. f[all] - 1 \/ i \in f[all] .. all[2] - 1 BY <1>4, <1>6
    <2>2. (i \in all[1] .. f[all] - 1) <=> i < f[all] BY <1>4, <1>6
    <2> QED BY <1>6, <2>1, <2>2 DEF Ends
  <1> QED BY <1>6, <1>7 DEF all

\* The articles up to an entry.
UpToEntry(e) == {d \in Sentinels : d <= e}

\* How many articles come up to an entry.
LEMMA UpToEntryFacts ==
    ASSUME NEW e \in Sentinels
    PROVE  /\ IsFiniteSet(UpToEntry(e)) /\ Cardinality(UpToEntry(e)) \in 1 .. Cardinality(Sentinels)
           /\ \A d \in Sentinels : d < e => Cardinality(UpToEntry(d)) < Cardinality(UpToEntry(e))
  <1>1. \A d \in Sentinels : d \in Nat /\ IsFiniteSet(UpToEntry(d))
                             /\ Cardinality(UpToEntry(d)) \in Nat
    <2> SUFFICES ASSUME NEW d \in Sentinels
                 PROVE  d \in Nat /\ IsFiniteSet(UpToEntry(d)) /\ Cardinality(UpToEntry(d)) \in Nat
      OBVIOUS
    <2>1. d \in Nat BY EntriesFacts
    <2>2. IsFiniteSet(UpToEntry(d)) BY EntriesFacts, FS_Subset DEF UpToEntry
    <2> QED BY <2>1, <2>2, FS_CardinalityType
  <1>2. Cardinality(UpToEntry(e)) <= Cardinality(Sentinels) /\ Cardinality(Sentinels) \in Nat
    BY EntriesFacts, FS_Subset, FS_CardinalityType DEF UpToEntry
  <1>3. Cardinality(UpToEntry(e)) # 0
    <2>1. e \in Nat /\ e <= e BY <1>1
    <2>2. e \in UpToEntry(e) BY <2>1 DEF UpToEntry
    <2> QED BY <1>1, <2>2, FS_EmptySet
  <1>4. ASSUME NEW d \in Sentinels, d < e
        PROVE  Cardinality(UpToEntry(d)) < Cardinality(UpToEntry(e))
    <2>0. d \in Nat /\ e \in Nat /\ \A x \in Sentinels : x \in Nat BY <1>1
    <2>1. UpToEntry(d) \subseteq UpToEntry(e)
      <3>1. \A x \in Sentinels : x <= d => x <= e BY <1>4, <2>0
      <3> QED BY <3>1 DEF UpToEntry
    <2>2. e \in UpToEntry(e) /\ e \notin UpToEntry(d)
      <3>1. e <= e /\ ~ (e <= d) BY <1>4, <2>0
      <3> QED BY <3>1 DEF UpToEntry
    <2>3. /\ Cardinality(UpToEntry(d)) <= Cardinality(UpToEntry(e))
          /\ Cardinality(UpToEntry(d)) = Cardinality(UpToEntry(e)) => UpToEntry(d) = UpToEntry(e)
      BY <1>1, <2>1, FS_Subset
    <2> QED BY <1>1, <2>2, <2>3
  <1> QED BY <1>1, <1>2, <1>3, <1>4

\* The articles of the document, once each and in their order.
LEMMA InDocumentFacts ==
    /\ Cardinality(Sentinels) \in Nat \ {0} /\ Len(InDocument) = Cardinality(Sentinels)
    /\ \A i \in 1 .. Cardinality(Sentinels) : InDocument[i] \in Sentinels
    /\ \A i, j \in 1 .. Cardinality(Sentinels) : i < j => InDocument[i] < InDocument[j]
    /\ \A e \in Sentinels : \E i \in 1 .. Cardinality(Sentinels) : InDocument[i] = e
  <1> DEFINE n == Cardinality(Sentinels)
             at(k) == CHOOSE e \in Sentinels : Cardinality({d \in Sentinels : d <= e}) = k
             f == [e \in Sentinels |-> Cardinality(UpToEntry(e))]
  <1>1. n \in Nat \ {0}
    <2>1. n \in Nat BY EntriesFacts, FS_CardinalityType
    <2>2. n # 0 BY EntriesFacts, FS_EmptySet
    <2> QED BY <2>1, <2>2
  <1>2. ASSUME NEW d \in Sentinels, NEW e \in Sentinels, f[d] = f[e] PROVE d = e
    <2>1. d \in Nat /\ e \in Nat /\ f[d] \in 1 .. n /\ f[e] \in 1 .. n
      BY EntriesFacts, UpToEntryFacts
    <2>2. d < e => f[d] < f[e] BY UpToEntryFacts
    <2>3. e < d => f[e] < f[d] BY UpToEntryFacts
    <2> HIDE DEF f, n
    <2> QED BY <1>2, <2>1, <2>2, <2>3, <1>1
  <1>3. f \in Surjection(Sentinels, 1 .. n)
    <2>1. f \in [Sentinels -> 1 .. n] BY UpToEntryFacts
    <2>2. f \in Injection(Sentinels, 1 .. n) BY <1>2, <2>1 DEF Injection, IsInjective
    <2>3. IsFiniteSet(1 .. n) /\ Cardinality(1 .. n) = n BY <1>1, FS_Interval
    <2> QED BY <2>2, <2>3, FS_Injection
  <1>4. ASSUME NEW k \in 1 .. n PROVE at(k) \in Sentinels /\ Cardinality(UpToEntry(at(k))) = k
    <2>1. PICK e \in Sentinels : f[e] = k BY <1>3 DEF Surjection
    <2>2. \E d \in Sentinels : Cardinality({x \in Sentinels : x <= d}) = k BY <2>1 DEF UpToEntry
    <2>3. at(k) \in Sentinels /\ Cardinality({x \in Sentinels : x <= at(k)}) = k BY <2>2
    <2> QED BY <2>3 DEF UpToEntry
  <1>5. InDocument = [k \in 1 .. n |-> at(k)] BY DEF InDocument
  <1> HIDE DEF n, at, f
  <1>6. \A k \in 1 .. n : InDocument[k] \in Sentinels /\ Cardinality(UpToEntry(InDocument[k])) = k
    BY <1>4, <1>5
  <1>7. Len(InDocument) = n
    <2>1. InDocument \in Seq(Sentinels) /\ DOMAIN InDocument = 1 .. n BY <1>1, <1>4, <1>5
    <2> QED BY <1>1, <2>1
  <1>8. ASSUME NEW i \in 1 .. n, NEW j \in 1 .. n, i < j PROVE InDocument[i] < InDocument[j]
    <2> DEFINE d == InDocument[i]
               e == InDocument[j]
    <2>1. /\ d \in Sentinels /\ Cardinality(UpToEntry(d)) = i
          /\ e \in Sentinels /\ Cardinality(UpToEntry(e)) = j
      BY <1>6
    <2> HIDE DEF d, e
    <2>2. d \in Nat /\ e \in Nat BY <2>1, EntriesFacts
    <2>3. e < d => j < i BY <2>1, UpToEntryFacts
    <2>4. e # d BY <1>8, <2>1
    <2>5. d < e BY <1>8, <2>2, <2>3, <2>4
    <2> QED BY <2>5 DEF d, e
  <1>9. ASSUME NEW e \in Sentinels PROVE \E i \in 1 .. n : InDocument[i] = e
    <2> DEFINE i == Cardinality(UpToEntry(e))
    <2>1. i \in 1 .. n BY UpToEntryFacts DEF n
    <2> HIDE DEF i
    <2>2. InDocument[i] \in Sentinels /\ Cardinality(UpToEntry(InDocument[i])) = i BY <1>6, <2>1
    <2>3. InDocument[i] = e BY <1>2, <2>2 DEF f, i
    <2> QED BY <2>1, <2>3
  <1> QED BY <1>1, <1>6, <1>7, <1>8, <1>9 DEF n

\* The first article.
LEMMA FirstFacts == Min(Sentinels) \in Sentinels /\ \A e \in Sentinels : Min(Sentinels) <= e
  <1>1. Sentinels \subseteq Nat /\ Sentinels # {} BY EntriesFacts
  <1>2. \E m \in Sentinels : \A n \in Sentinels : m <= n BY <1>1, LeastNumber
  <1> QED BY <1>2 DEF Min

\* What comes later in the law is not higher on the page.
LEMMA TopGrows ==
    ASSUME NEW extra \in Nat, NEW d \in DOMAIN Entries, NEW e \in DOMAIN Entries
    PROVE  Top(d, extra) \in Nat /\ (d <= e => Top(d, extra) <= Top(e, extra))
  <1> DEFINE n == Len(Entries)
  <1>1. /\ n \in Nat /\ d \in 1 .. n /\ e \in 1 .. n
        /\ d - 1 \in 0 .. n /\ e - 1 \in 0 .. n
    BY EntriesFacts
  <1>2. Height(d - 1) \in Nat /\ Height(e - 1) \in Nat BY <1>1, HeightFacts
  <1>3. Min(Sentinels) \in Nat BY FirstFacts, EntriesFacts
  <1>4. d <= e => Height(d - 1) <= Height(e - 1)
    <2>1. d <= e => d - 1 <= e - 1 BY <1>1
    <2> QED BY <1>1, <2>1, HeightGrows
  <1> QED BY SMTT(40), <1>1, <1>2, <1>3, <1>4 DEF Top

(***************************************************************************)
(* The article found by halving is the last one at or above the line, or   *)
(* the first one where none is.                                            *)
(***************************************************************************)
LEMMA SpiedFacts ==
    ASSUME NEW y \in Int, NEW extra \in Nat
    PROVE  /\ Spied(y, extra) \in Sentinels
           /\ \A a \in Sentinels : Top(a, extra) - y <= Trigger => a <= Spied(y, extra)
           /\ Top(Spied(y, extra), extra) - y <= Trigger \/ Spied(y, extra) = Min(Sentinels)
  <1> DEFINE n == Len(InDocument)
             above == [i \in 0 .. n - 1 |-> Top(InDocument[i + 1], extra) - y <= Trigger]
             All == (0 .. n) \X (0 .. n)
             Code(search) == [b \in All |->
                    LET mid == (b[1] + b[2]) \div 2
                    IN  IF b[1] >= b[2] THEN b[1]
                        ELSE IF Top(InDocument[mid + 1], extra) - y <= Trigger
                             THEN search[<<mid + 1, b[2]>>] ELSE search[<<b[1], mid>>]]
             f == CHOOSE search : search = Code(search)
             k == f[<<0, n>>]
             Of(i) == InDocument[i]
  <1>1. n \in Nat \ {0} /\ n = Cardinality(Sentinels) BY InDocumentFacts
  <1>2. \A i \in 1 .. n : Of(i) \in Sentinels /\ Of(i) \in DOMAIN Entries /\ Of(i) \in Nat
    BY <1>1, InDocumentFacts, EntriesFacts
  <1>3. ASSUME NEW search PROVE [b \in All |-> Halving(search, above, b)] = Code(search)
    <2>1. ASSUME NEW b \in All
          PROVE  Halving(search, above, b) =
                      LET mid == (b[1] + b[2]) \div 2
                      IN  IF b[1] >= b[2] THEN b[1]
                          ELSE IF Top(InDocument[mid + 1], extra) - y <= Trigger
                               THEN search[<<mid + 1, b[2]>>] ELSE search[<<b[1], mid>>]
      <3> DEFINE mid == (b[1] + b[2]) \div 2
      <3>1. CASE b[1] >= b[2] BY <3>1 DEF Halving
      <3>2. CASE ~ (b[1] >= b[2])
        <4>1. b[1] < b[2] BY <3>2
        <4>2. mid \in 0 .. n - 1 BY <1>1, <4>1, MiddleFacts
        <4>3. above[mid] <=> Top(InDocument[mid + 1], extra) - y <= Trigger BY <4>2
        <4> HIDE DEF above
        <4> QED BY <3>2, <4>3 DEF Halving
      <3> QED BY <3>1, <3>2
    <2> HIDE DEF All, above
    <2> QED BY <2>1
  <1>4. \E g : g = [b \in All |-> Halving(g, above, b)]
    <2>1. n \in Nat BY <1>1
    <2> HIDE DEF n, above
    <2> QED BY <2>1, SearchExists
  <1>5. f = [b \in All |-> Halving(f, above, b)]
    <2>1. \A g : [b \in All |-> Halving(g, above, b)] = Code(g) BY <1>3
    <2> HIDE DEF above, All, n, Code
    <2>2. \E g : g = Code(g) BY <1>4, <2>1
    <2>3. f = Code(f) BY <2>2
    <2> QED BY <2>1, <2>3
  <1>6. Spied(y, extra) = InDocument[IF k > 0 THEN k ELSE 1] BY DEF Spied
  <1>7. ASSUME NEW i \in 0 .. n - 1, NEW j \in 0 .. n - 1, i <= j, above[j] PROVE above[i]
    <2>1. i + 1 \in 1 .. n /\ j + 1 \in 1 .. n /\ (i = j \/ i + 1 < j + 1) BY <1>1, <1>7
    <2>2. Of(i + 1) \in DOMAIN Entries /\ Of(j + 1) \in DOMAIN Entries
          /\ Of(i + 1) \in Nat /\ Of(j + 1) \in Nat
      BY <1>2, <2>1
    <2>3. Of(i + 1) <= Of(j + 1)
      <3>1. CASE i = j BY <2>2, <3>1
      <3>2. CASE i + 1 < j + 1
        <4>1. Of(i + 1) < Of(j + 1) BY <1>1, <2>1, <3>2, InDocumentFacts
        <4> QED BY <2>2, <4>1
      <3> QED BY <2>1, <3>1, <3>2
    <2> DEFINE ti == Top(Of(i + 1), extra)
               tj == Top(Of(j + 1), extra)
    <2>4. ti \in Nat /\ tj \in Nat /\ ti <= tj BY <2>2, <2>3, TopGrows
    <2>5. (above[i] <=> ti - y <= Trigger) /\ (above[j] <=> tj - y <= Trigger) OBVIOUS
    <2> HIDE DEF ti, tj, above
    <2> QED BY <1>7, <2>4, <2>5 DEF Trigger
  <1> HIDE DEF above, f, Code
  <1>8. k \in 0 .. n /\ \A i \in 0 .. n - 1 : above[i] <=> i < k
    <2>1. n \in Nat BY <1>1
    <2> HIDE DEF n
    <2> QED BY <1>5, <1>7, <2>1, SearchFinds
  <1> HIDE DEF k
  <1>9. \A i \in 1 .. n : Top(Of(i), extra) - y <= Trigger <=> i <= k
    <2> SUFFICES ASSUME NEW i \in 1 .. n PROVE Top(Of(i), extra) - y <= Trigger <=> i <= k
      OBVIOUS
    <2>1. i - 1 \in 0 .. n - 1 /\ (i - 1) + 1 = i BY <1>1
    <2>2. above[i - 1] <=> Top(Of(i), extra) - y <= Trigger BY <2>1 DEF above
    <2>3. above[i - 1] <=> i - 1 < k BY <1>8, <2>1
    <2>4. i - 1 < k <=> i <= k BY <1>1, <1>8, <2>1
    <2> QED BY <2>2, <2>3, <2>4
  <1>10. ASSUME NEW a \in Sentinels PROVE \E i \in 1 .. n : Of(i) = a BY <1>1, InDocumentFacts
  <1>11. \A i, j \in 1 .. n : i < j => Of(i) < Of(j) BY <1>1, InDocumentFacts
  <1>12. CASE k > 0
    <2>1. Spied(y, extra) = Of(k) /\ k \in 1 .. n BY <1>1, <1>6, <1>8, <1>12
    <2>2. ASSUME NEW a \in Sentinels, Top(a, extra) - y <= Trigger PROVE a <= Of(k)
      <3>1. PICK i \in 1 .. n : Of(i) = a BY <1>10
      <3>2. i <= k BY <1>9, <2>2, <3>1
      <3>3. i < k => Of(i) < Of(k) BY <1>11, <2>1
      <3>4. Of(i) \in Nat /\ Of(k) \in Nat BY <1>2, <2>1
      <3>5. i = k \/ i < k BY <1>1, <2>1, <3>2
      <3> QED BY <3>1, <3>3, <3>4, <3>5
    <2>3. Top(Of(k), extra) - y <= Trigger BY <1>1, <1>9, <2>1
    <2> QED BY <1>2, <2>1, <2>2, <2>3
  <1>13. CASE ~ (k > 0)
    <2>1. Spied(y, extra) = Of(1) /\ 1 \in 1 .. n /\ k = 0 BY <1>1, <1>6, <1>8, <1>13
    <2>2. ASSUME NEW a \in Sentinels PROVE ~ (Top(a, extra) - y <= Trigger) /\ Of(1) <= a
      <3>1. PICK i \in 1 .. n : Of(i) = a BY <1>10
      <3>2. ~ (i <= k) BY <2>1, <3>1
      <3>3. 1 < i => Of(1) < Of(i) BY <1>11, <2>1
      <3>4. Of(i) \in Nat /\ Of(1) \in Nat BY <1>2, <2>1
      <3>5. 1 = i \/ 1 < i BY <1>1, <3>1
      <3> QED BY <1>9, <3>1, <3>2, <3>3, <3>4, <3>5
    <2>3. Of(1) \in Sentinels BY <1>2, <2>1
    <2>4. Of(1) = Min(Sentinels)
      <3>1. Of(1) <= Min(Sentinels) /\ Min(Sentinels) <= Of(1) BY <2>2, <2>3, FirstFacts
      <3>2. Of(1) \in Nat /\ Min(Sentinels) \in Nat BY <2>3, FirstFacts, EntriesFacts
      <3> QED BY <3>1, <3>2
    <2> QED BY <2>1, <2>2, <2>3, <2>4
  <1> QED BY <1>8, <1>12, <1>13

-----------------------------------------------------------------------------
(* The reading place: the table of contents.                                 *)

\* What one entry has above it, if f says what its parent has.
UpFrom(f, x) ==
    IF x = 0 \/ Entries[x].parent = 0 THEN {} ELSE {Entries[x].parent} \cup f[Entries[x].parent]

\* The way up has a solution.
LEMMA UpExists == \E f : f = [x \in 0 .. Len(Entries) |-> UpFrom(f, x)]
  <1> DEFINE n == Len(Entries)
             Solved(f, k) == \A x \in 0 .. k : f[x] = UpFrom(f, x)
             Good == {k \in 0 .. n : \E f : f = [x \in 0 .. n |-> f[x]] /\ Solved(f, k)}
  <1>1. n \in Nat /\ DOMAIN Entries = 1 .. n BY EntriesFacts
  <1>2. 0 \in Good
    <2> DEFINE f == [x \in 0 .. n |-> {}]
    <2>1. f = [x \in 0 .. n |-> f[x]] OBVIOUS
    <2>2. ASSUME NEW x \in 0 .. 0 PROVE f[x] = UpFrom(f, x) BY <1>1 DEF UpFrom
    <2> HIDE DEF f
    <2> QED BY <1>1, <2>1, <2>2
  <1>3. ASSUME NEW k \in 1 .. n, k - 1 \in Good PROVE k \in Good
    <2>1. PICK f : f = [x \in 0 .. n |-> f[x]] /\ Solved(f, k - 1) BY <1>3
    <2> DEFINE g == [x \in 0 .. n |-> IF x = k THEN UpFrom(f, k) ELSE f[x]]
    <2>2. g = [x \in 0 .. n |-> g[x]] OBVIOUS
    <2>3. ASSUME NEW x \in 0 .. k PROVE g[x] = UpFrom(g, x)
      <3>1. g[x] = UpFrom(f, x)
        <4>1. CASE x = k BY <1>1, <4>1
        <4>2. CASE x # k
          <5>1. x \in 0 .. k - 1 /\ x \in 0 .. n BY <1>1, <4>2
          <5>2. g[x] = f[x] BY <4>2, <5>1
          <5> HIDE DEF g
          <5> QED BY <2>1, <5>1, <5>2
        <4> QED BY <4>1, <4>2
      <3>2. CASE x = 0 \/ Entries[x].parent = 0
        <4> HIDE DEF g
        <4> QED BY <3>1, <3>2 DEF UpFrom
      <3>3. CASE ~ (x = 0 \/ Entries[x].parent = 0)
        <4> DEFINE p == Entries[x].parent
        <4>1. x \in 1 .. n BY <1>1, <3>3
        <4>2. p \in Nat /\ p < x BY <1>1, <4>1, EntriesFacts
        <4>3. p # k /\ p \in 0 .. n BY <1>1, <4>1, <4>2
        <4> HIDE DEF p
        <4>4. g[p] = f[p] BY <4>3
        <4> HIDE DEF g
        <4> QED BY <3>1, <3>3, <4>4 DEF UpFrom, p
      <3> QED BY <3>2, <3>3
    <2> HIDE DEF g
    <2> QED BY <2>2, <2>3
  <1> HIDE DEF Good
  <1>4. \A k \in 0 .. n : k \in Good BY <1>1, <1>2, <1>3, UpToIsIn
  <1>5. n \in Good BY <1>1, <1>4
  <1>6. PICK f : f = [x \in 0 .. n |-> f[x]] /\ Solved(f, n) BY <1>5 DEF Good
  <1>7. f = [x \in 0 .. n |-> UpFrom(f, x)]
    <2>1. \A x \in 0 .. n : f[x] = UpFrom(f, x) BY <1>6
    <2>2. [x \in 0 .. n |-> f[x]] = [x \in 0 .. n |-> UpFrom(f, x)] BY <2>1
    <2> QED BY <1>6, <2>2
  <1> QED BY <1>7

\* An entry's parent is above it, with all that is above the parent.
LEMMA AncestorsFacts ==
    ASSUME NEW e \in DOMAIN Entries, Entries[e].parent # 0
    PROVE  /\ Entries[e].parent \in Ancestors(e)
           /\ Ancestors(Entries[e].parent) \subseteq Ancestors(e)
  <1> DEFINE n == Len(Entries)
             Code(f) == [x \in 0 .. n |->
                            IF x = 0 \/ Entries[x].parent = 0 THEN {}
                            ELSE {Entries[x].parent} \cup f[Entries[x].parent]]
             up == CHOOSE f : f = Code(f)
  <1>1. \A f : [x \in 0 .. n |-> UpFrom(f, x)] = Code(f) BY DEF UpFrom
  <1>2. \A x : Ancestors(x) = up[x] BY DEF Ancestors
  <1>3. up = Code(up)
    <2>1. \E f : f = [x \in 0 .. n |-> UpFrom(f, x)] BY UpExists
    <2> HIDE DEF Code
    <2> QED BY <1>1, <2>1
  <1> HIDE DEF up
  <1>4. e \in 0 .. n /\ e # 0 BY EntriesFacts
  <1>5. up[e] = {Entries[e].parent} \cup up[Entries[e].parent] BY <1>3, <1>4
  <1> QED BY <1>2, <1>5

\* What is shown up to an entry, if f says what is shown up to the one before.
ShownWith(f, open, k) ==
    IF k = 0 THEN {}
    ELSE IF Entries[k].parent = 0 \/ Entries[k].parent \in f[k - 1] \cap open
         THEN f[k - 1] \cup {k} ELSE f[k - 1]

\* The way down has a solution.
LEMMA ShownExists ==
    ASSUME NEW open
    PROVE  \E f : f = [k \in 0 .. Len(Entries) |-> ShownWith(f, open, k)]
  <1> DEFINE n == Len(Entries)
             step == [x \in (SUBSET (1 .. n)) \X (1 .. n) |->
                          IF Entries[x[2]].parent = 0 \/ Entries[x[2]].parent \in x[1] \cap open
                          THEN x[1] \cup {x[2]} ELSE x[1]]
  <1>1. n \in Nat BY EntriesFacts
  <1>2. step \in [(SUBSET (1 .. n)) \X (1 .. n) -> SUBSET (1 .. n)] OBVIOUS
  <1>3. \A s \in SUBSET (1 .. n), k \in 1 .. n :
            step[<<s, k>>] = IF Entries[k].parent = 0 \/ Entries[k].parent \in s \cap open
                             THEN s \cup {k} ELSE s
    OBVIOUS
  <1>4. {} \in SUBSET (1 .. n) OBVIOUS
  <1> HIDE DEF n, step
  <1>5. PICK f \in [0 .. n -> SUBSET (1 .. n)] : IsCourse(f, step, {}, n)
    BY <1>1, <1>2, <1>4, CourseExists
  <1>6. ASSUME NEW k \in 0 .. n PROVE f[k] = ShownWith(f, open, k)
    <2>1. CASE k = 0 BY <1>5, <2>1 DEF IsCourse, ShownWith
    <2>2. CASE k # 0
      <3>1. k \in 1 .. n /\ k - 1 \in 0 .. n BY <1>1, <2>2
      <3>2. f[k] = step[<<f[k - 1], k>>] /\ f[k - 1] \in SUBSET (1 .. n)
        BY <1>5, <3>1 DEF IsCourse
      <3> QED BY <1>3, <2>2, <3>1, <3>2 DEF ShownWith
    <2> QED BY <2>1, <2>2
  <1>7. f = [k \in 0 .. n |-> ShownWith(f, open, k)] BY <1>5, <1>6
  <1> QED BY <1>7 DEF n

(***************************************************************************)
(* An entry below open headings only can be seen.                          *)
(***************************************************************************)
LEMMA OpenIsVisible ==
    ASSUME NEW open, NEW e \in DOMAIN Entries, Ancestors(e) \subseteq open
    PROVE  e \in Visible(open)
  <1> DEFINE n == Len(Entries)
             Code(f) == [k \in 0 .. n |->
                            IF k = 0 THEN {}
                            ELSE IF Entries[k].parent = 0 \/ Entries[k].parent \in f[k - 1] \cap open
                                 THEN f[k - 1] \cup {k} ELSE f[k - 1]]
             shown == CHOOSE f : f = Code(f)
             Below(x) == Ancestors(x) \subseteq open
             Good == {k \in 0 .. n : \A x \in 1 .. k : Below(x) => \A j \in x .. k : x \in shown[j]}
  <1>1. n \in Nat /\ DOMAIN Entries = 1 .. n BY EntriesFacts
  <1>2. \A f : [k \in 0 .. n |-> ShownWith(f, open, k)] = Code(f) BY DEF ShownWith
  <1>3. Visible(open) = shown[n] BY DEF Visible
  <1>4. shown = Code(shown)
    <2>1. \E f : f = [k \in 0 .. n |-> ShownWith(f, open, k)] BY ShownExists
    <2> HIDE DEF Code
    <2> QED BY <1>2, <2>1
  <1> HIDE DEF shown
  <1>5. ASSUME NEW k \in 1 .. n
        PROVE  shown[k] = IF Entries[k].parent = 0 \/ Entries[k].parent \in shown[k - 1] \cap open
                          THEN shown[k - 1] \cup {k} ELSE shown[k - 1]
    <2>1. k \in 0 .. n /\ k # 0 BY <1>1
    <2> QED BY <1>4, <2>1
  <1>6. 0 \in Good BY <1>1
  <1>7. ASSUME NEW k \in 1 .. n, k - 1 \in Good PROVE k \in Good
    <2> SUFFICES ASSUME NEW x \in 1 .. k, Below(x), NEW j \in x .. k PROVE x \in shown[j]
      <3>1. k \in 0 .. n BY <1>1
      <3> QED BY <3>1
    <2>1. \A y \in 1 .. k - 1 : Below(y) => \A i \in y .. k - 1 : y \in shown[i] BY <1>7
    <2>2. CASE j # k
      <3>1. x \in 1 .. k - 1 /\ j \in x .. k - 1 BY <1>1, <2>2
      <3> QED BY <2>1, <3>1
    <2>3. CASE j = k /\ x # k
      <3>1. x \in 1 .. k - 1 /\ k - 1 \in x .. k - 1 BY <1>1, <2>3
      <3>2. x \in shown[k - 1] BY <2>1, <3>1
      <3> QED BY <1>5, <2>3, <3>2
    <2>4. CASE j = k /\ x = k
      <3> DEFINE p == Entries[k].parent
      <3>1. k \in DOMAIN Entries BY <1>1
      <3>2. CASE p = 0 BY <1>5, <2>4, <3>2
      <3>3. CASE p # 0
        <4>1. p \in Nat /\ p < k BY <3>1, EntriesFacts
        <4>2. p \in Ancestors(k) /\ Ancestors(p) \subseteq Ancestors(k) BY <3>1, <3>3, AncestorsFacts
        <4>3. p \in open /\ Below(p) BY <2>4, <4>2
        <4>4. p \in 1 .. k - 1 /\ k - 1 \in p .. k - 1 BY <1>1, <3>3, <4>1
        <4>5. p \in shown[k - 1] BY <2>1, <4>3, <4>4
        <4> QED BY <1>5, <2>4, <4>3, <4>5
      <3> QED BY <3>2, <3>3
    <2> QED BY <2>2, <2>3, <2>4
  <1> HIDE DEF Good
  <1>8. \A k \in 0 .. n : k \in Good BY <1>1, <1>6, <1>7, UpToIsIn
  <1>9. n \in Good /\ e \in 1 .. n /\ n \in e .. n BY <1>1, <1>8
  <1> QED BY <1>3, <1>9 DEF Good

-----------------------------------------------------------------------------
(* The reading place: a frame.                                               *)

\* The callbacks that may be asked for.
Tasks == {Clear, Align} \cup {Activate(e) : e \in DOMAIN Entries}

\* What the callbacks of a frame work on.
Passing == [suppressed : BOOLEAN, active : DOMAIN Entries, at : Int, next : Seq({Clear})]

\* The page is at a height, and opened at an entry.
PageStands == shift \in Nat /\ opened \in DOMAIN Entries

\* A page can stand at a number only.
LEMMA ClampFacts == ASSUME NEW y \in Int, NEW extra \in Nat PROVE Clamp(y, extra) \in Int
  <1>1. Len(Entries) \in 0 .. Len(Entries) BY EntriesFacts
  <1>2. Height(Len(Entries)) \in Nat /\ View \in Nat BY <1>1, HeightFacts, PlaceAssumption
  <1> QED BY <1>2 DEF Clamp

\* What each callback does.
LEMMA RunFacts ==
    ASSUME PageStands, NEW s \in Passing
    PROVE  /\ Run(s, Clear) = [s EXCEPT !.suppressed = FALSE]
           /\ Run(s, Align) = [s EXCEPT !.suppressed = TRUE, !.active = opened,
                                        !.next = Append(s.next, Clear),
                                        !.at = Clamp(Top(opened, shift), shift)]
           /\ Run(s, Spy) = [s EXCEPT !.active = Spied(s.at, shift)]
           /\ \A e : Run(s, Activate(e)) = [s EXCEPT !.active = e]
           /\ \A t \in Tasks \cup {Spy} : Run(s, t) \in Passing
  <1>0. /\ Clear # Align /\ Clear # Spy /\ Align # Spy
        /\ Clear[1] # "activate" /\ Align[1] # "activate" /\ Spy[1] # "activate"
    BY DEF Clear, Align, Spy
  <1>1. Run(s, Clear) = [s EXCEPT !.suppressed = FALSE] BY <1>0 DEF Run
  <1>2. Run(s, Align) = [s EXCEPT !.suppressed = TRUE, !.active = opened,
                                  !.next = Append(s.next, Clear),
                                  !.at = Clamp(Top(opened, shift), shift)]
    BY <1>0 DEF Run
  <1>3. Run(s, Spy) = [s EXCEPT !.active = Spied(s.at, shift)]
    BY <1>0 DEF Run
  <1>4. ASSUME NEW e PROVE Run(s, Activate(e)) = [s EXCEPT !.active = e]
    <2>1. Activate(e) # Clear /\ Activate(e) # Align /\ Activate(e) # Spy
          /\ Activate(e)[1] = "activate" /\ Activate(e)[2] = e
      BY DEF Align, Clear, Spy, Activate
    <2> HIDE DEF Activate
    <2> QED BY <2>1 DEF Run
  <1>5. ASSUME NEW t \in Tasks \cup {Spy} PROVE Run(s, t) \in Passing
    <2>1. CASE t = Clear BY <1>1, <2>1 DEF Passing
    <2>2. CASE t = Align
      <3>1. Top(opened, shift) \in Nat BY TopGrows DEF PageStands
      <3>2. Clamp(Top(opened, shift), shift) \in Int BY <3>1, ClampFacts DEF PageStands
      <3>3. Append(s.next, Clear) \in Seq({Clear}) BY DEF Passing
      <3> QED BY <1>2, <2>2, <3>2, <3>3 DEF Passing, PageStands
    <2>3. CASE t = Spy
      <3>1. Spied(s.at, shift) \in DOMAIN Entries BY SpiedFacts, EntriesFacts DEF Passing, PageStands
      <3> QED BY <1>3, <2>3, <3>1 DEF Passing
    <2>4. CASE t \in {Activate(e) : e \in DOMAIN Entries}
      <3>1. PICK e \in DOMAIN Entries : t = Activate(e) BY <2>4
      <3>2. Run(s, t) = [s EXCEPT !.active = e] BY <1>4, <3>1
      <3> QED BY <3>2 DEF Passing
    <2> QED BY <2>1, <2>2, <2>3, <2>4 DEF Tasks
  <1> QED BY <1>1, <1>2, <1>3, <1>4, <1>5

\* f is what the callbacks of q leave, one after the other.
Passes(f, s, q) ==
    /\ \A k \in 0 .. Len(q) : f[k] \in Passing
    /\ f[0] = s /\ \A k \in 1 .. Len(q) : f[k] = Run(f[k - 1], q[k])
    /\ Ran(s, q) = f[Len(q)]

\* The callbacks of a frame run one after the other.
LEMMA RanPasses ==
    ASSUME PageStands, NEW s \in Passing, NEW q \in Seq(Tasks \cup {Spy})
    PROVE  \E f : Passes(f, s, q)
  <1> DEFINE n == Len(q)
             step == [x \in Passing \X (1 .. n) |-> Run(x[1], q[x[2]])]
             Code(f) == [k \in 0 .. n |-> IF k = 0 THEN s ELSE Run(f[k - 1], q[k])]
             after == CHOOSE f : f = Code(f)
  <1>1. n \in Nat /\ \A k \in 1 .. n : q[k] \in Tasks \cup {Spy} OBVIOUS
  <1>2. \A p \in Passing, k \in 1 .. n : step[<<p, k>>] = Run(p, q[k]) OBVIOUS
  <1>3. step \in [Passing \X (1 .. n) -> Passing]
    <2>1. \A x \in Passing \X (1 .. n) : Run(x[1], q[x[2]]) \in Passing BY <1>1, RunFacts
    <2> QED BY <2>1
  <1>4. Ran(s, q) = after[n] BY DEF Ran
  <1> HIDE DEF step, n
  <1>5. PICK g \in [0 .. n -> Passing] : IsCourse(g, step, s, n) BY <1>1, <1>3, CourseExists
  <1>6. g = Code(g)
    <2>1. ASSUME NEW k \in 0 .. n PROVE g[k] = (IF k = 0 THEN s ELSE Run(g[k - 1], q[k]))
      <3>1. CASE k = 0 BY <1>5, <3>1 DEF IsCourse
      <3>2. CASE k # 0
        <4>1. k \in 1 .. n /\ k - 1 \in 0 .. n BY <1>1, <3>2
        <4>2. g[k] = step[<<g[k - 1], k>>] /\ g[k - 1] \in Passing BY <1>5, <4>1 DEF IsCourse
        <4> QED BY <1>2, <3>2, <4>1, <4>2
      <3> QED BY <3>1, <3>2
    <2> QED BY <1>5, <2>1
  <1>7. after = Code(after) BY <1>6
  <1> HIDE DEF after
  <1>8. after[0] = s BY <1>1, <1>7
  <1>9. ASSUME NEW k \in 1 .. n PROVE after[k] = Run(after[k - 1], q[k])
    <2>1. k \in 0 .. n /\ k # 0 BY <1>1
    <2> QED BY <1>7, <2>1
  <1> DEFINE Good == {k \in 0 .. n : after[k] \in Passing}
  <1>10. \A k \in 0 .. n : k \in Good
    <2>1. 0 \in Good BY <1>1, <1>8
    <2>2. ASSUME NEW k \in 1 .. n, k - 1 \in Good PROVE k \in Good
      <3>1. after[k - 1] \in Passing /\ q[k] \in Tasks \cup {Spy} BY <1>1, <2>2
      <3>2. Run(after[k - 1], q[k]) \in Passing BY <3>1, RunFacts
      <3> QED BY <1>9, <3>2
    <2> HIDE DEF Good
    <2> QED BY <1>1, <2>1, <2>2, UpToIsIn
  <1>11. \A k \in 0 .. n : after[k] \in Passing BY <1>10
  <1>12. Passes(after, s, q) BY <1>4, <1>8, <1>9, <1>11 DEF Passes, n
  <1> QED BY <1>12

\* The callbacks bring the entry that is meant, whatever is active now.
Brings(q, now, meant) ==
    /\ q # <<>> => q[1] = Clear
    /\ \A k \in 1 .. Len(q) : q[k] # Align
    /\ \/ now = meant /\ \A k \in 1 .. Len(q) : q[k] = Clear
       \/ q # <<>> /\ q[Len(q)] = Activate(meant)

\* Whatever callbacks run, the page stands at a number and an entry is active.
LEMMA RanTypes ==
    ASSUME PageStands, NEW s \in Passing, NEW q \in Seq(Tasks \cup {Spy})
    PROVE  Ran(s, q) \in Passing
  <1>1. PICK f : Passes(f, s, q) BY RanPasses
  <1>2. Len(q) \in 0 .. Len(q) OBVIOUS
  <1> QED BY <1>1, <1>2 DEF Passes

\* A frame with nothing to do, and one that only looks where the page is.
LEMMA RanSpy ==
    ASSUME PageStands, NEW s \in Passing
    PROVE  Ran(s, <<>>) = s /\ Ran(s, <<Spy>>) = [s EXCEPT !.active = Spied(s.at, shift)]
  <1>1. Ran(s, <<>>) = s
    <2> DEFINE q == <<>>
    <2>1. q \in Seq(Tasks \cup {Spy}) /\ Len(q) = 0 OBVIOUS
    <2> HIDE DEF q
    <2>2. PICK f : Passes(f, s, q) BY <2>1, RanPasses
    <2>3. Ran(s, q) = s BY <2>1, <2>2 DEF Passes
    <2> QED BY <2>3 DEF q
  <1>2. Ran(s, <<Spy>>) = [s EXCEPT !.active = Spied(s.at, shift)]
    <2> DEFINE q == <<Spy>>
    <2>1. q \in Seq(Tasks \cup {Spy}) /\ Len(q) = 1 /\ q[1] = Spy OBVIOUS
    <2> HIDE DEF q
    <2>2. PICK f : Passes(f, s, q) BY <2>1, RanPasses
    <2>3. f[0] = s /\ f[1] = Run(f[0], Spy) /\ Ran(s, q) = f[1] BY <2>1, <2>2 DEF Passes
    <2>4. Ran(s, q) = [s EXCEPT !.active = Spied(s.at, shift)] BY <2>3, RunFacts
    <2> QED BY <2>4 DEF q
  <1> QED BY <1>1, <1>2

\* The second frame after a page was opened.
LEMMA RanAlign ==
    ASSUME PageStands, NEW s \in Passing
    PROVE  /\ Ran(s, <<Clear, Align>>).suppressed = TRUE
           /\ Ran(s, <<Clear, Align>>).active = opened
           /\ Ran(s, <<Clear, Align>>).next = Append(s.next, Clear)
  <1> DEFINE q == <<Clear, Align>>
             r == [s EXCEPT !.suppressed = FALSE]
  <1>1. q \in Seq(Tasks \cup {Spy}) /\ Len(q) = 2 /\ q[1] = Clear /\ q[2] = Align BY DEF Tasks
  <1>2. r \in Passing /\ r.next = s.next BY DEF Passing
  <1>3. Run(s, Clear) = r BY RunFacts
  <1> HIDE DEF q, r
  <1>4. PICK f : Passes(f, s, q) BY <1>1, RanPasses
  <1>5. f[0] = s /\ f[1] = Run(f[0], Clear) /\ f[2] = Run(f[1], Align) /\ Ran(s, q) = f[2]
    BY <1>1, <1>4 DEF Passes
  <1>6. Ran(s, q) = Run(r, Align) BY <1>3, <1>5
  <1>7. Ran(s, q) = [r EXCEPT !.suppressed = TRUE, !.active = opened,
                              !.next = Append(r.next, Clear),
                              !.at = Clamp(Top(opened, shift), shift)]
    BY <1>2, <1>6, RunFacts
  <1>8. /\ Ran(s, q).suppressed = TRUE /\ Ran(s, q).active = opened
        /\ Ran(s, q).next = Append(s.next, Clear)
    BY <1>2, <1>7 DEF Passing
  <1> QED BY <1>8 DEF q

\* A frame after a click, or the last one after a page was opened.
LEMMA RanBrings ==
    ASSUME PageStands, NEW s \in Passing, NEW q \in Seq(Tasks), q # <<>>,
           NEW meant, Brings(q, s.active, meant)
    PROVE  /\ Ran(s, q).suppressed = FALSE /\ Ran(s, q).active = meant
           /\ Ran(s, q).next = s.next /\ Ran(s, q).at = s.at
  <1> DEFINE n == Len(q)
  <1>1. n \in Nat \ {0} /\ q \in Seq(Tasks \cup {Spy}) /\ \A k \in 1 .. n : q[k] \in Tasks OBVIOUS
  <1>2. PICK f : Passes(f, s, q) BY <1>1, RanPasses
  <1>3. ASSUME NEW k \in 1 .. n
        PROVE  /\ f[k].next = f[k - 1].next /\ f[k].at = f[k - 1].at
               /\ q[k] = Clear => f[k].suppressed = FALSE /\ f[k].active = f[k - 1].active
               /\ q[k] # Clear => f[k].suppressed = f[k - 1].suppressed
               /\ q[k] = Activate(meant) => f[k].active = meant
    <2>1. f[k - 1] \in Passing /\ f[k] = Run(f[k - 1], q[k]) BY <1>1, <1>2 DEF Passes
    <2> DEFINE p == f[k - 1]
    <2> HIDE DEF p
    <2>2. p \in Passing /\ f[k] = Run(p, q[k]) BY <2>1 DEF p
    <2>3. q[k] = Clear \/ \E e \in DOMAIN Entries : q[k] = Activate(e)
      BY <1>1 DEF Brings, Tasks
    <2>4. CASE q[k] = Clear
      <3>1. f[k] = [p EXCEPT !.suppressed = FALSE] BY <2>2, <2>4, RunFacts
      <3>2. q[k] # Activate(meant) BY <2>4 DEF Clear, Activate
      <3> QED BY <2>2, <2>4, <3>1, <3>2 DEF Passing, p
    <2>5. CASE \E e \in DOMAIN Entries : q[k] = Activate(e)
      <3>1. PICK e \in DOMAIN Entries : q[k] = Activate(e) BY <2>5
      <3>0. Run(p, Activate(e)) = [p EXCEPT !.active = e] BY <2>2, RunFacts
      <3>2. f[k] = [p EXCEPT !.active = e] BY <2>2, <3>0, <3>1
      <3>3. q[k] # Clear /\ (q[k] = Activate(meant) => e = meant) BY <3>1 DEF Clear, Activate
      <3> QED BY <2>2, <3>2, <3>3 DEF Passing, p
    <2> QED BY <2>3, <2>4, <2>5
  <1>4. f[0] = s /\ Ran(s, q) = f[n] BY <1>2 DEF Passes
  <1> HIDE DEF n
  <1> DEFINE Kept(k) == /\ f[k].next = s.next /\ f[k].at = s.at
                        /\ k > 0 => f[k].suppressed = FALSE
                        /\ (\A i \in 1 .. n : q[i] = Clear) => f[k].active = s.active
             Good == {k \in 0 .. n : Kept(k)}
  <1>5. q[1] = Clear BY DEF Brings
  <1>6. 0 \in Good BY <1>1, <1>4
  <1>7. ASSUME NEW k \in 1 .. n, k - 1 \in Good PROVE k \in Good
    <2>1. Kept(k - 1) /\ k \in 0 .. n BY <1>1, <1>7
    <2>2. k = 1 \/ k - 1 > 0 BY <1>1
    <2>3. f[k].suppressed = FALSE BY <1>3, <1>5, <2>1, <2>2
    <2> QED BY <1>3, <2>1, <2>3
  <1> HIDE DEF Good
  <1>8. \A k \in 0 .. n : k \in Good BY <1>1, <1>6, <1>7, UpToIsIn
  <1>9. Kept(n) /\ n \in 1 .. n BY <1>1, <1>8 DEF Good
  <1>10. f[n].active = meant
    <2>1. CASE s.active = meant /\ \A k \in 1 .. Len(q) : q[k] = Clear BY <1>9, <2>1 DEF n
    <2>2. CASE q[Len(q)] = Activate(meant) BY <1>3, <1>9, <2>2 DEF n
    <2> QED BY <2>1, <2>2 DEF Brings
  <1> QED BY <1>1, <1>4, <1>9, <1>10

-----------------------------------------------------------------------------
(* The reading place: the invariant.                                         *)

\* What the variables are.
PlaceTypes ==
    /\ scrollTop \in Int /\ shift \in Nat /\ scrolled \in {"none", "page", "reader"}
    /\ suppressed \in BOOLEAN /\ tasks \in Seq(Tasks) /\ listening \in BOOLEAN
    /\ active \in DOMAIN Entries /\ committed \in DOMAIN Entries /\ url \in DOMAIN Entries
    /\ opened \in DOMAIN Entries /\ lastPushed = committed
    /\ goal \in {-1, 0} \cup DOMAIN Entries

\* The two callbacks of a page that was opened.
Opening == <<Clear, Align>>

\* An entry that is meant is brought by the callbacks, the scroll event of the jump is
\* held back until they have run, and the address is the entry's or follows.
JumpInv ==
    goal > 0 =>
        /\ suppressed <=> tasks # <<>>
        /\ scrolled = "page" => suppressed
        /\ url \in {goal, committed}
        /\ \/ Brings(tasks, active, goal)
           \/ tasks = Opening /\ opened = goal /\ active = goal /\ committed = goal

\* After the reader has scrolled, the article is the one at the line, or the frame that
\* finds it is still to come.
SpyInv ==
    goal = 0 =>
        /\ listening /\ tasks = <<>> /\ ~ suppressed /\ scrolled # "page"
        /\ scrolled = "none" => active = Spied(scrollTop, shift)

\* Before the effects have run everything is as the page was opened; from then on the
\* headings above the article are open, unless the reader has closed one.
TocInv ==
    /\ ~ listening => /\ goal = opened /\ committed = opened /\ active = opened /\ url = opened
                      /\ ~ folded /\ \A k \in 1 .. Len(tasks) : tasks[k] \in {Clear, Align}
    /\ listening /\ ~ folded => Ancestors(committed) \subseteq expanded

\* The inductive invariant.
PlaceInv == PlaceTypes /\ JumpInv /\ SpyInv /\ TocInv

\* What a page that is opened looks like.
LEMMA OpeningFacts ==
    /\ Opening \in Seq(Tasks) /\ Opening # <<>>
    /\ \A k \in 1 .. Len(Opening) : Opening[k] \in {Clear, Align}
    /\ Align \in ToSet(Opening)
  <1>1. Len(Opening) = 2 /\ Opening[1] = Clear /\ Opening[2] = Align BY DEF Opening
  <1>2. Opening \in Seq(Tasks) /\ Opening # <<>> BY DEF Opening, Tasks
  <1>3. DOMAIN Opening = 1 .. 2 BY DEF Opening
  <1>4. Align \in ToSet(Opening)
    <2>1. 2 \in DOMAIN Opening BY <1>3
    <2> QED BY <1>1, <2>1 DEF ToSet
  <1> QED BY <1>1, <1>2, <1>4

\* An entry is a number, and none of the two that stand for something else.
LEMMA EntryFacts == \A e \in DOMAIN Entries : e \in Nat /\ e > 0 /\ e # 0 /\ e # -1
BY EntriesFacts

\* Where the page comes to stand.
LEMMA JumpFacts ==
    ASSUME NEW e \in DOMAIN Entries, NEW extra \in Nat
    PROVE  Clamp(Top(e, extra), extra) \in Int
  <1>1. Top(e, extra) \in Nat BY TopGrows
  <1> QED BY <1>1, ClampFacts

\* A page that is opened satisfies it.
LEMMA PlaceInvInit == PlaceInit => PlaceInv
  <1> SUFFICES ASSUME NEW e \in DOMAIN Entries, OpenedAt(e, Clamp(Top(e, 0), 0), {})
               PROVE  PlaceInv
    BY DEF PlaceInit
  <1>1. Clamp(Top(e, 0), 0) \in Int BY JumpFacts
  <1>2. tasks = Opening BY DEF OpenedAt, Opening
  <1>3. e # 0 /\ e # -1 BY EntryFacts
  <1>4. PlaceTypes BY <1>1, <1>2, OpeningFacts DEF PlaceTypes, OpenedAt
  <1>5. JumpInv BY <1>2, OpeningFacts DEF JumpInv, OpenedAt
  <1>6. SpyInv BY <1>3 DEF SpyInv, OpenedAt
  <1>7. TocInv BY <1>2, OpeningFacts DEF TocInv, OpenedAt
  <1> QED BY <1>4, <1>5, <1>6, <1>7 DEF PlaceInv

\* Steps that keep it: the page is loaded again.
LEMMA ReloadKeeps == PlaceInv /\ Reload => PlaceInv'
  <1> SUFFICES ASSUME PlaceInv, Reload PROVE PlaceInv' OBVIOUS
  <1>1. url \in DOMAIN Entries BY DEF PlaceInv, PlaceTypes
  <1>2. Clamp(Top(url, 0), 0) \in Int BY <1>1, JumpFacts
  <1>3. tasks' = Opening BY DEF Reload, Opening
  <1>4. url # 0 /\ url # -1 BY <1>1, EntryFacts
  <1>5. PlaceTypes' BY <1>1, <1>2, <1>3, OpeningFacts DEF PlaceTypes, Reload
  <1>6. JumpInv' BY <1>3, OpeningFacts DEF JumpInv, Reload
  <1>7. SpyInv' BY <1>4 DEF SpyInv, Reload
  <1>8. TocInv' BY <1>3, OpeningFacts DEF TocInv, Reload
  <1> QED BY <1>5, <1>6, <1>7, <1>8 DEF PlaceInv

\* The effects run.
LEMMA MountedKeeps == PlaceInv /\ Mounted => PlaceInv'
  <1> SUFFICES ASSUME PlaceInv, Mounted PROVE PlaceInv' OBVIOUS
  <1>1. active = opened /\ goal = opened /\ committed = opened /\ goal # 0
    <2>1. ~ listening BY DEF Mounted
    <2>2. opened # 0 BY EntryFacts DEF PlaceInv, PlaceTypes
    <2> QED BY <2>1, <2>2 DEF PlaceInv, TocInv
  <1>2. UNCHANGED <<scrollTop, shift, scrolled, suppressed, tasks, committed, url, lastPushed,
                    opened, goal, folded>> /\ active' = active /\ listening' = TRUE
    BY <1>1 DEF Mounted
  <1>3. PlaceTypes' BY <1>2 DEF PlaceInv, PlaceTypes
  <1>4. JumpInv' BY <1>2 DEF PlaceInv, JumpInv, Brings
  <1>5. SpyInv' BY <1>1, <1>2 DEF SpyInv
  <1>6. TocInv'
    <2>1. Ancestors(committed) \subseteq expanded' BY <1>1 DEF Mounted
    <2>2. Ancestors(committed)' = Ancestors(committed) BY <1>2 DEF Ancestors
    <2> QED BY <1>2, <2>1, <2>2 DEF TocInv
  <1> QED BY <1>3, <1>4, <1>5, <1>6 DEF PlaceInv

\* The fonts come.
LEMMA FontsKeep == PlaceInv /\ FontsArrive => PlaceInv'
  <1> SUFFICES ASSUME PlaceInv, FontsArrive PROVE PlaceInv' OBVIOUS
  <1>1. UNCHANGED <<scrollTop, scrolled, suppressed, tasks, listening, active, committed, url,
                    lastPushed, opened, expanded, stored, goal, folded>> /\ shift' \in Nat
    BY DEF FontsArrive
  <1>2. goal # 0
    <2>1. Align \in ToSet(tasks) BY DEF FontsArrive
    <2>2. tasks # <<>> BY <2>1 DEF ToSet
    <2> QED BY <2>2 DEF PlaceInv, SpyInv
  <1>3. PlaceTypes' BY <1>1 DEF PlaceInv, PlaceTypes
  <1>4. JumpInv' BY <1>1 DEF PlaceInv, JumpInv, Brings
  <1>5. SpyInv' BY <1>1, <1>2 DEF SpyInv
  <1>6. TocInv' BY <1>1 DEF PlaceInv, TocInv, Ancestors
  <1> QED BY <1>3, <1>4, <1>5, <1>6 DEF PlaceInv

\* The reader scrolls.
LEMMA ScrollingKeeps == ASSUME PlaceInv, NEW y \in Nat, ReaderScrolls(y) PROVE PlaceInv'
  <1>1. UNCHANGED <<shift, suppressed, tasks, listening, active, committed, url, lastPushed,
                    opened, expanded, stored, goal, folded>>
        /\ scrollTop' = y /\ scrolled' = "reader"
    BY DEF ReaderScrolls
  <1>2. PlaceTypes' BY <1>1 DEF PlaceInv, PlaceTypes
  <1>3. JumpInv' BY <1>1 DEF PlaceInv, JumpInv, Brings
  <1>4. SpyInv' BY <1>1 DEF PlaceInv, SpyInv
  <1>5. TocInv' BY <1>1 DEF PlaceInv, TocInv, Ancestors
  <1> QED BY <1>2, <1>3, <1>4, <1>5 DEF PlaceInv

\* The reader opens or closes a heading.
LEMMA FoldKeeps == ASSUME PlaceInv, NEW open, Fold(open) PROVE PlaceInv'
  <1>1. UNCHANGED <<scrollTop, shift, scrolled, suppressed, tasks, listening, active, committed,
                    url, lastPushed, opened, goal>>
        /\ expanded' = open /\ (~ folded' => ~ folded /\ expanded \subseteq open) /\ listening
    BY DEF Fold
  <1>2. PlaceTypes' BY <1>1 DEF PlaceInv, PlaceTypes
  <1>3. JumpInv' BY <1>1 DEF PlaceInv, JumpInv, Brings
  <1>4. SpyInv' BY <1>1 DEF PlaceInv, SpyInv
  <1>5. TocInv'
    <2>1. Ancestors(committed)' = Ancestors(committed) BY <1>1 DEF Ancestors
    <2>2. ~ folded' => Ancestors(committed) \subseteq expanded' BY <1>1 DEF PlaceInv, TocInv
    <2> QED BY <1>1, <2>1, <2>2 DEF TocInv
  <1> QED BY <1>2, <1>3, <1>4, <1>5 DEF PlaceInv

\* React commits: the address and the table of contents follow.
LEMMA CommitKeeps == PlaceInv /\ Commit => PlaceInv'
  <1> SUFFICES ASSUME PlaceInv, Commit PROVE PlaceInv' OBVIOUS
  <1>1. UNCHANGED <<scrollTop, shift, scrolled, suppressed, tasks, listening, active, opened, goal>>
        /\ listening /\ active # committed /\ committed' = active /\ lastPushed' = active
        /\ expanded' = expanded \cup Ancestors(active)
    BY DEF Commit
  <1>2. url' = active BY <1>1 DEF Commit, PlaceInv, PlaceTypes
  <1>3. PlaceTypes' BY <1>1, <1>2 DEF PlaceInv, PlaceTypes
  <1>4. JumpInv'
    <2> SUFFICES ASSUME goal > 0 PROVE JumpInv' BY <1>1 DEF JumpInv
    <2>1. CASE Brings(tasks, active, goal)
      <3>1. Brings(tasks, active, goal)' BY <1>1, <2>1 DEF Brings
      <3> QED BY <1>1, <1>2, <3>1 DEF PlaceInv, JumpInv
    <2>2. CASE ~ Brings(tasks, active, goal) BY <1>1, <2>2 DEF PlaceInv, JumpInv
    <2> QED BY <2>1, <2>2
  <1>5. SpyInv' BY <1>1 DEF PlaceInv, SpyInv
  <1>6. TocInv'
    <2>1. Ancestors(committed)' = Ancestors(active) BY <1>1 DEF Ancestors
    <2> QED BY <1>1, <2>1 DEF TocInv
  <1> QED BY <1>3, <1>4, <1>5, <1>6 DEF PlaceInv

\* The reader picks an entry.
LEMMA ClickKeeps == ASSUME PlaceInv, NEW e \in DOMAIN Entries, ClickEntry(e) PROVE PlaceInv'
  <1> DEFINE clicked == <<Clear, Activate(e)>>
  <1>1. UNCHANGED <<shift, listening, active, committed, lastPushed, opened>>
        /\ suppressed' = TRUE /\ url' = e /\ tasks' = tasks \o clicked
        /\ goal' = (IF Align \in ToSet(tasks) \/ goal = -1 THEN -1 ELSE e)
        /\ listening /\ (~ folded' => ~ folded /\ expanded \subseteq expanded')
    BY DEF ClickEntry, Held
  <1>2. scrollTop' = Clamp(Top(e, shift), shift)
        /\ scrolled' = IF scrollTop' = scrollTop THEN scrolled
                       ELSE IF scrolled = "none" THEN "page" ELSE scrolled
    BY DEF ClickEntry, JumpTo
  <1>3. /\ clicked \in Seq(Tasks) /\ Len(clicked) = 2
        /\ clicked[1] = Clear /\ clicked[2] = Activate(e)
    BY DEF Tasks
  <1> HIDE DEF clicked
  <1>4. tasks \in Seq(Tasks) BY DEF PlaceInv, PlaceTypes
  <1>5. /\ tasks' \in Seq(Tasks) /\ Len(tasks') = Len(tasks) + 2 /\ tasks' # <<>>
        /\ \A k \in 1 .. Len(tasks) : tasks'[k] = tasks[k]
        /\ tasks'[Len(tasks) + 1] = Clear /\ tasks'[Len(tasks) + 2] = Activate(e)
        /\ Len(tasks) \in Nat
    <2>1. /\ tasks' = tasks \o clicked /\ clicked \in Seq(Tasks) /\ tasks \in Seq(Tasks)
          /\ Len(clicked) = 2 /\ Len(tasks) \in Nat
      BY <1>1, <1>3, <1>4
    <2>2. tasks' \in Seq(Tasks) /\ Len(tasks') = Len(tasks) + 2
      <3>1. tasks \o clicked \in Seq(Tasks) BY <2>1, ConcatProperties
      <3>2. Len(tasks \o clicked) = Len(tasks) + Len(clicked) BY <2>1, ConcatProperties
      <3> QED BY <2>1, <3>1, <3>2
    <2>3. \A k \in 1 .. Len(tasks) : tasks'[k] = tasks[k] BY <2>1
    <2>4. \A k \in 1 .. 2 : tasks'[Len(tasks) + k] = clicked[k]
      <3> SUFFICES ASSUME NEW k \in 1 .. 2 PROVE tasks'[Len(tasks) + k] = clicked[k] OBVIOUS
      <3>1. Len(tasks) + k \in 1 .. Len(tasks) + Len(clicked) /\ ~ (Len(tasks) + k <= Len(tasks))
            /\ (Len(tasks) + k) - Len(tasks) = k
        BY <2>1
      <3>2. \A i \in 1 .. Len(tasks) + Len(clicked) :
              (tasks \o clicked)[i] = IF i <= Len(tasks) THEN tasks[i] ELSE clicked[i - Len(tasks)]
        BY <2>1, ConcatProperties
      <3>3. (tasks \o clicked)[Len(tasks) + k] = clicked[(Len(tasks) + k) - Len(tasks)]
        BY <3>1, <3>2
      <3> QED BY <2>1, <3>1, <3>3
    <2>5. tasks'[Len(tasks) + 1] = clicked[1] /\ tasks'[Len(tasks) + 2] = clicked[2] BY <2>4
    <2>6. tasks' # <<>> BY <2>1, <2>2
    <2> QED BY <1>3, <2>1, <2>2, <2>3, <2>5, <2>6
  <1>6. e # 0 /\ e # -1 /\ e \in Nat BY EntryFacts
  <1>7. PlaceTypes'
    <2>1. scrollTop' \in Int BY <1>2, JumpFacts DEF PlaceInv, PlaceTypes
    <2> QED BY <1>1, <1>2, <1>5, <2>1 DEF PlaceInv, PlaceTypes
  <1>8. JumpInv'
    <2> SUFFICES ASSUME goal' > 0 PROVE JumpInv' BY DEF JumpInv
    <2>1. goal' = e /\ goal # -1 /\ Align \notin ToSet(tasks) BY <1>1
    <2>2. tasks # <<>> => tasks[1] = Clear
      <3>1. tasks # Opening BY <2>1, OpeningFacts
      <3>2. goal = 0 => tasks = <<>> BY DEF PlaceInv, SpyInv
      <3>3. goal = 0 \/ goal > 0 BY <2>1, EntryFacts DEF PlaceInv, PlaceTypes
      <3> QED BY <3>1, <3>2, <3>3 DEF PlaceInv, JumpInv, Brings
    <2>3. Brings(tasks', active', e)
      <3>1. tasks'[1] = Clear
        <4>1. CASE tasks = <<>>
          <5>1. Len(tasks) = 0 BY <4>1
          <5> QED BY <1>5, <5>1
        <4>2. CASE tasks # <<>>
          <5>1. 1 \in 1 .. Len(tasks) BY <1>4, <4>2
          <5> QED BY <1>5, <2>2, <4>2, <5>1
        <4> QED BY <4>1, <4>2
      <3>2. ASSUME NEW k \in 1 .. Len(tasks') PROVE tasks'[k] # Align
        <4>1. k \in 1 .. Len(tasks) \/ k = Len(tasks) + 1 \/ k = Len(tasks) + 2 BY <1>5
        <4>2. CASE k \in 1 .. Len(tasks)
          <5>1. tasks[k] \in ToSet(tasks) BY <1>4, <4>2 DEF ToSet
          <5> QED BY <1>5, <2>1, <4>2, <5>1
        <4>3. CASE ~ (k \in 1 .. Len(tasks))
          <5>1. Clear # Align /\ Activate(e) # Align BY DEF Clear, Align, Activate
          <5> QED BY <1>5, <4>1, <4>3, <5>1
        <4> QED BY <4>2, <4>3
      <3> QED BY <1>5, <3>1, <3>2 DEF Brings
    <2> QED BY <1>1, <1>5, <2>1, <2>3 DEF JumpInv, Brings
  <1>9. SpyInv' BY <1>1, <1>6 DEF SpyInv
  <1>10. TocInv'
    <2>1. Ancestors(committed)' = Ancestors(committed) BY <1>1 DEF Ancestors
    <2>2. ~ folded' => Ancestors(committed) \subseteq expanded' BY <1>1 DEF PlaceInv, TocInv
    <2> QED BY <1>1, <2>1, <2>2 DEF TocInv
  <1> QED BY <1>7, <1>8, <1>9, <1>10 DEF PlaceInv

\* What a frame starts from, whether it hears the scroll event, and its callbacks.
Here == [suppressed |-> suppressed, active |-> active, at |-> scrollTop, next |-> <<>>]
Heard == scrolled # "none" /\ listening /\ ~ suppressed
Queue == IF Heard THEN Append(tasks, Spy) ELSE tasks

\* What a frame does.
LEMMA FrameFacts ==
    ASSUME PlaceInv, Frame
    PROVE  /\ PageStands /\ Here \in Passing /\ Queue \in Seq(Tasks \cup {Spy})
           /\ tasks # <<>> \/ scrolled # "none"
           /\ scrollTop' = Ran(Here, Queue).at /\ suppressed' = Ran(Here, Queue).suppressed
           /\ active' = Ran(Here, Queue).active /\ tasks' = Ran(Here, Queue).next
           /\ scrolled' = IF scrollTop' = scrollTop THEN "none" ELSE "page"
           /\ goal' = IF Heard /\ scrolled = "reader" /\ goal # -1 THEN 0 ELSE goal
           /\ UNCHANGED <<shift, listening, committed, url, lastPushed, opened, expanded, stored,
                          folded>>
  <1>1. PageStands BY DEF PlaceInv, PlaceTypes, PageStands
  <1>2. Here \in Passing
    <2>1. <<>> \in Seq({Clear}) OBVIOUS
    <2> QED BY <2>1 DEF PlaceInv, PlaceTypes, Here, Passing
  <1>3. Queue \in Seq(Tasks \cup {Spy})
    <2>1. tasks \in Seq(Tasks \cup {Spy}) BY DEF PlaceInv, PlaceTypes
    <2>2. Append(tasks, Spy) \in Seq(Tasks \cup {Spy}) BY <2>1
    <2> QED BY <2>1, <2>2 DEF Queue
  <1> QED BY <1>1, <1>2, <1>3 DEF Frame, Here, Heard, Queue

\* After a frame that hears nothing, an entry that is meant is active or stays so.
LEMMA BroughtFacts ==
    ASSUME PlaceInv, Frame, goal > 0, ~ Heard
    PROVE  /\ active' = goal /\ JumpInv'
           /\ \A k \in 1 .. Len(tasks') : tasks'[k] \in {Clear, Align}
  <1> DEFINE done == Ran(Here, tasks)
  <1>1. /\ PageStands /\ Here \in Passing /\ tasks \in Seq(Tasks)
        /\ scrollTop' = done.at /\ suppressed' = done.suppressed
        /\ active' = done.active /\ tasks' = done.next
        /\ scrolled' = IF scrollTop' = scrollTop THEN "none" ELSE "page"
        /\ goal' = goal
        /\ UNCHANGED <<committed, url, opened>>
    BY FrameFacts DEF Queue, PlaceInv, PlaceTypes
  <1>2. Here.active = active /\ Here.next = <<>> /\ Here.at = scrollTop
        /\ Here.suppressed = suppressed
    BY DEF Here
  <1>3. /\ suppressed <=> tasks # <<>>
        /\ url \in {goal, committed}
        /\ \/ Brings(tasks, active, goal)
           \/ tasks = Opening /\ opened = goal /\ active = goal /\ committed = goal
    BY DEF PlaceInv, JumpInv
  <1> HIDE DEF done
  <1>4. CASE tasks = <<>>
    <2>1. done = Here BY <1>1, <1>4, RanSpy DEF done
    <2>2. tasks # Opening BY <1>4, OpeningFacts
    <2>3. active = goal BY <1>3, <1>4, <2>2 DEF Brings
    <2>4. /\ active' = active /\ tasks' = tasks /\ scrolled' = "none" /\ suppressed' = suppressed
          /\ Len(tasks') = 0
      BY <1>1, <1>2, <1>4, <2>1
    <2>5. Brings(tasks, active, goal) BY <1>3, <2>2
    <2>6. Brings(tasks', active', goal) BY <2>4, <2>5
    <2>7. JumpInv'
      <3>1. Brings(tasks, active, goal)' BY <1>1, <2>6 DEF Brings
      <3> QED BY <1>1, <1>3, <2>4, <3>1 DEF JumpInv
    <2> QED BY <2>3, <2>4, <2>7
  <1>5. CASE tasks # <<>> /\ Brings(tasks, active, goal)
    <2>1. /\ done.suppressed = FALSE /\ done.active = goal /\ done.next = <<>>
          /\ done.at = scrollTop
      BY <1>1, <1>2, <1>5, RanBrings DEF done
    <2>2. /\ active' = goal /\ tasks' = <<>> /\ scrolled' = "none" /\ suppressed' = FALSE
          /\ Len(tasks') = 0
      BY <1>1, <2>1
    <2>3. JumpInv'
      <3>1. Brings(tasks, active, goal)' BY <1>1, <2>2 DEF Brings
      <3> QED BY <1>1, <1>3, <2>2, <3>1 DEF JumpInv
    <2> QED BY <2>2, <2>3
  <1>6. CASE tasks = Opening /\ opened = goal /\ active = goal /\ committed = goal
    <2>1. done.suppressed = TRUE /\ done.active = opened /\ done.next = Append(<<>>, Clear)
      BY <1>1, <1>2, <1>6, RanAlign DEF done, Opening
    <2>2. Append(<<>>, Clear) = <<Clear>> OBVIOUS
    <2>3. active' = goal /\ tasks' = <<Clear>> /\ suppressed' = TRUE
      BY <1>1, <1>6, <2>1, <2>2
    <2>4. Len(tasks') = 1 /\ tasks'[1] = Clear /\ tasks' # <<>> BY <2>3
    <2>5. Clear # Align BY DEF Clear, Align
    <2>6. Brings(tasks, active, goal)' BY <1>1, <2>3, <2>4, <2>5 DEF Brings
    <2>7. JumpInv' BY <1>1, <1>3, <2>3, <2>4, <2>6 DEF JumpInv
    <2> QED BY <2>3, <2>4, <2>7
  <1> QED BY <1>3, <1>4, <1>5, <1>6

\* A frame that hears the event finds nothing else to do, unless it is unclear what is
\* meant.
LEMMA HeardFacts ==
    ASSUME PlaceInv, Frame, goal # -1, Heard
    PROVE  /\ scrolled = "reader" /\ tasks' = <<>> /\ suppressed' = FALSE /\ scrolled' = "none"
           /\ scrollTop' = scrollTop /\ active' = Spied(scrollTop, shift) /\ goal' = 0
  <1>1. tasks = <<>> /\ scrolled # "page"
    <2>1. goal = 0 \/ goal > 0 BY EntryFacts DEF PlaceInv, PlaceTypes
    <2>2. CASE goal = 0 BY <2>2 DEF PlaceInv, SpyInv
    <2>3. CASE goal > 0 BY <2>3 DEF PlaceInv, JumpInv, Heard
    <2> QED BY <2>1, <2>2, <2>3
  <1>2. scrolled = "reader" BY <1>1 DEF Heard, PlaceInv, PlaceTypes
  <1>3. Queue = <<Spy>>
    <2>1. Append(<<>>, Spy) = <<Spy>> OBVIOUS
    <2> QED BY <1>1, <2>1 DEF Queue
  <1>4. Ran(Here, Queue) = [Here EXCEPT !.active = Spied(Here.at, shift)]
    BY <1>3, FrameFacts, RanSpy
  <1>5. /\ Ran(Here, Queue).at = scrollTop /\ Ran(Here, Queue).next = <<>>
        /\ Ran(Here, Queue).suppressed = suppressed
        /\ Ran(Here, Queue).active = Spied(scrollTop, shift)
    BY <1>4 DEF Here
  <1>6. suppressed = FALSE BY DEF Heard, PlaceInv, PlaceTypes
  <1> QED BY <1>2, <1>5, <1>6, FrameFacts

\* A frame.
LEMMA FrameKeeps == PlaceInv /\ Frame => PlaceInv'
  <1> SUFFICES ASSUME PlaceInv, Frame PROVE PlaceInv' OBVIOUS
  <1>1. UNCHANGED <<shift, listening, committed, url, lastPushed, opened, expanded, stored,
                    folded>> /\ (tasks # <<>> \/ scrolled # "none")
        /\ goal' = IF Heard /\ scrolled = "reader" /\ goal # -1 THEN 0 ELSE goal
    BY FrameFacts
  <1>2. PlaceTypes'
    <2>1. Ran(Here, Queue) \in Passing BY FrameFacts, RanTypes
    <2>2. /\ scrollTop' \in Int /\ suppressed' \in BOOLEAN /\ active' \in DOMAIN Entries
          /\ tasks' \in Seq({Clear})
      BY <2>1, FrameFacts DEF Passing
    <2>3. tasks' \in Seq(Tasks)
      <3>1. {Clear} \subseteq Tasks BY DEF Tasks
      <3> QED BY <2>2, <3>1
    <2>4. scrolled' \in {"none", "page", "reader"} BY FrameFacts
    <2> QED BY <1>1, <2>2, <2>3, <2>4 DEF PlaceInv, PlaceTypes
  <1>3. CASE goal = -1
    <2>1. goal' = -1 BY <1>1, <1>3
    <2>2. listening
      <3>1. opened # -1 BY EntryFacts DEF PlaceInv, PlaceTypes
      <3> QED BY <1>3, <3>1 DEF PlaceInv, TocInv
    <2>3. JumpInv' /\ SpyInv' BY <2>1 DEF JumpInv, SpyInv
    <2>4. TocInv' BY <1>1, <2>2 DEF PlaceInv, TocInv, Ancestors
    <2> QED BY <1>2, <2>3, <2>4 DEF PlaceInv
  <1>4. CASE goal # -1 /\ Heard
    <2>1. /\ tasks' = <<>> /\ suppressed' = FALSE /\ scrolled' = "none" /\ scrollTop' = scrollTop
          /\ active' = Spied(scrollTop, shift) /\ goal' = 0
      BY <1>4, HeardFacts
    <2>2. listening BY <1>4 DEF Heard
    <2>3. JumpInv' BY <2>1 DEF JumpInv
    <2>4. SpyInv' BY <1>1, <2>1, <2>2 DEF SpyInv
    <2>5. TocInv' BY <1>1, <2>2 DEF PlaceInv, TocInv, Ancestors
    <2> QED BY <1>2, <2>3, <2>4, <2>5 DEF PlaceInv
  <1>5. CASE goal # -1 /\ ~ Heard
    <2>1. goal' = goal BY <1>1, <1>5
    <2>2. goal # 0
      <3>1. goal = 0 => listening /\ tasks = <<>> /\ ~ suppressed BY DEF PlaceInv, SpyInv
      <3> QED BY <1>1, <1>5, <3>1 DEF Heard
    <2>3. goal > 0 BY <1>5, <2>2, EntryFacts DEF PlaceInv, PlaceTypes
    <2>4. /\ active' = goal /\ JumpInv'
          /\ \A k \in 1 .. Len(tasks') : tasks'[k] \in {Clear, Align}
      BY <1>5, <2>3, BroughtFacts
    <2>5. SpyInv' BY <2>1, <2>2 DEF SpyInv
    <2>6. TocInv'
      <3>1. Ancestors(committed)' = Ancestors(committed) BY <1>1 DEF Ancestors
      <3> QED BY <1>1, <2>1, <2>4, <3>1 DEF PlaceInv, TocInv
    <2> QED BY <1>2, <2>4, <2>5, <2>6 DEF PlaceInv
  <1> QED BY <1>3, <1>4, <1>5

\* Every step keeps it.
LEMMA PlaceInvNext == PlaceInv /\ [PlaceNext]_placeVars => PlaceInv'
  <1> SUFFICES ASSUME PlaceInv, [PlaceNext]_placeVars PROVE PlaceInv' OBVIOUS
  <1>1. ASSUME UNCHANGED placeVars PROVE PlaceInv'
    <2>1. UNCHANGED <<scrollTop, shift, scrolled, suppressed, tasks, listening, active, committed,
                      url, lastPushed, opened, expanded, stored, goal, folded>>
      BY <1>1 DEF placeVars
    <2>2. PlaceTypes' BY <2>1 DEF PlaceInv, PlaceTypes
    <2>3. JumpInv' BY <2>1 DEF PlaceInv, JumpInv, Brings
    <2>4. SpyInv' BY <2>1 DEF PlaceInv, SpyInv
    <2>5. TocInv' BY <2>1 DEF PlaceInv, TocInv, Ancestors
    <2> QED BY <2>2, <2>3, <2>4, <2>5 DEF PlaceInv
  <1>2. ASSUME NEW y \in 0 .. Height(Len(Entries)) + 1, ReaderScrolls(y) PROVE PlaceInv'
    <2>1. y \in Nat
      <3>1. Len(Entries) \in 0 .. Len(Entries) BY EntriesFacts
      <3>2. Height(Len(Entries)) \in Nat BY <3>1, HeightFacts
      <3> QED BY <3>2
    <2> QED BY <1>2, <2>1, ScrollingKeeps
  <1>3. ASSUME NEW e \in DOMAIN Entries, ClickEntry(e) PROVE PlaceInv' BY <1>3, ClickKeeps
  <1>4. ASSUME NEW open, Fold(open) PROVE PlaceInv' BY <1>4, FoldKeeps
  <1> QED BY <1>1, <1>2, <1>3, <1>4, ReloadKeeps, MountedKeeps, FontsKeep, FrameKeeps, CommitKeeps
      DEF PlaceNext

\* What the page shows once it has settled follows from the invariant.
LEMMA PlaceIsKept == PlaceInv => ReadingPlaceIsKept
  <1> SUFFICES ASSUME PlaceInv, Settled PROVE ReadingPlaceIsKept BY DEF ReadingPlaceIsKept
  <1>1. listening /\ tasks = <<>> /\ scrolled = "none" /\ active = committed BY DEF Settled
  <1>2. ASSUME goal > 0 PROVE active = goal /\ url = goal
    <2>1. tasks # Opening BY <1>1, OpeningFacts
    <2>2. Brings(tasks, active, goal) /\ url \in {goal, committed}
      BY <1>2, <2>1 DEF PlaceInv, JumpInv
    <2>3. active = goal BY <1>1, <2>2 DEF Brings
    <2> QED BY <1>1, <2>2, <2>3
  <1>3. ASSUME goal = 0
        PROVE  /\ active \in Sentinels
               /\ \A a \in Sentinels : Top(a, shift) - scrollTop <= Trigger => a <= active
               /\ Top(active, shift) - scrollTop <= Trigger \/ active = Min(Sentinels)
    <2>1. active = Spied(scrollTop, shift) BY <1>1, <1>3 DEF PlaceInv, SpyInv
    <2>2. scrollTop \in Int /\ shift \in Nat BY DEF PlaceInv, PlaceTypes
    <2> QED BY <2>1, <2>2, SpiedFacts
  <1>4. folded \/ committed \in Visible(expanded)
    BY <1>1, OpenIsVisible DEF PlaceInv, TocInv, PlaceTypes
  <1> QED BY <1>2, <1>3, <1>4 DEF ReadingPlaceIsKept

(***************************************************************************)
(* The reading place is kept.  Once a page has settled, the entry that was *)
(* jumped to, or that the page was opened at, is the active one and the    *)
(* one in the address until the reader scrolls; when the reader has        *)
(* scrolled, the active article is the last one at or above the line, or   *)
(* the first one; and its entry can be seen in the table of contents       *)
(* unless the reader has closed a heading.  This holds for every law,      *)
(* whatever its nesting and its heights, for every height of the page and  *)
(* every order of frames, commits, clicks and reloads, however many        *)
(* callbacks wait (FullLawViewer, ScrollActiveArticleContext,              *)
(* ScrollUrlSync, TocPanel).                                               *)
(***************************************************************************)
THEOREM TheReadingPlaceIsKept == PlaceSpec => []ReadingPlaceIsKept
BY PlaceInvInit, PlaceInvNext, PlaceIsKept, PTL DEF PlaceSpec
=============================================================================
