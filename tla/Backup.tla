------------------------------- MODULE Backup -------------------------------
(* The backup of the web application: GET /api/export writes what the user   *)
(* made into one file, naming articles by law and number; POST /api/import   *)
(* looks the numbers up in the text shown now and adds the rows in one       *)
(* transaction, while other requests go on.                                  *)
EXTENDS Naturals, FiniteSets, Bags, FiniteSetsExt

CONSTANTS
  Numbers,       \* articleNumberNormalized of the articles of one law
  Unnumbered,    \* a row below an article: its number is NULL
  HistoryCap,    \* MAX_SEARCH
  MaxEdits,      \* bound: requests that change the user's data
  MaxImports,    \* bound: imports
  MaxSwitches    \* bound: revisions the law is switched to

ASSUME BackupAssumption ==
  /\ Unnumbered \notin Numbers /\ HistoryCap \in Nat \ {0}
  /\ MaxEdits \in Nat /\ MaxImports \in Nat /\ MaxSwitches \in Nat

VARIABLES
  shown,         \* Law.currentRevisionId
  public,        \* the numbers the scope of the current edition lets through
  db,            \* the tables that are exported
  edits,         \* requests made so far
  file,          \* the export on the user's disk
  saved,         \* history: the tables as the file was written
  altered,       \* history: what was done to the file since
  imp            \* the import under way

backupVars == <<shown, public, db, edits, file, saved, altered, imp>>

Revisions == 0 .. MaxSwitches
Rows == Revisions \X (Numbers \cup {Unnumbered})
NoFile == [type |-> "none"]

BagAdd(B, e) == B (+) SetToBag({e})
BagRemove(B, e) == B (-) SetToBag({e})

EmptyTables ==
  [projects |-> EmptyBag,    \* for each the bag of its check items' rows
   highlights |-> EmptyBag, templates |-> EmptyBag,   \* rows
   tags |-> {}, links |-> {},                         \* rows, unique
   packs |-> EmptyBag,       \* <<type, set of rows>>
   pairs |-> EmptyBag,       \* ArticleCooccurrence: a pair of rows and its count
   history |-> {}]           \* <<createdAt, copy>>

NoImport == [pc |-> "idle", n |-> 0, rev |-> 0, ids |-> {}, plan |-> EmptyTables,
             victims |-> {}]

BackupInit ==
  /\ shown = 0 /\ public \in SUBSET Numbers
  /\ db = EmptyTables /\ edits = 0
  /\ file = NoFile /\ saved = EmptyTables /\ altered = "no"
  /\ imp = NoImport

-----------------------------------------------------------------------------
(* Other requests. *)

(* The newest HistoryCap of S stay; among equal times the database chooses.  *)
NewestMutant(S, keep) ==
  /\ keep \subseteq S
  /\ Cardinality(keep) = IF Cardinality(S) < HistoryCap THEN Cardinality(S) ELSE HistoryCap

Newest(S, keep) ==
  /\ keep \subseteq S
  /\ Cardinality(keep) = IF Cardinality(S) < HistoryCap THEN Cardinality(S) ELSE HistoryCap
  /\ \A s \in keep, t \in S \ keep : s[1] >= t[1]

Changed(tables) ==
  /\ edits < MaxEdits /\ edits' = edits + 1
  /\ db' = tables
  /\ UNCHANGED <<shown, public, file, saved, altered, imp>>

(* A page may have been opened before the switch: its articles are still there. *)
Opened == {r \in Rows : r[1] <= shown}

CreateProfile == Changed([db EXCEPT !.projects = BagAdd(@, EmptyBag)])

AddCheckItem ==
  \E p \in BagToSet(db.projects), r \in Opened :
    Changed([db EXCEPT !.projects = BagAdd(BagRemove(@, p), BagAdd(p, r))])

AddHighlight == \E r \in Opened : Changed([db EXCEPT !.highlights = BagAdd(@, r)])

RemoveHighlight ==
  \E r \in BagToSet(db.highlights) : Changed([db EXCEPT !.highlights = BagRemove(@, r)])

(* A tag that is there already is answered with 409. *)
AddTag == \E r \in Opened \ db.tags : Changed([db EXCEPT !.tags = @ \cup {r}])

AddUserPack == \E r \in Opened : Changed([db EXCEPT !.packs = BagAdd(@, <<"user", {r}>>)])

(* The seed script: a system pack, a template and a topic's link, each created *)
(* unless it is there.                                                        *)
SeedPractice ==
  \E r \in Opened :
    /\ ~BagIn(<<"system", {r}>>, db.packs)
    /\ Changed([db EXCEPT !.packs = BagAdd(@, <<"system", {r}>>),
                 !.templates = IF BagIn(r, @) THEN @ ELSE BagAdd(@, r),
                 !.links = @ \cup {r}])

CountPair ==
  \E r, q \in Opened : r # q /\ Changed([db EXCEPT !.pairs = BagAdd(@, <<r, q>>)])

RecordSearch ==
  LET seen == db.history \cup {<<edits + 1, 0>>} IN
  \E keep \in SUBSET seen :
    Newest(seen, keep) /\ Changed([db EXCEPT !.history = keep])

(* A refresh switches the law; with the revision the scope may change. *)
SwitchLaw ==
  /\ shown < MaxSwitches /\ shown' = shown + 1
  /\ public' \in SUBSET Numbers
  /\ UNCHANGED <<db, edits, file, saved, altered, imp>>

-----------------------------------------------------------------------------
(* The export. *)

Copies(e, B) == IF BagIn(e, B) THEN B[e] ELSE 0

(* articleNumberNormalized ?? "": a row is known by its number only, whatever *)
(* revision it belongs to, and one without a number by nothing.               *)
Number(r) == r[2]
NumberBag(B) == BagOfAll(Number, B)
NumberSet(S) == {Number(r) : r \in S}

ExportTables ==
  LET Pack(p) == <<p[1], NumberSet(p[2])>>
      Pair(p) == <<Number(p[1]), Number(p[2])>>
  IN [projects |-> BagOfAll(NumberBag, db.projects),
      highlights |-> NumberBag(db.highlights), templates |-> NumberBag(db.templates),
      tags |-> NumberBag(SetToBag(db.tags)), links |-> NumberBag(SetToBag(db.links)),
      packs |-> BagOfAll(Pack, db.packs),
      pairs |-> LET Counted(p) == <<Pair(p), Copies(p, db.pairs)>>
                IN BagOfAll(Counted, SetToBag(BagToSet(db.pairs))),
      history |-> db.history]

Digest(t) ==
  [projects |-> BagCardinality(t.projects), highlights |-> BagCardinality(t.highlights),
   templates |-> BagCardinality(t.templates), tags |-> BagCardinality(t.tags),
   packs |-> BagCardinality(t.packs), pairs |-> BagCardinality(t.pairs),
   history |-> Cardinality(t.history)]

Importing == imp.pc \in {"resolve", "write", "commit"}

(* The file stands for the body of a running import, so it stays as it is.   *)
Export ==
  /\ ~Importing
  /\ \E type \in {"full", "laws"} :
       file' = [type |-> type, tables |-> ExportTables, sum |-> Digest(ExportTables)]
  /\ saved' = db /\ altered' = "no"
  /\ UNCHANGED <<shown, public, db, edits, imp>>

(* The file is on the user's disk: it may lose elements or change inside one. *)
AlterFile ==
  /\ ~Importing /\ file # NoFile /\ altered = "no"
  /\ \/ \E n \in BagToSet(file.tables.highlights) :
          /\ file' = [file EXCEPT !.tables.highlights = BagRemove(@, n)]
          /\ altered' = "lost"
     \/ \E p \in BagToSet(file.tables.projects) :
          /\ p # EmptyBag
          /\ file' = [file EXCEPT !.tables.projects = BagAdd(BagRemove(@, p), EmptyBag)]
          /\ altered' = "inside"
  /\ UNCHANGED <<shown, public, db, edits, saved, imp>>

-----------------------------------------------------------------------------
(* The import. *)

(* validateEnvelope; an import of a file of type laws is refused. *)
StartImport ==
  /\ file # NoFile /\ ~Importing
  /\ imp.n < MaxImports
  /\ imp' = [NoImport EXCEPT !.n = imp.n + 1, !.pc =
               IF file.type = "full" /\ Digest(file.tables) = file.sum
               THEN "resolve" ELSE "refused"]
  /\ UNCHANGED <<shown, public, db, edits, file, saved, altered>>

(* batchResolveArticleRefs, before the transaction begins. *)
ResolveRefs ==
  /\ imp.pc = "resolve"
  /\ imp' = [imp EXCEPT !.pc = "write", !.rev = shown, !.ids = public]
  /\ UNCHANGED <<shown, public, db, edits, file, saved, altered>>

Row(n) == <<imp.rev, n>>
FoundMutant(B) == SetToBag({Row(n) : n \in BagToSet(B) \cap imp.ids})

Found(B) == LET found == {n \in BagToSet(B) : n \in imp.ids}
            IN BagOfAll(Row, [n \in found |-> B[n]])

(* What the transaction adds: projects, packs as the user's own,     *)
(* tags and links that it does not find, the counts of the pairs.             *)
PlannedRows ==
  LET t == file.tables
      Pack(p) == <<"user", {Row(n) : n \in p[2] \cap imp.ids}>>
      pairs == {p \in BagToSet(t.pairs) : p[1][1] \in imp.ids /\ p[1][2] \in imp.ids}
      target == [p \in pairs |-> <<Row(p[1][1]), Row(p[1][2])>>]
  IN [projects |-> BagOfAll(Found, t.projects),
      highlights |-> Found(t.highlights), templates |-> Found(t.templates),
      tags |-> BagToSet(Found(t.tags)) \ db.tags,
      links |-> BagToSet(Found(t.links)) \ db.links,
      packs |-> BagOfAll(Pack, t.packs),
      pairs |-> [q \in {target[p] : p \in pairs} |->
                   MapThenSumSet(LAMBDA p : p[2] * t.pairs[p], {p \in pairs : target[p] = q})],
      history |-> {<<h[1], imp.n>> : h \in t.history}]

(* capUserActivity chooses its victims among the rows the transaction sees.   *)
WriteRows ==
  /\ imp.pc = "write"
  /\ LET seen == db.history \cup PlannedRows.history
     IN \E keep \in SUBSET seen :
          /\ Newest(seen, keep)
          /\ imp' = [imp EXCEPT !.pc = "commit", !.plan = PlannedRows,
                                !.victims = seen \ keep]
  /\ UNCHANGED <<shown, public, db, edits, file, saved, altered>>

(* A tag or link that another request committed meanwhile breaks a unique key. *)
CommitImport ==
  /\ imp.pc = "commit"
  /\ imp.plan.tags \cap db.tags = {} /\ imp.plan.links \cap db.links = {}
  /\ db' = [projects |-> db.projects (+) imp.plan.projects,
            highlights |-> db.highlights (+) imp.plan.highlights,
            templates |-> db.templates (+) imp.plan.templates,
            tags |-> db.tags \cup imp.plan.tags,
            links |-> db.links \cup imp.plan.links,
            packs |-> db.packs (+) imp.plan.packs,
            pairs |-> db.pairs (+) imp.plan.pairs,
            history |-> (db.history \cup imp.plan.history) \ imp.victims]
  /\ imp' = [imp EXCEPT !.pc = "done", !.plan = EmptyTables, !.victims = {}]
  /\ UNCHANGED <<shown, public, edits, file, saved, altered>>

(* A clash, or a statement or connection that fails: all is rolled back. *)
RollBackImport ==
  /\ imp.pc \in {"write", "commit"}
  /\ imp' = [imp EXCEPT !.pc = "failed", !.plan = EmptyTables, !.victims = {}]
  /\ UNCHANGED <<shown, public, db, edits, file, saved, altered>>

BackupNext ==
  \/ CreateProfile \/ AddCheckItem \/ AddHighlight \/ RemoveHighlight \/ AddTag
  \/ AddUserPack \/ SeedPractice \/ CountPair \/ RecordSearch
  \/ SwitchLaw
  \/ Export \/ AlterFile
  \/ StartImport \/ ResolveRefs \/ WriteRows \/ CommitImport \/ RollBackImport

BackupSpec == BackupInit /\ [][BackupNext]_backupVars
-----------------------------------------------------------------------------
(* An import of an untouched export brings back, on the text it resolved its  *)
(* references in, every highlight, template, tag, link and check item of an   *)
(* article whose number is public there, from whatever revision it was made   *)
(* on: POST /api/import undoes GET /api/export up to what the numbers say.    *)
RestoreBringsBack ==
  [][imp.pc = "commit" /\ imp'.pc = "done" /\ altered = "no" =>
       \A n \in imp.ids :
         LET Had(B) == MapThenSumSet(LAMBDA v : Copies(<<v, n>>, B), Revisions)
             Has(B) == Copies(<<imp.rev, n>>, B)
             HadItems == MapThenSumSet(LAMBDA p : saved.projects[p] * Had(p),
                                       BagToSet(saved.projects))
             HasItems == MapThenSumSet(LAMBDA p : db'.projects[p] * Has(p),
                                       BagToSet(db'.projects))
         IN /\ Has(db'.highlights) >= Had(saved.highlights)
            /\ Has(db'.templates) >= Had(saved.templates)
            /\ \A v \in Revisions : <<v, n>> \in saved.tags => <<imp.rev, n>> \in db'.tags
            /\ \A v \in Revisions : <<v, n>> \in saved.links => <<imp.rev, n>> \in db'.links
            /\ HasItems >= HadItems]_backupVars

(* Neither the cap of a search nor that of an import, nor the two together,   *)
(* loses the newest search: an old backup does not push out what came later.  *)
NewestSearchSurvives ==
  [][\A h \in db.history : \E g \in db'.history : g[1] >= h[1]]_backupVars
=============================================================================
