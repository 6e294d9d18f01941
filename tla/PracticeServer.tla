--------------------------- MODULE PracticeServer ---------------------------
(* Requests of the web application that read before they write the rows of   *)
(* the one local user: the default user itself, the flag of the active       *)
(* project, the capped search history.  A step is one SQL statement under    *)
(* READ COMMITTED, the isolation Prisma leaves PostgreSQL with; a statement  *)
(* that finds a row locked waits, and looks at the row again afterwards.     *)
EXTENDS Naturals, FiniteSets

CONSTANTS
  Requests,     \* calls of the API, each made once
  Projects,     \* ids of ProjectProfile
  Cap,          \* MAX_SEARCH_RECORDS
  MaxUsers,     \* bound: rows of User named "default"
  None

ASSUME PracticeAssumption ==
  /\ Cap \in Nat \ {0} /\ MaxUsers \in Nat \ {0}
  /\ None \notin Requests \cup Projects

VARIABLES
  users,        \* how many rows of User are named "default"; they are 1..users
  cachedUserId, \* the module variable, 0 is null
  owner,        \* ProjectProfile.userId, 0 when there is no such row
  active,       \* the committed rows with isActive
  lockedBy,     \* row locks of ProjectProfile
  made,         \* how many searches were ever recorded for a user
  searches,     \* rows of UserActivity of type search, <<user, n-th made>>
  req,          \* the requests' locals
  overlapped    \* history: two activations were under way at once

practiceVars ==
  <<users, cachedUserId, owner, active, lockedBy, made, searches, req, overlapped>>

UserIds == 1 .. MaxUsers
Ops == {"create", "delete", "activate", "search"}
Idle == [op |-> "none", pc |-> "idle", user |-> 0, target |-> None,
         seen |-> {}, victims |-> {}]

(* Before anybody used it the database has no user; later it has one, with   *)
(* projects, of which at most one is active; a new process has no cache.     *)
PracticeInit ==
  /\ cachedUserId = 0
  /\ \/ users = 0 /\ owner = [p \in Projects |-> 0] /\ active = {}
     \/ /\ users = 1 /\ owner \in [Projects -> {0, 1}]
        /\ active \in {{}} \cup {{p} : p \in {q \in Projects : owner[q] = 1}}
  /\ lockedBy = [p \in Projects |-> None]
  /\ made = [u \in UserIds |-> 0] /\ searches = {}
  /\ req = [r \in Requests |-> Idle]
  /\ overlapped = FALSE

At(r, op, pc) == req[r].op = op /\ req[r].pc = pc
Activating(r) == req[r].op = "activate" /\ req[r].pc \in {"clear", "set"}
Free(p, r) == lockedBy[p] \in {None, r}
Released(r) == [p \in Projects |-> IF lockedBy[p] = r THEN None ELSE lockedBy[p]]
End(r, pc) == req' = [req EXCEPT ![r].pc = pc, ![r].seen = {}, ![r].victims = {}]

Begin(r, op, p) ==
  /\ req[r].pc = "idle"
  /\ (op = "search") = (p = None)
  /\ req' = [req EXCEPT ![r].op = op, ![r].pc = "user", ![r].target = p]
  /\ UNCHANGED <<users, cachedUserId, owner, active, lockedBy, made, searches, overlapped>>

-----------------------------------------------------------------------------
(* getOrCreateDefaultUser, which every handler awaits first. *)

WithUser(r, u) == req' = [req EXCEPT ![r].user = u, ![r].pc = "start"]

UseCachedUser(r) ==
  /\ req[r].pc = "user" /\ cachedUserId # 0
  /\ WithUser(r, cachedUserId)
  /\ UNCHANGED <<users, cachedUserId, owner, active, lockedBy, made, searches, overlapped>>

(* findFirst has no order: any of the rows may come. *)
FindDefaultUser(r) ==
  /\ req[r].pc = "user" /\ cachedUserId = 0
  /\ IF users = 0
     THEN /\ req' = [req EXCEPT ![r].pc = "newUser"]
          /\ UNCHANGED cachedUserId
     ELSE \E u \in 1 .. users : WithUser(r, u) /\ cachedUserId' = u
  /\ UNCHANGED <<users, owner, active, lockedBy, made, searches, overlapped>>

(* User.name is not unique: a second request that found none creates another. *)
CreateDefaultUser(r) ==
  /\ req[r].pc = "newUser" /\ users < MaxUsers
  /\ users' = users + 1 /\ cachedUserId' = users + 1
  /\ WithUser(r, users + 1)
  /\ UNCHANGED <<owner, active, lockedBy, made, searches, overlapped>>

-----------------------------------------------------------------------------
(* Projects. *)

CreateProject(r) ==
  /\ At(r, "create", "start") /\ owner[req[r].target] = 0
  /\ owner' = [owner EXCEPT ![req[r].target] = req[r].user]
  /\ End(r, "done")
  /\ UNCHANGED <<users, cachedUserId, active, lockedBy, made, searches, overlapped>>

(* delete where id and userId: waits for the row, fails when it is not there. *)
DeleteProject(r) ==
  LET p == req[r].target IN
  /\ At(r, "delete", "start") /\ Free(p, r)
  /\ IF owner[p] = req[r].user
     THEN /\ owner' = [owner EXCEPT ![p] = 0]
          /\ active' = active \ {p}
          /\ End(r, "done")
     ELSE End(r, "failed") /\ UNCHANGED <<owner, active>>
  /\ UNCHANGED <<users, cachedUserId, lockedBy, made, searches, overlapped>>

(* updateMany chooses its rows from what is committed when it starts ...     *)
ReadActive(r) ==
  /\ At(r, "activate", "start")
  /\ req' = [req EXCEPT ![r].pc = "clear",
               ![r].seen = {p \in active : owner[p] = req[r].user}]
  /\ overlapped' = (overlapped \/ \E q \in Requests \ {r} : Activating(q))
  /\ UNCHANGED <<users, cachedUserId, owner, active, lockedBy, made, searches>>

(* ... waits for those another transaction holds, and drops the ones that    *)
(* match no longer.                                                          *)
ClearActive(r) ==
  LET rows == {p \in req[r].seen \cap active : owner[p] = req[r].user} IN
  /\ At(r, "activate", "clear")
  /\ \A p \in req[r].seen : Free(p, r)
  /\ lockedBy' = [p \in Projects |-> IF p \in rows THEN r ELSE lockedBy[p]]
  /\ req' = [req EXCEPT ![r].pc = "set", ![r].seen = rows]
  /\ UNCHANGED <<users, cachedUserId, owner, active, made, searches, overlapped>>

(* The second statement and the commit; a target that is gone rolls both back. *)
SetActiveMutant(r) ==
  LET p == req[r].target IN
  /\ At(r, "activate", "set") /\ Free(p, r)
  /\ IF owner[p] = req[r].user
     THEN active' = (active \ req[r].seen) \cup {p} /\ End(r, "done")
     ELSE active' = active \ req[r].seen /\ End(r, "failed")
  /\ lockedBy' = Released(r)
  /\ UNCHANGED <<users, cachedUserId, owner, made, searches, overlapped>>

SetActiveKeepsOldMutant(r) ==
  LET p == req[r].target IN
  /\ At(r, "activate", "set") /\ Free(p, r)
  /\ IF owner[p] = req[r].user
     THEN active' = active \cup {p} /\ End(r, "done")
     ELSE UNCHANGED active /\ End(r, "failed")
  /\ lockedBy' = Released(r)
  /\ UNCHANGED <<users, cachedUserId, owner, made, searches, overlapped>>

SetActive(r) ==
  LET p == req[r].target IN
  /\ At(r, "activate", "set") /\ Free(p, r)
  /\ IF owner[p] = req[r].user
     THEN active' = (active \ req[r].seen) \cup {p} /\ End(r, "done")
     ELSE UNCHANGED active /\ End(r, "failed")
  /\ lockedBy' = Released(r)
  /\ UNCHANGED <<users, cachedUserId, owner, made, searches, overlapped>>

-----------------------------------------------------------------------------
(* recordSearch, which the search route starts and does not wait for. *)

CreateSearch(r) ==
  LET u == req[r].user IN
  /\ At(r, "search", "start")
  /\ made' = [made EXCEPT ![u] = @ + 1]
  /\ searches' = searches \cup {<<u, made[u] + 1>>}
  /\ req' = [req EXCEPT ![r].pc = "cap"]
  /\ UNCHANGED <<users, cachedUserId, owner, active, lockedBy, overlapped>>

Newer(s) == {t \in searches : t[1] = s[1] /\ t[2] > s[2]}

(* orderBy createdAt desc, skip Cap *)
ReadOldSearches(r) ==
  /\ At(r, "search", "cap")
  /\ req' = [req EXCEPT ![r].pc = "trim", ![r].victims =
               {s \in searches : s[1] = req[r].user /\ Cardinality(Newer(s)) >= Cap}]
  /\ UNCHANGED <<users, cachedUserId, owner, active, lockedBy, made, searches, overlapped>>

DeleteOldSearches(r) ==
  /\ At(r, "search", "trim")
  /\ searches' = searches \ req[r].victims
  /\ End(r, "done")
  /\ UNCHANGED <<users, cachedUserId, owner, active, lockedBy, made, overlapped>>

(* The process ends: its transactions roll back, its cache is gone. *)
Restart ==
  /\ cachedUserId # 0 \/ \E r \in Requests : req[r].pc \notin {"idle", "done", "failed"}
  /\ cachedUserId' = 0
  /\ lockedBy' = [p \in Projects |-> None]
  /\ req' = [r \in Requests |->
       IF req[r].pc \in {"idle", "done", "failed"} THEN req[r]
       ELSE [req[r] EXCEPT !.pc = "failed", !.seen = {}, !.victims = {}]]
  /\ UNCHANGED <<users, owner, active, made, searches, overlapped>>

PracticeNext ==
  \/ \E r \in Requests :
       \/ \E op \in Ops, p \in Projects \cup {None} : Begin(r, op, p)
       \/ UseCachedUser(r) \/ FindDefaultUser(r) \/ CreateDefaultUser(r)
       \/ CreateProject(r) \/ DeleteProject(r)
       \/ ReadActive(r) \/ ClearActive(r) \/ SetActive(r)
       \/ CreateSearch(r) \/ ReadOldSearches(r) \/ DeleteOldSearches(r)
  \/ Restart

PracticeSpec == PracticeInit /\ [][PracticeNext]_practiceVars

-----------------------------------------------------------------------------
(* As long as no two activations of setActiveProject were under way at once,  *)
(* a user has at most one active project, whatever fails or restarts.         *)
SerialActivationKeepsOne ==
  ~overlapped => \A p, q \in active : owner[p] = owner[q] => p = q

(* A user who has an active project keeps one until a project is deleted:     *)
(* the two updates of setActiveProject are seen together or not at all.       *)
SomeProjectStaysActive ==
  [][\A u \in UserIds :
       /\ \E p \in active : owner[p] = u
       /\ \A p \in Projects : owner[p] = u => owner'[p] = u
       => \E p \in active' : owner'[p] = u]_practiceVars
=============================================================================
