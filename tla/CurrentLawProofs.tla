--------------------------- MODULE CurrentLawProofs --------------------------
(***************************************************************************)
(* Proofs about the refresh of the current laws, for any number of laws,   *)
(* runs and versions.                                                      *)
(***************************************************************************)
EXTENDS CurrentLawOverlap, TLAPS

USE DEF egovVars, revVars, syncVars, runVars, procVars, dbVars, vars

\* What the assumption on the constants says in the form the steps need it.
LEMMA Constants ==
    /\ MaxVersion \in Nat /\ MaxVersion >= 1 /\ MaxEdition \in Nat
    /\ NoRun \notin Runs
    /\ Modes \subseteq {"check", "dry-run", "refresh"}
    /\ AsOfs \subseteq Versions
BY RefreshAssumption DEF RefreshAssumption, Versions

\* e-Gov's answer is a version, and what it sends is a document.
LEMMA AnswerType ==
    ASSUME TypeOK, NEW r \in Runs, NEW l \in Laws
    PROVE  /\ AnswerFor(r, l) \in Versions
           /\ DocumentFor(r, l) \in Texts
  <1>1. AnswerFor(r, l) \in Versions
    BY DEF TypeOK, AnswerFor
  <1>2. edition[l][AnswerFor(r, l)] \in 0..MaxEdition
    BY <1>1 DEF TypeOK
  <1> QED BY <1>1, <1>2, Constants DEF DocumentFor, Texts, Versions

\* A worker's record may take any value its fields allow.
LEMMA WorkFields ==
    ASSUME NEW w \in Work
    PROVE  /\ w = [pc |-> w.pc, prev |-> w.prev, obs |-> w.obs, key |-> w.key,
                   xml |-> w.xml, sawPackage |-> w.sawPackage,
                   outcome |-> w.outcome]
           /\ w.pc \in Steps /\ w.prev \in 0..MaxVersion
           /\ w.obs \in 0..MaxVersion /\ w.key \in 0..MaxVersion
           /\ w.xml \in Texts /\ w.sawPackage \in BOOLEAN
           /\ w.outcome \in ResultStatus
BY DEF Work

\* The assignments of a worker to its local variables keep their types.
LEMMA WorkUpdate ==
    ASSUME NEW w \in Work, NEW p \in Steps, NEW o \in ResultStatus,
           NEW n \in 0..MaxVersion, NEW k \in 0..MaxVersion,
           NEW x \in Texts, NEW b \in BOOLEAN
    PROVE  /\ [w EXCEPT !.pc = p] \in Work
           /\ [w EXCEPT !.pc = p, !.prev = n] \in Work
           /\ [w EXCEPT !.pc = p, !.obs = n] \in Work
           /\ [w EXCEPT !.pc = p, !.xml = x] \in Work
           /\ [w EXCEPT !.pc = p, !.sawPackage = b] \in Work
           /\ [w EXCEPT !.key = k, !.pc = p, !.outcome = o, !.obs = n] \in Work
           /\ [w EXCEPT !.key = k, !.obs = n, !.pc = p, !.outcome = o] \in Work
           /\ [w EXCEPT !.pc = p, !.outcome = o, !.obs = n, !.xml = x,
                        !.sawPackage = b] \in Work
BY WorkFields DEF Work

\* The assignments of a worker, field by field.
LEMMA WorkEffect ==
    ASSUME NEW w \in Work, NEW p, NEW o, NEW n, NEW k, NEW x, NEW b
    PROVE  /\ LET u == [w EXCEPT !.pc = p]
              IN  /\ u.pc = p /\ u.prev = w.prev /\ u.obs = w.obs
                  /\ u.key = w.key /\ u.xml = w.xml /\ u.outcome = w.outcome
           /\ LET u == [w EXCEPT !.pc = p, !.prev = n]
              IN  /\ u.pc = p /\ u.prev = n /\ u.obs = w.obs
                  /\ u.key = w.key /\ u.xml = w.xml /\ u.outcome = w.outcome
           /\ LET u == [w EXCEPT !.pc = p, !.obs = n]
              IN  /\ u.pc = p /\ u.prev = w.prev /\ u.obs = n
                  /\ u.key = w.key /\ u.xml = w.xml /\ u.outcome = w.outcome
           /\ LET u == [w EXCEPT !.pc = p, !.xml = x]
              IN  /\ u.pc = p /\ u.prev = w.prev /\ u.obs = w.obs
                  /\ u.key = w.key /\ u.xml = x /\ u.outcome = w.outcome
           /\ LET u == [w EXCEPT !.pc = p, !.sawPackage = b]
              IN  /\ u.pc = p /\ u.prev = w.prev /\ u.obs = w.obs
                  /\ u.key = w.key /\ u.xml = w.xml /\ u.outcome = w.outcome
           /\ LET u == [w EXCEPT !.key = k, !.obs = n, !.pc = p, !.outcome = o]
              IN  /\ u.pc = p /\ u.prev = w.prev /\ u.obs = n
                  /\ u.key = k /\ u.xml = w.xml /\ u.outcome = o
           /\ LET u == [w EXCEPT !.pc = p, !.outcome = o, !.obs = n, !.xml = x,
                           !.sawPackage = b]
              IN  /\ u.pc = p /\ u.prev = w.prev /\ u.obs = n
                  /\ u.key = w.key /\ u.xml = x /\ u.outcome = o
BY DEF Work

\* A step of one worker leaves the others alone.
LEMMA OtherWorkers ==
    ASSUME TypeOK, NEW r \in Runs, NEW l \in Laws, NEW n,
           work' = [work EXCEPT ![r][l] = n],
           NEW q \in Runs, NEW m \in Laws
    PROVE  /\ q = r /\ m = l => work'[q][m] = n
           /\ q # r \/ m # l => work'[q][m] = work[q][m]
  <1>1. work \in [Runs -> [Laws -> Work]] BY DEF TypeOK
  <1> QED BY <1>1

\* One worker's record is replaced.
LEMMA WorkType ==
    ASSUME TypeOK, NEW r \in Runs, NEW l \in Laws, NEW n \in Work,
           work' = [work EXCEPT ![r][l] = n]
    PROVE  work' \in [Runs -> [Laws -> Work]]
BY DEF TypeOK

LEMMA GotoType ==
    ASSUME TypeOK, NEW r \in Runs, NEW l \in Laws, NEW p \in Steps, Goto(r, l, p)
    PROVE  work' \in [Runs -> [Laws -> Work]]
  <1> DEFINE w == work[r][l]
  <1>1. w \in Work BY DEF TypeOK
  <1>2. PICK o \in ResultStatus : TRUE BY DEF ResultStatus
  <1>3. 0 \in 0..MaxVersion /\ NoText \in Texts BY SMTT(40), Constants DEF NoText, Texts
  <1>4. [w EXCEPT !.pc = p] \in Work
    <2> HIDE DEF w
    <2> QED BY <1>1, <1>2, <1>3, WorkUpdate
  <1>5. work' = [work EXCEPT ![r][l] = [w EXCEPT !.pc = p]]
    BY DEF Goto, TypeOK
  <1> QED BY <1>4, <1>5, WorkType

LEMMA FinishType ==
    ASSUME TypeOK, NEW r \in Runs, NEW l \in Laws,
           NEW o \in ResultStatus, Finish(r, l, o)
    PROVE  work' \in [Runs -> [Laws -> Work]]
  <1> DEFINE w == work[r][l]
  <1> DEFINE new == [w EXCEPT !.pc = "done", !.outcome = o, !.obs = 0,
                              !.xml = NoText, !.sawPackage = FALSE]
  <1>1. w \in Work BY DEF TypeOK
  <1>2. "done" \in Steps BY DEF Steps
  <1>3. 0 \in 0..MaxVersion /\ NoText \in Texts BY Constants DEF NoText, Texts
  <1>4. new \in Work
    <2> HIDE DEF w
    <2> QED BY <1>1, <1>2, <1>3, WorkUpdate
  <1>5. work' = [work EXCEPT ![r][l] = new] BY DEF Finish
  <1> HIDE DEF new
  <1> QED BY <1>4, <1>5, WorkType

LEMMA InitType == Init => TypeOK
  <1> SUFFICES ASSUME Init PROVE TypeOK OBVIOUS
  <1>1. PICK kind \in [Laws -> InitKinds] :
          /\ current = [l \in Laws |-> IF kind[l] = "empty" THEN 0 ELSE 1]
          /\ status = [l \in Laws |-> [v \in Versions |->
                IF v = 1 /\ kind[l] # "empty" THEN "active" ELSE "absent"]]
          /\ text = [l \in Laws |-> [v \in Versions |->
                IF v = 1 /\ kind[l] # "empty" THEN <<1, 0>> ELSE NoText]]
          /\ observed = [l \in Laws |-> IF kind[l] = "synced" THEN 1 ELSE 0]
    BY DEF Init
  <1>2. NoText \in Texts /\ <<1, 0>> \in Texts
    BY Constants DEF NoText, Texts
  <1>3. Fresh \in Work
    BY <1>2, Constants DEF Fresh, Work, Steps, ResultStatus
  <1>4. /\ current \in [Laws -> 0..MaxVersion]
        /\ status \in [Laws -> [Versions -> RevisionStatus]]
        /\ text \in [Laws -> [Versions -> Texts]]
        /\ observed \in [Laws -> 0..MaxVersion]
    BY <1>1, <1>2, Constants DEF RevisionStatus
  <1>5. /\ inForce \in [Laws -> Versions]
        /\ edition \in [Laws -> [Versions -> 0..MaxEdition]]
        /\ pkgOf \in [Laws -> [Versions -> Runs \cup {NoRun}]]
        /\ store \in [Laws -> [Versions -> Texts]]
        /\ asOf \in [Runs -> Versions]
    BY <1>2, Constants DEF Init, Versions
  <1>6. /\ syncError \in [Laws -> BOOLEAN]
        /\ result \in [Runs -> [Laws -> ResultStatus]]
        /\ work \in [Runs -> [Laws -> Work]]
    BY <1>3 DEF Init, ResultStatus
  <1> QED BY <1>4, <1>5, <1>6 DEF Init, TypeOK


\* A worker's step that writes to the database keeps every type.
LEMMA LawFailsType ==
    ASSUME TypeOK, NEW r \in Runs, NEW l \in Laws, LawFails(r, l)
    PROVE  TypeOK'
  <1>1. work' \in [Runs -> [Laws -> Work]]
    <2>1. "failed" \in ResultStatus BY DEF ResultStatus
    <2> QED BY <2>1, FinishType DEF LawFails
  <1>2. syncError' \in [Laws -> BOOLEAN] BY DEF LawFails, TypeOK
  <1> QED BY <1>1, <1>2 DEF LawFails, TypeOK

\* The steps of a worker that change nothing but its local variables.
LEMMA LocalStepType ==
    ASSUME TypeOK, NEW r \in Runs, NEW l \in Laws,
           \/ BeginLaw(r, l) \/ QueryUnchanged(r, l) \/ QueryChanged(r, l)
           \/ FetchXml(r, l) \/ VerifyPublishable(r, l) \/ StageBegin(r, l)
    PROVE  TypeOK'
  <1> DEFINE w == work[r][l]
  <1>1. w \in Work /\ w.obs \in 0..MaxVersion BY WorkFields DEF TypeOK
  <1>2. /\ AnswerFor(r, l) \in 0..MaxVersion
        /\ DocumentFor(r, l) \in Texts
        /\ 0 \in 0..MaxVersion
    BY AnswerType, Constants DEF Versions
  <1>3. current[l] \in 0..MaxVersion BY DEF TypeOK
  <1>4. \A st \in {"prevRead", "done", "unchanged", "fetch", "fetched", "staging"} :
            st \in Steps
    BY DEF Steps
  <1>5. {"unchanged", "updated", "none"} \subseteq ResultStatus BY DEF ResultStatus
  <1>6. work' \in [Runs -> [Laws -> Work]]
    <2>1. CASE BeginLaw(r, l)
      <3> DEFINE n == [w EXCEPT !.pc = "prevRead", !.prev = current[l]]
      <3>1. n \in Work
        <4> HIDE DEF w
        <4> QED BY <1>1, <1>2, <1>3, <1>4, <1>5, WorkUpdate
      <3>2. work' = [work EXCEPT ![r][l] = n] BY <2>1 DEF BeginLaw
      <3> QED BY <3>1, <3>2, WorkType
    <2>2. CASE QueryUnchanged(r, l)
      <3> DEFINE n == [w EXCEPT !.key = AnswerFor(r, l), !.obs = 0,
                    !.pc = IF mode[r] = "check" THEN "done" ELSE "unchanged",
                    !.outcome = IF mode[r] = "check" THEN "unchanged" ELSE "none"]
      <3>1. n \in Work
        <4> HIDE DEF w
        <4> QED BY ZenonT(40), <1>1, <1>2, <1>4, <1>5, WorkUpdate
      <3>2. work' = [work EXCEPT ![r][l] = n] BY <2>2 DEF QueryUnchanged
      <3> QED BY <3>1, <3>2, WorkType
    <2>3. CASE QueryChanged(r, l)
      <3> DEFINE n == [w EXCEPT !.key = AnswerFor(r, l), !.obs = 0,
                    !.pc = IF mode[r] = "check" THEN "done" ELSE "fetch",
                    !.outcome = IF mode[r] = "check" THEN "updated" ELSE "none"]
      <3>1. n \in Work
        <4> HIDE DEF w
        <4> QED BY ZenonT(40), <1>1, <1>2, <1>4, <1>5, WorkUpdate
      <3>2. work' = [work EXCEPT ![r][l] = n] BY <2>3 DEF QueryChanged
      <3> QED BY <3>1, <3>2, WorkType
    <2>4. CASE FetchXml(r, l)
      <3> DEFINE n == [w EXCEPT !.pc = "fetched", !.xml = DocumentFor(r, l)]
      <3>1. n \in Work
        <4> HIDE DEF w
        <4> QED BY ZenonT(40), <1>1, <1>2, <1>4, <1>5, WorkUpdate
      <3>2. work' = [work EXCEPT ![r][l] = n] BY <2>4 DEF FetchXml
      <3> QED BY <3>1, <3>2, WorkType
    <2>5. CASE VerifyPublishable(r, l)
      <3>1. "stage" \in Steps BY DEF Steps
      <3> QED BY <2>5, <3>1, <1>5, FinishType, GotoType DEF VerifyPublishable
    <2>6. CASE StageBegin(r, l)
      <3> DEFINE n == [w EXCEPT !.pc = "staging", !.sawPackage = pkgStatus[r] # "none"]
      <3>1. n \in Work
        <4> HIDE DEF w
        <4> QED BY ZenonT(40), <1>1, <1>2, <1>4, <1>5, WorkUpdate
      <3>2. work' = [work EXCEPT ![r][l] = n] BY <2>6 DEF StageBegin
      <3> QED BY <3>1, <3>2, WorkType
    <2> QED BY <2>1, <2>2, <2>3, <2>4, <2>5, <2>6
  <1>7. UNCHANGED <<egovVars, dbVars, store, procVars>>
    BY DEF BeginLaw, QueryUnchanged, QueryChanged, FetchXml, VerifyPublishable,
           StageBegin
  <1> QED BY <1>6, <1>7 DEF TypeOK


\* The steps of a worker that write to the database or to the XML store.
LEMMA WriteStepType ==
    ASSUME TypeOK, NEW r \in Runs, NEW l \in Laws,
           \/ ReadSync(r, l) \/ RecordUnchanged(r, l) \/ RecordUnchangedTorn(r, l)
           \/ StoreXml(r, l) \/ VerifyHeld(r, l) \/ StageCommit(r, l)
           \/ Activate(r, l) \/ ActivateUnacknowledged(r, l)
    PROVE  TypeOK'
  <1> DEFINE w == work[r][l]
  <1>1. /\ w \in Work /\ w.obs \in 0..MaxVersion /\ w.key \in 0..MaxVersion
        /\ w.prev \in 0..MaxVersion /\ w.xml \in Texts
    BY WorkFields DEF TypeOK
  <1> DEFINE k == w.key
             p == w.prev
             x == w.xml
  <1>2. 0 \in 0..MaxVersion /\ NoText \in Texts BY Constants DEF NoText, Texts
  <1>3. {"unchanged", "updated", "held", "failed", "none"} \subseteq ResultStatus
    BY DEF ResultStatus
  <1>4. {"ready", "stored", "staged"} \subseteq Steps BY DEF Steps
  <1>5. CASE ReadSync(r, l)
    <2> DEFINE n == [w EXCEPT !.pc = "ready", !.obs = observed[l]]
    <2>1. observed[l] \in 0..MaxVersion BY DEF TypeOK
    <2>2. n \in Work
      <3> HIDE DEF w
      <3> QED BY <1>1, <1>2, <1>3, <1>4, <2>1, WorkUpdate
    <2>3. work' = [work EXCEPT ![r][l] = n] BY <1>5 DEF ReadSync
    <2>4. work' \in [Runs -> [Laws -> Work]] BY <2>2, <2>3, WorkType
    <2>5. result' \in [Runs -> [Laws -> ResultStatus]]
      BY <1>5, <1>3 DEF ReadSync, TypeOK
    <2> QED BY <1>5, <2>4, <2>5 DEF ReadSync, TypeOK
  <1>6. CASE RecordUnchanged(r, l) \/ RecordUnchangedTorn(r, l)
    <2>1. work' \in [Runs -> [Laws -> Work]]
      BY <1>6, <1>3, FinishType DEF RecordUnchanged, RecordUnchangedTorn
    <2>2. observed' \in [Laws -> 0..MaxVersion]
      <3>1. observed' = [observed EXCEPT ![l] = k] /\ k \in 0..MaxVersion
        BY <1>1, <1>6 DEF RecordUnchanged, RecordUnchangedTorn
      <3>2. observed \in [Laws -> 0..MaxVersion] BY DEF TypeOK
      <3> QED BY ONLY <3>1, <3>2
    <2>3. syncError' \in [Laws -> BOOLEAN]
      <3>1. \E e \in BOOLEAN : syncError' = [syncError EXCEPT ![l] = e]
        BY <1>6 DEF RecordUnchanged, RecordUnchangedTorn
      <3>2. syncError \in [Laws -> BOOLEAN] BY DEF TypeOK
      <3> QED BY ONLY <3>1, <3>2
    <2> QED BY <1>6, <2>1, <2>2, <2>3 DEF RecordUnchanged, RecordUnchangedTorn, TypeOK
  <1>7. CASE StoreXml(r, l)
    <2>1. Goto(r, l, "stored") BY <1>7 DEF StoreXml
    <2>2. work' \in [Runs -> [Laws -> Work]] BY <1>4, <2>1, GotoType
    <2>3. store' \in [Laws -> [Versions -> Texts]]
      BY <1>1, <1>7 DEF StoreXml, TypeOK
    <2> QED BY <1>7, <2>2, <2>3 DEF StoreXml, TypeOK
  <1>8. CASE VerifyHeld(r, l)
    <2>1. work' \in [Runs -> [Laws -> Work]] BY <1>8, <1>3, FinishType DEF VerifyHeld
    <2>2. result' \in [Runs -> [Laws -> ResultStatus]]
      BY <1>8, <1>3 DEF VerifyHeld, TypeOK
    <2> QED BY <1>8, <2>1, <2>2 DEF VerifyHeld, TypeOK
  <1>9. CASE StageCommit(r, l)
    <2>1. Goto(r, l, "staged") BY <1>9 DEF StageCommit
    <2>2. work' \in [Runs -> [Laws -> Work]] BY <1>4, <2>1, GotoType
    <2>3. pkgStatus' \in [Runs -> {"none", "verified", "published", "rejected"}]
      <3>1. \/ UNCHANGED pkgStatus
            \/ pkgStatus' = [pkgStatus EXCEPT ![r] = "verified"]
        BY <1>9 DEF StageCommit
      <3>2. pkgStatus \in [Runs -> {"none", "verified", "published", "rejected"}]
        BY DEF TypeOK
      <3> QED BY ONLY <3>1, <3>2
    <2>4. pkgOf' \in [Laws -> [Versions -> Runs \cup {NoRun}]]
      <3>1. pkgOf' = [pkgOf EXCEPT ![l][k] = r] BY <1>9 DEF StageCommit
      <3>2. pkgOf \in [Laws -> [Versions -> Runs \cup {NoRun}]] BY DEF TypeOK
      <3> QED BY ONLY <3>1, <3>2, r \in Runs
    <2>5. status' \in [Laws -> [Versions -> RevisionStatus]]
      <3>1. status' = [status EXCEPT ![l][k] = "staged"] \/ status' = status
        BY <1>9 DEF StageCommit
      <3>2. status \in [Laws -> [Versions -> RevisionStatus]] BY DEF TypeOK
      <3> QED BY ONLY <3>1, <3>2 DEF RevisionStatus
    <2>6. text' \in [Laws -> [Versions -> Texts]]
      <3>1. text' = [text EXCEPT ![l][k] = x] \/ text' = text
        BY <1>9 DEF StageCommit
      <3>2. text \in [Laws -> [Versions -> Texts]] BY DEF TypeOK
      <3> QED BY ONLY <1>1, <3>1, <3>2
    <2> QED BY <1>9, <2>2, <2>3, <2>4, <2>5, <2>6 DEF StageCommit, TypeOK
  <1>10. CASE Activate(r, l) \/ ActivateUnacknowledged(r, l)
    <2>1. work' \in [Runs -> [Laws -> Work]]
      BY <1>10, <1>3, FinishType DEF Activate, ActivateUnacknowledged
    <2>2. result' \in [Runs -> [Laws -> ResultStatus]]
      <3>1. result' = [result EXCEPT ![r][l] = "updated"]
        BY <1>10 DEF Activate, ActivateUnacknowledged
      <3>2. result \in [Runs -> [Laws -> ResultStatus]] BY DEF TypeOK
      <3> QED BY ONLY <1>3, <3>1, <3>2
    <2>3. status' \in [Laws -> [Versions -> RevisionStatus]]
      <3>1. status' = [status EXCEPT ![l][k] = "active", ![l][p] = "superseded"]
        BY <1>10 DEF Activate, ActivateUnacknowledged
      <3>2. status \in [Laws -> [Versions -> RevisionStatus]] BY DEF TypeOK
      <3> HIDE DEF k, p
      <3> QED BY ONLY <3>1, <3>2 DEF RevisionStatus
    <2>4. /\ current' \in [Laws -> 0..MaxVersion]
          /\ observed' \in [Laws -> 0..MaxVersion]
      <3>1. /\ current' = [current EXCEPT ![l] = k]
            /\ observed' = [observed EXCEPT ![l] = k]
            /\ k \in 0..MaxVersion
        BY <1>1, <1>10 DEF Activate, ActivateUnacknowledged
      <3>2. /\ current \in [Laws -> 0..MaxVersion]
            /\ observed \in [Laws -> 0..MaxVersion]
        BY DEF TypeOK
      <3> QED BY ONLY <3>1, <3>2
    <2>5. syncError' \in [Laws -> BOOLEAN]
      <3>1. \E e \in BOOLEAN : syncError' = [syncError EXCEPT ![l] = e]
        BY <1>10 DEF Activate, ActivateUnacknowledged
      <3>2. syncError \in [Laws -> BOOLEAN] BY DEF TypeOK
      <3> QED BY ONLY <3>1, <3>2
    <2> QED BY <1>10, <2>1, <2>2, <2>3, <2>4, <2>5
            DEF Activate, ActivateUnacknowledged, TypeOK
  <1> QED BY <1>5, <1>6, <1>7, <1>8, <1>9, <1>10

\* The steps of a run as a whole, of its session and of e-Gov.
LEMMA RunStepType ==
    ASSUME TypeOK, NEW r \in Runs,
           \/ Start(r) \/ Refuse(r) \/ RunStep(r) \/ Crash(r) \/ LoseLock(r)
    PROVE  TypeOK'
  <1>1. CASE Start(r)
    <2>1. PICK m \in Modes, d \in AsOfs :
            mode' = [mode EXCEPT ![r] = m] /\ asOf' = [asOf EXCEPT ![r] = d]
      BY <1>1 DEF Start
    <2>2. /\ mode' \in [Runs -> {"check", "dry-run", "refresh"}]
          /\ asOf' \in [Runs -> Versions]
      BY <2>1, Constants DEF TypeOK
    <2>3. /\ runRow' \in [Runs -> {"none", "running", "succeeded", "partial", "failed"}]
          /\ phase' \in [Runs -> {"idle", "refused", "working", "unlocking",
                                  "done", "crashed"}]
          /\ lock' \in Runs \cup {NoRun}
      BY <1>1 DEF Start, TypeOK
    <2> QED BY <1>1, <2>2, <2>3 DEF Start, TypeOK
  <1>2. CASE Refuse(r) \/ AbortRun(r) \/ Unlock(r) \/ LoseLock(r)
    BY <1>2 DEF Refuse, AbortRun, Unlock, LoseLock, TypeOK
  <1>3. CASE CompleteRun(r)
    <2>1. /\ RunStatus(r) \in {"succeeded", "partial", "failed"}
          /\ PackageStatus(r) \in {"none", "verified", "published", "rejected"}
      BY DEF RunStatus, PackageStatus, TypeOK
    <2> QED BY <1>3, <2>1 DEF CompleteRun, TypeOK
  <1>4. CASE Crash(r)
    <2>1. Fresh \in Work
      BY Constants DEF Fresh, Work, Steps, ResultStatus, NoText, Texts
    <2>2. work' \in [Runs -> [Laws -> Work]] BY <1>4, <2>1 DEF Crash, TypeOK
    <2> QED BY <1>4, <2>2 DEF Crash, TypeOK
  <1> QED BY <1>1, <1>2, <1>3, <1>4 DEF RunStep

LEMMA EGovStepType ==
    ASSUME TypeOK, NEW l \in Laws, Amend(l) \/ Correct(l)
    PROVE  TypeOK'
  <1>1. CASE Amend(l)
    <2>1. inForce' \in [Laws -> Versions]
      BY <1>1, Constants DEF Amend, TypeOK, Versions
    <2> QED BY <1>1, <2>1 DEF Amend, TypeOK
  <1>2. CASE Correct(l)
    <2>1. edition' \in [Laws -> [Versions -> 0..MaxEdition]]
      <3>1. edition[l][inForce[l]] + 1 \in 0..MaxEdition
        BY <1>2, Constants DEF Correct, TypeOK
      <3> QED BY <1>2, <3>1 DEF Correct, TypeOK
    <2> QED BY <1>2, <2>1 DEF Correct, TypeOK
  <1> QED BY <1>1, <1>2

\* Every step of the machine with dying connections keeps the types.
LEMMA NextType == TypeOK /\ [OverlapNext]_vars => TypeOK'
  <1> SUFFICES ASSUME TypeOK, [OverlapNext]_vars PROVE TypeOK' OBVIOUS
  <1>1. CASE UNCHANGED vars BY <1>1 DEF TypeOK
  <1>2. ASSUME NEW l \in Laws, Amend(l) \/ Correct(l) PROVE TypeOK'
    BY <1>2, EGovStepType
  <1>3. ASSUME NEW r \in Runs,
               Start(r) \/ Refuse(r) \/ RunStep(r) \/ Crash(r) \/ LoseLock(r)
        PROVE  TypeOK'
    BY <1>3, RunStepType
  <1>4. ASSUME NEW r \in Runs, NEW l \in Laws,
               \/ LawStep(r, l) \/ Fault(r, l) \/ RecordUnchangedTorn(r, l)
               \/ ActivateUnacknowledged(r, l)
        PROVE  TypeOK'
    BY <1>4, LocalStepType, WriteStepType, LawFailsType
       DEF LawStep, Fault, StoreConflict, StageRejected, ActivateRefused
  <1> QED BY <1>1, <1>2, <1>3, <1>4 DEF OverlapNext, Next

(***************************************************************************)
(* The machine whose connections die has every behaviour of the other one. *)
(***************************************************************************)
THEOREM SpecIsOverlapSpec == Spec => OverlapSpec
  <1>1. [Next]_vars => [OverlapNext]_vars BY DEF OverlapNext
  <1> QED BY <1>1, PTL DEF Spec, OverlapSpec

(***************************************************************************)
(* Type correctness: no step of the refresh, whatever fails and however    *)
(* runs overlap, leaves a row or a local variable outside its range.       *)
(***************************************************************************)
THEOREM OverlapTypeCorrect == OverlapSpec => []TypeOK
  <1> QED BY InitType, NextType, PTL DEF OverlapSpec

\* Type correctness of the refresh itself (TypeOK in RefreshAnyStart).
THEOREM TypeCorrect == Spec => []TypeOK
  <1> QED BY SpecIsOverlapSpec, OverlapTypeCorrect, PTL


-----------------------------------------------------------------------------
(***************************************************************************)
(* The rows a reader depends on: the pointer, the revisions and their text.*)
(***************************************************************************)

\* Only a commit of the two transactions of refresh-repository.ts writes them.
LEMMA RevisionSteps ==
    ASSUME [OverlapNext]_vars
    PROVE  \/ UNCHANGED <<current, status, text>>
           \/ \E r \in Runs, l \in Laws :
                 \/ StageCommit(r, l)
                 \/ Activate(r, l) \/ ActivateUnacknowledged(r, l)
  <1>1. CASE UNCHANGED vars BY <1>1
  <1>2. ASSUME NEW l \in Laws, Amend(l) \/ Correct(l)
        PROVE  UNCHANGED <<current, status, text>>
    BY <1>2 DEF Amend, Correct
  <1>3. ASSUME NEW r \in Runs,
               Start(r) \/ Refuse(r) \/ RunStep(r) \/ Crash(r) \/ LoseLock(r)
        PROVE  UNCHANGED <<current, status, text>>
    BY <1>3 DEF Start, Refuse, RunStep, CompleteRun, AbortRun, Unlock, Crash, LoseLock
  <1>4. ASSUME NEW r \in Runs, NEW l \in Laws,
               \/ BeginLaw(r, l) \/ ReadSync(r, l) \/ QueryUnchanged(r, l)
               \/ QueryChanged(r, l) \/ RecordUnchanged(r, l)
               \/ FetchXml(r, l) \/ StoreXml(r, l) \/ VerifyPublishable(r, l)
               \/ VerifyHeld(r, l) \/ StageBegin(r, l) \/ RecordUnchangedTorn(r, l)
        PROVE  UNCHANGED <<current, status, text>>
    BY <1>4 DEF BeginLaw, ReadSync, QueryUnchanged, QueryChanged, RecordUnchanged,
                FetchXml, StoreXml, VerifyPublishable, VerifyHeld, StageBegin,
                RecordUnchangedTorn
  <1>5. ASSUME NEW r \in Runs, NEW l \in Laws,
               \/ StoreConflict(r, l) \/ StageRejected(r, l)
               \/ ActivateRefused(r, l) \/ Fault(r, l)
        PROVE  UNCHANGED <<current, status, text>>
    BY <1>5 DEF StoreConflict, StageRejected, ActivateRefused, Fault, LawFails
  <1> QED BY <1>1, <1>2, <1>3, <1>4, <1>5 DEF OverlapNext, Next, LawStep

\* What a switch does, written with the values the worker holds.
LEMMA SwitchEffect ==
    ASSUME TypeOK, NEW r \in Runs, NEW l \in Laws,
           Activate(r, l) \/ ActivateUnacknowledged(r, l)
    PROVE  \E k \in 0..MaxVersion, p \in Versions :
              /\ k = work[r][l].key /\ p = work[r][l].prev
              /\ current[l] = p
              /\ current' = [current EXCEPT ![l] = k]
              /\ observed' = [observed EXCEPT ![l] = k]
              /\ status' = [status EXCEPT ![l][k] = "active", ![l][p] = "superseded"]
              /\ text' = text
  <1>1. work[r][l].key \in 0..MaxVersion /\ work[r][l].prev \in 0..MaxVersion
    BY WorkFields DEF TypeOK
  <1>2. work[r][l].prev # 0 /\ current[l] = work[r][l].prev
    BY DEF Activate, ActivateUnacknowledged, SwapMatches
  <1>3. work[r][l].prev \in Versions BY <1>1, <1>2, Constants DEF Versions
  <1>4. /\ current' = [current EXCEPT ![l] = work[r][l].key]
        /\ observed' = [observed EXCEPT ![l] = work[r][l].key]
        /\ status' = [status EXCEPT ![l][work[r][l].key] = "active",
                                    ![l][work[r][l].prev] = "superseded"]
        /\ text' = text
    BY DEF Activate, ActivateUnacknowledged
  <1> QED BY <1>1, <1>2, <1>3, <1>4

\* A version that is or was on show, or no version.
Shown(l, v) == v = 0 \/ (v \in Versions /\ status[l][v] \in {"active", "superseded"})

\* The pointer names a revision that has been activated, and no other revision
\* of the law is active.
RevisionInv ==
    /\ TypeOK
    /\ ActiveIsCurrent
    /\ \A l \in Laws : Shown(l, current[l])

LEMMA RevisionInit == Init => RevisionInv
  <1> SUFFICES ASSUME Init PROVE RevisionInv OBVIOUS
  <1>1. TypeOK BY InitType
  <1>2. PICK kind \in [Laws -> InitKinds] :
          /\ current = [l \in Laws |-> IF kind[l] = "empty" THEN 0 ELSE 1]
          /\ status = [l \in Laws |-> [v \in Versions |->
                IF v = 1 /\ kind[l] # "empty" THEN "active" ELSE "absent"]]
    BY DEF Init
  <1>3. 1 \in Versions BY Constants DEF Versions
  <1>4. ActiveIsCurrent BY <1>2 DEF ActiveIsCurrent
  <1>5. \A l \in Laws : Shown(l, current[l]) BY <1>2, <1>3 DEF Shown
  <1> QED BY <1>1, <1>4, <1>5 DEF RevisionInv

\* What has been shown stays shown.
LEMMA ShownStable ==
    ASSUME TypeOK, [OverlapNext]_vars, NEW l \in Laws, NEW v, Shown(l, v)
    PROVE  Shown(l, v)'
  <1>1. status \in [Laws -> [Versions -> RevisionStatus]] BY DEF TypeOK
  <1>2. CASE UNCHANGED <<current, status, text>> BY <1>2 DEF Shown, Versions
  <1>3. ASSUME NEW r \in Runs, NEW m \in Laws, StageCommit(r, m)
        PROVE  Shown(l, v)'
    <2> DEFINE k == work[r][m].key
    <2>1. \/ status' = status
          \/ status[m][k] = "absent" /\ status' = [status EXCEPT ![m][k] = "staged"]
      BY <1>3 DEF StageCommit
    <2> HIDE DEF k
    <2> QED BY <1>1, <2>1 DEF Shown, Versions
  <1>4. ASSUME NEW r \in Runs, NEW m \in Laws,
               Activate(r, m) \/ ActivateUnacknowledged(r, m)
        PROVE  Shown(l, v)'
    <2>1. PICK k \in 0..MaxVersion, p \in Versions :
            /\ k = work[r][m].key /\ p = work[r][m].prev
            /\ current[m] = p
            /\ current' = [current EXCEPT ![m] = k]
            /\ observed' = [observed EXCEPT ![m] = k]
            /\ status' = [status EXCEPT ![m][k] = "active", ![m][p] = "superseded"]
            /\ text' = text
      BY <1>4, SwitchEffect
    <2> QED BY ONLY <1>1, <2>1, Shown(l, v), l \in Laws DEF Shown, Versions
  <1> QED BY <1>2, <1>3, <1>4, RevisionSteps

LEMMA RevisionNext == RevisionInv /\ [OverlapNext]_vars => RevisionInv'
  <1> SUFFICES ASSUME RevisionInv, [OverlapNext]_vars PROVE RevisionInv' OBVIOUS
  <1> USE DEF RevisionInv
  <1>1. TypeOK' BY NextType
  <1>2. /\ status \in [Laws -> [Versions -> RevisionStatus]]
        /\ current \in [Laws -> 0..MaxVersion]
    BY DEF TypeOK
  <1>3. CASE UNCHANGED <<current, status, text>>
    BY <1>1, <1>3 DEF ActiveIsCurrent, Shown, Versions
  <1>4. ASSUME NEW r \in Runs, NEW l \in Laws, StageCommit(r, l)
        PROVE  RevisionInv'
    <2> DEFINE k == work[r][l].key
    <2>1. /\ current' = current
          /\ status' = status \/ status' = [status EXCEPT ![l][k] = "staged"]
      BY <1>4 DEF StageCommit
    <2>2. ActiveIsCurrent'
      <3> SUFFICES ASSUME NEW m \in Laws, NEW v \in Versions, status'[m][v] = "active"
                   PROVE  current'[m] = v
        BY DEF ActiveIsCurrent
      <3> HIDE DEF k
      <3>1. status[m][v] = "active" BY <1>2, <2>1
      <3> QED BY <2>1, <3>1 DEF ActiveIsCurrent
    <2>3. ASSUME NEW m \in Laws PROVE Shown(m, current[m])'
      <3>1. PICK v \in 0..MaxVersion : v = current[m] BY <1>2
      <3>2. Shown(m, v)' BY <3>1, ShownStable
      <3>3. current'[m] = v BY <2>1, <3>1
      <3> QED BY <3>2, <3>3 DEF Shown
    <2> QED BY <1>1, <2>2, <2>3
  <1>5. ASSUME NEW r \in Runs, NEW l \in Laws,
               Activate(r, l) \/ ActivateUnacknowledged(r, l)
        PROVE  RevisionInv'
    <2>1. PICK k \in 0..MaxVersion, p \in Versions :
            /\ current[l] = p
            /\ current' = [current EXCEPT ![l] = k]
            /\ status' = [status EXCEPT ![l][k] = "active", ![l][p] = "superseded"]
      BY <1>5, SwitchEffect
    <2>2. ActiveIsCurrent' BY <1>2, <2>1 DEF ActiveIsCurrent, Versions
    <2>3. k = 0 \/ k \in Versions BY Constants DEF Versions
    <2>4. ASSUME NEW m \in Laws PROVE Shown(m, current[m])'
      <3>1. CASE m = l BY <1>2, <2>1, <2>3, <3>1 DEF Shown, Versions
      <3>2. CASE m # l BY <1>2, <2>1, <3>2 DEF Shown, Versions
      <3> QED BY <3>1, <3>2
    <2> QED BY <1>1, <2>2, <2>4
  <1> QED BY <1>3, <1>4, <1>5, RevisionSteps

THEOREM RevisionInvariant == OverlapSpec => []RevisionInv
BY RevisionInit, RevisionNext, PTL DEF OverlapSpec

(***************************************************************************)
(* However many runs overlap and wherever connections die, a law never has *)
(* a second active revision beside the one on show (ActiveIsCurrent in     *)
(* RefreshOverlap): the compare-and-swap of activateCandidateRevision is   *)
(* enough without the lock.                                                *)
(***************************************************************************)
THEOREM ActiveRevisionIsCurrent == OverlapSpec => []ActiveIsCurrent
  <1>1. RevisionInv => ActiveIsCurrent BY DEF RevisionInv
  <1> QED BY <1>1, RevisionInvariant, PTL

(***************************************************************************)
(* A revision that is only staged is never the one on show                 *)
(* (StagedNeverPublic in RefreshAnyStart).                                 *)
(***************************************************************************)
THEOREM StagedIsNeverPublic == Spec => []StagedNeverPublic
  <1>1. RevisionInv => StagedNeverPublic
    BY DEF RevisionInv, Shown, StagedNeverPublic
  <1> QED BY <1>1, RevisionInvariant, SpecIsOverlapSpec, PTL

-----------------------------------------------------------------------------
(***************************************************************************)
(* The version recorded as observed.                                       *)
(***************************************************************************)

\* A record that a step of its own worker writes.
LEMMA OwnRecord ==
    ASSUME TypeOK, NEW r \in Runs, NEW l \in Laws, NEW n, work' = [work EXCEPT ![r][l] = n]
    PROVE  work'[r][l] = n
  <1>1. work \in [Runs -> [Laws -> Work]] BY DEF TypeOK
  <1> QED BY <1>1

LEMMA FinishedRecord ==
    ASSUME TypeOK, NEW r \in Runs, NEW l \in Laws, NEW o, Finish(r, l, o)
    PROVE  work'[r][l].pc = "done"
  <1> DEFINE w == work[r][l]
             n == [w EXCEPT !.pc = "done", !.outcome = o, !.obs = 0,
                            !.xml = NoText, !.sawPackage = FALSE]
  <1>1. w \in Work BY DEF TypeOK
  <1>2. work' = [work EXCEPT ![r][l] = n] BY DEF Finish
  <1>3. n.pc = "done" BY <1>1, WorkEffect
  <1> HIDE DEF n
  <1> QED BY <1>2, <1>3, OwnRecord

LEMMA MovedRecord ==
    ASSUME TypeOK, NEW r \in Runs, NEW l \in Laws, NEW p, Goto(r, l, p)
    PROVE  work'[r][l].pc = p
  <1> DEFINE w == work[r][l]
             n == [w EXCEPT !.pc = p]
  <1>1. w \in Work BY DEF TypeOK
  <1>2. work' = [work EXCEPT ![r][l] = n] BY DEF Goto
  <1>3. n.pc = p BY <1>1, WorkEffect
  <1> HIDE DEF n
  <1> QED BY <1>2, <1>3, OwnRecord

\* What one worker's step leaves in its record.
LEMMA RecordSteps ==
    ASSUME TypeOK, NEW r \in Runs, NEW l \in Laws,
           \/ LawStep(r, l) \/ Fault(r, l) \/ RecordUnchangedTorn(r, l)
           \/ ActivateUnacknowledged(r, l)
    PROVE  \/ work'[r][l].pc \notin {"ready", "unchanged"}
           \/ ReadSync(r, l) /\ work'[r][l].pc = "ready" /\ work'[r][l].obs = observed[l]
           \/ /\ work[r][l].pc = "ready"
              /\ work'[r][l].pc # "ready" /\ work'[r][l].key = work[r][l].obs
  <1> DEFINE w == work[r][l]
  <1>1. w \in Work BY DEF TypeOK
  <1>2. CASE BeginLaw(r, l)
    <2> DEFINE n == [w EXCEPT !.pc = "prevRead", !.prev = current[l]]
    <2>1. work' = [work EXCEPT ![r][l] = n] BY <1>2 DEF BeginLaw
    <2>2. n.pc = "prevRead" BY <1>1, WorkEffect
    <2> HIDE DEF n
    <2> QED BY <2>1, <2>2, OwnRecord
  <1>3. CASE ReadSync(r, l)
    <2> DEFINE n == [w EXCEPT !.pc = "ready", !.obs = observed[l]]
    <2>1. work' = [work EXCEPT ![r][l] = n] BY <1>3 DEF ReadSync
    <2>2. n.pc = "ready" /\ n.obs = observed[l] BY <1>1, WorkEffect
    <2> HIDE DEF n
    <2> QED BY <1>3, <2>1, <2>2, OwnRecord
  <1>4. CASE QueryUnchanged(r, l)
    <2> DEFINE n(p, o) == [w EXCEPT !.key = AnswerFor(r, l), !.obs = 0, !.pc = p, !.outcome = o]
    <2>1. /\ w.pc = "ready" /\ AnswerFor(r, l) = w.obs
          /\ \/ work' = [work EXCEPT ![r][l] = n("done", "unchanged")]
             \/ work' = [work EXCEPT ![r][l] = n("unchanged", "none")]
      BY <1>4 DEF QueryUnchanged, At
    <2>2. \A p, o : n(p, o).pc = p /\ n(p, o).key = AnswerFor(r, l) BY <1>1, WorkEffect
    <2> HIDE DEF n
    <2>3. \/ work'[r][l] = n("done", "unchanged")
          \/ work'[r][l] = n("unchanged", "none")
      BY <2>1, OwnRecord
    <2> QED BY <2>1, <2>2, <2>3
  <1>5. CASE QueryChanged(r, l)
    <2> DEFINE n(p, o) == [w EXCEPT !.key = AnswerFor(r, l), !.obs = 0, !.pc = p, !.outcome = o]
    <2>1. \/ work' = [work EXCEPT ![r][l] = n("done", "updated")]
          \/ work' = [work EXCEPT ![r][l] = n("fetch", "none")]
      BY <1>5 DEF QueryChanged
    <2>2. \A p, o : n(p, o).pc = p BY <1>1, WorkEffect
    <2> HIDE DEF n
    <2>3. work'[r][l] = n("done", "updated") \/ work'[r][l] = n("fetch", "none")
      BY <2>1, OwnRecord
    <2> QED BY <2>2, <2>3
  <1>6. CASE FetchXml(r, l)
    <2> DEFINE n == [w EXCEPT !.pc = "fetched", !.xml = DocumentFor(r, l)]
    <2>1. work' = [work EXCEPT ![r][l] = n] BY <1>6 DEF FetchXml
    <2>2. n.pc = "fetched" BY <1>1, WorkEffect
    <2> HIDE DEF n
    <2> QED BY <2>1, <2>2, OwnRecord
  <1>7. CASE StageBegin(r, l)
    <2> DEFINE n == [w EXCEPT !.pc = "staging", !.sawPackage = pkgStatus[r] # "none"]
    <2>1. work' = [work EXCEPT ![r][l] = n] BY <1>7 DEF StageBegin
    <2>2. n.pc = "staging" BY <1>1, WorkEffect
    <2> HIDE DEF n
    <2> QED BY <2>1, <2>2, OwnRecord
  <1>8. CASE StoreXml(r, l) \/ StageCommit(r, l) \/ VerifyPublishable(r, l)
    <2>1. \/ Finish(r, l, "updated")
          \/ \E p \in {"stored", "stage", "staged"} : Goto(r, l, p)
      BY <1>8 DEF StoreXml, StageCommit, VerifyPublishable
    <2> QED BY <2>1, FinishedRecord, MovedRecord
  <1>9. CASE \/ RecordUnchanged(r, l) \/ RecordUnchangedTorn(r, l) \/ VerifyHeld(r, l)
             \/ Activate(r, l) \/ ActivateUnacknowledged(r, l)
             \/ StoreConflict(r, l) \/ StageRejected(r, l)
             \/ ActivateRefused(r, l) \/ Fault(r, l)
    <2>1. \E o : Finish(r, l, o)
      BY <1>9 DEF RecordUnchanged, RecordUnchangedTorn, VerifyHeld, Activate,
         ActivateUnacknowledged, StoreConflict, StageRejected, ActivateRefused, Fault, LawFails
    <2> QED BY <2>1, FinishedRecord
  <1> QED BY <1>2, <1>3, <1>4, <1>5, <1>6, <1>7, <1>8, <1>9 DEF LawStep

\* Only three transactions write the observed version.
LEMMA ObservedSteps ==
    ASSUME [OverlapNext]_vars
    PROVE  \/ UNCHANGED observed
           \/ \E r \in Runs, l \in Laws :
                 \/ RecordUnchanged(r, l) \/ RecordUnchangedTorn(r, l)
                 \/ Activate(r, l) \/ ActivateUnacknowledged(r, l)
  <1>1. CASE UNCHANGED vars BY <1>1
  <1>2. ASSUME NEW l \in Laws, Amend(l) \/ Correct(l) PROVE UNCHANGED observed
    BY <1>2 DEF Amend, Correct
  <1>3. ASSUME NEW r \in Runs,
               Start(r) \/ Refuse(r) \/ RunStep(r) \/ Crash(r) \/ LoseLock(r)
        PROVE  UNCHANGED observed
    BY <1>3 DEF Start, Refuse, RunStep, CompleteRun, AbortRun, Unlock, Crash, LoseLock
  <1>4. ASSUME NEW r \in Runs, NEW l \in Laws,
               \/ BeginLaw(r, l) \/ ReadSync(r, l) \/ QueryUnchanged(r, l)
               \/ QueryChanged(r, l) \/ FetchXml(r, l) \/ StoreXml(r, l)
               \/ VerifyPublishable(r, l) \/ VerifyHeld(r, l) \/ StageBegin(r, l)
               \/ StageCommit(r, l) \/ StoreConflict(r, l) \/ StageRejected(r, l)
               \/ ActivateRefused(r, l) \/ Fault(r, l)
        PROVE  UNCHANGED observed
    BY <1>4 DEF BeginLaw, ReadSync, QueryUnchanged, QueryChanged, FetchXml, StoreXml,
                VerifyPublishable, VerifyHeld, StageBegin, StageCommit, StoreConflict,
                StageRejected, ActivateRefused, Fault, LawFails
  <1> QED BY <1>1, <1>2, <1>3, <1>4 DEF OverlapNext, Next, LawStep

\* What a worker holds of the version observed has been on show.
Seen(r, l) ==
    /\ work[r][l].pc = "ready" => Shown(l, work[r][l].obs)
    /\ work[r][l].pc = "unchanged" => Shown(l, work[r][l].key)

(***************************************************************************)
(* The inductive invariant: the version observed has been on show, and so  *)
(* has every copy of it that a worker will write back.                     *)
(***************************************************************************)
ObservedInv ==
    /\ TypeOK
    /\ \A l \in Laws : Shown(l, observed[l])
    /\ \A r \in Runs, l \in Laws : Seen(r, l)

LEMMA ObservedInit == Init => ObservedInv
  <1> SUFFICES ASSUME Init PROVE ObservedInv OBVIOUS
  <1>1. TypeOK BY InitType
  <1>2. PICK kind \in [Laws -> InitKinds] :
          /\ status = [l \in Laws |-> [v \in Versions |->
                IF v = 1 /\ kind[l] # "empty" THEN "active" ELSE "absent"]]
          /\ observed = [l \in Laws |-> IF kind[l] = "synced" THEN 1 ELSE 0]
    BY DEF Init
  <1>3. 1 \in Versions BY Constants DEF Versions
  <1>4. \A l \in Laws : Shown(l, observed[l]) BY <1>2, <1>3 DEF Shown
  <1>5. \A r \in Runs, l \in Laws : work[r][l].pc = "todo" BY DEF Init, Fresh
  <1> QED BY <1>1, <1>4, <1>5 DEF ObservedInv, Seen

LEMMA SeenStable ==
    ASSUME TypeOK, [OverlapNext]_vars, NEW r \in Runs, NEW l \in Laws, Seen(r, l),
           Shown(l, observed[l])
    PROVE  Seen(r, l)'
  <1> USE DEF Seen
  <1>1. CASE work'[r][l] = work[r][l] BY <1>1, ShownStable
  <1>2. CASE \/ LawStep(r, l) \/ Fault(r, l) \/ RecordUnchangedTorn(r, l)
             \/ ActivateUnacknowledged(r, l)
    <2>1. CASE work'[r][l].pc \notin {"ready", "unchanged"} BY <2>1
    <2>2. CASE work'[r][l].pc = "ready" /\ work'[r][l].obs = observed[l]
      BY <2>2, ShownStable
    <2>3. CASE /\ work[r][l].pc = "ready"
               /\ work'[r][l].pc # "ready" /\ work'[r][l].key = work[r][l].obs
      BY <2>3, ShownStable
    <2> QED BY <1>2, <2>1, <2>2, <2>3, RecordSteps
  <1>3. ASSUME NEW q \in Runs, Crash(q) PROVE Seen(r, l)'
    <2>1. work' = [work EXCEPT ![q] = [m \in Laws |-> Fresh]] BY <1>3 DEF Crash
    <2>2. work \in [Runs -> [Laws -> Work]] BY DEF TypeOK
    <2>3. work'[r][l] = work[r][l] \/ work'[r][l] = Fresh BY <2>1, <2>2
    <2>4. Fresh.pc = "todo" BY DEF Fresh
    <2> QED BY <1>1, <2>3, <2>4
  <1>4. ASSUME NEW q \in Runs, NEW m \in Laws, q # r \/ m # l,
               \/ LawStep(q, m) \/ Fault(q, m) \/ RecordUnchangedTorn(q, m)
               \/ ActivateUnacknowledged(q, m)
        PROVE  work'[r][l] = work[r][l]
    <2>1. PICK n : work' = [work EXCEPT ![q][m] = n]
      BY <1>4 DEF LawStep, BeginLaw, ReadSync, QueryUnchanged, QueryChanged, FetchXml,
         StoreXml, VerifyPublishable, VerifyHeld, StageBegin, StageCommit, StoreConflict,
         StageRejected, ActivateRefused, Fault, LawFails, RecordUnchanged,
         RecordUnchangedTorn, Activate, ActivateUnacknowledged, Finish, Goto
    <2> QED BY SMTT(40), <1>4, <2>1, OtherWorkers
  <1>5. CASE UNCHANGED work BY <1>1, <1>5
  <1>6. ASSUME NEW m \in Laws, Amend(m) \/ Correct(m) PROVE UNCHANGED work
    BY <1>6 DEF Amend, Correct
  <1>7. ASSUME NEW q \in Runs, Start(q) \/ Refuse(q) \/ RunStep(q) \/ LoseLock(q)
        PROVE  UNCHANGED work
    BY <1>7 DEF Start, Refuse, RunStep, CompleteRun, AbortRun, Unlock, LoseLock
  <1>8. CASE UNCHANGED vars BY <1>5, <1>8
  <1> QED BY <1>1, <1>2, <1>3, <1>4, <1>5, <1>6, <1>7, <1>8 DEF OverlapNext, Next

LEMMA ObservedNext == ObservedInv /\ [OverlapNext]_vars => ObservedInv'
  <1> SUFFICES ASSUME ObservedInv, [OverlapNext]_vars PROVE ObservedInv' OBVIOUS
  <1>1. TypeOK /\ TypeOK' BY NextType DEF ObservedInv
  <1>2. \A r \in Runs, l \in Laws : Seen(r, l)' BY <1>1, SeenStable DEF ObservedInv
  <1>3. observed \in [Laws -> 0..MaxVersion] BY <1>1 DEF TypeOK
  <1>4. \A l \in Laws : Shown(l, observed[l]) BY DEF ObservedInv
  <1>5. ASSUME NEW l \in Laws PROVE Shown(l, observed[l])'
    <2>2. CASE observed'[l] = observed[l]
      <3>1. PICK v : v = observed[l] OBVIOUS
      <3>2. Shown(l, v)' BY <1>1, <1>4, <3>1, ShownStable
      <3> QED BY <2>2, <3>1, <3>2 DEF Shown
    <2>3. ASSUME NEW r \in Runs, NEW m \in Laws,
                 RecordUnchanged(r, m) \/ RecordUnchangedTorn(r, m)
          PROVE  Shown(l, observed[l])'
      <3>1. PICK k : k = work[r][m].key OBVIOUS
      <3>2. work[r][m].pc = "unchanged" /\ observed' = [observed EXCEPT ![m] = k]
        BY <2>3, <3>1 DEF RecordUnchanged, RecordUnchangedTorn, At
      <3>3. Shown(m, k) BY <3>1, <3>2 DEF ObservedInv, Seen
      <3>4. Shown(m, k)' BY <1>1, <3>3, ShownStable
      <3>5. CASE m = l
        <4>1. observed'[l] = k BY <1>3, <3>2, <3>5
        <4> QED BY <3>4, <3>5, <4>1 DEF Shown
      <3>6. CASE m # l
        <4>1. observed'[l] = observed[l] BY <1>3, <3>2, <3>6
        <4> QED BY <2>2, <4>1
      <3> QED BY <3>5, <3>6
    <2>4. ASSUME NEW r \in Runs, NEW m \in Laws,
                 Activate(r, m) \/ ActivateUnacknowledged(r, m)
          PROVE  Shown(l, observed[l])'
      <3>1. PICK k \in 0..MaxVersion, p \in Versions :
              /\ k = work[r][m].key /\ p = work[r][m].prev
              /\ current[m] = p
              /\ current' = [current EXCEPT ![m] = k]
              /\ observed' = [observed EXCEPT ![m] = k]
              /\ status' = [status EXCEPT ![m][k] = "active", ![m][p] = "superseded"]
              /\ text' = text
        BY <1>1, <2>4, SwitchEffect
      <3>2. CASE m = l
        <4>1. observed'[l] = k BY <1>3, <3>1, <3>2
        <4>2. k = 0 \/ k \in Versions BY Constants DEF Versions
        <4>3. status \in [Laws -> [Versions -> RevisionStatus]] BY <1>1 DEF TypeOK
        <4>4. k \in Versions => status'[l][k] \in {"active", "superseded"}
          BY <3>1, <3>2, <4>3
        <4> QED BY <4>1, <4>2, <4>4 DEF Shown, Versions
      <3>3. CASE m # l
        <4>1. observed'[l] = observed[l] BY <1>3, <3>1, <3>3
        <4> QED BY <2>2, <4>1
      <3> QED BY <3>2, <3>3
    <2> QED BY <2>2, <2>3, <2>4, ObservedSteps
  <1> QED BY <1>1, <1>2, <1>5 DEF ObservedInv, Shown

(***************************************************************************)
(* However many runs overlap: a version that is recorded as observed has   *)
(* been on show, so that a candidate that was held or failed is tried      *)
(* again (ObservedWasShown in RefreshOverlap).                             *)
(***************************************************************************)
THEOREM ObservedVersionWasShown == OverlapSpec => []ObservedWasShown
  <1>1. ObservedInv => ObservedWasShown BY DEF ObservedInv, Shown, ObservedWasShown
  <1> QED BY <1>1, ObservedInit, ObservedNext, PTL DEF OverlapSpec

-----------------------------------------------------------------------------
(***************************************************************************)
(* The order of the versions on show.                                      *)
(***************************************************************************)

\* The steps between e-Gov's answer and the switch.
Carrying == {"fetch", "fetched", "stored", "stage", "staging", "staged"}

\* What one worker's step does to the version it started from and the one it brings.
LEMMA VersionSteps ==
    ASSUME TypeOK, NEW r \in Runs, NEW l \in Laws,
           \/ LawStep(r, l) \/ Fault(r, l) \/ RecordUnchangedTorn(r, l)
           \/ ActivateUnacknowledged(r, l)
    PROVE  \/ work'[r][l].pc \notin Carrying \cup {"prevRead", "ready"}
           \/ work'[r][l].pc = "prevRead" /\ work'[r][l].prev = current[l]
           \/ /\ work[r][l].pc = "prevRead" /\ work'[r][l].pc = "ready"
              /\ work'[r][l].prev = work[r][l].prev
           \/ /\ work[r][l].pc = "ready" /\ work'[r][l].pc = "fetch"
              /\ work'[r][l].prev = work[r][l].prev
              /\ work'[r][l].key = AnswerFor(r, l)
           \/ /\ work[r][l].pc \in Carrying /\ work'[r][l].pc \in Carrying
              /\ work'[r][l].prev = work[r][l].prev
              /\ work'[r][l].key = work[r][l].key
  <1> DEFINE w == work[r][l]
  <1>1. w \in Work BY DEF TypeOK
  <1>2. CASE BeginLaw(r, l)
    <2> DEFINE n == [w EXCEPT !.pc = "prevRead", !.prev = current[l]]
    <2>1. work' = [work EXCEPT ![r][l] = n] BY <1>2 DEF BeginLaw
    <2>2. n.pc = "prevRead" /\ n.prev = current[l] BY <1>1, WorkEffect
    <2> HIDE DEF n
    <2> QED BY <2>1, <2>2, OwnRecord
  <1>3. CASE ReadSync(r, l)
    <2> DEFINE n == [w EXCEPT !.pc = "ready", !.obs = observed[l]]
    <2>1. work' = [work EXCEPT ![r][l] = n] /\ w.pc = "prevRead" BY <1>3 DEF ReadSync, At
    <2>2. n.pc = "ready" /\ n.prev = w.prev BY <1>1, WorkEffect
    <2> HIDE DEF n
    <2>3. work'[r][l] = n BY <2>1, OwnRecord
    <2> QED BY <2>1, <2>2, <2>3
  <1>4. CASE QueryUnchanged(r, l)
    <2> DEFINE n(p, o) == [w EXCEPT !.key = AnswerFor(r, l), !.obs = 0, !.pc = p, !.outcome = o]
    <2>1. \/ work' = [work EXCEPT ![r][l] = n("done", "unchanged")]
          \/ work' = [work EXCEPT ![r][l] = n("unchanged", "none")]
      BY <1>4 DEF QueryUnchanged
    <2>2. \A p, o : n(p, o).pc = p BY <1>1, WorkEffect
    <2> HIDE DEF n
    <2>3. work'[r][l] = n("done", "unchanged") \/ work'[r][l] = n("unchanged", "none")
      BY <2>1, OwnRecord
    <2> QED BY <2>2, <2>3 DEF Carrying
  <1>5. CASE QueryChanged(r, l)
    <2> DEFINE n(p, o) == [w EXCEPT !.key = AnswerFor(r, l), !.obs = 0, !.pc = p, !.outcome = o]
    <2>1. /\ w.pc = "ready"
          /\ \/ work' = [work EXCEPT ![r][l] = n("done", "updated")]
             \/ work' = [work EXCEPT ![r][l] = n("fetch", "none")]
      BY <1>5 DEF QueryChanged, At
    <2>2. \A p, o : n(p, o).pc = p /\ n(p, o).prev = w.prev /\ n(p, o).key = AnswerFor(r, l)
      BY <1>1, WorkEffect
    <2> HIDE DEF n
    <2>3. work'[r][l] = n("done", "updated") \/ work'[r][l] = n("fetch", "none")
      BY <2>1, OwnRecord
    <2> QED BY <2>1, <2>2, <2>3 DEF Carrying
  <1>6. CASE FetchXml(r, l)
    <2> DEFINE n == [w EXCEPT !.pc = "fetched", !.xml = DocumentFor(r, l)]
    <2>1. work' = [work EXCEPT ![r][l] = n] /\ w.pc = "fetch" BY <1>6 DEF FetchXml, At
    <2>2. n.pc = "fetched" /\ n.prev = w.prev /\ n.key = w.key BY <1>1, WorkEffect
    <2> HIDE DEF n
    <2>3. work'[r][l] = n BY <2>1, OwnRecord
    <2> QED BY <2>1, <2>2, <2>3 DEF Carrying
  <1>7. CASE StageBegin(r, l)
    <2> DEFINE n == [w EXCEPT !.pc = "staging", !.sawPackage = pkgStatus[r] # "none"]
    <2>1. work' = [work EXCEPT ![r][l] = n] /\ w.pc = "stage" BY <1>7 DEF StageBegin, At
    <2>2. n.pc = "staging" /\ n.prev = w.prev /\ n.key = w.key BY <1>1, WorkEffect
    <2> HIDE DEF n
    <2>3. work'[r][l] = n BY <2>1, OwnRecord
    <2> QED BY <2>1, <2>2, <2>3 DEF Carrying
  <1>8. CASE StoreXml(r, l) \/ StageCommit(r, l) \/ VerifyPublishable(r, l)
    <2> DEFINE n(p) == [w EXCEPT !.pc = p]
    <2>1. /\ w.pc \in {"fetched", "staging", "stored"}
          /\ \/ Finish(r, l, "updated")
             \/ \E p \in {"stored", "stage", "staged"} : work' = [work EXCEPT ![r][l] = n(p)]
      BY <1>8 DEF StoreXml, StageCommit, VerifyPublishable, At, Goto
    <2>2. \A p : n(p).pc = p /\ n(p).prev = w.prev /\ n(p).key = w.key BY <1>1, WorkEffect
    <2>3. CASE Finish(r, l, "updated") BY <2>3, FinishedRecord DEF Carrying
    <2> HIDE DEF n
    <2>4. ASSUME NEW p \in {"stored", "stage", "staged"}, work' = [work EXCEPT ![r][l] = n(p)]
          PROVE  work'[r][l] = n(p)
      BY <2>4, OwnRecord
    <2> QED BY <2>1, <2>2, <2>3, <2>4 DEF Carrying
  <1>9. CASE \/ RecordUnchanged(r, l) \/ RecordUnchangedTorn(r, l) \/ VerifyHeld(r, l)
             \/ Activate(r, l) \/ ActivateUnacknowledged(r, l)
             \/ StoreConflict(r, l) \/ StageRejected(r, l)
             \/ ActivateRefused(r, l) \/ Fault(r, l)
    <2>1. \E o : Finish(r, l, o)
      BY <1>9 DEF RecordUnchanged, RecordUnchangedTorn, VerifyHeld, Activate,
         ActivateUnacknowledged, StoreConflict, StageRejected, ActivateRefused, Fault, LawFails
    <2> QED BY <2>1, FinishedRecord DEF Carrying
  <1> QED BY <1>2, <1>3, <1>4, <1>5, <1>6, <1>7, <1>8, <1>9 DEF LawStep

\* What a step of the whole does to the record of one worker.
LEMMA RecordChanges ==
    ASSUME TypeOK, [OverlapNext]_vars, NEW r \in Runs, NEW l \in Laws
    PROVE  \/ work'[r][l] = work[r][l]
           \/ work'[r][l] = Fresh
           \/ LawStep(r, l) \/ Fault(r, l) \/ RecordUnchangedTorn(r, l)
           \/ ActivateUnacknowledged(r, l)
  <1>3. ASSUME NEW q \in Runs, Crash(q)
        PROVE  work'[r][l] = work[r][l] \/ work'[r][l] = Fresh
    <2>1. work' = [work EXCEPT ![q] = [m \in Laws |-> Fresh]] BY <1>3 DEF Crash
    <2>2. work \in [Runs -> [Laws -> Work]] BY DEF TypeOK
    <2> QED BY <2>1, <2>2
  <1>4. ASSUME NEW q \in Runs, NEW m \in Laws, q # r \/ m # l,
               \/ LawStep(q, m) \/ Fault(q, m) \/ RecordUnchangedTorn(q, m)
               \/ ActivateUnacknowledged(q, m)
        PROVE  work'[r][l] = work[r][l]
    <2>1. PICK n : work' = [work EXCEPT ![q][m] = n]
      BY <1>4 DEF LawStep, BeginLaw, ReadSync, QueryUnchanged, QueryChanged, FetchXml,
         StoreXml, VerifyPublishable, VerifyHeld, StageBegin, StageCommit, StoreConflict,
         StageRejected, ActivateRefused, Fault, LawFails, RecordUnchanged,
         RecordUnchangedTorn, Activate, ActivateUnacknowledged, Finish, Goto
    <2> QED BY SMTT(40), <1>4, <2>1, OtherWorkers
  <1>6. ASSUME NEW m \in Laws, Amend(m) \/ Correct(m) PROVE UNCHANGED work
    BY <1>6 DEF Amend, Correct
  <1>7. ASSUME NEW q \in Runs, Start(q) \/ Refuse(q) \/ RunStep(q) \/ LoseLock(q)
        PROVE  UNCHANGED work
    BY <1>7 DEF Start, Refuse, RunStep, CompleteRun, AbortRun, Unlock, LoseLock
  <1>8. CASE UNCHANGED vars BY <1>8
  <1> QED BY <1>3, <1>4, <1>6, <1>7, <1>8 DEF OverlapNext, Next

\* A worker starts from a version that was in force, and brings none before it.
Forward(r, l) ==
    /\ work[r][l].pc \in {"prevRead", "ready"} => work[r][l].prev <= inForce[l]
    /\ work[r][l].pc \in Carrying =>
          work[r][l].prev <= work[r][l].key /\ work[r][l].key <= inForce[l]

(***************************************************************************)
(* The inductive invariant, where every run asks for today: nothing is on  *)
(* show before it is in force, and no worker brings a version older than   *)
(* the one it is going to replace.                                         *)
(***************************************************************************)
ForwardInv ==
    /\ TypeOK
    /\ AsOfs = {MaxVersion}
    /\ \A r \in Runs : asOf[r] = MaxVersion
    /\ \A l \in Laws : current[l] <= inForce[l]
    /\ \A r \in Runs, l \in Laws : Forward(r, l)

LEMMA ForwardInit == AsOfs = {MaxVersion} /\ Init => ForwardInv
  <1> SUFFICES ASSUME AsOfs = {MaxVersion}, Init PROVE ForwardInv OBVIOUS
  <1>1. TypeOK BY InitType
  <1>2. PICK kind \in [Laws -> InitKinds] :
          current = [l \in Laws |-> IF kind[l] = "empty" THEN 0 ELSE 1]
    BY DEF Init
  <1>3. \A l \in Laws : current[l] <= inForce[l] BY <1>2 DEF Init
  <1>4. \A r \in Runs, l \in Laws : work[r][l].pc = "todo" BY DEF Init, Fresh
  <1>5. \A r \in Runs : asOf[r] = MaxVersion BY DEF Init
  <1> QED BY <1>1, <1>3, <1>4, <1>5 DEF ForwardInv, Forward, Carrying

\* e-Gov's versions only grow.
LEMMA InForceGrows ==
    ASSUME TypeOK, [OverlapNext]_vars, NEW l \in Laws
    PROVE  inForce[l] \in Versions /\ inForce'[l] \in Versions /\ inForce'[l] >= inForce[l]
  <1>1. inForce \in [Laws -> Versions] /\ inForce' \in [Laws -> Versions]
    BY SMTT(40), NextType DEF TypeOK
  <1>2. ASSUME NEW m \in Laws, Amend(m) PROVE inForce'[l] >= inForce[l]
    BY <1>1, <1>2 DEF Amend, Versions
  <1>3. CASE UNCHANGED inForce BY <1>1, <1>3 DEF Versions
  <1>4. UNCHANGED inForce \/ \E m \in Laws : Amend(m)
    <2>1. ASSUME NEW q \in Runs,
                 Start(q) \/ Refuse(q) \/ RunStep(q) \/ Crash(q) \/ LoseLock(q)
          PROVE  UNCHANGED inForce
      BY <2>1 DEF Start, Refuse, RunStep, CompleteRun, AbortRun, Unlock, Crash, LoseLock
    <2>2. ASSUME NEW q \in Runs, NEW m \in Laws,
                 \/ LawStep(q, m) \/ Fault(q, m) \/ RecordUnchangedTorn(q, m)
                 \/ ActivateUnacknowledged(q, m)
          PROVE  UNCHANGED inForce
      BY <2>2 DEF LawStep, BeginLaw, ReadSync, QueryUnchanged, QueryChanged, FetchXml,
         StoreXml, VerifyPublishable, VerifyHeld, StageBegin, StageCommit, StoreConflict,
         StageRejected, ActivateRefused, Fault, LawFails, RecordUnchanged,
         RecordUnchangedTorn, Activate, ActivateUnacknowledged
    <2>3. ASSUME NEW m \in Laws, Correct(m) PROVE UNCHANGED inForce BY <2>3 DEF Correct
    <2> QED BY <2>1, <2>2, <2>3 DEF OverlapNext, Next
  <1> QED BY <1>1, <1>2, <1>3, <1>4

\* A switch puts the version a worker brings in the place of the one it started from.
LEMMA SwitchGoesForward ==
    ASSUME ForwardInv, NEW l \in Laws, [OverlapNext]_vars
    PROVE  /\ current'[l] >= current[l]
           /\ current'[l] <= inForce[l]
  <1>0. TypeOK BY DEF ForwardInv
  <1>1. current \in [Laws -> 0..MaxVersion] BY <1>0 DEF TypeOK
  <1>2. inForce[l] \in Versions BY <1>0 DEF TypeOK
  <1>3. CASE current'[l] = current[l]
    BY <1>1, <1>2, <1>3, Constants DEF ForwardInv, Versions
  <1>4. ASSUME NEW r \in Runs, NEW m \in Laws,
               Activate(r, m) \/ ActivateUnacknowledged(r, m)
        PROVE  /\ current'[l] >= current[l]
               /\ current'[l] <= inForce[l]
    <2>1. PICK k \in 0..MaxVersion, p \in Versions :
            /\ k = work[r][m].key /\ p = work[r][m].prev
            /\ current[m] = p
            /\ current' = [current EXCEPT ![m] = k]
            /\ observed' = [observed EXCEPT ![m] = k]
            /\ status' = [status EXCEPT ![m][k] = "active", ![m][p] = "superseded"]
            /\ text' = text
      BY <1>0, <1>4, SwitchEffect
    <2>2. work[r][m].pc = "staged" BY <1>4 DEF Activate, ActivateUnacknowledged, At
    <2>3. p <= k /\ k <= inForce[m] BY <2>1, <2>2 DEF ForwardInv, Forward, Carrying
    <2>4. CASE m = l BY <1>1, <2>1, <2>3, <2>4
    <2>5. CASE m # l BY <1>1, <1>3, <2>1, <2>5
    <2> QED BY <2>4, <2>5
  <1>5. ASSUME NEW r \in Runs, NEW m \in Laws, StageCommit(r, m)
        PROVE  UNCHANGED current
    BY <1>5 DEF StageCommit
  <1> QED BY <1>3, <1>4, <1>5, RevisionSteps

LEMMA ForwardStable ==
    ASSUME ForwardInv, [OverlapNext]_vars, NEW r \in Runs, NEW l \in Laws
    PROVE  Forward(r, l)'
  <1> USE DEF ForwardInv, Forward
  <1>1. /\ inForce[l] \in Nat /\ inForce'[l] \in Nat /\ inForce[l] <= MaxVersion
        /\ inForce'[l] >= inForce[l]
    BY InForceGrows, Constants DEF Versions
  <1>2. /\ work[r][l].prev \in Nat /\ work[r][l].key \in Nat /\ current[l] \in Nat
    <2>1. work[r][l] \in Work BY DEF TypeOK
    <2>2. work[r][l].prev \in 0..MaxVersion /\ work[r][l].key \in 0..MaxVersion
      BY <2>1, WorkFields
    <2> QED BY <2>2, Constants DEF TypeOK
  <1>3. AnswerFor(r, l) = inForce[l] BY <1>1 DEF AnswerFor
  <1>4. CASE work'[r][l] = work[r][l] BY <1>1, <1>2, <1>4
  <1>5. CASE work'[r][l] = Fresh
    <2>1. Fresh.pc = "todo" BY DEF Fresh
    <2> QED BY <1>5, <2>1 DEF Carrying
  <1>6. CASE \/ LawStep(r, l) \/ Fault(r, l) \/ RecordUnchangedTorn(r, l)
             \/ ActivateUnacknowledged(r, l)
    <2>1. CASE work'[r][l].pc \notin Carrying \cup {"prevRead", "ready"} BY <2>1
    <2>2. CASE work'[r][l].pc = "prevRead" /\ work'[r][l].prev = current[l]
      BY <1>1, <1>2, <2>2 DEF Carrying
    <2>3. CASE /\ work[r][l].pc = "prevRead" /\ work'[r][l].pc = "ready"
               /\ work'[r][l].prev = work[r][l].prev
      BY <1>1, <1>2, <2>3 DEF Carrying
    <2>4. CASE /\ work[r][l].pc = "ready" /\ work'[r][l].pc = "fetch"
               /\ work'[r][l].prev = work[r][l].prev
               /\ work'[r][l].key = AnswerFor(r, l)
      BY <1>1, <1>2, <1>3, <2>4
    <2>5. CASE /\ work[r][l].pc \in Carrying /\ work'[r][l].pc \in Carrying
               /\ work'[r][l].prev = work[r][l].prev
               /\ work'[r][l].key = work[r][l].key
      BY <1>1, <1>2, <2>5 DEF Carrying
    <2> QED BY <1>6, <2>1, <2>2, <2>3, <2>4, <2>5, VersionSteps
  <1> QED BY <1>4, <1>5, <1>6, RecordChanges

LEMMA ForwardNext == ForwardInv /\ [OverlapNext]_vars => ForwardInv'
  <1> SUFFICES ASSUME ForwardInv, [OverlapNext]_vars PROVE ForwardInv' OBVIOUS
  <1>0. AsOfs = {MaxVersion} BY DEF ForwardInv
  <1>1. TypeOK /\ TypeOK' BY NextType DEF ForwardInv
  <1>2. \A l \in Laws : current'[l] <= inForce'[l]
    <2> SUFFICES ASSUME NEW l \in Laws PROVE current'[l] <= inForce'[l] OBVIOUS
    <2>1. current'[l] \in Nat BY <1>1 DEF TypeOK
    <2>2. inForce[l] \in Nat /\ inForce'[l] \in Nat /\ inForce'[l] >= inForce[l]
      BY <1>1, InForceGrows DEF Versions
    <2> QED BY <2>1, <2>2, SwitchGoesForward
  <1>3. \A r \in Runs : asOf'[r] = MaxVersion
    <2>1. asOf \in [Runs -> Versions] /\ \A r \in Runs : asOf[r] = MaxVersion
      BY <1>1 DEF TypeOK, ForwardInv
    <2>2. ASSUME NEW q \in Runs, Start(q) PROVE \A r \in Runs : asOf'[r] = MaxVersion
      <3>1. PICK d \in AsOfs : asOf' = [asOf EXCEPT ![q] = d] BY <2>2 DEF Start
      <3> QED BY <1>0, <2>1, <3>1
    <2>3. ASSUME NEW q \in Runs,
                 Refuse(q) \/ RunStep(q) \/ Crash(q) \/ LoseLock(q)
          PROVE  UNCHANGED asOf
      BY <2>3 DEF Refuse, RunStep, CompleteRun, AbortRun, Unlock, Crash, LoseLock
    <2>4. ASSUME NEW q \in Runs, NEW m \in Laws,
                 \/ LawStep(q, m) \/ Fault(q, m) \/ RecordUnchangedTorn(q, m)
                 \/ ActivateUnacknowledged(q, m)
          PROVE  UNCHANGED asOf
      BY <2>4 DEF LawStep, BeginLaw, ReadSync, QueryUnchanged, QueryChanged, FetchXml,
         StoreXml, VerifyPublishable, VerifyHeld, StageBegin, StageCommit, StoreConflict,
         StageRejected, ActivateRefused, Fault, LawFails, RecordUnchanged,
         RecordUnchangedTorn, Activate, ActivateUnacknowledged
    <2>5. ASSUME NEW m \in Laws, Amend(m) \/ Correct(m) PROVE UNCHANGED asOf
      BY <2>5 DEF Amend, Correct
    <2> QED BY <2>1, <2>2, <2>3, <2>4, <2>5 DEF OverlapNext, Next
  <1>4. \A r \in Runs, l \in Laws : Forward(r, l)' BY ForwardStable
  <1> QED BY <1>0, <1>1, <1>2, <1>3, <1>4 DEF ForwardInv

(***************************************************************************)
(* Where every run asks for the law as it is today, no law goes back to an *)
(* older version, however runs overlap and wherever connections die        *)
(* (CurrentNeverGoesBack in RefreshOverlap).                               *)
(***************************************************************************)
THEOREM CurrentGoesForward ==
    AsOfs = {MaxVersion} /\ OverlapSpec => CurrentNeverGoesBack
  <1>1. ForwardInv /\ [OverlapNext]_vars
          => [\A l \in Laws : current'[l] >= current[l]]_current
    BY SwitchGoesForward
  <1> QED BY <1>1, ForwardInit, ForwardNext, PTL DEF OverlapSpec, CurrentNeverGoesBack

-----------------------------------------------------------------------------
(* The refresh implements LawPublication, even when its runs overlap and its *)
(* connections die.                                                          *)

\* A worker that has asked for a document knows its version, and one that has
\* received it holds it.
Loaded(w) ==
    /\ w.pc \in {"fetch", "fetched", "stored", "stage", "staging", "staged"}
          => w.key \in Versions
    /\ w.pc \in {"fetched", "stored", "stage", "staging", "staged"} => w.xml # NoText

(***************************************************************************)
(* A revision without rows has no text, and a worker only activates a      *)
(* revision that has one.                                                  *)
(***************************************************************************)
DocInv ==
    /\ TypeOK
    /\ \A r \in Runs, l \in Laws : Loaded(work[r][l])
    /\ \A l \in Laws, v \in Versions : status[l][v] = "absent" => text[l][v] = NoText
    /\ \A r \in Runs, l \in Laws :
          work[r][l].pc = "staged" => text[l][work[r][l].key] # NoText

LEMMA DocInit == Init => DocInv
  <1> SUFFICES ASSUME Init PROVE DocInv OBVIOUS
  <1>1. PICK kind \in [Laws -> InitKinds] :
          /\ status = [l \in Laws |-> [v \in Versions |->
                IF v = 1 /\ kind[l] # "empty" THEN "active" ELSE "absent"]]
          /\ text = [l \in Laws |-> [v \in Versions |->
                IF v = 1 /\ kind[l] # "empty" THEN <<1, 0>> ELSE NoText]]
    BY DEF Init
  <1>2. \A l \in Laws, v \in Versions : status[l][v] = "absent" => text[l][v] = NoText
    BY <1>1
  <1>3. \A r \in Runs, l \in Laws : work[r][l].pc = "todo" BY DEF Init, Fresh
  <1> QED BY <1>2, <1>3, InitType DEF DocInv, Loaded

\* What one worker does to its own program counter, version and document.
LEMMA LoadedStep ==
    ASSUME DocInv, NEW r \in Runs, NEW l \in Laws,
           \/ LawStep(r, l) \/ Fault(r, l) \/ RecordUnchangedTorn(r, l)
           \/ ActivateUnacknowledged(r, l)
    PROVE  /\ \A q \in Runs, m \in Laws :
                 q # r \/ m # l => work'[q][m] = work[q][m]
           /\ Loaded(work'[r][l])
           /\ work'[r][l].pc = "staged" =>
                 StageCommit(r, l) /\ work'[r][l].key = work[r][l].key
  <1> DEFINE w == work[r][l]
  <1>1. w \in Work /\ Loaded(w) BY DEF DocInv, TypeOK
  <1>2. AnswerFor(r, l) \in Versions /\ DocumentFor(r, l) # NoText
    <2>1. AnswerFor(r, l) \in Versions BY AnswerType DEF DocInv
    <2>2. AnswerFor(r, l) # 0 BY <2>1, Constants DEF Versions
    <2> QED BY <2>1, <2>2 DEF DocumentFor, NoText
  <1> DEFINE Result(n) ==
        /\ work' = [work EXCEPT ![r][l] = n]
        /\ Loaded(n)
        /\ n.pc = "staged" => StageCommit(r, l) /\ n.key = w.key
  <1>3. SUFFICES \E n : Result(n)
    <2>1. PICK n : Result(n) BY <1>3
    <2>2. TypeOK BY DEF DocInv
    <2>3. \A q \in Runs, m \in Laws :
             /\ q = r /\ m = l => work'[q][m] = n
             /\ q # r \/ m # l => work'[q][m] = work[q][m]
      <3>1. work' = [work EXCEPT ![r][l] = n] BY <2>1
      <3>2. work \in [Runs -> [Laws -> Work]] BY <2>2 DEF TypeOK
      <3> QED BY ONLY <3>1, <3>2, r \in Runs, l \in Laws
    <2>4. work'[r][l] = n BY <2>3
    <2> QED BY <2>1, <2>3, <2>4
  <1>4. CASE BeginLaw(r, l)
    <2> DEFINE n == [w EXCEPT !.pc = "prevRead", !.prev = current[l]]
    <2>1. work' = [work EXCEPT ![r][l] = n] BY <1>4 DEF BeginLaw
    <2>2. n.pc = "prevRead" BY <1>1, WorkEffect
    <2> HIDE DEF n, w
    <2> QED BY <2>1, <2>2 DEF Loaded
  <1>5. CASE ReadSync(r, l)
    <2> DEFINE n == [w EXCEPT !.pc = "ready", !.obs = observed[l]]
    <2>1. work' = [work EXCEPT ![r][l] = n] BY <1>5 DEF ReadSync
    <2>2. n.pc = "ready" BY <1>1, WorkEffect
    <2> HIDE DEF n, w
    <2> QED BY <2>1, <2>2 DEF Loaded
  <1>6. CASE QueryUnchanged(r, l)
    <2> DEFINE n == [w EXCEPT !.key = AnswerFor(r, l), !.obs = 0,
                    !.pc = IF mode[r] = "check" THEN "done" ELSE "unchanged",
                    !.outcome = IF mode[r] = "check" THEN "unchanged" ELSE "none"]
    <2>1. work' = [work EXCEPT ![r][l] = n] BY <1>6 DEF QueryUnchanged
    <2>2. n.pc \in {"done", "unchanged"} BY <1>1, WorkEffect
    <2> HIDE DEF n, w
    <2> QED BY <2>1, <2>2 DEF Loaded
  <1>7. CASE QueryChanged(r, l)
    <2> DEFINE n == [w EXCEPT !.key = AnswerFor(r, l), !.obs = 0,
                    !.pc = IF mode[r] = "check" THEN "done" ELSE "fetch",
                    !.outcome = IF mode[r] = "check" THEN "updated" ELSE "none"]
    <2>1. work' = [work EXCEPT ![r][l] = n] BY <1>7 DEF QueryChanged
    <2>2. n.pc \in {"done", "fetch"} /\ n.key = AnswerFor(r, l)
      BY <1>1, WorkEffect
    <2> HIDE DEF n, w
    <2> QED BY <1>2, <2>1, <2>2 DEF Loaded
  <1>8. CASE FetchXml(r, l)
    <2> DEFINE n == [w EXCEPT !.pc = "fetched", !.xml = DocumentFor(r, l)]
    <2>1. work' = [work EXCEPT ![r][l] = n] /\ w.pc = "fetch"
      BY <1>8 DEF FetchXml, At
    <2>2. n.pc = "fetched" /\ n.xml = DocumentFor(r, l) /\ n.key = w.key
      BY <1>1, WorkEffect
    <2> HIDE DEF n, w
    <2> QED BY <1>1, <1>2, <2>1, <2>2 DEF Loaded
  <1>9. ASSUME NEW p, Goto(r, l, p), p # "staged" \/ StageCommit(r, l),
               w.pc \in {"fetched", "stored", "stage", "staging"}
        PROVE  \E n : Result(n)
    <2> DEFINE n == [w EXCEPT !.pc = p]
    <2>1. work' = [work EXCEPT ![r][l] = n] BY <1>9 DEF Goto
    <2>2. n.pc = p /\ n.xml = w.xml /\ n.key = w.key BY <1>1, WorkEffect
    <2> HIDE DEF n, w
    <2> QED BY <1>1, <1>9, <2>1, <2>2 DEF Loaded
  <1>10. CASE StageBegin(r, l)
    <2> DEFINE n == [w EXCEPT !.pc = "staging", !.sawPackage = pkgStatus[r] # "none"]
    <2>1. work' = [work EXCEPT ![r][l] = n] /\ w.pc = "stage"
      BY <1>10 DEF StageBegin, At
    <2>2. n.pc = "staging" /\ n.xml = w.xml /\ n.key = w.key BY <1>1, WorkEffect
    <2> HIDE DEF n, w
    <2> QED BY <1>1, <2>1, <2>2 DEF Loaded
  <1>11. ASSUME NEW o, Finish(r, l, o)
         PROVE  \E n : Result(n)
    <2> DEFINE n == [w EXCEPT !.pc = "done", !.outcome = o, !.obs = 0,
                              !.xml = NoText, !.sawPackage = FALSE]
    <2>1. work' = [work EXCEPT ![r][l] = n] BY <1>11 DEF Finish
    <2>2. n.pc = "done" BY <1>1, WorkEffect
    <2> HIDE DEF n, w
    <2> QED BY <2>1, <2>2 DEF Loaded
  <1>12. CASE StoreXml(r, l) \/ StageCommit(r, l)
    <2>1. \/ StoreXml(r, l) /\ Goto(r, l, "stored") /\ w.pc = "fetched"
          \/ StageCommit(r, l) /\ Goto(r, l, "staged") /\ w.pc = "staging"
      BY <1>12 DEF StoreXml, StageCommit, At
    <2> QED BY <1>9, <2>1
  <1>13. CASE VerifyPublishable(r, l)
    <2>1. Finish(r, l, "updated") \/ (Goto(r, l, "stage") /\ w.pc = "stored")
      BY <1>13 DEF VerifyPublishable, At
    <2> QED BY <1>9, <1>11, <2>1
  <1>14. CASE \/ RecordUnchanged(r, l) \/ VerifyHeld(r, l) \/ Activate(r, l)
              \/ RecordUnchangedTorn(r, l) \/ ActivateUnacknowledged(r, l)
    BY <1>11, <1>14 DEF RecordUnchanged, VerifyHeld, Activate,
                        RecordUnchangedTorn, ActivateUnacknowledged
  <1>15. CASE \/ StoreConflict(r, l) \/ StageRejected(r, l)
              \/ ActivateRefused(r, l) \/ Fault(r, l)
    BY <1>11, <1>15 DEF StoreConflict, StageRejected, ActivateRefused, Fault, LawFails
  <1> QED BY <1>4, <1>5, <1>6, <1>7, <1>8, <1>10, <1>12, <1>13, <1>14, <1>15
          DEF LawStep


LEMMA DocNext == DocInv /\ [OverlapNext]_vars => DocInv'
  <1> SUFFICES ASSUME DocInv, [OverlapNext]_vars PROVE DocInv' OBVIOUS
  <1>1. TypeOK /\ TypeOK' BY NextType DEF DocInv
  <1>2. /\ status \in [Laws -> [Versions -> RevisionStatus]]
        /\ text \in [Laws -> [Versions -> Texts]]
    BY <1>1 DEF TypeOK
  <1>3. \A r \in Runs, l \in Laws : work[r][l].key \in 0..MaxVersion
    BY <1>1, WorkFields DEF TypeOK
  \* Revisions: staging gives the new row its text.
  <1> DEFINE TextsKept ==
          /\ \A l \in Laws, v \in Versions : status'[l][v] = "absent" => text'[l][v] = NoText
          /\ \A l \in Laws : \A v : text[l][v] # NoText => text'[l][v] # NoText
  <1>4. TextsKept
    <2>1. CASE UNCHANGED <<current, status, text>> BY <2>1 DEF DocInv
    <2>2. ASSUME NEW r \in Runs, NEW l \in Laws, StageCommit(r, l)
          PROVE  TextsKept
      <3> DEFINE k == work[r][l].key
                 x == work[r][l].xml
      <3>1. \/ UNCHANGED <<status, text>>
            \/ /\ status' = [status EXCEPT ![l][k] = "staged"]
               /\ text' = [text EXCEPT ![l][k] = x]
        BY <2>2 DEF StageCommit
      <3>2. x # NoText /\ k \in Versions
        BY <2>2 DEF DocInv, Loaded, StageCommit, At
      <3>3. \A m \in Laws, v \in Versions : status[m][v] = "absent" => text[m][v] = NoText
        BY DEF DocInv
      <3>4. l \in Laws OBVIOUS
      <3> HIDE DEF k, x
      <3>5. CASE UNCHANGED <<status, text>> BY <3>3, <3>5
      <3>6. CASE /\ status' = [status EXCEPT ![l][k] = "staged"]
                 /\ text' = [text EXCEPT ![l][k] = x]
        <4>1. \A m \in Laws, v \in Versions :
                 /\ m = l /\ v = k => status'[m][v] = "staged" /\ text'[m][v] = x
                 /\ m # l \/ v # k => /\ status'[m][v] = status[m][v]
                                      /\ text'[m][v] = text[m][v]
          BY ONLY <1>2, <3>2, <3>4, <3>6
        <4>2. \A m \in Laws : \A v :
                 /\ m = l /\ v = k => text'[m][v] = x
                 /\ m # l \/ v # k => text'[m][v] = text[m][v]
          BY ONLY <1>2, <3>2, <3>4, <3>6
        <4> QED BY <3>2, <3>3, <4>1, <4>2
      <3> QED BY <3>1, <3>5, <3>6
    <2>3. ASSUME NEW r \in Runs, NEW l \in Laws,
                 Activate(r, l) \/ ActivateUnacknowledged(r, l)
          PROVE  TextsKept
      <3>1. PICK k \in 0..MaxVersion, p \in Versions :
              /\ status' = [status EXCEPT ![l][k] = "active", ![l][p] = "superseded"]
              /\ text' = text
        BY <1>1, <2>3, SwitchEffect
      <3>2. \A m \in Laws, v \in Versions :
               status'[m][v] = "absent" => status[m][v] = "absent"
        BY <1>2, <3>1
      <3> QED BY <3>1, <3>2 DEF DocInv
    <2> QED BY <2>1, <2>2, <2>3, RevisionSteps
  \* Workers: only the commit of a staging brings a worker to "staged".
  <1> DEFINE WorkersLoaded ==
          /\ \A r \in Runs, l \in Laws : Loaded(work'[r][l])
          /\ \A r \in Runs, l \in Laws :
                work'[r][l].pc = "staged" => text'[l][work'[r][l].key] # NoText
  <1>5. WorkersLoaded
    <2>1. CASE UNCHANGED work BY <1>4, <2>1 DEF DocInv
    <2>2. ASSUME NEW r \in Runs, Crash(r)
          PROVE  WorkersLoaded
      <3>1. \A q \in Runs, l \in Laws :
               work'[q][l] = work[q][l] \/ work'[q][l].pc = "todo"
        BY <1>1, <2>2 DEF Crash, Fresh, TypeOK
      <3> QED BY <1>4, <3>1 DEF DocInv, Loaded
    <2>3. ASSUME NEW r \in Runs, NEW l \in Laws,
                 \/ LawStep(r, l) \/ Fault(r, l) \/ RecordUnchangedTorn(r, l)
                 \/ ActivateUnacknowledged(r, l)
          PROVE  WorkersLoaded
      <3>1. /\ \A q \in Runs, m \in Laws :
                  q # r \/ m # l => work'[q][m] = work[q][m]
            /\ Loaded(work'[r][l])
            /\ work'[r][l].pc = "staged" =>
                 StageCommit(r, l) /\ work'[r][l].key = work[r][l].key
        BY <2>3, LoadedStep
      <3>2. StageCommit(r, l) => text'[l][work[r][l].key] # NoText
        <4> DEFINE k == work[r][l].key
                   x == work[r][l].xml
        <4> SUFFICES ASSUME StageCommit(r, l) PROVE text'[l][k] # NoText
          OBVIOUS
        <4>1. x # NoText /\ k \in Versions BY DEF DocInv, Loaded, StageCommit, At
        <4>2. \/ text' = [text EXCEPT ![l][k] = x]
              \/ text' = text /\ status[l][k] # "absent" /\ ChecksumMatches(r, l)
          BY DEF StageCommit, CanStage
        <4>3. ChecksumMatches(r, l) => status[l][k] = "absent" \/ text[l][k] = x
          BY DEF ChecksumMatches
        <4> HIDE DEF k, x
        <4> QED BY <1>2, <4>1, <4>2, <4>3
      <3>3. ASSUME NEW q \in Runs, NEW m \in Laws
            PROVE  /\ Loaded(work'[q][m])
                   /\ work'[q][m].pc = "staged" => text'[m][work'[q][m].key] # NoText
        <4>1. CASE q = r /\ m = l BY <3>1, <3>2, <4>1
        <4>2. CASE q # r \/ m # l BY <1>4, <3>1, <4>2 DEF DocInv
        <4> QED BY <4>1, <4>2
      <3> QED BY <3>3
    <2>4. CASE \E r \in Runs : Start(r) \/ Refuse(r) \/ RunStep(r) \/ LoseLock(r)
      <3>1. UNCHANGED work
        BY <2>4 DEF Start, Refuse, RunStep, CompleteRun, AbortRun, Unlock, LoseLock
      <3> QED BY <2>1, <3>1
    <2>5. CASE \E l \in Laws : Amend(l) \/ Correct(l)
      <3>1. UNCHANGED work BY <2>5 DEF Amend, Correct
      <3> QED BY <2>1, <3>1
    <2>6. CASE UNCHANGED vars
      <3>1. UNCHANGED work BY <2>6 DEF vars
      <3> QED BY <2>1, <3>1
    <2> QED BY <2>2, <2>3, <2>4, <2>5, <2>6 DEF OverlapNext, Next
  <1> QED BY <1>1, <1>4, <1>5 DEF DocInv

THEOREM DocInvariant == OverlapSpec => []DocInv
BY DocInit, DocNext, PTL DEF OverlapSpec

\* The first state publishes what the catalogue left.
LEMMA PublicationInit == Init => Publication!Init
  <1> SUFFICES ASSUME Init PROVE Publication!Init OBVIOUS
  <1>1. TypeOK BY InitType
  <1>2. current \in [Laws -> Versions \cup {0}]
    BY <1>1, Constants DEF TypeOK, Versions
  <1>3. text \in [Laws -> [Versions -> Texts]] BY <1>1 DEF TypeOK
  <1>4. \A l \in Laws : current[l] # 0 => text[l][current[l]] # NoText
    <2>1. PICK kind \in [Laws -> InitKinds] :
            /\ current = [l \in Laws |-> IF kind[l] = "empty" THEN 0 ELSE 1]
            /\ text = [l \in Laws |-> [v \in Versions |->
                  IF v = 1 /\ kind[l] # "empty" THEN <<1, 0>> ELSE NoText]]
      BY DEF Init
    <2>2. 1 \in Versions BY Constants DEF Versions
    <2> QED BY <2>1, <2>2 DEF NoText
  <1> QED BY <1>2, <1>3, <1>4 DEF Publication!Init

\* A commit of a staging archives one text or none; a switch shows a text that
\* is archived; nothing else is seen.
LEMMA PublicationNext ==
    DocInv /\ [OverlapNext]_vars => [Publication!Next]_(Publication!vars)
  <1> SUFFICES ASSUME DocInv, [OverlapNext]_vars
               PROVE  [Publication!Next]_(Publication!vars)
    OBVIOUS
  <1> USE DEF Publication!vars
  <1>1. CASE UNCHANGED <<current, status, text>> BY <1>1
  <1>2. ASSUME NEW r \in Runs, NEW l \in Laws, StageCommit(r, l)
        PROVE  [Publication!Next]_(Publication!vars)
    <2> DEFINE k == work[r][l].key
               x == work[r][l].xml
    <2>1. x \in Texts \ {NoText} /\ k \in Versions
      BY <1>2, WorkFields DEF DocInv, Loaded, StageCommit, At, TypeOK
    <2>2. /\ UNCHANGED current
          /\ \/ UNCHANGED text
             \/ status[l][k] = "absent" /\ text' = [text EXCEPT ![l][k] = x]
      BY <1>2 DEF StageCommit
    <2>3. status[l][k] = "absent" => text[l][k] = NoText BY <2>1 DEF DocInv
    <2> HIDE DEF k, x
    <2> QED BY <2>1, <2>2, <2>3 DEF Publication!Next, Publication!Archive
  <1>3. ASSUME NEW r \in Runs, NEW l \in Laws,
               Activate(r, l) \/ ActivateUnacknowledged(r, l)
        PROVE  [Publication!Next]_(Publication!vars)
    <2> DEFINE k == work[r][l].key
    <2>1. k \in Versions /\ text[l][k] # NoText
      BY <1>3 DEF DocInv, Loaded, Activate, ActivateUnacknowledged, At
    <2>2. current' = [current EXCEPT ![l] = k] /\ UNCHANGED text
      BY <1>3 DEF Activate, ActivateUnacknowledged
    <2> HIDE DEF k
    <2> QED BY <2>1, <2>2 DEF Publication!Next, Publication!Switch
  <1> QED BY <1>1, <1>2, <1>3, RevisionSteps

(***************************************************************************)
(* The refresh implements LawPublication (PublicationSpec in               *)
(* RefreshAnyStart): whatever runs overlap and whatever fails, a text that *)
(* is archived never changes and only an archived text is put on show.     *)
(***************************************************************************)
THEOREM RefreshImplementsPublication == Spec => PublicationSpec
  <1>1. OverlapSpec => Publication!Spec
    BY DocInvariant, PublicationInit, PublicationNext, PTL
       DEF OverlapSpec, Publication!Spec
  <1> QED BY <1>1, SpecIsOverlapSpec, PTL DEF PublicationSpec

-----------------------------------------------------------------------------
(* What the advisory lock protects: the version recorded as observed and    *)
(* the report of a run.                                                      *)

\* A run that is under way.
Busy(r) == phase[r] \in {"working", "unlocking"}

\* What a run that has the lock to itself knows of a law.
Informed(r, l) ==
    LET w == work[r][l] IN
    /\ w.pc \notin {"todo", "done"} => w.prev = current[l]
    /\ w.pc = "ready" => w.obs = observed[l]
    /\ w.pc = "unchanged" => w.key = observed[l] /\ w.key # 0
    /\ w.outcome # "none" => w.pc = "done"
    /\ mode[r] = "refresh" /\ w.outcome \in {"updated", "unchanged"} => current[l] = w.key
    /\ mode[r] = "refresh" /\ w.outcome \in {"held", "failed"} => current[l] = w.prev

(***************************************************************************)
(* The inductive invariant: a run is under way exactly when it holds the   *)
(* lock, one that has not started knows nothing, and what a run that is    *)
(* under way has read of a law is still so.                                *)
(***************************************************************************)
SyncInv ==
    /\ TypeOK
    /\ \A r \in Runs : Busy(r) <=> lock = r
    /\ \A r \in Runs : phase[r] = "idle" => \A l \in Laws : work[r][l] = Fresh
    /\ \A r \in Runs, l \in Laws : Busy(r) => Informed(r, l)
    /\ ObservedIsCurrent

LEMMA SyncInit == Init => SyncInv
  <1> SUFFICES ASSUME Init PROVE SyncInv OBVIOUS
  <1>1. TypeOK BY InitType
  <1>2. /\ \A r \in Runs : phase[r] = "idle" /\ lock # r
        /\ \A r \in Runs, l \in Laws : work[r][l] = Fresh
    BY Constants DEF Init
  <1>3. ObservedIsCurrent BY DEF Init, ObservedIsCurrent
  <1> QED BY <1>1, <1>2, <1>3 DEF SyncInv, Busy

\* The effect of one worker's step on its own law, on the other laws and on the
\* other runs.
SyncStep(r, l) ==
    /\ \A q \in Runs, m \in Laws : q # r \/ m # l => work'[q][m] = work[q][m]
    /\ \A m \in Laws \ {l} : current'[m] = current[m] /\ observed'[m] = observed[m]
    /\ UNCHANGED <<lock, phase, mode>>
    /\ Informed(r, l)'
    /\ observed'[l] \in {0, current'[l]}

LEMMA SyncFinish ==
    ASSUME SyncInv, NEW r \in Runs, NEW l \in Laws, NEW o \in ResultStatus,
           phase[r] = "working", Finish(r, l, o), UNCHANGED procVars,
           \A m \in Laws \ {l} : current'[m] = current[m] /\ observed'[m] = observed[m],
           observed'[l] \in {0, current'[l]},
           mode[r] = "refresh" /\ o \in {"updated", "unchanged"}
              => current'[l] = work[r][l].key,
           mode[r] = "refresh" /\ o \in {"held", "failed"}
              => current'[l] = work[r][l].prev
    PROVE  SyncStep(r, l)
  <1> DEFINE w == work[r][l]
             n == [w EXCEPT !.pc = "done", !.outcome = o, !.obs = 0,
                            !.xml = NoText, !.sawPackage = FALSE]
  <1>1. TypeOK BY DEF SyncInv
  <1>2. work' = [work EXCEPT ![r][l] = n] BY DEF Finish
  <1>3. w \in Work BY <1>1 DEF TypeOK
  <1>4. n.pc = "done" /\ n.outcome = o /\ n.key = w.key /\ n.prev = w.prev
    BY <1>3, WorkEffect
  <1>5. /\ work'[r][l] = n
        /\ \A q \in Runs, m \in Laws : q # r \/ m # l => work'[q][m] = work[q][m]
    <2>1. work \in [Runs -> [Laws -> Work]] BY <1>1 DEF TypeOK
    <2> HIDE DEF n
    <2> QED BY ONLY <1>2, <2>1, r \in Runs, l \in Laws
  <1>6. UNCHANGED <<lock, phase, mode>> BY DEF procVars
  <1>7. Informed(r, l)'
    <2> HIDE DEF n
    <2> QED BY <1>4, <1>5, <1>6 DEF Informed
  <1> QED BY <1>5, <1>6, <1>7 DEF SyncStep

\* A worker's step that only replaces its record.
LEMMA SyncLocal ==
    ASSUME SyncInv, NEW r \in Runs, NEW l \in Laws, phase[r] = "working",
           NEW n, work' = [work EXCEPT ![r][l] = n],
           UNCHANGED <<current, observed, lock, phase, mode>>,
           n.pc \notin {"todo", "done"} => n.prev = current[l],
           n.pc = "ready" => n.obs = observed[l],
           n.pc = "unchanged" => n.key = observed[l] /\ n.key # 0,
           n.outcome # "none" => n.pc = "done" /\ mode[r] # "refresh"
    PROVE  SyncStep(r, l)
  <1>1. work \in [Runs -> [Laws -> Work]] BY DEF SyncInv, TypeOK
  <1>2. /\ work'[r][l] = n
        /\ \A q \in Runs, m \in Laws : q # r \/ m # l => work'[q][m] = work[q][m]
    BY ONLY <1>1, r \in Runs, l \in Laws, work' = [work EXCEPT ![r][l] = n]
  <1>3. Informed(r, l)' BY <1>2 DEF Informed
  <1>4. observed'[l] \in {0, current'[l]} BY DEF SyncInv, ObservedIsCurrent
  <1> QED BY <1>2, <1>3, <1>4 DEF SyncStep


LEMMA SyncWorker ==
    ASSUME SyncInv, NEW r \in Runs, NEW l \in Laws,
           LawStep(r, l) \/ Fault(r, l) \/ RecordUnchangedTorn(r, l)
    PROVE  SyncStep(r, l)
  <1> DEFINE w == work[r][l]
  <1> USE DEF procVars
  <1>1. TypeOK BY DEF SyncInv
  <1>2. w \in Work BY <1>1 DEF TypeOK
  <1>3. /\ {"unchanged", "updated", "held", "failed"} \subseteq ResultStatus
        /\ observed[l] \in {0, current[l]}
    BY DEF ResultStatus, SyncInv, ObservedIsCurrent
  <1>4. phase[r] = "working" => Informed(r, l) BY DEF SyncInv, Busy
  <1>5. AnswerFor(r, l) # 0 BY <1>1, AnswerType, Constants DEF Versions
  <1>6. CASE BeginLaw(r, l)
    <2> DEFINE n == [w EXCEPT !.pc = "prevRead", !.prev = current[l]]
    <2>1. /\ work' = [work EXCEPT ![r][l] = n] /\ w.pc = "todo" /\ phase[r] = "working"
          /\ UNCHANGED <<current, observed, lock, phase, mode>>
      BY <1>6 DEF BeginLaw, At, dbVars, revVars, syncVars
    <2>2. n.pc = "prevRead" /\ n.prev = current[l] /\ n.outcome = w.outcome
      BY <1>2, WorkEffect
    <2>3. w.outcome = "none" BY <1>4, <2>1 DEF Informed
    <2> HIDE DEF n, w
    <2> QED BY <2>1, <2>2, <2>3, SyncLocal
  <1>7. CASE ReadSync(r, l)
    <2> DEFINE n == [w EXCEPT !.pc = "ready", !.obs = observed[l]]
    <2>1. /\ work' = [work EXCEPT ![r][l] = n] /\ w.pc = "prevRead" /\ phase[r] = "working"
          /\ UNCHANGED <<current, observed, lock, phase, mode>>
      BY <1>7 DEF ReadSync, At, revVars, syncVars
    <2>2. /\ n.pc = "ready" /\ n.prev = w.prev /\ n.obs = observed[l]
          /\ n.outcome = w.outcome
      BY <1>2, WorkEffect
    <2>3. w.prev = current[l] /\ w.outcome = "none" BY <1>4, <2>1 DEF Informed
    <2> HIDE DEF n, w
    <2> QED BY <2>1, <2>2, <2>3, SyncLocal
  <1>8. CASE QueryUnchanged(r, l) \/ QueryChanged(r, l)
    <2> DEFINE n(p, o) == [w EXCEPT !.key = AnswerFor(r, l), !.obs = 0,
                                    !.pc = p, !.outcome = o]
    <2>1. /\ w.pc = "ready" /\ phase[r] = "working"
          /\ UNCHANGED <<current, observed, lock, phase, mode>>
      BY <1>8 DEF QueryUnchanged, QueryChanged, At, dbVars, revVars, syncVars
    <2>2. w.prev = current[l] /\ w.obs = observed[l] BY <1>4, <2>1 DEF Informed
    <2>3. ASSUME NEW p, NEW o, work' = [work EXCEPT ![r][l] = n(p, o)],
                 \/ p = "done" /\ mode[r] = "check"
                 \/ p = "unchanged" /\ o = "none" /\ AnswerFor(r, l) = w.obs
                 \/ p = "fetch" /\ o = "none"
          PROVE  SyncStep(r, l)
      <3> DEFINE u == n(p, o)
      <3>1. u.pc = p /\ u.prev = w.prev /\ u.key = AnswerFor(r, l) /\ u.outcome = o
        BY <1>2, WorkEffect
      <3>2. work' = [work EXCEPT ![r][l] = u] BY <2>3
      <3> HIDE DEF n, u, w
      <3>3. /\ u.pc \in {"done", "unchanged", "fetch"}
            /\ u.prev = current[l]
            /\ u.pc = "unchanged" => u.key = observed[l] /\ u.key # 0
            /\ u.outcome # "none" => u.pc = "done" /\ mode[r] # "refresh"
        BY <1>5, <2>2, <2>3, <3>1
      <3> QED BY <2>1, <3>2, <3>3, SyncLocal
    <2>4. CASE mode[r] = "check"
      <3>1. \/ work' = [work EXCEPT ![r][l] = n("done", "unchanged")]
            \/ work' = [work EXCEPT ![r][l] = n("done", "updated")]
        BY <1>8, <2>4 DEF QueryUnchanged, QueryChanged
      <3> HIDE DEF n, w
      <3> QED BY <2>3, <2>4, <3>1
    <2>5. CASE mode[r] # "check" /\ QueryUnchanged(r, l)
      <3>1. work' = [work EXCEPT ![r][l] = n("unchanged", "none")]
        BY <2>5 DEF QueryUnchanged
      <3>2. AnswerFor(r, l) = w.obs BY <2>5 DEF QueryUnchanged
      <3> HIDE DEF n, w
      <3> QED BY <2>3, <3>1, <3>2
    <2>6. CASE mode[r] # "check" /\ QueryChanged(r, l)
      <3>1. work' = [work EXCEPT ![r][l] = n("fetch", "none")]
        BY <2>6 DEF QueryChanged
      <3> HIDE DEF n, w
      <3> QED BY <2>3, <3>1
    <2> QED BY <1>8, <2>4, <2>5, <2>6
  <1>9. CASE FetchXml(r, l)
    <2> DEFINE n == [w EXCEPT !.pc = "fetched", !.xml = DocumentFor(r, l)]
    <2>1. /\ work' = [work EXCEPT ![r][l] = n] /\ w.pc = "fetch" /\ phase[r] = "working"
          /\ UNCHANGED <<current, observed, lock, phase, mode>>
      BY <1>9 DEF FetchXml, At, dbVars, revVars, syncVars
    <2>2. n.pc = "fetched" /\ n.prev = w.prev /\ n.outcome = w.outcome
      BY <1>2, WorkEffect
    <2>3. w.prev = current[l] /\ w.outcome = "none" BY <1>4, <2>1 DEF Informed
    <2> HIDE DEF n, w
    <2> QED BY <2>1, <2>2, <2>3, SyncLocal
  <1>10. CASE StageBegin(r, l)
    <2> DEFINE n == [w EXCEPT !.pc = "staging", !.sawPackage = pkgStatus[r] # "none"]
    <2>1. /\ work' = [work EXCEPT ![r][l] = n] /\ w.pc = "stage" /\ phase[r] = "working"
          /\ UNCHANGED <<current, observed, lock, phase, mode>>
      BY <1>10 DEF StageBegin, At, dbVars, revVars, syncVars
    <2>2. n.pc = "staging" /\ n.prev = w.prev /\ n.outcome = w.outcome
      BY <1>2, WorkEffect
    <2>3. w.prev = current[l] /\ w.outcome = "none" BY <1>4, <2>1 DEF Informed
    <2> HIDE DEF n, w
    <2> QED BY <2>1, <2>2, <2>3, SyncLocal
  <1>11. ASSUME NEW p, Goto(r, l, p), phase[r] = "working",
                w.pc \in {"fetched", "stored", "staging"},
                p \in {"stored", "stage", "staged"},
                UNCHANGED <<current, observed, lock, phase, mode>>
         PROVE  SyncStep(r, l)
    <2> DEFINE n == [w EXCEPT !.pc = p]
    <2>1. work' = [work EXCEPT ![r][l] = n] BY <1>11 DEF Goto
    <2>2. n.pc = p /\ n.prev = w.prev /\ n.outcome = w.outcome BY <1>2, WorkEffect
    <2>3. w.prev = current[l] /\ w.outcome = "none" BY <1>4, <1>11 DEF Informed
    <2> HIDE DEF n, w
    <2> QED BY <1>11, <2>1, <2>2, <2>3, SyncLocal
  <1>12. CASE StoreXml(r, l) \/ StageCommit(r, l)
    <2>1. /\ \/ Goto(r, l, "stored") /\ w.pc = "fetched"
             \/ Goto(r, l, "staged") /\ w.pc = "staging"
          /\ phase[r] = "working"
          /\ UNCHANGED <<current, observed, lock, phase, mode>>
      BY <1>12 DEF StoreXml, StageCommit, At, dbVars, revVars, syncVars
    <2> QED BY <1>11, <2>1
  <1>13. CASE VerifyPublishable(r, l)
    <2>1. /\ phase[r] = "working" /\ w.pc = "stored"
          /\ UNCHANGED <<current, observed, lock, phase, mode, procVars>>
      BY <1>13 DEF VerifyPublishable, At, dbVars, revVars, syncVars
    <2>2. CASE mode[r] = "dry-run"
      <3>1. Finish(r, l, "updated") BY <1>13, <2>2 DEF VerifyPublishable
      <3> QED BY <1>3, <2>1, <2>2, <3>1, SyncFinish
    <2>3. CASE mode[r] # "dry-run"
      <3>1. Goto(r, l, "stage") BY <1>13, <2>3 DEF VerifyPublishable
      <3> QED BY <1>11, <2>1, <3>1
    <2> QED BY <2>2, <2>3
  <1>14. CASE RecordUnchanged(r, l) \/ RecordUnchangedTorn(r, l)
    <2>1. /\ phase[r] = "working" /\ w.pc = "unchanged" /\ UNCHANGED <<current, procVars>>
          /\ observed' = [observed EXCEPT ![l] = w.key]
          /\ Finish(r, l, "unchanged") \/ Finish(r, l, "failed")
      BY <1>14 DEF RecordUnchanged, RecordUnchangedTorn, At, revVars
    <2>2. w.key = observed[l] /\ w.key # 0 /\ w.prev = current[l]
      BY <1>4, <2>1 DEF Informed
    <2>3. observed \in [Laws -> 0..MaxVersion] BY <1>1 DEF TypeOK
    <2>4. observed'[l] = observed[l] /\ \A m \in Laws : observed'[m] = observed[m]
      BY ONLY <2>1, <2>2, <2>3, l \in Laws
    <2>5. w.key = current[l] BY <1>3, <2>2
    <2> QED BY <1>3, <2>1, <2>2, <2>4, <2>5, SyncFinish
  <1>15. CASE VerifyHeld(r, l)
    <2>1. /\ phase[r] = "working" /\ w.pc = "stored" /\ Finish(r, l, "held")
          /\ UNCHANGED <<current, observed, procVars>>
      BY <1>15 DEF VerifyHeld, At, revVars, syncVars
    <2>2. w.prev = current[l] BY <1>4, <2>1 DEF Informed
    <2> QED BY <1>3, <2>1, <2>2, SyncFinish
  <1>16. CASE Activate(r, l)
    <2> DEFINE k == w.key
    <2>1. /\ phase[r] = "working" /\ Finish(r, l, "updated") /\ UNCHANGED procVars
          /\ current' = [current EXCEPT ![l] = k]
          /\ observed' = [observed EXCEPT ![l] = k]
      BY <1>16 DEF Activate, At
    <2>2. current \in [Laws -> 0..MaxVersion] /\ observed \in [Laws -> 0..MaxVersion]
      BY <1>1 DEF TypeOK
    <2>3. /\ current'[l] = k /\ observed'[l] = k
          /\ \A m \in Laws \ {l} : current'[m] = current[m] /\ observed'[m] = observed[m]
      <3> HIDE DEF k
      <3> QED BY ONLY <2>1, <2>2, l \in Laws
    <2> QED BY <1>3, <2>1, <2>3, SyncFinish
  <1>17. CASE \/ StoreConflict(r, l) \/ StageRejected(r, l)
              \/ ActivateRefused(r, l) \/ Fault(r, l)
    <2>1. /\ phase[r] = "working" /\ w.pc \notin {"todo", "done"}
          /\ LawFails(r, l)
      BY <1>17 DEF StoreConflict, StageRejected, ActivateRefused, Fault, InFlight, At
    <2>2. Finish(r, l, "failed") /\ UNCHANGED <<current, observed, procVars>>
      BY <2>1 DEF LawFails, revVars
    <2>3. w.prev = current[l] BY <1>4, <2>1 DEF Informed
    <2> QED BY <1>3, <2>1, <2>2, <2>3, SyncFinish
  <1> QED BY <1>6, <1>7, <1>8, <1>9, <1>10, <1>12, <1>13, <1>14, <1>15, <1>16, <1>17
          DEF LawStep


LEMMA SyncNext == SyncInv /\ [Next]_vars => SyncInv'
  <1> SUFFICES ASSUME SyncInv, [Next]_vars PROVE SyncInv' OBVIOUS
  <1>1. TypeOK /\ TypeOK'
    <2>1. [OverlapNext]_vars BY DEF OverlapNext
    <2> QED BY <2>1, NextType DEF SyncInv
  <1>2. /\ phase \in [Runs -> {"idle", "refused", "working", "unlocking", "done",
                              "crashed"}]
        /\ mode \in [Runs -> {"check", "dry-run", "refresh"}]
        /\ work \in [Runs -> [Laws -> Work]]
        /\ NoRun \notin Runs
    BY <1>1, Constants DEF TypeOK
  \* The parts of the invariant besides the types.
  <1> DEFINE Rest ==
        /\ \A r \in Runs : Busy(r) <=> lock = r
        /\ \A r \in Runs : phase[r] = "idle" => \A l \in Laws : work[r][l] = Fresh
        /\ \A r \in Runs, l \in Laws : Busy(r) => Informed(r, l)
        /\ ObservedIsCurrent
  <1>3. Rest BY DEF SyncInv
  <1>4. SUFFICES Rest' BY <1>1 DEF SyncInv
  <1>5. CASE UNCHANGED <<current, observed, lock, phase, mode, work>>
    BY <1>3, <1>5 DEF Busy, Informed, ObservedIsCurrent
  <1>6. CASE UNCHANGED vars
    <2>1. UNCHANGED <<current, observed, lock, phase, mode, work>>
      BY <1>6 DEF vars, revVars, syncVars, procVars
    <2> QED BY <1>5, <2>1
  <1>7. ASSUME NEW l \in Laws, Amend(l) \/ Correct(l) PROVE Rest'
    <2>1. UNCHANGED <<current, observed, lock, phase, mode, work>>
      BY <1>7 DEF Amend, Correct, dbVars, revVars, syncVars, procVars
    <2> QED BY <1>5, <2>1
  <1>8. ASSUME NEW r \in Runs, Start(r) PROVE Rest'
    <2>1. PICK m \in Modes : mode' = [mode EXCEPT ![r] = m] BY <1>8 DEF Start
    <2>2. /\ phase[r] = "idle" /\ lock = NoRun /\ lock' = r
          /\ phase' = [phase EXCEPT ![r] = "working"]
          /\ UNCHANGED <<current, observed, work>>
      BY <1>8 DEF Start, LockFree, revVars, syncVars
    <2>3. \A q \in Runs : ~Busy(q) BY <1>2, <1>3, <2>2
    <2>4. \A q \in Runs : Busy(q)' <=> q = r BY <1>2, <2>2, <2>3 DEF Busy
    <2>5. \A l \in Laws : Informed(r, l)'
      BY <1>3, <2>2 DEF Informed, Fresh
    <2>6. \A q \in Runs : phase'[q] = "idle" => phase[q] = "idle"
      BY <1>2, <2>2
    <2>7. ObservedIsCurrent' BY <1>3, <2>2 DEF ObservedIsCurrent
    <2> QED BY <1>3, <2>2, <2>4, <2>5, <2>6, <2>7
  <1>9. ASSUME NEW r \in Runs, Refuse(r) PROVE Rest'
    <2>1. /\ phase[r] = "idle" /\ phase' = [phase EXCEPT ![r] = "refused"]
          /\ UNCHANGED <<current, observed, lock, mode, work>>
      BY <1>9 DEF Refuse, dbVars, revVars, syncVars
    <2>2. \A q \in Runs : /\ Busy(q)' <=> Busy(q)
                          /\ phase'[q] = "idle" => phase[q] = "idle"
      BY <1>2, <2>1 DEF Busy
    <2> QED BY <1>3, <2>1, <2>2 DEF Informed, ObservedIsCurrent
  <1>10. ASSUME NEW r \in Runs, CompleteRun(r) \/ AbortRun(r) PROVE Rest'
    <2>1. /\ phase[r] = "working" /\ phase' = [phase EXCEPT ![r] = "unlocking"]
          /\ UNCHANGED <<current, observed, lock, mode, work>>
      BY <1>10 DEF CompleteRun, AbortRun, AllLawsDone, dbVars, revVars, syncVars
    <2>2. \A q \in Runs : /\ Busy(q)' <=> Busy(q)
                          /\ phase'[q] = "idle" => phase[q] = "idle"
      BY <1>2, <2>1 DEF Busy
    <2> QED BY <1>3, <2>1, <2>2 DEF Informed, ObservedIsCurrent
  <1>11. ASSUME NEW r \in Runs, Unlock(r) \/ Crash(r) PROVE Rest'
    <2>1. /\ Busy(r)
          /\ phase' = [phase EXCEPT ![r] = "done"] \/ phase' = [phase EXCEPT ![r] = "crashed"]
          /\ lock' = IF lock = r THEN NoRun ELSE lock
          /\ UNCHANGED <<current, observed, mode>>
          /\ \A q \in Runs, l \in Laws : q # r => work'[q][l] = work[q][l]
      BY <1>2, <1>11 DEF Unlock, Crash, Busy, dbVars, revVars, syncVars
    <2>2. lock = r /\ lock' = NoRun BY <1>3, <2>1
    <2>3. /\ ~Busy(r)' /\ phase'[r] # "idle"
          /\ \A q \in Runs \ {r} : phase'[q] = phase[q] /\ ~Busy(q)
      BY <1>2, <1>3, <2>1, <2>2 DEF Busy
    <2>4. \A q \in Runs : ~Busy(q)' BY <2>3 DEF Busy
    <2>5. \A q \in Runs : phase'[q] = "idle" => \A l \in Laws : work'[q][l] = Fresh
      BY <1>3, <2>1, <2>3
    <2>6. ObservedIsCurrent' BY <1>3, <2>1 DEF ObservedIsCurrent
    <2> QED BY <1>2, <2>2, <2>4, <2>5, <2>6
  <1>12. ASSUME NEW r \in Runs, NEW l \in Laws,
                LawStep(r, l) \/ Fault(r, l) \/ RecordUnchangedTorn(r, l)
         PROVE  Rest'
    <2>1. SyncStep(r, l) BY SMTT(40), <1>12, SyncWorker
    <2>2. phase[r] = "working"
      BY <1>12 DEF LawStep, Fault, RecordUnchangedTorn, At, BeginLaw, ReadSync,
           QueryUnchanged, QueryChanged, RecordUnchanged, FetchXml, StoreXml,
           StoreConflict, VerifyPublishable, VerifyHeld, StageBegin, StageCommit,
           StageRejected, Activate, ActivateRefused
    <2>3. Busy(r) /\ lock = r /\ \A q \in Runs : q # r => ~Busy(q)
      BY <1>3, <2>2 DEF Busy
    <2>4. \A q \in Runs : Busy(q)' <=> Busy(q) BY <2>1 DEF SyncStep, Busy
    <2>5. \A q \in Runs, m \in Laws : Busy(q)' => Informed(q, m)'
      <3> SUFFICES ASSUME NEW q \in Runs, NEW m \in Laws, Busy(q)'
                   PROVE  Informed(q, m)'
        OBVIOUS
      <3>1. q = r BY <2>3, <2>4
      <3>2. CASE m = l BY <2>1, <3>1, <3>2 DEF SyncStep
      <3>3. CASE m # l
        <4>1. Informed(r, m) BY <1>3, <2>3
        <4>2. /\ work'[r][m] = work[r][m] /\ current'[m] = current[m]
              /\ observed'[m] = observed[m] /\ mode' = mode
          BY <2>1, <3>3 DEF SyncStep
        <4> QED BY <3>1, <4>1, <4>2 DEF Informed
      <3> QED BY <3>2, <3>3
    <2>6. ObservedIsCurrent' BY <1>3, <2>1 DEF SyncStep, ObservedIsCurrent
    <2>7. \A q \in Runs : phase'[q] = "idle" => \A m \in Laws : work'[q][m] = Fresh
      BY <1>3, <2>1, <2>2 DEF SyncStep
    <2>8. lock' = lock BY <2>1 DEF SyncStep
    <2> QED BY <1>3, <2>4, <2>5, <2>6, <2>7, <2>8
  <1> QED BY <1>6, <1>7, <1>8, <1>9, <1>10, <1>11, <1>12 DEF Next, RunStep

THEOREM SyncInvariant == Spec => []SyncInv
BY SyncInit, SyncNext, PTL DEF Spec

(***************************************************************************)
(* While the lock holds, a law is never recorded as observed at a version  *)
(* it does not show, so that the shortcut for an unchanged version is safe *)
(* (ObservedIsCurrent in RefreshAnyStart).                                 *)
(***************************************************************************)
THEOREM ObservedVersionIsCurrent == Spec => []ObservedIsCurrent
  <1>1. SyncInv => ObservedIsCurrent BY DEF SyncInv
  <1> QED BY <1>1, SyncInvariant, PTL

(***************************************************************************)
(* While the lock holds, a run reports of every law what the database says *)
(* of it, whatever failed on the way (ReportMatchesDatabase in             *)
(* RefreshAnyStart).                                                       *)
(***************************************************************************)
THEOREM ReportIsTrue == Spec => []ReportMatchesDatabase
  <1>1. SyncInv => ReportMatchesDatabase
    BY DEF SyncInv, Busy, Informed, ReportMatchesDatabase
  <1> QED BY <1>1, SyncInvariant, PTL

-----------------------------------------------------------------------------
(***************************************************************************)
(* The package of the revision on show.                                    *)
(***************************************************************************)

\* Where a worker goes when e-Gov answered with another version than the one observed.
Ahead == {"fetch", "fetched", "stored", "stage", "staging", "staged"}

\* What one worker's step leaves of the version it is about to publish.
LEMMA AheadSteps ==
    ASSUME TypeOK, NEW r \in Runs, NEW l \in Laws,
           LawStep(r, l) \/ Fault(r, l) \/ RecordUnchangedTorn(r, l)
    PROVE  \/ work'[r][l].pc \notin Ahead
           \/ /\ work[r][l].pc = "ready" /\ work'[r][l].pc = "fetch"
              /\ work'[r][l].key = AnswerFor(r, l) /\ AnswerFor(r, l) # work[r][l].obs
           \/ /\ work[r][l].pc \in Ahead /\ work'[r][l].key = work[r][l].key
              /\ work'[r][l].pc \in Ahead
              /\ work'[r][l].pc = "staged" => StageCommit(r, l)
  <1> DEFINE w == work[r][l]
  <1> USE DEF Ahead
  <1>1. w \in Work BY DEF TypeOK
  <1>2. CASE BeginLaw(r, l) \/ ReadSync(r, l)
    <2> DEFINE n == [w EXCEPT !.pc = "prevRead", !.prev = current[l]]
               u == [w EXCEPT !.pc = "ready", !.obs = observed[l]]
    <2>1. work' = [work EXCEPT ![r][l] = n] \/ work' = [work EXCEPT ![r][l] = u]
      BY <1>2 DEF BeginLaw, ReadSync
    <2>2. n.pc = "prevRead" /\ u.pc = "ready" BY <1>1, WorkEffect
    <2> HIDE DEF n, u
    <2> QED BY <2>1, <2>2, OwnRecord
  <1>3. CASE QueryUnchanged(r, l)
    <2> DEFINE n(p, o) == [w EXCEPT !.key = AnswerFor(r, l), !.obs = 0, !.pc = p, !.outcome = o]
    <2>1. \/ work' = [work EXCEPT ![r][l] = n("done", "unchanged")]
          \/ work' = [work EXCEPT ![r][l] = n("unchanged", "none")]
      BY <1>3 DEF QueryUnchanged
    <2>2. \A p, o : n(p, o).pc = p BY <1>1, WorkEffect
    <2> HIDE DEF n
    <2>3. work'[r][l] = n("done", "unchanged") \/ work'[r][l] = n("unchanged", "none")
      BY <2>1, OwnRecord
    <2> QED BY <2>2, <2>3
  <1>4. CASE QueryChanged(r, l)
    <2> DEFINE n(p, o) == [w EXCEPT !.key = AnswerFor(r, l), !.obs = 0, !.pc = p, !.outcome = o]
    <2>1. /\ w.pc = "ready" /\ AnswerFor(r, l) # w.obs
          /\ \/ work' = [work EXCEPT ![r][l] = n("done", "updated")]
             \/ work' = [work EXCEPT ![r][l] = n("fetch", "none")]
      BY <1>4 DEF QueryChanged, At
    <2>2. \A p, o : n(p, o).pc = p /\ n(p, o).key = AnswerFor(r, l) BY <1>1, WorkEffect
    <2> HIDE DEF n
    <2>3. work'[r][l] = n("done", "updated") \/ work'[r][l] = n("fetch", "none")
      BY <2>1, OwnRecord
    <2> QED BY <2>1, <2>2, <2>3
  <1>5. CASE FetchXml(r, l)
    <2> DEFINE n == [w EXCEPT !.pc = "fetched", !.xml = DocumentFor(r, l)]
    <2>1. w.pc = "fetch" /\ work' = [work EXCEPT ![r][l] = n] BY <1>5 DEF FetchXml, At
    <2>2. n.pc = "fetched" /\ n.key = w.key BY <1>1, WorkEffect
    <2> HIDE DEF n
    <2> QED BY <2>1, <2>2, OwnRecord
  <1>6. CASE StageBegin(r, l)
    <2> DEFINE n == [w EXCEPT !.pc = "staging", !.sawPackage = pkgStatus[r] # "none"]
    <2>1. w.pc = "stage" /\ work' = [work EXCEPT ![r][l] = n] BY <1>6 DEF StageBegin, At
    <2>2. n.pc = "staging" /\ n.key = w.key BY <1>1, WorkEffect
    <2> HIDE DEF n
    <2> QED BY <2>1, <2>2, OwnRecord
  <1>7. ASSUME NEW p \in {"stored", "stage", "staged"}, Goto(r, l, p)
        PROVE  work'[r][l].pc = p /\ work'[r][l].key = w.key
    <2> DEFINE n == [w EXCEPT !.pc = p]
    <2>1. work' = [work EXCEPT ![r][l] = n] BY <1>7 DEF Goto
    <2>2. n.pc = p /\ n.key = w.key BY <1>1, WorkEffect
    <2> HIDE DEF n
    <2> QED BY <2>1, <2>2, OwnRecord
  <1>8. CASE StoreXml(r, l) \/ VerifyPublishable(r, l)
    <2>1. /\ w.pc \in {"fetched", "stored"}
          /\ Finish(r, l, "updated") \/ Goto(r, l, "stored") \/ Goto(r, l, "stage")
      BY <1>8 DEF StoreXml, VerifyPublishable, At
    <2> QED BY <1>7, <2>1, FinishedRecord
  <1>9. CASE StageCommit(r, l)
    <2>1. w.pc = "staging" /\ Goto(r, l, "staged") BY <1>9 DEF StageCommit, At
    <2> QED BY <1>7, <1>9, <2>1
  <1>10. CASE \/ RecordUnchanged(r, l) \/ RecordUnchangedTorn(r, l) \/ VerifyHeld(r, l)
              \/ Activate(r, l) \/ StoreConflict(r, l) \/ StageRejected(r, l)
              \/ ActivateRefused(r, l) \/ Fault(r, l)
    <2>1. \E o : Finish(r, l, o)
      BY <1>10 DEF RecordUnchanged, RecordUnchangedTorn, VerifyHeld, Activate,
         StoreConflict, StageRejected, ActivateRefused, Fault, LawFails
    <2> QED BY <2>1, FinishedRecord
  <1> QED BY <1>2, <1>3, <1>4, <1>5, <1>6, <1>8, <1>9, <1>10 DEF LawStep

\* The package of the revision on show, if a run made it, is that of a run which
\* counts the law as updated and which publishes the package when it is closed.
Owned(r, l) ==
    /\ result[r][l] = "updated"
    /\ pkgStatus[r] # "none"
    /\ phase[r] # "idle"
    /\ phase[r] = "working" => work[r][l].pc = "done"
    /\ runRow[r] # "running" => pkgStatus[r] = "published"

\* What a run under way is about to publish is not on show, and is in its package.
Coming(r, l) ==
    LET w == work[r][l] IN
    /\ w.pc \in Ahead => w.key # current[l] /\ w.key \in Versions
    /\ w.pc = "staged" => pkgOf[l][w.key] = r /\ pkgStatus[r] # "none"

(***************************************************************************)
(* The inductive invariant, for laws that a check has recorded before.     *)
(***************************************************************************)
PackageInv ==
    /\ SyncInv
    /\ \A l \in Laws : observed[l] = current[l] /\ current[l] # 0
    /\ \A r \in Runs : phase[r] = "working" => runRow[r] = "running"
    /\ \A r \in Runs, l \in Laws : Busy(r) => Coming(r, l)
    /\ \A r \in Runs, l \in Laws : pkgOf[l][current[l]] = r => Owned(r, l)

LEMMA PackageInit == InitKinds = {"synced"} /\ Init => PackageInv
  <1> SUFFICES ASSUME InitKinds = {"synced"}, Init PROVE PackageInv OBVIOUS
  <1>1. SyncInv BY SyncInit
  <1>2. PICK kind \in [Laws -> InitKinds] :
          /\ current = [l \in Laws |-> IF kind[l] = "empty" THEN 0 ELSE 1]
          /\ observed = [l \in Laws |-> IF kind[l] = "synced" THEN 1 ELSE 0]
    BY DEF Init
  <1>3. \A l \in Laws : observed[l] = 1 /\ current[l] = 1 BY <1>2
  <1>4. \A r \in Runs : ~Busy(r) /\ phase[r] # "working" BY DEF Init, Busy
  <1>5. \A l \in Laws : pkgOf[l][current[l]] = NoRun
    BY <1>3, Constants DEF Init, Versions
  <1> QED BY <1>1, <1>3, <1>4, <1>5, Constants DEF PackageInv

\* A worker's step that moves no pointer and no package.
LEMMA PackageLocal ==
    ASSUME PackageInv, SyncInv', NEW r \in Runs, NEW l \in Laws,
           phase[r] = "working", work[r][l].pc # "done",
           UNCHANGED <<current, pkgOf, pkgStatus, runRow, phase>>,
           \A m \in Laws : observed'[m] = observed[m],
           \A q \in Runs, m \in Laws : q # r \/ m # l =>
              work'[q][m] = work[q][m] /\ result'[q][m] = result[q][m],
           Coming(r, l)'
    PROVE  PackageInv'
  <1>1. \A m \in Laws : observed'[m] = current'[m] /\ current'[m] # 0 BY DEF PackageInv
  <1>2. \A q \in Runs, m \in Laws : Busy(q)' => Coming(q, m)'
    BY DEF PackageInv, Busy, Coming
  <1>3. ASSUME NEW q \in Runs, NEW m \in Laws, pkgOf'[m][current'[m]] = q
        PROVE  Owned(q, m)'
    <2>1. Owned(q, m) BY <1>3 DEF PackageInv
    <2>2. q # r \/ m # l BY <2>1 DEF Owned
    <2> QED BY <2>1, <2>2 DEF Owned
  <1> QED BY <1>1, <1>2, <1>3 DEF PackageInv

LEMMA PackageWorker ==
    ASSUME PackageInv, SyncInv', NEW r \in Runs, NEW l \in Laws,
           LawStep(r, l) \/ Fault(r, l) \/ RecordUnchangedTorn(r, l)
    PROVE  PackageInv'
  <1> DEFINE w == work[r][l]
  <1>1. SyncInv /\ TypeOK BY DEF PackageInv, SyncInv
  <1>2. /\ SyncStep(r, l)
        /\ \A q \in Runs, m \in Laws : q # r \/ m # l => work'[q][m] = work[q][m]
        /\ \A m \in Laws \ {l} : current'[m] = current[m] /\ observed'[m] = observed[m]
        /\ UNCHANGED <<lock, phase, mode>>
    BY SMTT(40), <1>1, SyncWorker DEF SyncStep
  <1>3. /\ phase[r] = "working" /\ w.pc # "done"
    BY DEF LawStep, Fault, RecordUnchangedTorn, At, BeginLaw, ReadSync,
           QueryUnchanged, QueryChanged, RecordUnchanged, FetchXml, StoreXml,
           StoreConflict, VerifyPublishable, VerifyHeld, StageBegin, StageCommit,
           StageRejected, Activate, ActivateRefused, InFlight
  <1>4. Busy(r) /\ Coming(r, l) /\ Informed(r, l)
    BY <1>1, <1>3 DEF Busy, PackageInv, SyncInv
  <1>5. /\ result \in [Runs -> [Laws -> ResultStatus]]
        /\ observed \in [Laws -> 0..MaxVersion]
        /\ current \in [Laws -> 0..MaxVersion]
        /\ pkgOf \in [Laws -> [Versions -> Runs \cup {NoRun}]]
        /\ pkgStatus \in [Runs -> {"none", "verified", "published", "rejected"}]
        /\ NoRun \notin Runs
    BY <1>1, Constants DEF TypeOK
  <1>6. CASE StageCommit(r, l)
    <2>1. PICK k : k = w.key OBVIOUS
    <2>2. /\ w.pc = "staging" /\ UNCHANGED <<current, observed, runRow, result>>
          /\ pkgOf' = [pkgOf EXCEPT ![l][k] = r]
          /\ pkgStatus' = [pkgStatus EXCEPT ![r] = "verified"] \/ pkgStatus' = pkgStatus
          /\ pkgStatus[r] = "none" => pkgStatus' = [pkgStatus EXCEPT ![r] = "verified"]
          /\ pkgStatus[r] # "none" => pkgStatus' = pkgStatus
      BY <1>6, <2>1 DEF StageCommit, At, syncVars
    <2>3. k # current[l] /\ k \in Versions BY <1>4, <2>1, <2>2 DEF Coming, Ahead
    <2>4. /\ pkgOf'[l][k] = r
          /\ \A m \in Laws : current[m] \in Versions => pkgOf'[m][current[m]] = pkgOf[m][current[m]]
      BY <1>5, <2>2, <2>3
    <2>5. /\ pkgStatus'[r] # "none"
          /\ \A q \in Runs : pkgStatus[q] # "none" => pkgStatus'[q] = pkgStatus[q]
      BY <1>5, <2>2
    <2>6. \A m \in Laws : observed'[m] = current'[m] /\ current'[m] # 0
      BY <2>2 DEF PackageInv
    <2>7. work'[r][l].pc \in Ahead => work'[r][l].key = k
      BY <1>1, <2>1, <2>2, AheadSteps
    <2>8. Coming(r, l)' BY <2>2, <2>3, <2>4, <2>5, <2>7 DEF Coming, Ahead
    <2>9. ASSUME NEW q \in Runs, NEW m \in Laws, Busy(q)' PROVE Coming(q, m)'
      <3>1. q = r BY <1>1, <1>2, <1>4, <2>9 DEF SyncInv, Busy
      <3>2. CASE m = l BY <2>8, <3>1, <3>2
      <3>3. CASE m # l
        <4>1. Coming(r, m) BY <1>4 DEF PackageInv
        <4>2. work'[r][m] = work[r][m] /\ pkgOf'[m] = pkgOf[m] /\ current'[m] = current[m]
          BY <1>2, <1>5, <2>2, <3>3
        <4> QED BY <2>5, <3>1, <4>1, <4>2 DEF Coming
      <3> QED BY <3>2, <3>3
    <2>10. ASSUME NEW q \in Runs, NEW m \in Laws, pkgOf'[m][current'[m]] = q
           PROVE  Owned(q, m)'
      <3>1. current[m] \in Versions BY <1>5, Constants DEF PackageInv, Versions
      <3>2. Owned(q, m) BY <2>2, <2>4, <2>10, <3>1 DEF PackageInv
      <3>3. q # r \/ m # l BY <1>3, <3>2 DEF Owned
      <3> QED BY <1>2, <2>2, <2>5, <3>2, <3>3 DEF Owned
    <2> QED BY <1>2, <2>2, <2>6, <2>9, <2>10 DEF PackageInv
  <1>7. CASE Activate(r, l)
    <2>1. PICK k : k = w.key OBVIOUS
    <2>2. /\ w.pc = "staged" /\ UNCHANGED <<pkgOf, pkgStatus, runRow>>
          /\ current' = [current EXCEPT ![l] = k]
          /\ observed' = [observed EXCEPT ![l] = k]
          /\ result' = [result EXCEPT ![r][l] = "updated"]
          /\ Finish(r, l, "updated")
      BY <1>7, <2>1 DEF Activate, At
    <2>3. k \in Versions /\ pkgOf[l][k] = r /\ pkgStatus[r] # "none"
      BY <1>4, <2>1, <2>2 DEF Coming, Ahead
    <2>4. work'[r][l].pc = "done" BY <1>1, <2>2, FinishedRecord
    <2>5. /\ current'[l] = k /\ observed'[l] = k /\ result'[r][l] = "updated"
          /\ \A q \in Runs, m \in Laws : q # r \/ m # l => result'[q][m] = result[q][m]
      BY <1>5, <2>2
    <2>6. runRow[r] = "running"
      BY <1>3 DEF PackageInv
    <2>7. \A m \in Laws : observed'[m] = current'[m] /\ current'[m] # 0
      BY <1>2, <2>3, <2>5, Constants DEF PackageInv, Versions
    <2>8. ASSUME NEW q \in Runs, NEW m \in Laws, Busy(q)' PROVE Coming(q, m)'
      <3>1. q = r BY <1>1, <1>2, <1>4, <2>8 DEF SyncInv, Busy
      <3>2. CASE m = l BY <2>4, <3>1, <3>2 DEF Coming, Ahead
      <3>3. CASE m # l
        <4>1. Coming(r, m) BY <1>4 DEF PackageInv
        <4> QED BY <1>2, <2>2, <3>1, <3>3, <4>1 DEF Coming
      <3> QED BY <3>2, <3>3
    <2>9. ASSUME NEW q \in Runs, NEW m \in Laws, pkgOf'[m][current'[m]] = q
          PROVE  Owned(q, m)'
      <3>1. CASE m = l
        <4>1. q = r BY <2>2, <2>3, <2>5, <2>9, <3>1
        <4> QED BY <1>2, <1>3, <2>2, <2>3, <2>4, <2>5, <2>6, <3>1, <4>1 DEF Owned
      <3>2. CASE m # l
        <4>1. Owned(q, m) BY <1>2, <2>2, <2>9, <3>2 DEF PackageInv
        <4> QED BY <1>2, <2>2, <2>5, <3>2, <4>1 DEF Owned
      <3> QED BY <3>1, <3>2
    <2> QED BY <1>2, <2>2, <2>7, <2>8, <2>9 DEF PackageInv
  <1>8. CASE ~StageCommit(r, l) /\ ~Activate(r, l)
    <2>1. UNCHANGED <<current, pkgOf, pkgStatus, runRow>>
      BY <1>8 DEF LawStep, Fault, RecordUnchangedTorn, BeginLaw, ReadSync,
           QueryUnchanged, QueryChanged, RecordUnchanged, FetchXml, StoreXml,
           StoreConflict, VerifyPublishable, VerifyHeld, StageBegin,
           StageRejected, ActivateRefused, LawFails, dbVars, revVars, syncVars, runVars
    <2>2. \/ UNCHANGED observed
          \/ w.pc = "unchanged" /\ observed' = [observed EXCEPT ![l] = w.key]
      BY <1>8 DEF LawStep, Fault, RecordUnchangedTorn, BeginLaw, ReadSync,
           QueryUnchanged, QueryChanged, RecordUnchanged, FetchXml, StoreXml,
           StoreConflict, VerifyPublishable, VerifyHeld, StageBegin,
           StageRejected, ActivateRefused, LawFails, At, dbVars, revVars, syncVars, runVars
    <2>3. \A m \in Laws : observed'[m] = observed[m]
      <3>1. CASE UNCHANGED observed BY <3>1
      <3>2. CASE w.pc = "unchanged" /\ observed' = [observed EXCEPT ![l] = w.key]
        <4>1. w.key = observed[l] BY <1>4, <3>2 DEF Informed
        <4>2. PICK k : k = w.key OBVIOUS
        <4>3. observed' = [observed EXCEPT ![l] = k] /\ k = observed[l] BY <3>2, <4>1, <4>2
        <4> QED BY ONLY <1>5, <4>3, l \in Laws
      <3> QED BY <2>2, <3>1, <3>2
    <2>4. UNCHANGED result \/ \E o : result' = [result EXCEPT ![r][l] = o]
      BY <1>8 DEF LawStep, Fault, RecordUnchangedTorn, BeginLaw, ReadSync,
           QueryUnchanged, QueryChanged, RecordUnchanged, FetchXml, StoreXml,
           StoreConflict, VerifyPublishable, VerifyHeld, StageBegin,
           StageRejected, ActivateRefused, LawFails, dbVars, revVars, syncVars, runVars
    <2>5. \A q \in Runs, m \in Laws : q # r \/ m # l => result'[q][m] = result[q][m]
      BY <1>5, <2>4
    <2>6. Coming(r, l)'
      <3>1. CASE work'[r][l].pc \notin Ahead BY <3>1 DEF Coming, Ahead
      <3>2. CASE /\ w.pc = "ready" /\ work'[r][l].pc = "fetch"
                 /\ work'[r][l].key = AnswerFor(r, l) /\ AnswerFor(r, l) # w.obs
        <4>1. w.obs = current[l] BY <1>4, <3>2 DEF Informed, PackageInv
        <4>2. AnswerFor(r, l) \in Versions BY <1>1, AnswerType
        <4> QED BY <2>1, <3>2, <4>1, <4>2 DEF Coming
      <3>3. CASE /\ w.pc \in Ahead /\ work'[r][l].key = w.key
                 /\ work'[r][l].pc # "staged"
        BY <1>4, <2>1, <3>3 DEF Coming, Versions
      <3> QED BY <1>1, <1>8, <3>1, <3>2, <3>3, AheadSteps
    <2> QED BY <1>2, <1>3, <2>1, <2>3, <2>5, <2>6, PackageLocal
  <1> QED BY <1>6, <1>7, <1>8

LEMMA PackageNext == PackageInv /\ [Next]_vars => PackageInv'
  <1> SUFFICES ASSUME PackageInv, [Next]_vars PROVE PackageInv' OBVIOUS
  <1>1. SyncInv /\ SyncInv' BY SyncNext DEF PackageInv
  <1>2. TypeOK BY <1>1 DEF SyncInv
  <1>3. /\ phase \in [Runs -> {"idle", "refused", "working", "unlocking", "done",
                              "crashed"}]
        /\ runRow \in [Runs -> {"none", "running", "succeeded", "partial", "failed"}]
        /\ pkgStatus \in [Runs -> {"none", "verified", "published", "rejected"}]
        /\ work \in [Runs -> [Laws -> Work]]
    BY <1>2 DEF TypeOK
  \* A step that leaves the rows of the laws alone.
  <1>4. ASSUME UNCHANGED <<current, observed, pkgOf, result>>,
               \A r \in Runs, l \in Laws : Busy(r)' => Coming(r, l)',
               \A r \in Runs, l \in Laws : Owned(r, l) => Owned(r, l)',
               \A r \in Runs : phase'[r] = "working" => runRow'[r] = "running"
        PROVE  PackageInv'
    BY <1>1, <1>4 DEF PackageInv
  <1>5. CASE UNCHANGED <<current, observed, pkgOf, result, phase, pkgStatus, runRow, work>>
    BY <1>4, <1>5 DEF Busy, Coming, Owned, PackageInv
  <1>6. CASE UNCHANGED vars
    <2>1. UNCHANGED <<current, observed, pkgOf, result, phase, pkgStatus, runRow, work>>
      BY <1>6 DEF vars, revVars, syncVars, runVars, procVars
    <2> QED BY <1>5, <2>1
  <1>7. ASSUME NEW l \in Laws, Amend(l) \/ Correct(l) PROVE PackageInv'
    <2>1. UNCHANGED <<current, observed, pkgOf, result, phase, pkgStatus, runRow, work>>
      BY <1>7 DEF Amend, Correct, dbVars, revVars, syncVars, runVars, procVars
    <2> QED BY <1>5, <2>1
  <1>8. ASSUME NEW r \in Runs, Start(r) PROVE PackageInv'
    <2>1. /\ phase[r] = "idle" /\ phase' = [phase EXCEPT ![r] = "working"]
          /\ runRow' = [runRow EXCEPT ![r] = "running"]
          /\ UNCHANGED <<current, observed, pkgOf, result, pkgStatus, work>>
      BY <1>8 DEF Start, revVars, syncVars
    <2>2. \A l \in Laws : work[r][l].pc = "todo" BY <1>1, <2>1 DEF SyncInv, Fresh
    <2>3. \A l \in Laws : Coming(r, l)' BY <2>1, <2>2 DEF Coming, Ahead
    <2>4. \A q \in Runs : q # r => phase'[q] = phase[q] /\ runRow'[q] = runRow[q]
      BY <1>3, <2>1
    <2>5. \A q \in Runs, l \in Laws : Busy(q)' => Coming(q, l)'
      BY <2>1, <2>3, <2>4 DEF Busy, Coming, PackageInv
    <2>6. \A q \in Runs, l \in Laws : Owned(q, l) => Owned(q, l)'
      BY <2>1, <2>4 DEF Owned
    <2>7. \A q \in Runs : phase'[q] = "working" => runRow'[q] = "running"
      BY <1>3, <2>1, <2>4 DEF PackageInv
    <2> QED BY <1>4, <2>1, <2>5, <2>6, <2>7
  <1>9. ASSUME NEW r \in Runs, Refuse(r) \/ AbortRun(r) \/ Unlock(r) PROVE PackageInv'
    <2>1. /\ \/ phase[r] = "idle" /\ phase' = [phase EXCEPT ![r] = "refused"]
             \/ phase[r] = "working" /\ phase' = [phase EXCEPT ![r] = "unlocking"]
             \/ phase[r] = "unlocking" /\ phase' = [phase EXCEPT ![r] = "done"]
          /\ UNCHANGED <<current, observed, pkgOf, result, pkgStatus, work, runRow>>
      BY <1>9 DEF Refuse, AbortRun, AllLawsDone, Unlock, dbVars, revVars, syncVars, runVars
    <2>2. \A q \in Runs : /\ Busy(q)' => Busy(q)
                          /\ phase'[q] = "working" => phase[q] = "working"
                          /\ phase'[q] = "idle" => phase[q] = "idle"
      BY <1>3, <2>1 DEF Busy
    <2>3. \A q \in Runs, l \in Laws : Busy(q)' => Coming(q, l)'
      BY <2>1, <2>2 DEF Coming, PackageInv
    <2>4. \A q \in Runs, l \in Laws : Owned(q, l) => Owned(q, l)'
      BY <2>1, <2>2 DEF Owned
    <2>5. \A q \in Runs : phase'[q] = "working" => runRow'[q] = "running"
      BY <2>1, <2>2 DEF PackageInv
    <2> QED BY <1>4, <2>1, <2>3, <2>4, <2>5
  <1>10. ASSUME NEW r \in Runs, Crash(r) PROVE PackageInv'
    <2>1. /\ phase[r] \in {"working", "unlocking"} /\ phase' = [phase EXCEPT ![r] = "crashed"]
          /\ work' = [work EXCEPT ![r] = [l \in Laws |-> Fresh]]
          /\ UNCHANGED <<current, observed, pkgOf, result, pkgStatus, runRow>>
      BY <1>10 DEF Crash, dbVars, revVars, syncVars, runVars
    <2>2. /\ phase'[r] = "crashed"
          /\ \A q \in Runs : q # r => phase'[q] = phase[q] /\ work'[q] = work[q]
      BY <1>3, <2>1
    <2>3. \A q \in Runs, l \in Laws : Busy(q)' => Coming(q, l)'
      BY <2>1, <2>2 DEF Busy, Coming, PackageInv
    <2>4. \A q \in Runs, l \in Laws : Owned(q, l) => Owned(q, l)'
      BY <2>1, <2>2 DEF Owned
    <2>5. \A q \in Runs : phase'[q] = "working" => runRow'[q] = "running"
      BY <2>1, <2>2 DEF PackageInv
    <2> QED BY <1>4, <2>1, <2>3, <2>4, <2>5
  <1>11. ASSUME NEW r \in Runs, CompleteRun(r) PROVE PackageInv'
    <2>1. /\ phase[r] = "working" /\ phase' = [phase EXCEPT ![r] = "unlocking"]
          /\ runRow' = [runRow EXCEPT ![r] = RunStatus(r)]
          /\ pkgStatus' = [pkgStatus EXCEPT ![r] = PackageStatus(r)]
          /\ UNCHANGED <<current, observed, pkgOf, result, work>>
      BY <1>11 DEF CompleteRun, AllLawsDone, revVars, syncVars
    <2>2. /\ phase'[r] = "unlocking"
          /\ pkgStatus'[r] = PackageStatus(r)
          /\ \A q \in Runs : q # r => /\ phase'[q] = phase[q] /\ runRow'[q] = runRow[q]
                                      /\ pkgStatus'[q] = pkgStatus[q]
      BY <1>3, <2>1
    <2>3. pkgStatus[r] # "none" => PackageStatus(r) # "none" BY DEF PackageStatus
    <2>4. \A q \in Runs, l \in Laws : Busy(q)' => Coming(q, l)'
      BY <2>1, <2>2, <2>3 DEF Busy, Coming, PackageInv
    <2>5. \A l \in Laws : Owned(r, l) => PackageStatus(r) = "published"
      BY DEF Owned, PackageStatus, Recorded
    <2>6. \A q \in Runs, l \in Laws : Owned(q, l) => Owned(q, l)'
      BY <2>1, <2>2, <2>5 DEF Owned
    <2>7. \A q \in Runs : phase'[q] = "working" => runRow'[q] = "running"
      BY <2>1, <2>2 DEF PackageInv
    <2> QED BY <1>4, <2>1, <2>4, <2>6, <2>7
  <1>12. ASSUME NEW r \in Runs, NEW l \in Laws,
                LawStep(r, l) \/ Fault(r, l) \/ RecordUnchangedTorn(r, l)
         PROVE  PackageInv'
    BY <1>1, <1>12, PackageWorker
  <1> QED BY <1>6, <1>7, <1>8, <1>9, <1>10, <1>11, <1>12 DEF Next, RunStep

(***************************************************************************)
(* Where a check has recorded every law before, the revision a law shows   *)
(* is in a published package as soon as the run of the package is closed   *)
(* (CurrentIsInPublishedPackage in RefreshSynced).                         *)
(***************************************************************************)
THEOREM CurrentRevisionIsPublished ==
    InitKinds = {"synced"} /\ Spec => []CurrentIsInPublishedPackage
  <1>1. PackageInv => CurrentIsInPublishedPackage
    <2> SUFFICES ASSUME PackageInv, NEW l \in Laws, current[l] # 0,
                        pkgOf[l][current[l]] # NoRun,
                        runRow[pkgOf[l][current[l]]] # "running"
                 PROVE  pkgStatus[pkgOf[l][current[l]]] = "published"
      BY DEF CurrentIsInPublishedPackage
    <2>1. current[l] \in Versions BY Constants DEF PackageInv, SyncInv, TypeOK, Versions
    <2>2. PICK r \in Runs : r = pkgOf[l][current[l]]
      BY <2>1 DEF PackageInv, SyncInv, TypeOK
    <2> QED BY <2>2 DEF PackageInv, Owned
  <1> QED BY <1>1, PackageInit, PackageNext, PTL DEF Spec
=============================================================================
