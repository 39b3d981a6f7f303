---------------------------- MODULE DeployProofs ----------------------------
(***************************************************************************)
(* Theorems about packaging, the launch commands and the update commands   *)
(* for any number of versions, artifacts, shells and plans, and for every  *)
(* bound on runs, changes from outside and commands.                       *)
(***************************************************************************)
EXTENDS MCDeploy, FiniteSetTheorems, TLAPS

Tasks ==
    [at : {"idle", "clear", "stage", "venv", "pip", "freeze", "lock", "prove", "compare",
           "confirm", "activate", "record"},
     op : {"none", "install", "rollback"}, v : Versions \cup {None}, a : Artifacts \cup {None},
     existed : BOOLEAN, digest : Artifacts \cup {None}, frozen : Environments \cup {None},
     touched : BOOLEAN]

Bounds == [runs : Nat, overlap : BOOLEAN, touches : Nat, commands : Nat]

PackTypeOK ==
    /\ staged \in [Versions -> Artifacts \cup {None}]
    /\ venv \in [Versions -> Environments \cup {None}]
    /\ python \in [Versions -> Pythons \cup {None}]
    /\ locks \in [Versions -> Lockfiles \cup {None}]
    /\ shared \subseteq Versions
    /\ written \in Nat
    /\ current \in Versions \cup {None}
    /\ installed \subseteq Versions
    /\ left \in Bounds
    /\ pk \in [Packagers -> Tasks]

\* Where a packager stands: its operation, its version and what it has in hand.
TaskOK(t) ==
    /\ t.at # "idle" => t.v \in Versions /\ t.op \in {"install", "rollback"}
    /\ t.at = "idle" => t.v = None
    /\ t.at \in {"clear", "stage", "freeze", "lock"} => t.op = "install"
    /\ t.at \in {"prove", "compare", "confirm"} => t.op = "rollback"
    /\ t.op = "install" => t.a \in Artifacts
    /\ t.at \in {"venv", "pip", "freeze", "lock"} /\ t.op = "install" => t.digest = t.a
    /\ t.at = "lock" => t.frozen \in Environments

PackInv == PackTypeOK /\ \A k \in Packagers : TaskOK(pk[k])

Building == {"clear", "stage", "venv", "pip", "freeze", "lock"}

\* The lockfile of the version a packager works on: an install that found no version finds no
\* lockfile until it writes its own; a rollback has seen one.
LockOK(t) ==
    /\ t.op = "install" /\ t.at \in Building /\ ~t.existed => locks[t.v] = None
    /\ t.at \in {"activate", "record"} => locks[t.v] # None
    /\ t.op = "rollback" /\ t.at \in {"venv", "pip", "compare", "confirm"} => locks[t.v] # None

\* The bytes and the environment of that version, if nobody else touched them.
BytesOK(t) ==
    ~t.touched =>
        /\ t.op = "install" /\ t.at \in {"venv", "pip", "freeze", "lock"} =>
             staged[t.v] = t.digest
        /\ t.at = "lock" => venv[t.v] = t.frozen
        /\ t.op = "rollback" /\ t.at \in {"venv", "pip", "compare", "confirm"} =>
             staged[t.v] = locks[t.v].sha /\ t.frozen = locks[t.v].frozen
        /\ t.at = "activate" =>
             staged[t.v] = locks[t.v].sha /\ venv[t.v] = locks[t.v].frozen

\* Two packagers have a version in hand only if it was noted.
Apart ==
    \A k, l \in Packagers : k # l /\ pk[k].v = pk[l].v => pk[k].v \in shared \cup {None}

RootInv ==
    /\ PackInv
    /\ ActiveIsLocked /\ Apart
    /\ \A k \in Packagers : pk[k].v \notin shared => LockOK(pk[k]) /\ BytesOK(pk[k])

----------------------------------------------------------------------------
(* The packager. *)

\* Nothing is installed.
LEMMA InitPack == PackInit => RootInv
<1> SUFFICES ASSUME PackInit PROVE RootInv
  OBVIOUS
<1>1. NoTask \in Tasks
  BY DEF NoTask, Tasks
<1>2. PackTypeOK
  <2>1. left \in Bounds
    BY DeployParameters DEF PackInit, PackagingParameters, Bounds
  <2>2. pk \in [Packagers -> Tasks]
    BY <1>1 DEF PackInit
  <2> QED BY <2>1, <2>2 DEF PackInit, PackTypeOK
<1>3. \A k \in Packagers : pk[k] = NoTask
  BY DEF PackInit
<1>4. \A k \in Packagers : TaskOK(pk[k]) /\ LockOK(pk[k]) /\ BytesOK(pk[k])
  <2>1. TaskOK(NoTask) /\ LockOK(NoTask) /\ BytesOK(NoTask)
    BY DEF NoTask, TaskOK, LockOK, BytesOK, Building
  <2> QED BY <1>3, <2>1
<1>5. Apart
  BY <1>3 DEF Apart, NoTask
<1> QED BY <1>2, <1>4, <1>5 DEF PackInit, RootInv, PackInv, ActiveIsLocked

\* A step of one packager.
LEMMA TaskStep ==
    ASSUME PackInv, NEW k \in Packagers, NEW t \in Tasks, pk' = [pk EXCEPT ![k] = t], TaskOK(t),
           staged' \in [Versions -> Artifacts \cup {None}],
           venv' \in [Versions -> Environments \cup {None}],
           python' \in [Versions -> Pythons \cup {None}],
           locks' \in [Versions -> Lockfiles \cup {None}], shared' \subseteq Versions,
           written' \in Nat, current' \in Versions \cup {None}, installed' \subseteq Versions,
           left' \in Bounds
    PROVE  PackInv'
  BY DEF PackInv, PackTypeOK

\* A new task has the type of a task.
LEMMA NoTaskType == NoTask \in Tasks /\ TaskOK(NoTask)
  BY DEF NoTask, Tasks, TaskOK

\* What the invariant says of one packager.
LEMMA PackFacts ==
    ASSUME PackInv, NEW k \in Packagers
    PROVE  /\ pk \in [Packagers -> Tasks] /\ pk[k] \in Tasks /\ TaskOK(pk[k])
           /\ staged \in [Versions -> Artifacts \cup {None}]
           /\ venv \in [Versions -> Environments \cup {None}]
           /\ python \in [Versions -> Pythons \cup {None}]
           /\ locks \in [Versions -> Lockfiles \cup {None}] /\ shared \subseteq Versions
           /\ written \in Nat /\ current \in Versions \cup {None} /\ installed \subseteq Versions
           /\ left \in Bounds
           /\ None \notin Versions /\ None \notin Lockfiles
  BY DeployParameters DEF PackInv, PackTypeOK, PackagingParameters

\* A step of a packager keeps the types and the packager's place.
LEMMA PackStepInv == ASSUME PackInv, NEW k \in Packagers, PackStep(k) PROVE PackInv'
<1>a. /\ pk \in [Packagers -> Tasks] /\ pk[k] \in Tasks /\ TaskOK(pk[k])
      /\ staged \in [Versions -> Artifacts \cup {None}]
      /\ venv \in [Versions -> Environments \cup {None}]
      /\ python \in [Versions -> Pythons \cup {None}]
      /\ locks \in [Versions -> Lockfiles \cup {None}] /\ shared \subseteq Versions
      /\ written \in Nat /\ current \in Versions \cup {None} /\ installed \subseteq Versions
      /\ left \in Bounds
      /\ None \notin Versions
  BY PackFacts
<1> DEFINE moved(to) == [pk[k] EXCEPT !.at = to]
<1>b. ASSUME End(k), UNCHANGED <<locks, written, current, left, shared>>,
             staged' \in [Versions -> Artifacts \cup {None}],
             python' \in [Versions -> Pythons \cup {None}],
             venv' \in [Versions -> Environments \cup {None}], installed' \subseteq Versions
      PROVE  PackInv'
  BY <1>a, <1>b, NoTaskType, TaskStep DEF End
<1>c. StartRun(k) => left' \in Bounds
  BY <1>a DEF StartRun, Bounds
<1>d. ASSUME NEW v \in Versions, Meets(k, v) PROVE shared' \subseteq Versions
  BY <1>a, <1>d DEF Meets
<1>1. CASE BeginInstall(k)
  <2>1. PICK v \in Versions, a \in Artifacts :
          /\ pk' = [pk EXCEPT ![k] = [NoTask EXCEPT !.at = "clear", !.op = "install", !.v = v,
                                                    !.a = a, !.existed = Exists(v)]]
          /\ Meets(k, v)
    BY <1>1 DEF BeginInstall
  <2> DEFINE t == [NoTask EXCEPT !.at = "clear", !.op = "install", !.v = v, !.a = a,
                                 !.existed = Exists(v)]
  <2>2. t \in Tasks /\ TaskOK(t)
    BY DEF NoTask, Tasks, TaskOK, Exists
  <2> HIDE DEF t
  <2> QED BY <1>a, <1>c, <1>d, <1>1, <2>1, <2>2, TaskStep DEF BeginInstall, rootVars, t
<1>2. CASE ClearVenv(k)
  <2> DEFINE t == moved("stage")
  <2>1. t \in Tasks /\ TaskOK(t)
    BY <1>a, <1>2 DEF ClearVenv, At, Tasks, TaskOK
  <2> QED BY <1>a, <1>2, <2>1, TaskStep DEF ClearVenv, Go
<1>3. CASE Stage(k)
  <2> DEFINE t == [pk[k] EXCEPT !.at = "venv", !.digest = pk[k].a]
  <2>1. t \in Tasks /\ TaskOK(t) /\ pk[k].a \in Artifacts
    BY <1>a, <1>3 DEF Stage, At, Tasks, TaskOK
  <2>2. staged' \in [Versions -> Artifacts \cup {None}]
    BY <1>a, <1>3, <2>1 DEF Stage
  <2>3. pk' = [pk EXCEPT ![k] = t] /\ UNCHANGED <<venv, python, locks, written, current, installed,
                                                left, shared>>
    BY <1>3 DEF Stage
  <2> HIDE DEF t
  <2> QED BY <1>a, <2>1, <2>2, <2>3, TaskStep
<1>4. CASE CreateVenv(k)
  <2> DEFINE to == IF pk[k].op = "install" THEN "pip" ELSE "compare"
             t == moved(to)
  <2>1. t \in Tasks /\ TaskOK(t)
    BY <1>a, <1>4 DEF CreateVenv, Tasks, TaskOK
  <2>2. venv' \in [Versions -> Environments \cup {None}]
    <3>1. \A reached \in BOOLEAN : [Bare EXCEPT !.sdk = reached] \in Environments
      BY DEF Bare, Environments
    <3>2. PICK reached \in BOOLEAN :
            venv' = [venv EXCEPT ![pk[k].v] = [Bare EXCEPT !.sdk = reached]]
      BY <1>4 DEF CreateVenv
    <3> DEFINE e == [Bare EXCEPT !.sdk = reached]
    <3>3. e \in Environments /\ venv' = [venv EXCEPT ![pk[k].v] = e]
      BY <3>1, <3>2
    <3> HIDE DEF e
    <3> QED BY <1>a, <3>3
  <2>3. python' \in [Versions -> Pythons \cup {None}]
    <3>1. PICK y \in Pythons : python' = [python EXCEPT ![pk[k].v] = y]
      BY <1>4, Zenon DEF CreateVenv
    <3> QED BY <1>a, <3>1
  <2>4. pk' = [pk EXCEPT ![k] = t] /\ UNCHANGED <<staged, locks, written, current, installed,
                                                left, shared>>
    BY <1>a, <1>4 DEF CreateVenv, Go
  <2> HIDE DEF t
  <2> QED BY <1>a, <2>1, <2>2, <2>3, <2>4, TaskStep
<1>5. CASE InstallArtifact(k)
  <2> DEFINE to == IF pk[k].op = "install" THEN "freeze" ELSE "confirm"
             t == moved(to)
  <2>1. t \in Tasks /\ TaskOK(t) /\ pk[k].v \in Versions
    BY <1>a, <1>5 DEF InstallArtifact, Tasks, TaskOK
  <2>2. venv' \in [Versions -> Environments \cup {None}]
    BY <1>a, <1>5, <2>1 DEF InstallArtifact, Environments
  <2> QED BY <1>a, <1>5, <2>1, <2>2, TaskStep DEF InstallArtifact, Go
<1>6. CASE Freeze(k)
  <2> DEFINE t == [pk[k] EXCEPT !.at = "lock", !.frozen = venv[pk[k].v]]
  <2>1. t \in Tasks /\ TaskOK(t)
    BY <1>a, <1>6 DEF Freeze, At, Tasks, TaskOK
  <2>2. pk' = [pk EXCEPT ![k] = t]
    BY <1>a, <1>6 DEF Freeze
  <2> HIDE DEF t
  <2> QED BY <1>a, <1>6, <2>1, <2>2, TaskStep DEF Freeze, rootVars
<1>7. CASE InstallFails(k)
  <2>1. pk[k].v \in Versions
    BY <1>a, <1>7 DEF InstallFails, TaskOK
  <2>2. /\ staged' \in [Versions -> Artifacts \cup {None}]
        /\ venv' \in [Versions -> Environments \cup {None}]
        /\ python' \in [Versions -> Pythons \cup {None}]
        /\ locks' \in [Versions -> Lockfiles \cup {None}]
    BY <1>a, <1>7, <2>1 DEF InstallFails
  <2> QED BY <1>a, <1>7, <2>2, NoTaskType, TaskStep DEF InstallFails, End
<1>8. CASE WriteLockfile(k)
  <2> DEFINE t == moved("activate")
             fresh == [id |-> written + 1, sha |-> pk[k].digest, frozen |-> pk[k].frozen]
  <2>1. t \in Tasks /\ TaskOK(t)
    BY <1>a, <1>8 DEF WriteLockfile, At, Tasks, TaskOK
  <2>2. fresh \in Lockfiles
    BY <1>a, <1>8 DEF WriteLockfile, At, TaskOK, Lockfiles
  <2>3. locks' \in [Versions -> Lockfiles \cup {None}] /\ written' \in Nat
    <3>1. locks' = [locks EXCEPT ![pk[k].v] = fresh]
      BY <1>8 DEF WriteLockfile
    <3>2. written' \in Nat
      BY <1>a, <1>8 DEF WriteLockfile
    <3> HIDE DEF fresh
    <3> QED BY <1>a, <2>2, <3>1, <3>2
  <2> QED BY <1>a, <1>8, <2>1, <2>3, TaskStep DEF WriteLockfile, Go
<1>9. CASE BeginRollback(k)
  <2>1. PICK v \in Versions :
          /\ pk' = [pk EXCEPT ![k] = [NoTask EXCEPT !.at = "prove", !.op = "rollback", !.v = v]]
          /\ Meets(k, v)
    BY <1>9 DEF BeginRollback
  <2> DEFINE t == [NoTask EXCEPT !.at = "prove", !.op = "rollback", !.v = v]
  <2>2. t \in Tasks /\ TaskOK(t)
    BY DEF NoTask, Tasks, TaskOK
  <2> QED BY <1>a, <1>c, <1>d, <1>9, <2>1, <2>2, TaskStep DEF BeginRollback, rootVars
<1>10. CASE Refuse(k)
  BY <1>a, <1>b, <1>10 DEF Refuse, rootVars
<1>11. CASE ProveArtifact(k) /\ ~Refuse(k)
  <2> DEFINE lock == locks[pk[k].v]
             to == IF venv[pk[k].v] = None THEN "venv" ELSE "compare"
             t == [pk[k] EXCEPT !.frozen = lock.frozen, !.digest = lock.sha, !.at = to]
  <2>1. lock \in Lockfiles
    BY <1>a, <1>11 DEF ProveArtifact, At, TaskOK
  <2>2. t \in Tasks /\ TaskOK(t)
    BY <1>a, <1>11, <2>1 DEF ProveArtifact, At, Tasks, TaskOK, Lockfiles
  <2>3. pk' = [pk EXCEPT ![k] = t] /\ UNCHANGED <<rootVars, left, shared>>
    BY <1>a, <1>11 DEF ProveArtifact
  <2> HIDE DEF t
  <2> QED BY <1>a, <2>2, <2>3, TaskStep DEF rootVars
<1>12. CASE Compare(k)
  <2> DEFINE to == IF venv[pk[k].v] = pk[k].frozen THEN "activate" ELSE "pip"
             t == moved(to)
  <2>1. t \in Tasks /\ TaskOK(t)
    BY <1>a, <1>12 DEF Compare, At, Tasks, TaskOK
  <2> QED BY <1>a, <1>12, <2>1, TaskStep DEF Compare, Go, rootVars
<1>13. CASE Confirm(k) /\ ~Refuse(k)
  <2> DEFINE t == moved("activate")
  <2>1. t \in Tasks /\ TaskOK(t)
    BY <1>a, <1>13 DEF Confirm, At, Tasks, TaskOK
  <2> QED BY <1>a, <1>13, <2>1, TaskStep DEF Confirm, Go, rootVars
<1>14. CASE Activate(k)
  <2> DEFINE t == moved("record")
  <2>1. t \in Tasks /\ TaskOK(t) /\ pk[k].v \in Versions
    BY <1>a, <1>14 DEF Activate, Tasks, TaskOK
  <2> QED BY <1>a, <1>14, <2>1, TaskStep DEF Activate, Go
<1>15. CASE AppendHistory(k)
  <2>1. installed' \subseteq Versions
    BY <1>a, <1>15 DEF AppendHistory, TaskOK
  <2> QED BY <1>a, <1>b, <1>15, <2>1 DEF AppendHistory
<1> QED
  BY <1>1, <1>2, <1>3, <1>4, <1>5, <1>6, <1>7, <1>8, <1>9, <1>10, <1>11, <1>12, <1>13, <1>14,
     <1>15
  DEF PackStep, Die

\* A step of a packager leaves the tasks of the others and the other versions alone, and a
\* version it has in common with another is noted.
LEMMA PackFrame ==
    ASSUME PackInv, Apart, NEW k \in Packagers, PackStep(k)
    PROVE  /\ \A l \in Packagers \ {k} : pk'[l] = pk[l]
           /\ \A v \in Versions \ {pk[k].v} :
                staged'[v] = staged[v] /\ venv'[v] = venv[v] /\ locks'[v] = locks[v]
           /\ current' # current => current' = pk[k].v
           /\ installed' \subseteq installed \cup {pk[k].v}
           /\ installed \subseteq installed' /\ shared \subseteq shared'
           /\ pk[k].at # "idle" => pk'[k].v \in {pk[k].v, None} /\ shared' = shared
           /\ pk[k].at = "idle" => UNCHANGED rootVars
           /\ pk'[k].v = None => pk'[k] = NoTask
           /\ Apart'
<1>a. /\ pk \in [Packagers -> Tasks] /\ pk[k] \in Tasks /\ TaskOK(pk[k])
      /\ staged \in [Versions -> Artifacts \cup {None}]
      /\ venv \in [Versions -> Environments \cup {None}]
      /\ locks \in [Versions -> Lockfiles \cup {None}]
      /\ None \notin Versions
  BY PackFacts
<1>1. ASSUME NEW v \in Versions, NEW t, t.v = v, pk' = [pk EXCEPT ![k] = t], Meets(k, v)
      PROVE  shared \subseteq shared' /\ Apart'
  BY <1>a, <1>1 DEF Meets, Apart
<1>2. CASE BeginInstall(k)
  <2>1. PICK v \in Versions, a \in Artifacts :
          /\ pk' = [pk EXCEPT ![k] = [NoTask EXCEPT !.at = "clear", !.op = "install", !.v = v,
                                                    !.a = a, !.existed = Exists(v)]]
          /\ Meets(k, v)
    BY <1>2 DEF BeginInstall
  <2> DEFINE t == [NoTask EXCEPT !.at = "clear", !.op = "install", !.v = v, !.a = a,
                                 !.existed = Exists(v)]
  <2>2. t.v = v
    BY DEF NoTask
  <2>3. pk[k].at = "idle" /\ UNCHANGED rootVars
    BY <1>2 DEF BeginInstall, StartRun
  <2> HIDE DEF t
  <2>4. pk' = [pk EXCEPT ![k] = t]
    BY <2>1 DEF t
  <2>5. shared \subseteq shared' /\ Apart'
    BY <1>1, <2>1, <2>2, <2>4
  <2> QED BY <1>a, <2>2, <2>3, <2>4, <2>5 DEF rootVars
<1>3. CASE BeginRollback(k)
  <2>1. PICK v \in Versions :
          /\ pk' = [pk EXCEPT ![k] = [NoTask EXCEPT !.at = "prove", !.op = "rollback", !.v = v]]
          /\ Meets(k, v)
    BY <1>3 DEF BeginRollback
  <2> DEFINE t == [NoTask EXCEPT !.at = "prove", !.op = "rollback", !.v = v]
  <2>2. t.v = v
    BY DEF NoTask
  <2>3. pk[k].at = "idle" /\ UNCHANGED rootVars
    BY <1>3 DEF BeginRollback, StartRun
  <2> HIDE DEF t
  <2>4. pk' = [pk EXCEPT ![k] = t]
    BY <2>1 DEF t
  <2>5. shared \subseteq shared' /\ Apart'
    BY <1>1, <2>1, <2>2, <2>4
  <2> QED BY <1>a, <2>2, <2>3, <2>4, <2>5 DEF rootVars
<1> DEFINE Stays ==
             /\ \A v \in Versions \ {pk[k].v} :
                  staged'[v] = staged[v] /\ venv'[v] = venv[v] /\ locks'[v] = locks[v]
             /\ current' \in {current, pk[k].v}
             /\ installed' \in {installed, installed \cup {pk[k].v}}
             /\ pk[k].at # "idle" /\ shared' = shared
           Takes(t) == pk' = [pk EXCEPT ![k] = t] /\ (t.v = pk[k].v \/ t = NoTask)
<1>4. ASSUME Stays, NEW t, Takes(t)
      PROVE  /\ \A l \in Packagers \ {k} : pk'[l] = pk[l]
             /\ current' # current => current' = pk[k].v
             /\ installed' \subseteq installed \cup {pk[k].v}
             /\ installed \subseteq installed' /\ shared \subseteq shared'
             /\ pk'[k].v \in {pk[k].v, None} /\ shared' = shared
             /\ pk'[k].v = None => pk'[k] = NoTask
             /\ Apart'
  <2>1. t.v \in {pk[k].v, None}
    BY <1>4 DEF NoTask
  <2>2. /\ pk' = [pk EXCEPT ![k] = t] /\ shared' = shared
        /\ \A l, m \in Packagers : l # m /\ pk[l].v = pk[m].v => pk[l].v \in shared \cup {None}
    BY <1>4 DEF Apart
  <2>3. pk[k].v \in Versions
    BY <1>a, <1>4 DEF TaskOK
  <2> HIDE DEF Stays, Takes
  <2>4. Apart'
    <3>1. pk'[k].v = t.v /\ \A l \in Packagers \ {k} : pk'[l].v = pk[l].v
      BY <1>a, <2>2
    <3> QED BY <2>1, <2>2, <3>1 DEF Apart
  <2> USE DEF Stays, Takes
  <2> QED BY <1>a, <1>4, <2>1, <2>3, <2>4
<1>5. CASE ClearVenv(k) \/ Stage(k) \/ CreateVenv(k) \/ InstallArtifact(k)
  <2>1. Stays
    BY <1>a, <1>5 DEF ClearVenv, Stage, CreateVenv, InstallArtifact, At
  <2>2. \E t : Takes(t)
    BY <1>a, <1>5 DEF ClearVenv, Stage, CreateVenv, InstallArtifact, Go, Tasks
  <2> QED BY <1>4, <2>1, <2>2
<1>6. CASE Freeze(k) \/ ProveArtifact(k) \/ Compare(k) \/ Confirm(k) \/ Refuse(k)
  <2>1. Stays
    BY <1>a, <1>6 DEF Freeze, ProveArtifact, Compare, Confirm, Refuse, At, rootVars
  <2>2. \E t : Takes(t)
    BY <1>a, <1>6 DEF Freeze, ProveArtifact, Compare, Confirm, Refuse, End, Go, Tasks
  <2> QED BY <1>4, <2>1, <2>2
<1>7. CASE InstallFails(k) \/ WriteLockfile(k)
  <2>1. Stays
    BY <1>a, <1>7 DEF InstallFails, WriteLockfile, At
  <2>2. \E t : Takes(t)
    BY <1>a, <1>7 DEF InstallFails, WriteLockfile, End, Go, Tasks
  <2> QED BY <1>4, <2>1, <2>2
<1>8. CASE Activate(k) \/ AppendHistory(k)
  <2>1. Stays
    BY <1>a, <1>8 DEF Activate, AppendHistory
  <2>2. \E t : Takes(t)
    BY <1>a, <1>8 DEF Activate, AppendHistory, End, Go, Tasks
  <2> QED BY <1>4, <2>1, <2>2
<1> QED BY <1>2, <1>3, <1>5, <1>6, <1>7, <1>8 DEF PackStep, Die

\* A packager that has its version for itself keeps the lockfile that is needed and knows what
\* it has proved.
LEMMA SoleStep ==
    ASSUME PackInv, NEW k \in Packagers, PackStep(k), LockOK(pk[k]), BytesOK(pk[k])
    PROVE  /\ LockOK(pk[k])' /\ BytesOK(pk[k])'
           /\ \A v \in Versions :
                locks[v] # None /\ locks'[v] = None => v # current /\ v \notin installed
           /\ current' # current => locks'[current'] # None
           /\ \A v \in installed' \ installed : locks'[v] # None
<1> DEFINE Moves ==
             /\ LockOK(pk[k])' /\ BytesOK(pk[k])'
             /\ \A v \in Versions :
                  locks[v] # None /\ locks'[v] = None => v # current /\ v \notin installed
             /\ current' # current => locks'[current'] # None
             /\ \A v \in installed' \ installed : locks'[v] # None
<1>a. /\ pk \in [Packagers -> Tasks] /\ pk[k] \in Tasks /\ TaskOK(pk[k])
      /\ LockOK(pk[k]) /\ BytesOK(pk[k])
      /\ staged \in [Versions -> Artifacts \cup {None}]
      /\ venv \in [Versions -> Environments \cup {None}]
      /\ locks \in [Versions -> Lockfiles \cup {None}]
      /\ current \in Versions \cup {None} /\ installed \subseteq Versions
      /\ None \notin Versions /\ None \notin Lockfiles
  BY PackFacts
<1>1. CASE BeginInstall(k)
  <2>1. Moves
    <3>1. PICK v \in Versions, a \in Artifacts :
            pk' = [pk EXCEPT ![k] = [NoTask EXCEPT !.at = "clear", !.op = "install", !.v = v,
                                                   !.a = a, !.existed = Exists(v)]]
      BY <1>1 DEF BeginInstall
    <3> DEFINE t == [NoTask EXCEPT !.at = "clear", !.op = "install", !.v = v, !.a = a,
                                   !.existed = Exists(v)]
    <3>2. /\ t.at = "clear" /\ t.op = "install" /\ t.v = v
          /\ ~t.existed => locks[v] = None
      BY DEF NoTask, Exists
    <3>3. pk'[k] = t
      BY <1>a, <3>1
    <3> HIDE DEF t
    <3>4. LockOK(pk[k])' /\ BytesOK(pk[k])'
      BY <1>1, <3>2, <3>3 DEF BeginInstall, LockOK, BytesOK, rootVars
    <3> QED BY <1>1, <3>4 DEF BeginInstall, rootVars
  <2> QED BY <2>1
<1>2. CASE ClearVenv(k)
  <2>1. Moves
    BY <1>a, <1>2 DEF ClearVenv, At, Go, Tasks, TaskOK, LockOK, BytesOK, Building
  <2> QED BY <2>1
<1>3. CASE Stage(k)
  <2>1. Moves
    BY <1>a, <1>3 DEF Stage, At, Go, Tasks, TaskOK, LockOK, BytesOK, Building
  <2> QED BY <2>1
<1>4. CASE CreateVenv(k)
  <2>1. Moves
    BY <1>a, <1>4 DEF CreateVenv, At, Go, Tasks, TaskOK, LockOK, BytesOK, Building
  <2> QED BY <2>1
<1>5. CASE InstallArtifact(k)
  <2>1. Moves
    BY <1>a, <1>5 DEF InstallArtifact, At, Go, Tasks, TaskOK, LockOK, BytesOK, Building
  <2> QED BY <2>1
<1>6. CASE Freeze(k)
  <2>1. Moves
    BY <1>a, <1>6 DEF Freeze, At, Go, Tasks, TaskOK, LockOK, BytesOK, Building, rootVars
  <2> QED BY <2>1
<1>7. CASE InstallFails(k)
  <2>1. Moves
    BY <1>a, <1>7 DEF InstallFails, At, Go, Tasks, TaskOK, LockOK, BytesOK, Building, End, NoTask
  <2> QED BY <2>1
<1>8. CASE WriteLockfile(k)
  <2>1. Moves
    <3> DEFINE fresh == [id |-> written + 1, sha |-> pk[k].digest, frozen |-> pk[k].frozen]
               v == pk[k].v
    <3>1. v \in Versions /\ locks' = [locks EXCEPT ![v] = fresh]
      BY <1>a, <1>8 DEF WriteLockfile, At, TaskOK
    <3>2. fresh # None
      <4>1. fresh \in Lockfiles
        BY <1>a, <1>8, PackFacts DEF WriteLockfile, At, TaskOK, Lockfiles
      <4> QED BY <1>a, <4>1
    <3>3. /\ pk'[k].at = "activate" /\ pk'[k].op = "install" /\ pk'[k].v = v
          /\ pk'[k].touched = pk[k].touched
      BY <1>a, <1>8 DEF WriteLockfile, At, Go, Tasks
    <3>4. fresh.sha = pk[k].digest /\ fresh.frozen = pk[k].frozen
      OBVIOUS
    <3>5. UNCHANGED <<staged, venv, current, installed>>
      BY <1>8 DEF WriteLockfile
    <3>6. ~pk[k].touched => staged[v] = pk[k].digest /\ venv[v] = pk[k].frozen
      BY <1>a, <1>8 DEF WriteLockfile, At, BytesOK
    <3> HIDE DEF fresh, v
    <3>7. locks'[v] = fresh /\ \A w \in Versions : locks'[w] # None \/ locks'[w] = locks[w]
      BY <1>a, <3>1, <3>2
    <3>8. LockOK(pk[k])'
      BY <3>2, <3>3, <3>7 DEF LockOK, Building
    <3>9. BytesOK(pk[k])'
      BY <3>3, <3>4, <3>5, <3>6, <3>7 DEF BytesOK
    <3> QED BY <3>5, <3>7, <3>8, <3>9
  <2> QED BY <2>1
<1>9. CASE BeginRollback(k)
  <2>1. Moves
    BY <1>a, <1>9 DEF BeginRollback, At, Go, Tasks, TaskOK, LockOK, BytesOK, Building,
       NoTask, StartRun, rootVars
  <2> QED BY <2>1
<1>10. CASE Refuse(k)
  <2>1. Moves
    BY <1>a, <1>10 DEF Refuse, At, Go, Tasks, TaskOK, LockOK, BytesOK, Building,
       End, NoTask, rootVars
  <2> QED BY <2>1
<1>11. CASE ProveArtifact(k) /\ ~Refuse(k)
  <2>1. Moves
    BY <1>a, <1>11 DEF ProveArtifact, At, Go, Tasks, TaskOK, LockOK, BytesOK, Building, rootVars
  <2> QED BY <2>1
<1>12. CASE Compare(k)
  <2>1. Moves
    BY <1>a, <1>12 DEF Compare, At, Go, Tasks, TaskOK, LockOK, BytesOK, Building, rootVars
  <2> QED BY <2>1
<1>13. CASE Confirm(k) /\ ~Refuse(k)
  <2>1. Moves
    BY <1>a, <1>13 DEF Confirm, At, Go, Tasks, TaskOK, LockOK, BytesOK, Building, rootVars
  <2> QED BY <2>1
<1>14. CASE Activate(k)
  <2>1. Moves
    BY <1>a, <1>14 DEF Activate, At, Go, Tasks, TaskOK, LockOK, BytesOK, Building
  <2> QED BY <2>1
<1>15. CASE AppendHistory(k)
  <2>1. Moves
    BY <1>a, <1>15 DEF AppendHistory, At, Go, Tasks, TaskOK, LockOK, BytesOK, Building, End, NoTask
  <2> QED BY <2>1
<1> QED
  BY <1>1, <1>2, <1>3, <1>4, <1>5, <1>6, <1>7, <1>8, <1>9, <1>10, <1>11, <1>12, <1>13, <1>14,
     <1>15
  DEF PackStep, Die

\* A step of a packager keeps the invariant of the root.
LEMMA PackStepRoot == ASSUME RootInv, NEW k \in Packagers, PackStep(k) PROVE RootInv'
<1>a. /\ PackInv /\ PackInv' /\ Apart /\ ActiveIsLocked
      /\ \A l \in Packagers : pk[l].v \notin shared => LockOK(pk[l]) /\ BytesOK(pk[l])
      /\ \A l \in Packagers : TaskOK(pk[l]) /\ pk[l] \in Tasks
      /\ current \in Versions \cup {None} /\ installed \subseteq Versions
      /\ None \notin Versions /\ shared \subseteq Versions
  BY PackStepInv, PackFacts DEF RootInv
<1>b. /\ \A l \in Packagers \ {k} : pk'[l] = pk[l]
      /\ \A v \in Versions \ {pk[k].v} :
           staged'[v] = staged[v] /\ venv'[v] = venv[v] /\ locks'[v] = locks[v]
      /\ current' # current => current' = pk[k].v
      /\ installed' \subseteq installed \cup {pk[k].v}
      /\ installed \subseteq installed' /\ shared \subseteq shared'
      /\ pk[k].at # "idle" => pk'[k].v \in {pk[k].v, None} /\ shared' = shared
      /\ pk'[k].v = None => pk'[k] = NoTask
      /\ Apart'
  BY <1>a, PackFrame
<1>c. pk[k].v \notin shared =>
        /\ LockOK(pk[k])' /\ BytesOK(pk[k])'
        /\ \A v \in Versions :
             locks[v] # None /\ locks'[v] = None => v # current /\ v \notin installed
        /\ current' # current => locks'[current'] # None
        /\ \A v \in installed' \ installed : locks'[v] # None
  BY <1>a, SoleStep
<1>1. ActiveIsLocked'
  BY <1>a, <1>b, <1>c DEF ActiveIsLocked
<1>2. ASSUME NEW l \in Packagers \ {k}, pk'[l].v \notin shared'
      PROVE  LockOK(pk[l])' /\ BytesOK(pk[l])'
  <2>1. LockOK(pk[l]) /\ BytesOK(pk[l]) /\ TaskOK(pk[l]) /\ pk'[l] = pk[l]
    BY <1>a, <1>b, <1>2
  <2>2. CASE pk[l].at = "idle"
    BY <2>1, <2>2 DEF LockOK, BytesOK, Building
  <2>3. CASE pk[l].at # "idle"
    <3>1. pk[l].v \in Versions \ {pk[k].v}
      BY <1>a, <1>b, <1>2, <2>1, <2>3 DEF TaskOK, Apart
    <3> QED BY <1>b, <2>1, <3>1 DEF LockOK, BytesOK
  <2> QED BY <2>2, <2>3
<1>3. pk'[k].v \notin shared' => LockOK(pk[k])' /\ BytesOK(pk[k])'
  <2>1. CASE pk[k].v \notin shared
    BY <1>c, <2>1
  <2>2. CASE pk[k].v \in shared
    <3>1. LockOK(NoTask)' /\ BytesOK(NoTask)'
      BY DEF NoTask, LockOK, BytesOK, Building
    <3>2. CASE pk'[k] = NoTask
      BY <3>1, <3>2 DEF LockOK, BytesOK
    <3>3. CASE pk[k].at = "idle"
      <4>1. pk[k].v = None
        BY <1>a, <3>3 DEF TaskOK
      <4> QED BY <1>a, <2>2, <4>1
    <3> QED BY <1>b, <2>2, <3>2, <3>3
  <2> QED BY <2>1, <2>2
<1> QED BY <1>a, <1>b, <1>1, <1>2, <1>3 DEF RootInv

\* Somebody changes the environment of v.
Changes(v) ==
    /\ UNCHANGED staged
    /\ \/ venv' = [venv EXCEPT ![v] = None] /\ python' = [python EXCEPT ![v] = None]
       \/ \E x \in [dist : Artifacts, sdk : BOOLEAN], y \in Pythons :
            venv' = [venv EXCEPT ![v] = x] /\ python' = [python EXCEPT ![v] = y]

\* Somebody changes an environment or the staged bytes: lockfiles stay, and the packager at work
\* on that version is marked.
LEMMA TouchTypes == ASSUME PackInv, Touch PROVE PackInv'
<1>1. PICK v \in Versions :
        /\ \/ Changes(v)
           \/ \E x \in {None} \cup Artifacts :
                staged' = [staged EXCEPT ![v] = x] /\ UNCHANGED <<venv, python>>
        /\ pk' = [k \in Packagers |-> IF pk[k].v = v THEN [pk[k] EXCEPT !.touched = TRUE]
                                                      ELSE pk[k]]
  BY Zenon DEF Touch, Changes
<1>2. /\ staged' \in [Versions -> Artifacts \cup {None}]
      /\ venv' \in [Versions -> Environments \cup {None}]
      /\ python' \in [Versions -> Pythons \cup {None}]
  BY <1>1 DEF PackInv, PackTypeOK, Environments, Changes
<1>3. left' \in Bounds
  BY DEF Touch, PackInv, PackTypeOK, Bounds
<1>4. ASSUME NEW t \in Tasks, TaskOK(t)
      PROVE  [t EXCEPT !.touched = TRUE] \in Tasks /\ TaskOK([t EXCEPT !.touched = TRUE])
  <2> DEFINE x == [t EXCEPT !.touched = TRUE]
  <2>1. x \in Tasks
    BY Zenon DEF Tasks
  <2>2. /\ x.at = t.at /\ x.op = t.op /\ x.v = t.v /\ x.a = t.a /\ x.digest = t.digest
        /\ x.frozen = t.frozen
    BY DEF Tasks
  <2> HIDE DEF x
  <2>3. TaskOK(x)
    BY <1>4, <2>2 DEF TaskOK
  <2> QED BY <2>1, <2>3 DEF x
<1>5. pk' \in [Packagers -> Tasks] /\ \A k \in Packagers : TaskOK(pk'[k])
  BY <1>1, <1>4 DEF PackInv, PackTypeOK
<1> QED BY <1>2, <1>3, <1>5 DEF Touch, PackInv, PackTypeOK

\* What the packager has proved stays proved of a version nobody else touched.
LEMMA TouchRoot == ASSUME RootInv, Touch PROVE RootInv'
<1>1. PICK v \in Versions :
        /\ \/ Changes(v)
           \/ \E x \in {None} \cup Artifacts :
                staged' = [staged EXCEPT ![v] = x] /\ UNCHANGED <<venv, python>>
        /\ pk' = [k \in Packagers |-> IF pk[k].v = v THEN [pk[k] EXCEPT !.touched = TRUE]
                                                      ELSE pk[k]]
  BY Zenon DEF Touch, Changes
<1>2. PackInv' /\ ActiveIsLocked' /\ Apart'
  <2>1. \A k \in Packagers : pk'[k].v = pk[k].v
    BY <1>1 DEF RootInv, PackInv, PackTypeOK, Tasks
  <2> QED BY <2>1, TouchTypes DEF RootInv, Touch, ActiveIsLocked, Apart
<1>3. /\ locks' = locks
      /\ \A w \in Versions \ {v} : staged'[w] = staged[w] /\ venv'[w] = venv[w]
  <2>1. locks' = locks
    BY DEF Touch
  <2>2. /\ venv \in [Versions -> Environments \cup {None}]
        /\ staged \in [Versions -> Artifacts \cup {None}]
    BY DEF RootInv, PackInv, PackTypeOK
  <2>3. CASE UNCHANGED staged /\ \E x : venv' = [venv EXCEPT ![v] = x]
    BY <2>1, <2>2, <2>3
  <2>4. CASE UNCHANGED venv /\ \E x : staged' = [staged EXCEPT ![v] = x]
    BY <2>1, <2>2, <2>4
  <2> QED BY <1>1, <2>3, <2>4 DEF Changes
<1>4. ASSUME NEW k \in Packagers, pk'[k].v \notin shared' PROVE LockOK(pk[k])' /\ BytesOK(pk[k])'
  <2>1. pk[k] \in Tasks /\ TaskOK(pk[k]) /\ LockOK(pk[k]) /\ BytesOK(pk[k])
    <3>1. pk[k] \in Tasks /\ TaskOK(pk[k]) /\ shared' = shared
      BY PackFacts DEF RootInv, Touch
    <3>2. pk'[k].v = pk[k].v
      BY <1>1, <3>1 DEF Tasks
    <3> QED BY <1>4, <3>1, <3>2 DEF RootInv
  <2>2. CASE pk[k].v = v
    <3>1. /\ pk'[k].touched = TRUE /\ pk'[k].at = pk[k].at /\ pk'[k].op = pk[k].op
          /\ pk'[k].v = pk[k].v /\ pk'[k].existed = pk[k].existed
      BY <1>1, <2>1, <2>2 DEF Tasks
    <3> QED BY <1>3, <2>1, <3>1 DEF LockOK, BytesOK
  <2>3. CASE pk[k].v # v
    <3>1. pk'[k] = pk[k]
      BY <1>1, <2>3
    <3>2. pk[k].at # "idle" => staged'[pk[k].v] = staged[pk[k].v] /\ venv'[pk[k].v] = venv[pk[k].v]
      BY <1>3, <2>1, <2>3 DEF TaskOK
    <3>3. LockOK(pk[k])'
      BY <1>3, <2>1, <3>1 DEF LockOK
    <3>4. BytesOK(pk[k])'
      BY <1>3, <2>1, <3>1, <3>2 DEF BytesOK
    <3> QED BY <3>3, <3>4
  <2> QED BY <2>2, <2>3
<1> QED BY <1>2, <1>4 DEF RootInv

----------------------------------------------------------------------------
(* The launch commands. *)

Digests ==
    [mode : {"stdio", "http"}, params : Params,
     environment : [base : Pythons \cup {None}, settings : Shells], interpreter : Versions,
     python : Pythons \cup {None}, lockfile : Nat]

Commands ==
    [at : {"idle", "current", "lockfile", "interpreter", "probe", "hash", "built"},
     command : {"none", "plan", "lock", "verify"}, modes : SUBSET {"stdio", "http"},
     mode : {"none", "stdio", "http"}, params : Params, shell : Shells \cup {None},
     version : Versions \cup {None}, base : Pythons \cup {None}, python : Pythons \cup {None},
     built : SUBSET Digests, record : Digests \cup {None}, steady : BOOLEAN, met : BOOLEAN]

\* Two plans of the same root.
Agree(d, e) ==
    /\ d.interpreter = e.interpreter /\ d.python = e.python /\ d.lockfile = e.lockfile
    /\ d.environment.base = e.environment.base

\* What was read so far can not become the record any more.
Missed ==
    \/ pl.version # pl.record.interpreter \/ pl.python # pl.record.python
    \/ locks[pl.record.interpreter] = None
    \/ locks[pl.record.interpreter].id # pl.record.lockfile

\* Where a command stands: what it has built it was asked for.
CommandOK ==
    /\ pl.at # "idle" =>
         pl.shell \in Shells /\ pl.mode \in {"stdio", "http"} /\ pl.command # "none"
    /\ pl.at \in {"lockfile", "interpreter", "probe", "hash"} => pl.version \in Versions
    /\ pl.at # "idle" /\ pl.command = "verify" => pl.record \in Digests \ {None}
    /\ IsFiniteSet(pl.built)
    /\ \A d \in pl.built : d.params = pl.params /\ d.environment.settings = pl.shell
    /\ pl.at = "built" => \E d \in pl.built : d.mode = pl.mode /\ d.interpreter = pl.version

\* While the record is true what the command has read is what the record says.
SteadyOK ==
    pl.at # "idle" /\ pl.steady =>
        /\ pl.command = "verify" /\ Live(pl.record)
        /\ pl.at \in {"lockfile", "interpreter", "probe", "hash"} =>
             pl.version = pl.record.interpreter
        /\ pl.at \in {"probe", "hash"} => pl.base = pl.record.environment.base
        /\ pl.at = "hash" => pl.python = pl.record.python
        /\ \A d \in pl.built : Agree(d, pl.record)

\* A record that was not met is not what the command has built, nor what it builds next: a
\* lockfile that was replaced does not come back.
MetOK ==
    pl.at # "idle" /\ pl.command = "verify" /\ ~pl.met =>
        pl.record \notin pl.built /\ (pl.at = "hash" => Missed)

\* Lockfiles are numbered as they are written.
Numbered ==
    /\ \A v \in Versions : locks[v] # None => locks[v].id \leq written
    /\ \A d \in pl.built \cup {pl.record, elock} : d # None => d.lockfile \leq written

EntryInv ==
    /\ PackInv
    /\ elock \in Digests \cup {None} /\ pl \in Commands
    /\ CommandOK /\ SteadyOK /\ MetOK /\ Numbered

\* The record of a command that has not begun.
LEMMA NoPlanType ==
    /\ NoPlan \in Commands /\ NoPlan.at = "idle" /\ NoPlan.built = {} /\ NoPlan.record = None
    /\ NoPlan.steady = FALSE /\ NoPlan.met = FALSE
  BY DEF NoPlan, Commands, Params

\* Nothing was planned.
LEMMA InitEntry == EntryInit => EntryInv
<1> SUFFICES ASSUME EntryInit PROVE EntryInv
  OBVIOUS
<1>1. PackInv
  BY InitPack DEF EntryInit, RootInv
<1>2. CommandOK /\ SteadyOK /\ MetOK
  BY NoPlanType, FS_EmptySet DEF EntryInit, CommandOK, SteadyOK, MetOK
<1>3. Numbered
  BY NoPlanType DEF EntryInit, PackInit, Numbered
<1> QED BY <1>1, <1>2, <1>3, NoPlanType DEF EntryInit, EntryInv

\* What the invariant says of the command.
LEMMA CommandFacts ==
    ASSUME EntryInv
    PROVE  /\ pl \in Commands /\ CommandOK /\ elock \in Digests \cup {None}
           /\ left \in Bounds /\ written \in Nat
           /\ current \in Versions \cup {None}
           /\ locks \in [Versions -> Lockfiles \cup {None}]
           /\ venv \in [Versions -> Environments \cup {None}]
           /\ python \in [Versions -> Pythons \cup {None}]
           /\ None \notin Versions /\ None \notin Lockfiles
           /\ pl.built \in SUBSET Digests /\ pl.mode \in {"none", "stdio", "http"}
           /\ pl.params \in Params /\ pl.shell \in Shells \cup {None}
           /\ pl.version \in Versions \cup {None} /\ pl.modes \in SUBSET {"stdio", "http"}
           /\ pl.base \in Pythons \cup {None} /\ pl.python \in Pythons \cup {None}
           /\ pl.record \in Digests \cup {None} /\ pl.steady \in BOOLEAN /\ pl.met \in BOOLEAN
  BY DeployParameters DEF EntryInv, PackInv, PackTypeOK, PackagingParameters, Commands

\* A step of the command, by what it does to its record.
LEMMA CommandMoves ==
    ASSUME EntryInv, NEW x \in Commands, pl' = x, UNCHANGED <<rootVars, pk, shared>>,
           left' \in Bounds, elock' \in Digests \cup {None},
           CommandOK', SteadyOK', MetOK', Numbered'
    PROVE  EntryInv'
  BY DEF EntryInv, PackInv, PackTypeOK, rootVars

\* The command is over.
LEMMA OverMoves ==
    ASSUME EntryInv, pl' = NoPlan, UNCHANGED packVars, elock' \in pl.built \cup {elock}
    PROVE  EntryInv'
<1>1. CommandOK' /\ SteadyOK' /\ MetOK'
  BY NoPlanType, FS_EmptySet DEF CommandOK, SteadyOK, MetOK
<1>2. left' \in Bounds /\ UNCHANGED <<rootVars, pk, shared>> /\ elock' \in Digests \cup {None}
  BY CommandFacts DEF packVars
<1>3. Numbered'
  BY <1>2, NoPlanType DEF EntryInv, Numbered, rootVars
<1> QED BY <1>1, <1>2, <1>3, NoPlanType, CommandMoves

\* The command begins.
LEMMA BeginStep == ASSUME EntryInv, Begin PROVE EntryInv'
<1>a. UNCHANGED <<rootVars, pk, shared, elock>> /\ elock \in Digests \cup {None} /\ CommandOK
  BY CommandFacts DEF Begin
<1>b. left' \in Bounds
  <2>1. left.commands > 0 /\ left' = [left EXCEPT !.commands = left.commands - 1]
    BY DEF Begin
  <2> QED BY <2>1, CommandFacts DEF Bounds
<1>1. ASSUME NEW x \in Commands, pl' = x, x.at = "current", x.command # "none",
             x.shell \in Shells, x.mode \in {"stdio", "http"}, x.built = {},
             x.record \in {None, elock},
             x.command = "verify" => x.record \in Digests \ {None},
             x.steady => x.command = "verify" /\ Live(x.record)
      PROVE  EntryInv'
  <2>1. CommandOK'
    BY <1>1, FS_EmptySet DEF CommandOK
  <2>2. x.steady => Live(x.record)'
    <3>1. \A d : Live(d) => Live(d)'
      BY <1>a DEF Live, Describes, rootVars
    <3> QED BY <1>1, <3>1 DEF Live, Describes
  <2>3. SteadyOK' /\ MetOK'
    BY <1>1, <2>2 DEF SteadyOK, MetOK
  <2>4. Numbered'
    BY <1>a, <1>1 DEF EntryInv, Numbered, rootVars
  <2> QED BY <1>a, <1>b, <1>1, <2>1, <2>3, <2>4, CommandMoves
<1>2. CASE UNCHANGED pl
  BY <1>a, <1>b, <1>2 DEF EntryInv, PackInv, PackTypeOK, CommandOK, SteadyOK, MetOK, Missed,
     Numbered, rootVars, Live, Describes
<1>3. ASSUME NEW shell \in Shells, NEW params \in Params, NEW mode \in {"stdio", "http"},
             NEW write \in BOOLEAN,
             pl' = [NoPlan EXCEPT !.at = "current", !.mode = mode, !.params = params,
                                  !.command = IF write THEN "lock" ELSE "plan", !.shell = shell]
      PROVE  EntryInv'
  <2> DEFINE command == IF write THEN "lock" ELSE "plan"
             x == [NoPlan EXCEPT !.at = "current", !.mode = mode, !.params = params,
                                 !.command = command, !.shell = shell]
  <2>1. command \in {"plan", "lock"}
    OBVIOUS
  <2> HIDE DEF command
  <2>2. x \in Commands
    BY <2>1, NoPlanType, ZenonT(60) DEF Commands
  <2>3. /\ x.at = "current" /\ x.command = command /\ x.shell = shell /\ x.mode = mode
        /\ x.built = {} /\ x.record = None /\ x.steady = FALSE
    BY DEF NoPlan
  <2>4. pl' = x
    BY <1>3 DEF command
  <2> HIDE DEF x
  <2> QED BY <1>1, <2>1, <2>2, <2>3, <2>4
<1>4. ASSUME NEW shell \in Shells, NEW params \in Params, elock # None,
             NEW modes \in {{"stdio"}, {"http"}, {"stdio", "http"}}, NEW first \in modes,
             pl' = [NoPlan EXCEPT !.at = "current", !.command = "verify", !.params = params,
                                  !.modes = modes \ {first}, !.mode = first,
                                  !.shell = shell, !.record = elock, !.steady = Live(elock)]
      PROVE  EntryInv'
  <2> DEFINE live == Live(elock)
             x == [NoPlan EXCEPT !.at = "current", !.command = "verify", !.params = params,
                                 !.modes = modes \ {first}, !.mode = first,
                                 !.shell = shell, !.record = elock, !.steady = live]
  <2>1. elock \in Digests \ {None} /\ first \in {"stdio", "http"}
        /\ modes \ {first} \in SUBSET {"stdio", "http"}
    BY <1>a, <1>4
  <2>2. live \in BOOLEAN
    BY DEF Live
  <2>3. pl' = x
    BY <1>4
  <2> HIDE DEF live
  <2>4. x \in Commands
    <3>1. PICK rest \in SUBSET {"stdio", "http"} : rest = modes \ {first}
      BY <2>1
    <3>2. x = [NoPlan EXCEPT !.at = "current", !.command = "verify", !.params = params,
                             !.modes = rest, !.mode = first, !.shell = shell,
                             !.record = elock, !.steady = live]
      BY <3>1
    <3>3. shell \in Shells \cup {None} /\ elock \in Digests \cup {None}
      BY <2>1
    <3> HIDE DEF x
    <3> QED BY <2>1, <2>2, <3>2, <3>3, NoPlanType, ZenonT(90) DEF Commands
  <2>5. /\ x.at = "current" /\ x.command = "verify" /\ x.shell = shell /\ x.mode = first
        /\ x.built = {} /\ x.record = elock /\ x.steady = live
    BY DEF NoPlan
  <2> HIDE DEF x
  <2>6. x.steady => Live(x.record)
    BY <2>5 DEF live
  <2> QED BY <1>1, <2>1, <2>3, <2>4, <2>5, <2>6
<1> QED BY <1>2, <1>3, <1>4 DEF Begin

\* The command keeps what it has built and what it was asked for.
Goes ==
    /\ pl' \in Commands /\ pl'.mode \in {"stdio", "http"}
    /\ pl'.command = pl.command /\ pl'.shell = pl.shell /\ pl'.built = pl.built
    /\ pl'.record = pl.record /\ pl'.params = pl.params /\ pl'.steady = pl.steady
    /\ pl.met => pl'.met

\* The command goes on with the same plans in hand.
LEMMA GoesMoves ==
    ASSUME EntryInv, pl.at # "idle", Goes, UNCHANGED <<packVars, elock>>,
           pl'.at \in {"current", "lockfile", "interpreter", "probe", "hash"},
           pl'.at # "current" => pl'.version \in Versions,
           pl'.at # "current" /\ pl.steady => pl'.version = pl.record.interpreter,
           pl'.at \in {"probe", "hash"} /\ pl.steady => pl'.base = pl.record.environment.base,
           pl'.at = "hash" /\ pl.steady => pl'.python = pl.record.python,
           pl'.at = "hash" /\ pl.command = "verify" /\ ~pl'.met => Missed'
    PROVE  EntryInv'
<1>a. pl \in Commands /\ CommandOK /\ elock' \in Digests \cup {None}
      /\ left' \in Bounds /\ UNCHANGED <<rootVars, pk, shared, elock>>
  BY CommandFacts DEF packVars
<1>b. SteadyOK /\ MetOK /\ Numbered
  BY DEF EntryInv
<1>1. \A d : Live(d) => Live(d)'
  BY <1>a DEF Live, Describes, rootVars
<1>2. CommandOK'
  BY <1>a DEF CommandOK, Goes
<1>3. SteadyOK'
  <2>1. pl.steady => Live(pl.record)'
    BY <1>b, <1>1 DEF SteadyOK, Goes, Live, Describes
  <2> QED BY <1>b, <2>1 DEF SteadyOK, Goes, Agree
<1>4. MetOK'
  BY <1>b DEF MetOK, Goes
<1>5. Numbered'
  BY <1>a, <1>b DEF Numbered, Goes, rootVars
<1> QED BY <1>a, <1>2, <1>3, <1>4, <1>5, CommandMoves DEF Goes

\* The pointer and the lockfile are read, the interpreter is found and asked what it is.
LEMMA ReadStep ==
    ASSUME EntryInv, ReadCurrent \/ ReadLockfile \/ FindInterpreter \/ Probe
    PROVE  EntryInv'
<1>a. /\ pl \in Commands /\ CommandOK /\ elock \in Digests \cup {None}
      /\ current \in Versions \cup {None} /\ SteadyOK
      /\ python \in [Versions -> Pythons \cup {None}]
  BY CommandFacts DEF EntryInv
<1>b. pl.at # "idle" => pl.mode \in {"stdio", "http"}
  BY <1>a DEF CommandOK
<1>c. Refused => EntryInv'
  BY <1>a, OverMoves DEF Refused
<1>1. CASE ReadCurrent /\ ~Refused
  <2>1. /\ pl.at = "current" /\ current # None /\ UNCHANGED <<packVars, elock>>
        /\ pl' = [pl EXCEPT !.at = "lockfile", !.version = current]
    BY <1>1 DEF ReadCurrent
  <2>2. pl' \in Commands
    BY <1>a, <2>1, Zenon DEF Commands
  <2>3. Goes /\ pl'.at = "lockfile" /\ pl'.version = current
    BY <1>a, <1>b, <2>1, <2>2 DEF Goes, Commands
  <2>4. pl.steady => current = pl.record.interpreter
    BY <1>a, <2>1 DEF SteadyOK, Live
  <2> QED BY <1>a, <2>1, <2>3, <2>4, GoesMoves
<1>2. CASE ReadLockfile /\ ~Refused
  <2>1. /\ pl.at = "lockfile" /\ UNCHANGED <<packVars, elock>>
        /\ pl' = [pl EXCEPT !.at = "interpreter"]
    BY <1>2 DEF ReadLockfile, Onto
  <2>2. pl' \in Commands
    BY <1>a, <2>1, Zenon DEF Commands
  <2>3. Goes /\ pl'.at = "interpreter" /\ pl'.version = pl.version
    BY <1>a, <1>b, <2>1, <2>2 DEF Goes, Commands
  <2> QED BY <1>a, <2>1, <2>3, GoesMoves DEF CommandOK, SteadyOK
<1>3. CASE FindInterpreter /\ ~Refused
  <2> DEFINE base == python[pl.version]
  <2>1. /\ pl.at = "interpreter" /\ UNCHANGED <<packVars, elock>>
        /\ pl' = [pl EXCEPT !.at = "probe", !.base = base]
    BY <1>3 DEF FindInterpreter
  <2>2. base \in Pythons \cup {None}
    BY <1>a, <2>1 DEF CommandOK
  <2>3. pl.steady => pl.version = pl.record.interpreter /\ base = pl.record.environment.base
    BY <1>a, <2>1 DEF SteadyOK, Live
  <2> HIDE DEF base
  <2>4. pl' \in Commands
    BY <1>a, <2>1, <2>2, Zenon DEF Commands
  <2>5. Goes /\ pl'.at = "probe" /\ pl'.version = pl.version /\ pl'.base = base
    BY <1>a, <1>b, <2>1, <2>4 DEF Goes, Commands
  <2> QED BY <1>a, <2>1, <2>3, <2>5, GoesMoves DEF CommandOK
<1>4. CASE Probe /\ ~Refused
  <2> DEFINE y == python[pl.version]
             met == pl.met \/ MeetsRecord
  <2>1. /\ pl.at = "probe" /\ UNCHANGED <<packVars, elock>> /\ venv[pl.version] # None
        /\ pl' = [pl EXCEPT !.at = "hash", !.python = y, !.met = met]
    BY <1>4 DEF Probe
  <2>2. y \in Pythons \cup {None} /\ met \in BOOLEAN
    BY <1>a, <2>1 DEF CommandOK
  <2>3. pl.steady => /\ pl.version = pl.record.interpreter /\ y = pl.record.python
                     /\ pl.base = pl.record.environment.base
    BY <1>a, <2>1 DEF SteadyOK, Live, Describes
  <2>4. pl.command = "verify" /\ ~met =>
          \/ pl.version # pl.record.interpreter \/ y # pl.record.python
          \/ locks[pl.record.interpreter] = None
          \/ locks[pl.record.interpreter].id # pl.record.lockfile
    BY <2>1 DEF MeetsRecord, Describes
  <2>5. pl.met => met
    OBVIOUS
  <2> HIDE DEF y, met
  <2>6. pl' \in Commands
    BY <1>a, <2>1, <2>2, Zenon DEF Commands
  <2>7. /\ pl'.at = "hash" /\ pl'.version = pl.version /\ pl'.base = pl.base /\ pl'.python = y
        /\ pl'.met = met /\ pl'.record = pl.record
    BY <1>a, <2>1 DEF Commands
  <2>8. Goes
    BY <1>a, <1>b, <2>1, <2>5, <2>6 DEF Goes, Commands
  <2>9. pl.command = "verify" /\ ~pl'.met => Missed'
    BY <2>1, <2>4, <2>7 DEF Missed, packVars, rootVars
  <2> QED BY <1>a, <2>1, <2>3, <2>7, <2>8, <2>9, GoesMoves DEF CommandOK
<1> QED BY <1>c, <1>1, <1>2, <1>3, <1>4

\* The next mode is resolved from the start.
LEMMA NextModeStep == ASSUME EntryInv, NextMode PROVE EntryInv'
<1>a. pl \in Commands /\ pl.modes \in SUBSET {"stdio", "http"}
  BY CommandFacts
<1>1. PICK mode \in pl.modes :
        pl' = [pl EXCEPT !.at = "current", !.mode = mode, !.modes = pl.modes \ {mode}]
  BY DEF NextMode
<1>2. mode \in {"stdio", "http"} /\ pl.modes \ {mode} \in SUBSET {"stdio", "http"}
  BY <1>a
<1>3. pl' \in Commands
  BY <1>a, <1>1, <1>2, Zenon DEF Commands
<1>4. Goes /\ pl'.at = "current"
  BY <1>a, <1>1, <1>2, <1>3 DEF Goes, Commands
<1> QED BY <1>4, GoesMoves DEF NextMode

\* A plan is built.
LEMMA HashLockfileStep == ASSUME EntryInv, HashLockfile PROVE EntryInv'
<1>a. /\ pl \in Commands /\ CommandOK /\ elock \in Digests \cup {None}
      /\ pl.built \in SUBSET Digests /\ pl.params \in Params
      /\ pl.base \in Pythons \cup {None} /\ pl.python \in Pythons \cup {None}
      /\ locks \in [Versions -> Lockfiles \cup {None}] /\ None \notin Lockfiles
      /\ SteadyOK /\ MetOK /\ Numbered
  BY CommandFacts DEF EntryInv
<1>1. CASE Refused
  BY <1>a, <1>1, OverMoves DEF Refused
<1>2. CASE ~Refused
  <2> DEFINE d == Digest(locks[pl.version].id)
             x == [pl EXCEPT !.at = "built", !.built = pl.built \cup {d}]
  <2>1. /\ pl.at = "hash" /\ locks[pl.version] # None /\ pl' = x
        /\ UNCHANGED <<packVars, elock>>
    BY <1>2 DEF HashLockfile
  <2>2. pl.version \in Versions /\ pl.mode \in {"stdio", "http"} /\ pl.shell \in Shells
    BY <1>a, <2>1 DEF CommandOK
  <2>3. locks[pl.version].id \in Nat
    BY <1>a, <2>1, <2>2 DEF Lockfiles
  <2>4. /\ d \in Digests /\ d.mode = pl.mode /\ d.params = pl.params
        /\ d.environment.settings = pl.shell /\ d.environment.base = pl.base
        /\ d.interpreter = pl.version /\ d.python = pl.python
        /\ d.lockfile = locks[pl.version].id
    BY <1>a, <2>2, <2>3 DEF Digest, ScopedEnvironment, Digests
  <2> HIDE DEF d
  <2>5. x \in Commands
    <3>1. pl.built \cup {d} \in SUBSET Digests
      BY <1>a, <2>4
    <3> QED BY <1>a, <3>1, Zenon DEF Commands
  <2>6. /\ x.at = "built" /\ x.command = pl.command /\ x.shell = pl.shell /\ x.mode = pl.mode
        /\ x.built = pl.built \cup {d} /\ x.record = pl.record /\ x.params = pl.params
        /\ x.steady = pl.steady /\ x.met = pl.met /\ x.version = pl.version
    BY <1>a DEF Commands
  <2> HIDE DEF x
  <2>7. UNCHANGED <<rootVars, pk, shared, left>>
    BY <2>1 DEF packVars
  <2>8. IsFiniteSet(x.built)
    BY <1>a, <2>6, FS_AddElement DEF CommandOK
  <2>9. CommandOK'
    BY <1>a, <2>1, <2>2, <2>4, <2>6, <2>8 DEF CommandOK
  <2>10. SteadyOK'
    <3>1. pl.steady => /\ pl.command = "verify" /\ Live(pl.record) /\ Agree(d, pl.record)
                       /\ \A e \in pl.built : Agree(e, pl.record)
      BY <1>a, <2>1, <2>4 DEF SteadyOK, Agree, Live, Describes
    <3>2. \A e : Live(e) => Live(e)'
      BY <2>7 DEF Live, Describes, rootVars
    <3>3. pl'.steady => Live(pl.record)'
      BY <2>1, <2>6, <3>1, <3>2 DEF Live, Describes
    <3> QED BY <2>1, <2>6, <3>1, <3>3 DEF SteadyOK, Agree
  <2>11. MetOK'
    <3>1. pl.command = "verify" /\ ~pl.met => pl.record \notin pl.built /\ d # pl.record
      BY <1>a, <2>1, <2>4 DEF MetOK, Missed
    <3> QED BY <2>1, <2>6, <3>1 DEF MetOK
  <2>12. Numbered'
    BY <1>a, <2>1, <2>2, <2>4, <2>6, <2>7 DEF Numbered, rootVars
  <2> QED BY <1>a, <2>1, <2>5, <2>7, <2>9, <2>10, <2>11, <2>12, CommandFacts, CommandMoves
<1> QED BY <1>1, <1>2

\* The plan is printed or recorded, or the verdict is given.
LEMMA EndStep ==
    ASSUME EntryInv, PrintPlan \/ WriteLock \/ \E ok \in BOOLEAN : Verdict(ok)
    PROVE  EntryInv'
<1>a. CommandOK /\ pl.built \in SUBSET Digests
  BY CommandFacts
<1>1. CASE PrintPlan
  BY <1>1, OverMoves DEF PrintPlan, Refused
<1>2. CASE WriteLock
  <2>1. pl.built # {}
    BY <1>a, <1>2 DEF WriteLock, CommandOK
  <2>2. elock' \in pl.built
    BY <1>2, <2>1 DEF WriteLock
  <2> QED BY <1>2, <2>2, OverMoves DEF WriteLock
<1>3. ASSUME NEW ok \in BOOLEAN, Verdict(ok) PROVE EntryInv'
  BY <1>3, OverMoves DEF Verdict
<1> QED BY <1>1, <1>2, <1>3

\* A lockfile that is replaced gets the next number.
LEMMA LocksGrow ==
    ASSUME PackInv, PackNext
    PROVE  /\ written' \in Nat /\ written \leq written'
           /\ \A v \in Versions :
                \/ locks'[v] \in {locks[v], None}
                \/ locks'[v].id = written + 1 /\ written' = written + 1
<1>a. locks \in [Versions -> Lockfiles \cup {None}] /\ written \in Nat
  BY DEF PackInv, PackTypeOK
<1>1. CASE UNCHANGED <<locks, written>>
  BY <1>a, <1>1
<1>2. ASSUME NEW k \in Packagers, InstallFails(k) PROVE UNCHANGED written /\
             (UNCHANGED locks \/ locks' = [locks EXCEPT ![pk[k].v] = None])
  BY <1>2 DEF InstallFails
<1>3. ASSUME NEW k \in Packagers, WriteLockfile(k)
      PROVE  written' = written + 1 /\
             \E x : x.id = written + 1 /\ locks' = [locks EXCEPT ![pk[k].v] = x]
  <2> DEFINE x == [id |-> written + 1, sha |-> pk[k].digest, frozen |-> pk[k].frozen]
  <2>1. locks' = [locks EXCEPT ![pk[k].v] = x] /\ written' = written + 1
    BY <1>3 DEF WriteLockfile
  <2>2. x.id = written + 1
    OBVIOUS
  <2> HIDE DEF x
  <2> QED BY <2>1, <2>2
<1>4. CASE UNCHANGED written /\
             \E v : UNCHANGED locks \/ locks' = [locks EXCEPT ![v] = None]
  BY <1>a, <1>4
<1>5. CASE written' = written + 1 /\
             \E v, x : x.id = written + 1 /\ locks' = [locks EXCEPT ![v] = x]
  BY <1>a, <1>5
<1>6. ASSUME NEW k \in Packagers, PackStep(k), ~InstallFails(k), ~WriteLockfile(k)
      PROVE  UNCHANGED <<locks, written>>
  BY <1>6 DEF PackStep, BeginInstall, ClearVenv, Stage, CreateVenv, InstallArtifact, Freeze,
     BeginRollback, ProveArtifact, Compare, Confirm, Activate, AppendHistory, Die, Refuse, rootVars
<1>7. Touch => UNCHANGED <<locks, written>>
  BY DEF Touch
<1> QED BY <1>1, <1>2, <1>3, <1>4, <1>5, <1>6, <1>7 DEF PackNext

\* The packager, or somebody else, works on the root: the record may be true no more.
LEMMA RootStepStep == ASSUME EntryInv, RootStep PROVE EntryInv'
<1>a. /\ pl \in Commands /\ CommandOK /\ SteadyOK /\ MetOK /\ Numbered
      /\ pl.built \in SUBSET Digests /\ pl.record \in Digests \cup {None}
      /\ elock \in Digests \cup {None} /\ pl.steady \in BOOLEAN /\ written \in Nat
      /\ locks \in [Versions -> Lockfiles \cup {None}]
  BY CommandFacts DEF EntryInv
<1>1. PackInv'
  BY PackStepInv, TouchTypes DEF RootStep, PackNext, EntryInv
<1>2. /\ written' \in Nat /\ written \leq written'
      /\ \A v \in Versions :
           \/ locks'[v] \in {locks[v], None}
           \/ locks'[v].id = written + 1 /\ written' = written + 1
  BY LocksGrow DEF RootStep, EntryInv
<1>3. PICK steady \in BOOLEAN :
        /\ pl' = [pl EXCEPT !.steady = steady]
        /\ steady => pl.steady /\ \E d \in {pl.record} : Live(d)'
  <2>1. PICK record \in {pl.record} : pl' = [pl EXCEPT !.steady = pl.steady /\ Live(record)']
    BY DEF RootStep
  <2> DEFINE steady == pl.steady /\ Live(record)'
  <2>2. steady \in BOOLEAN
    BY <1>a
  <2> QED BY <2>1, <2>2
<1>4. pl' \in Commands
  BY <1>a, <1>3, Zenon DEF Commands
<1>5. /\ pl'.at = pl.at /\ pl'.command = pl.command /\ pl'.shell = pl.shell
      /\ pl'.mode = pl.mode /\ pl'.built = pl.built /\ pl'.record = pl.record
      /\ pl'.version = pl.version /\ pl'.base = pl.base /\ pl'.python = pl.python
      /\ pl'.params = pl.params /\ pl'.steady = steady /\ pl'.met = pl.met
  BY <1>a, <1>3 DEF Commands
<1>6. CommandOK'
  BY <1>a, <1>5 DEF CommandOK
<1>7. SteadyOK'
  <2>1. steady => Live(pl.record)'
    BY <1>3, <1>5 DEF Live, Describes
  <2> QED BY <1>a, <1>3, <1>5, <2>1 DEF SteadyOK, Agree
<1>8. MetOK'
  <2>1. ASSUME Missed, pl.record \in Digests \ {None} PROVE Missed'
    <3>1. pl.record.interpreter \in Versions /\ pl.record.lockfile \leq written
          /\ pl.record.lockfile \in Nat
      BY <1>a, <2>1 DEF Numbered, Digests
    <3> DEFINE v == pl.record.interpreter
    <3>2. (locks'[v] \in {locks[v], None}) \/ (locks'[v].id = written + 1)
      BY <1>2, <3>1
    <3>3. locks'[v].id = written + 1 => locks'[v].id # pl.record.lockfile
      BY <1>a, <3>1
    <3>4. \/ pl.version # v \/ pl.python # pl.record.python
          \/ locks[v] = None \/ locks[v].id # pl.record.lockfile
      BY <2>1 DEF Missed
    <3>5. \/ pl.version # v \/ pl.python # pl.record.python
          \/ locks'[v] = None \/ locks'[v].id # pl.record.lockfile
      BY <3>2, <3>3, <3>4
    <3> QED BY <1>5, <3>5 DEF Missed
  <2> QED BY <1>a, <1>5, <2>1 DEF MetOK, CommandOK
<1>9. Numbered'
  <2>1. \A v \in Versions : locks'[v] # None => locks'[v].id \leq written'
    BY <1>a, <1>2 DEF Numbered, Lockfiles
  <2>2. \A d \in pl.built \cup {pl.record, elock} : d # None => d.lockfile \leq written'
    BY <1>a, <1>2 DEF Numbered, Digests
  <2>3. elock' = elock
    BY DEF RootStep
  <2> QED BY <1>5, <2>1, <2>2, <2>3 DEF Numbered
<1> QED BY <1>1, <1>4, <1>6, <1>7, <1>8, <1>9, <1>a DEF EntryInv, RootStep

\* A step of the launch command or of the root.
LEMMA EntryInvStep == ASSUME EntryInv, [EntryNext]_entryVars PROVE EntryInv'
<1>1. CASE UNCHANGED entryVars
  BY <1>1 DEF entryVars, packVars, rootVars, EntryInv, PackInv, PackTypeOK, CommandOK, SteadyOK,
     MetOK, Missed, Numbered, Live, Describes
<1>2. CASE EntryStep
  BY <1>2, BeginStep, ReadStep, HashLockfileStep, NextModeStep, EndStep DEF EntryStep
<1> QED BY <1>1, <1>2, RootStepStep DEF EntryNext

\* A verdict is true of the record it was given about.
LEMMA VerdictTrue ==
    ASSUME EntryInv, NEW ok \in BOOLEAN, Verdict(ok)
    PROVE  LET r == pl.record
               same == /\ r.mode = pl.mode /\ r.params = pl.params
                       /\ r.environment.settings = pl.shell
           IN  /\ ok => /\ same /\ Cardinality(pl.built) = 1
                        /\ pl.version = r.interpreter /\ pl.met
               /\ ~ok /\ same /\ Cardinality(pl.built) = 1 => ~pl.steady
<1> DEFINE r == pl.record
           built == pl.built
<1>a. /\ CommandOK /\ SteadyOK /\ MetOK /\ built \in SUBSET Digests
  BY CommandFacts DEF EntryInv
<1>b. /\ pl.at = "built" /\ r \in Digests /\ ok = (Reasons(r, built) = {})
      /\ pl.command = "verify"
  BY <1>a DEF Verdict, CommandOK
<1>1. PICK b \in built : /\ b.mode = pl.mode /\ b.params = pl.params
                         /\ b.environment.settings = pl.shell /\ b.interpreter = pl.version
  BY <1>a, <1>b DEF CommandOK
<1>2. CASE ok
  <2>1. built = {r}
    BY <1>1, <1>2, <1>b DEF Reasons
  <2>2. Cardinality(built) = 1
    BY <2>1, FS_Singleton
  <2>3. pl.met
    BY <1>a, <1>b, <2>1 DEF MetOK
  <2> QED BY <1>1, <1>2, <2>1, <2>2, <2>3
<1>3. CASE ~ok /\ Cardinality(built) = 1 /\ pl.steady
           /\ r.mode = pl.mode /\ r.params = pl.params /\ r.environment.settings = pl.shell
  <2>1. built = {b}
    BY <1>1, <1>3, <1>a, FS_Singleton DEF CommandOK
  <2>2. Agree(b, r)
    BY <1>1, <1>3, <1>a, <1>b DEF SteadyOK
  <2>3. b = r
    BY <1>1, <1>3, <1>a, <1>b, <2>2 DEF Digests, Agree
  <2>4. Reasons(r, built) = {}
    BY <2>1, <2>3 DEF Reasons
  <2> QED BY <1>3, <1>b, <2>4
<1> HIDE DEF r, built
<1> QED BY <1>2, <1>3 DEF r, built

----------------------------------------------------------------------------
(* The update commands. *)

\* Where the update command is, and what it has accepted by then.
UpdateInv ==
    /\ at \in {"read", "check", "validate", "core", "ended"}
    /\ at \in {"read", "check", "validate", "core"} => applied = None /\ outcome = "none"
    /\ at \in {"read", "validate", "core"} => file \in U!Files /\ approve \in Bodies \cup {None}
    /\ at \in {"validate", "core"} => doc \in U!Files
    /\ at = "core" => U!Accepted(doc)
    /\ at = "ended" => UpdateIsTruthful

\* Nothing was read yet, or no update command runs.
LEMMA InitUpdate == U!UpdateInit \/ NoUpdate => UpdateInv
  BY DEF U!UpdateInit, NoUpdate, UpdateInv, UpdateIsTruthful, U!UpdateIsTruthful

\* The core applies the file as it is by now: it is the content that was accepted.
LEMMA CoreAppliesStep == ASSUME UpdateInv, U!CoreApplies PROVE UpdateInv'
<1>1. /\ at = "core" /\ file.digest = doc.digest /\ file.body = file.digest
      /\ applied' = file.body /\ at' = "ended" /\ outcome' \in {"ok", "unavailable"}
      /\ UNCHANGED <<file, replaces, doc, approve>>
  BY DEF U!CoreApplies, U!End
<1>2. doc \in U!Files /\ U!Accepted(doc) /\ approve \in Bodies \cup {None}
  BY <1>1 DEF UpdateInv
<1>3. doc.body \in Bodies /\ doc.digest = doc.body
  BY <1>2 DEF U!Files, U!Accepted, U!ExecuteCorePlan, U!ApplyPlan, U!Evaluate
<1>4. doc.body.kind = "component" =>
        doc.body.sound /\ doc.body.ours /\ doc.body.apart /\ doc.approval = "approved"
  BY <1>2 DEF U!Accepted, U!ApplyPlan, U!Evaluate
<1>5. doc.body.kind = "ecosystem" \/ approve # None => approve = doc.body
  BY <1>2 DEF U!Accepted, U!ExecuteCorePlan, U!ApplyPlan, U!Evaluate
<1>6. UpdateIsTruthful'
  BY <1>1, <1>3, <1>4, <1>5 DEF UpdateIsTruthful, U!UpdateIsTruthful
<1> QED BY <1>1, <1>6 DEF UpdateInv

\* update check says what its settings and the metadata file told it.
LEMMA CheckStep == ASSUME UpdateInv, U!Check PROVE UpdateInv'
<1>1. /\ doc' \in U!Settings /\ at' = "ended" /\ outcome' = U!CheckUpdate(doc')
      /\ applied' = None
  BY DEF U!Check, UpdateInv
<1>2. outcome' \in {"current", "available"} =>
        /\ ~doc'.offline /\ doc'.origin = "allowed" /\ doc'.compatible # "no"
        /\ doc'.metadata = IF outcome' = "current" THEN "installed" ELSE "another"
  BY <1>1 DEF U!CheckUpdate, U!Settings
<1>3. outcome' \notin {"rejected", "ok"}
  BY <1>1 DEF U!CheckUpdate
<1>4. UpdateIsTruthful'
  BY <1>1, <1>2, <1>3 DEF UpdateIsTruthful, U!UpdateIsTruthful
<1> QED BY <1>1, <1>4 DEF UpdateInv

\* A step of the update commands, or of somebody who replaces the file.
LEMMA UpdateInvStep == ASSUME UpdateInv, [U!UpdateNext]_updVars PROVE UpdateInv'
<1>1. CASE UNCHANGED updVars
  BY <1>1 DEF updVars, UpdateInv, UpdateIsTruthful, U!UpdateIsTruthful, U!Files, U!Accepted,
     U!ExecuteCorePlan, U!ApplyPlan, U!Evaluate
<1>2. CASE U!Replace
  BY <1>2 DEF U!Replace, UpdateInv, U!Files, U!Accepted, U!ExecuteCorePlan, U!ApplyPlan,
     U!Evaluate
<1>3. CASE U!ReadPlan
  BY <1>3 DEF U!ReadPlan, UpdateInv, U!Files
<1>4. CASE U!Validate
  <2>1. CASE U!End("rejected") /\ UNCHANGED applied
    BY <1>4, <2>1 DEF U!Validate, U!End, UpdateInv, UpdateIsTruthful, U!UpdateIsTruthful
  <2>2. CASE /\ U!Accepted(doc) /\ at' = "core"
             /\ UNCHANGED <<file, replaces, doc, approve, applied, outcome>>
    BY <1>4, <2>2 DEF U!Validate, UpdateInv, U!Files, U!Accepted, U!ExecuteCorePlan, U!ApplyPlan,
       U!Evaluate
  <2> QED BY <1>4, <2>1, <2>2 DEF U!Validate
<1>5. CASE U!CoreUnavailable \/ U!CoreRefuses
  BY <1>5 DEF U!CoreUnavailable, U!CoreRefuses, U!End, UpdateInv, UpdateIsTruthful,
     U!UpdateIsTruthful
<1> QED
  BY <1>1, <1>2, <1>3, <1>4, <1>5, CoreAppliesStep, CheckStep DEF U!UpdateNext

----------------------------------------------------------------------------
(* The theorems. *)

\* A step of the whole is a step of the root and of the update commands, or of nobody.
LEMMA DeployParts ==
    ASSUME [DeployNext]_<<entryVars, updVars>>
    PROVE  [EntryNext]_entryVars /\ [U!UpdateNext]_updVars
  BY DEF DeployNext

\* The types of the root and what a launch command has read, for any number of packagers.
THEOREM EntryInvariance == DeploySpec => []EntryInv
<1>1. DeployInit => EntryInv
  BY InitEntry DEF DeployInit
<1>2. EntryInv /\ [DeployNext]_<<entryVars, updVars>> => EntryInv'
  BY EntryInvStep, DeployParts
<1> QED BY <1>1, <1>2, PTL DEF DeploySpec

\* What verify says is true, whoever works on the root between the files it reads
\* (entrypoints.py entrypoint_lock_reasons).
THEOREM VerdictsAreTrue == DeploySpec => VerifyIsTrue
<1>1. EntryInv =>
        [\A ok \in BOOLEAN :
           Verdict(ok) =>
              LET r == pl.record
                  same == /\ r.mode = pl.mode /\ r.params = pl.params
                          /\ r.environment.settings = pl.shell
              IN  /\ ok => /\ same /\ Cardinality(pl.built) = 1
                           /\ pl.version = r.interpreter /\ pl.met
                  /\ ~ok /\ same /\ Cardinality(pl.built) = 1 => ~pl.steady]_entryVars
  BY VerdictTrue
<1> QED BY <1>1, EntryInvariance, PTL DEF VerifyIsTrue

\* What the core applies is what this process accepted, and nobody who did not check is told
\* that he is up to date (update.py run_core, check_update).
THEOREM UpdatesAreTruthful == DeploySpec => []UpdateIsTruthful
<1>1. DeployInit => UpdateInv
  BY InitUpdate DEF DeployInit
<1>2. UpdateInv /\ [DeployNext]_<<entryVars, updVars>> => UpdateInv'
  BY UpdateInvStep, DeployParts
<1>3. UpdateInv => UpdateIsTruthful
  BY DEF UpdateInv, UpdateIsTruthful, U!UpdateIsTruthful
<1> QED BY <1>1, <1>2, <1>3, PTL DEF DeploySpec

\* The invariant of the root, for any number of packaging processes.
THEOREM RootInvariance == DeploySpec => []RootInv
<1>1. DeployInit => RootInv
  BY InitPack DEF DeployInit, EntryInit
<1>2. RootInv /\ EntryInv /\ [DeployNext]_<<entryVars, updVars>> => RootInv'
  <2> SUFFICES ASSUME RootInv, EntryInv, [EntryNext]_entryVars PROVE RootInv'
    BY DeployParts
  <2>1. CASE RootStep
    BY <2>1, PackStepRoot, TouchRoot DEF RootStep, PackNext
  <2>2. CASE ~RootStep
    <3>1. UNCHANGED <<rootVars, pk, shared>>
      BY <2>2 DEF EntryNext, EntryStep, Begin, ReadCurrent, ReadLockfile, FindInterpreter, Probe,
         HashLockfile, NextMode, PrintPlan, WriteLock, Verdict, Refused, Onto, packVars, entryVars
    <3>2. PackInv'
      BY EntryInvStep DEF EntryInv
    <3> QED BY <3>1, <3>2 DEF RootInv, ActiveIsLocked, Apart, LockOK, BytesOK, rootVars
  <2> QED BY <2>1, <2>2
<1> QED BY <1>1, <1>2, EntryInvariance, PTL DEF DeploySpec

\* However many packagers work on the root, the active version and those the history offers for
\* a rollback keep their lockfile wherever one of them fails or dies, unless two have been at
\* work on that very version at a time (release/package.py install takes no lock).
THEOREM ActiveStaysLocked == DeploySpec => []ActiveIsLocked
<1>1. RootInv => ActiveIsLocked
  BY DEF RootInv
<1> QED BY <1>1, RootInvariance, PTL

\* current.json moves only to a version whose environment and artifact are the ones its lockfile
\* names, whatever failed, died or drifted before, unless that version was changed from outside
\* or by another packager while it was worked on (release/package.py install, rollback).
THEOREM ActivationsAreVerified == DeploySpec => ActivationIsVerified
<1>1. RootInv =>
        [\A k \in Packagers :
           Activate(k) /\ ~pk[k].touched /\ pk[k].v \notin shared =>
              /\ locks[current'] # None
              /\ venv[current'] = locks[current'].frozen
              /\ staged[current'] = locks[current'].sha]_packVars
  BY DEF RootInv, LockOK, BytesOK, Activate
<1> QED BY <1>1, RootInvariance, PTL DEF ActivationIsVerified

=============================================================================
