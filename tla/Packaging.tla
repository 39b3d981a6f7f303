----------------------------- MODULE Packaging -----------------------------
(***************************************************************************)
(* release/package.py over one install root: install builds a version's    *)
(* environment and activates it, rollback proves an earlier one and        *)
(* activates that.  A packaging process may fail at every command it runs, *)
(* may die or time out at every step, and nothing keeps two of them apart. *)
(* Outside it, somebody may change an environment or a staged artifact.    *)
(*                                                                         *)
(* Bytes are their identities: an artifact stands for its digest, and an   *)
(* environment is what pip freeze tells apart, its own distribution and    *)
(* whether the pinned SDK is reachable in it; the Python it was made with  *)
(* is kept beside it, pip freeze does not name it.  Two artifacts of a     *)
(* version have the same file name.                                        *)
(***************************************************************************)
EXTENDS Naturals

CONSTANTS
    Packagers,     \* packaging processes
    Versions,
    Artifacts,     \* the bytes an artifact may have
    Pythons,       \* what an environment is made with: a Python, and what it shares of it
    None,          \* nothing there
    Budgets        \* bounds: packaging runs, whether they may overlap, changes made from
                   \* outside, entrypoint commands

Environments == [dist : {None} \cup Artifacts, sdk : BOOLEAN]
Lockfiles == [id : Nat, sha : Artifacts, frozen : Environments]

PackagingParameters ==
    /\ None \notin Versions /\ None \notin Artifacts
    /\ None \notin Lockfiles
    /\ Budgets \subseteq [runs : Nat, overlap : BOOLEAN, touches : Nat, commands : Nat]

VARIABLES
    staged,     \* staged[v]: the bytes under versions/v/artifact
    venv,       \* venv[v]: the environment under versions/v/venv
    python,     \* python[v]: the Python it was made with
    locks,      \* locks[v]: versions/v/lockfile.json
    written,    \* lockfiles written so far: no two have the same bytes
    current,    \* the version current.json names
    installed,  \* the versions history.jsonl records an install of
    left,       \* what is left of the bounds
    pk,         \* pk[k]: what packager k is doing
    shared      \* history: the versions two packagers have been at work on at a time

rootVars == <<staged, venv, python, locks, written, current, installed>>
packVars == <<rootVars, left, pk, shared>>

Bare == [dist |-> None, sdk |-> TRUE]     \* the content of an environment, before pip runs
NoTask ==
    [at |-> "idle", op |-> "none", v |-> None, a |-> None, existed |-> FALSE,
     digest |-> None, frozen |-> None, touched |-> FALSE]

Exists(v) == staged[v] # None \/ venv[v] # None \/ locks[v] # None

PackInit ==
    /\ staged = [v \in Versions |-> None]
    /\ venv = [v \in Versions |-> None]
    /\ python = [v \in Versions |-> None]
    /\ locks = [v \in Versions |-> None]
    /\ written = 0 /\ current = None /\ installed = {} /\ left \in Budgets
    /\ pk = [k \in Packagers |-> NoTask] /\ shared = {}

At(k, op, at) == pk[k].op = op /\ pk[k].at = at
Go(k, at) == pk' = [pk EXCEPT ![k].at = at]
End(k) == pk' = [pk EXCEPT ![k] = NoTask]
StartRun(k) ==
    /\ pk[k].at = "idle"
    /\ left.runs > 0 /\ (left.overlap \/ \A l \in Packagers : pk[l].at = "idle")
    /\ left' = [left EXCEPT !.runs = @ - 1]

\* Nothing keeps two packagers from working on one version.
Meets(k, v) ==
    shared' = IF \E l \in Packagers \ {k} : pk[l].v = v THEN shared \cup {v} ELSE shared

----------------------------------------------------------------------------
(* install and create_environment. *)

BeginInstall(k) ==
    /\ StartRun(k)
    /\ \E v \in Versions, a \in Artifacts :
         /\ pk' = [pk EXCEPT ![k] = [NoTask EXCEPT !.at = "clear", !.op = "install", !.v = v, !.a = a,
                                                   !.existed = Exists(v)]]
         /\ Meets(k, v)
    /\ UNCHANGED rootVars

\* An environment that is there is removed before the artifact has been looked at.
ClearVenv(k) ==
    /\ At(k, "install", "clear")
    /\ venv' = [venv EXCEPT ![pk[k].v] = None]
    /\ python' = [python EXCEPT ![pk[k].v] = None]
    /\ Go(k, "stage")
    /\ UNCHANGED <<staged, locks, written, current, installed, left, shared>>

\* stage_artifact: copied beside the version, and hashed there.
Stage(k) ==
    /\ At(k, "install", "stage")
    /\ staged' = [staged EXCEPT ![pk[k].v] = pk[k].a]
    /\ pk' = [pk EXCEPT ![k].at = "venv", ![k].digest = pk[k].a]
    /\ UNCHANGED <<venv, python, locks, written, current, installed, left, shared>>

\* create_venv, with the Python the operator names or the packager's own; whether a new
\* environment reaches the pinned SDK depends on it.
CreateVenv(k) ==
    /\ pk[k].at = "venv"
    /\ \E reached \in BOOLEAN :
         venv' = [venv EXCEPT ![pk[k].v] = [Bare EXCEPT !.sdk = reached]]
    /\ \E y \in Pythons : python' = [python EXCEPT ![pk[k].v] = y]
    /\ Go(k, IF pk[k].op = "install" THEN "pip" ELSE "compare")
    /\ UNCHANGED <<staged, locks, written, current, installed, left, shared>>

\* install_artifact: pip replaces the distribution and nothing else.
InstallArtifact(k) ==
    /\ pk[k].at = "pip"
    /\ venv[pk[k].v] # None
    /\ venv' = [venv EXCEPT ![pk[k].v].dist = staged[pk[k].v]]
    /\ Go(k, IF pk[k].op = "install" THEN "freeze" ELSE "confirm")
    /\ UNCHANGED <<staged, python, locks, written, current, installed, left, shared>>

Freeze(k) ==
    /\ At(k, "install", "freeze")
    /\ venv[pk[k].v] # None
    /\ pk' = [pk EXCEPT ![k].at = "lock", ![k].frozen = venv[pk[k].v]]
    /\ UNCHANGED <<rootVars, left, shared>>

\* A command of create_environment fails: a version directory that was not there before is
\* removed, one that was is left as it is by now.
\* Mutant: the half-built version is removed in every case.
MutInstallFails(k) ==
    /\ pk[k].op = "install" /\ pk[k].at \in {"stage", "venv", "pip", "freeze"}
    /\ staged' = [staged EXCEPT ![pk[k].v] = None]
    /\ venv' = [venv EXCEPT ![pk[k].v] = None]
    /\ python' = [python EXCEPT ![pk[k].v] = None]
    /\ locks' = [locks EXCEPT ![pk[k].v] = None]
    /\ End(k)
    /\ UNCHANGED <<written, current, installed, left, shared>>

InstallFails(k) ==
    LET v == pk[k].v IN
    /\ pk[k].op = "install" /\ pk[k].at \in {"stage", "venv", "pip", "freeze"}
    /\ \/ /\ ~pk[k].existed
          /\ staged' = [staged EXCEPT ![v] = None]
          /\ venv' = [venv EXCEPT ![v] = None]
          /\ python' = [python EXCEPT ![v] = None]
          /\ locks' = [locks EXCEPT ![v] = None]
       \/ /\ pk[k].existed
          /\ UNCHANGED <<staged, venv, python, locks>>
    /\ End(k)
    /\ UNCHANGED <<written, current, installed, left, shared>>

WriteLockfile(k) ==
    /\ At(k, "install", "lock")
    /\ locks' = [locks EXCEPT ![pk[k].v] =
                   [id |-> written + 1, sha |-> pk[k].digest, frozen |-> pk[k].frozen]]
    /\ written' = written + 1
    /\ Go(k, "activate")
    /\ UNCHANGED <<staged, venv, python, current, installed, left, shared>>

----------------------------------------------------------------------------
(* rollback. *)

\* resolve_rollback_target: a version the operator asks for, or one the history records.
BeginRollback(k) ==
    /\ StartRun(k)
    /\ \E v \in Versions :
         /\ pk' = [pk EXCEPT ![k] = [NoTask EXCEPT !.at = "prove", !.op = "rollback", !.v = v]]
         /\ Meets(k, v)
    /\ UNCHANGED rootVars

Refuse(k) == pk[k].at # "idle" /\ End(k) /\ UNCHANGED <<rootVars, left, shared>>

\* The lockfile is read and the staged bytes are proved against it.
ProveArtifact(k) ==
    LET v == pk[k].v IN
    /\ At(k, "rollback", "prove")
    /\ \/ locks[v] = None /\ Refuse(k)
       \/ locks[v] # None /\ staged[v] # locks[v].sha /\ Refuse(k)
       \/ /\ locks[v] # None /\ staged[v] = locks[v].sha
          /\ pk' = [pk EXCEPT ![k].frozen = locks[v].frozen, ![k].digest = locks[v].sha,
                              ![k].at = IF venv[v] = None THEN "venv" ELSE "compare"]
          /\ UNCHANGED <<rootVars, left, shared>>

\* The environment as it is; a drifted one is reinstalled from the staged artifact.
Compare(k) ==
    /\ At(k, "rollback", "compare")
    /\ Go(k, IF venv[pk[k].v] = pk[k].frozen THEN "activate" ELSE "pip")
    /\ UNCHANGED <<rootVars, left, shared>>

\* Mutant: the repaired environment is not compared again.
MutConfirm(k) ==
    /\ At(k, "rollback", "confirm")
    /\ Go(k, "activate") /\ UNCHANGED <<rootVars, left, shared>>

Confirm(k) ==
    /\ At(k, "rollback", "confirm")
    /\ \/ venv[pk[k].v] = pk[k].frozen /\ Go(k, "activate") /\ UNCHANGED <<rootVars, left, shared>>
       \/ venv[pk[k].v] # pk[k].frozen /\ Refuse(k)

----------------------------------------------------------------------------
(* Both. *)

Activate(k) ==
    /\ pk[k].at = "activate"
    /\ current' = pk[k].v
    /\ Go(k, "record")
    /\ UNCHANGED <<staged, venv, python, locks, written, installed, left, shared>>

AppendHistory(k) ==
    /\ pk[k].at = "record"
    /\ installed' = IF pk[k].op = "install" THEN installed \cup {pk[k].v} ELSE installed
    /\ End(k)
    /\ UNCHANGED <<staged, venv, python, locks, written, current, left, shared>>

\* A command of a rollback fails, or the process dies or times out anywhere: what it has done
\* so far stays.
Die(k) == Refuse(k)

\* External: somebody changes an environment, or the staged bytes, without the packager.
Touch ==
    /\ left.touches > 0
    /\ left' = [left EXCEPT !.touches = @ - 1]
    /\ \E v \in Versions :
         /\ \/ /\ venv[v] # None
               /\ UNCHANGED staged
               /\ \/ /\ venv' = [venv EXCEPT ![v] = None]
                     /\ python' = [python EXCEPT ![v] = None]
                  \/ \E x \in [dist : Artifacts, sdk : BOOLEAN], y \in Pythons :
                       /\ venv' = [venv EXCEPT ![v] = x]
                       /\ python' = [python EXCEPT ![v] = y]
            \/ \E x \in {None} \cup Artifacts :
                 /\ staged[v] # None
                 /\ staged' = [staged EXCEPT ![v] = x]
                 /\ UNCHANGED <<venv, python>>
         /\ pk' = [k \in Packagers |-> IF pk[k].v = v THEN [pk[k] EXCEPT !.touched = TRUE]
                                                       ELSE pk[k]]
    /\ UNCHANGED <<locks, written, current, installed, shared>>

PackStep(k) ==
    \/ BeginInstall(k) \/ ClearVenv(k) \/ Stage(k) \/ CreateVenv(k) \/ InstallArtifact(k)
    \/ Freeze(k) \/ InstallFails(k) \/ WriteLockfile(k)
    \/ BeginRollback(k) \/ ProveArtifact(k) \/ Compare(k) \/ Confirm(k)
    \/ Activate(k) \/ AppendHistory(k) \/ Die(k)

PackNext == (\E k \in Packagers : PackStep(k)) \/ Touch

----------------------------------------------------------------------------
\* current.json is moved only to a version whose environment is the one its lockfile froze
\* and whose staged artifact is the one its lockfile names, whatever failed, died or drifted
\* in earlier runs and whatever a rollback had to repair.  Excepted are changes made from
\* outside while the packager itself works on that version, and versions on which two
\* packagers have been at work at a time: nothing keeps them apart.
ActivationIsVerified ==
    [][\A k \in Packagers :
         Activate(k) /\ ~pk[k].touched /\ pk[k].v \notin shared =>
            /\ locks[current'] # None
            /\ venv[current'] = locks[current'].frozen
            /\ staged[current'] = locks[current'].sha]_packVars

\* The active version and every version the history offers for a rollback keep their
\* lockfile: a failing or dying install never takes it from them, unless another packager has
\* been at work on the same version at the same time.
ActiveIsLocked ==
    /\ current # None /\ current \notin shared => locks[current] # None
    /\ \A v \in installed \ shared : locks[v] # None
=============================================================================
