---------------------------- MODULE UpdateApply ----------------------------
(***************************************************************************)
(* `axmp update apply`: a plan file is read, validated and handed to the   *)
(* installed core, another program, which reads the file again.  The file  *)
(* may be replaced at any moment between.  `axmp update check` reads its   *)
(* settings and a metadata file and says what it knows.                    *)
(*                                                                         *)
(* A digest is the content it is taken over: the kind of the plan, what it *)
(* changes and where.                                                      *)
(***************************************************************************)
EXTENDS Naturals

CONSTANTS
    None,
    Bodies,        \* contents: [kind, sound, ours, apart]
    MaxReplaces    \* bound: times the file is replaced

\* kind: a plan of this component or of the whole ecosystem; sound: every structural rule but
\* those on the approval and the digest; ours: it targets this component; apart: its install
\* root is absolute and neither holds nor lies within one that is in use.
BodyType == [kind : {"component", "ecosystem"}, sound : BOOLEAN, ours : BOOLEAN, apart : BOOLEAN]

UpdateParameters == Bodies \subseteq BodyType /\ None \notin Bodies /\ MaxReplaces \in Nat

\* A plan file: its content, the digest it states, and the approval recorded in it.
Files == [body : Bodies, digest : Bodies, approval : {"approved", "pending"},
          approved_digest : Bodies \cup {None}]

VARIABLES
    file, replaces,
    at, doc,       \* where the command is, and the plan or the settings it has read
    approve,       \* --approve-digest
    applied,       \* external: what the core has applied
    outcome

UpdateInit ==
    /\ file \in Files /\ replaces = 0
    /\ at \in {"read", "check"} /\ doc = None /\ approve \in Bodies \cup {None}
    /\ applied = None /\ outcome = "none"

\* External: somebody replaces the file.  Until it is read any file may be there anyway, and
\* what validates it looks at the plan that was read and not at the file.
Replace ==
    /\ at = "core" /\ replaces < MaxReplaces
    /\ replaces' = replaces + 1
    /\ file' \in Files
    /\ UNCHANGED <<at, doc, approve, applied, outcome>>

ReadPlan ==
    /\ at = "read"
    /\ doc' = file /\ at' = "validate"
    /\ UNCHANGED <<file, replaces, approve, applied, outcome>>

End(result) == at' = "ended" /\ outcome' = result /\ UNCHANGED <<file, replaces, doc, approve>>

\* structural_reasons, as far as the approval and the digest go, and approval_reasons.
Evaluate(d) ==
    /\ d.body.sound
    /\ IF d.approval = "approved" THEN d.approved_digest = d.digest ELSE d.approved_digest = None
    /\ d.digest = d.body
    /\ approve # None => approve = d.body /\ approve = d.digest

\* Mutant: an ecosystem plan is forwarded without a digest of its content.
MutExecuteCorePlan(d) == approve # None /\ approve = d.digest

\* execute_core_plan: the digest is taken here, the rest is the core's.
ExecuteCorePlan(d) == approve # None /\ approve = d.digest /\ approve = d.body

\* apply_plan and guard_install_root.
ApplyPlan(d) == Evaluate(d) /\ d.approval = "approved" /\ d.body.ours /\ d.body.apart

Accepted(d) == IF d.body.kind = "ecosystem" THEN ExecuteCorePlan(d) ELSE ApplyPlan(d)

Validate ==
    /\ at = "validate"
    /\ \/ ~Accepted(doc) /\ End("rejected") /\ UNCHANGED applied
       \/ /\ Accepted(doc)
          /\ at' = "core"
          /\ UNCHANGED <<file, replaces, doc, approve, applied, outcome>>

\* core_program and the first half of run_core: no core, or a plan path it will not hand over.
CoreUnavailable == at = "core" /\ End("unavailable") /\ UNCHANGED applied

\* External: the core takes the file as it is now, if that is what was approved.  It may refuse.
CoreApplies ==
    /\ at = "core"
    /\ file.digest = doc.digest /\ file.body = file.digest
    /\ applied' = file.body
    /\ \/ End("ok")
       \/ End("unavailable")     \* killed at the timeout: its state is unknown

CoreRefuses ==
    /\ at = "core"
    /\ UNCHANGED applied
    /\ End("failed") \/ End("unavailable")

----------------------------------------------------------------------------
(* update check. *)

\* The environment, and what the metadata file says: nothing there, not JSON, no version named,
\* the installed version or another one.
Settings ==
    [channel : {"known", "unknown"}, offline : BOOLEAN, origin : {"none", "allowed", "other"},
     metadata : {"none", "unreadable", "unnamed", "installed", "another"},
     compatible : {"yes", "no", "unstated"}]

CheckUpdate(s) ==
    IF s.channel = "unknown" THEN "blocked"
    ELSE IF s.offline THEN "offline"
    ELSE IF s.origin = "none" THEN "unconfigured"
    ELSE IF s.origin = "other" \/ s.metadata = "unreadable" THEN "blocked"
    ELSE IF s.metadata = "none" THEN "unconfigured"
    ELSE IF s.metadata = "unnamed" THEN "not_checked"
    ELSE IF s.compatible = "no" THEN "blocked"
    ELSE IF s.metadata = "installed" THEN "current" ELSE "available"

Check ==
    /\ at = "check"
    /\ doc' \in Settings
    /\ at' = "ended" /\ outcome' = CheckUpdate(doc')
    /\ UNCHANGED <<file, replaces, approve, applied>>

UpdateNext ==
    Replace \/ ReadPlan \/ Validate \/ CoreUnavailable \/ CoreApplies \/ CoreRefuses
    \/ Check

----------------------------------------------------------------------------
\* The command says and does no more than it knows.  What the core applies is what this process
\* accepted, although the file may have been replaced since: a component's plan is approved,
\* sound, for this component and apart from the running installation, an ecosystem plan is the
\* one whose digest the operator named.  A rejected plan was not applied, one reported done was.
\* A machine that did not or could not check is never told that it is up to date.
UpdateIsTruthful ==
    /\ applied # None =>
        /\ applied = doc.body
        /\ applied.kind = "component" =>
             applied.sound /\ applied.ours /\ applied.apart /\ doc.approval = "approved"
        /\ applied.kind = "ecosystem" \/ approve # None => approve = applied
    /\ outcome = "rejected" => applied = None
    /\ outcome = "ok" => applied = doc.body
    /\ outcome \in {"current", "available"} =>
        /\ ~doc.offline /\ doc.origin = "allowed" /\ doc.compatible # "no"
        /\ doc.metadata = IF outcome = "current" THEN "installed" ELSE "another"
=============================================================================
