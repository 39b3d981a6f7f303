------------------------------ MODULE MCDeploy ------------------------------
(* An install root with its packager and its launch commands, and beside it *)
(* the update commands, which share nothing with them.                      *)
EXTENDS Entrypoints, TLC

CONSTANTS Bodies, MaxReplaces

VARIABLES file, replaces, at, doc, approve, applied, outcome

updVars == <<file, replaces, at, doc, approve, applied, outcome>>

U == INSTANCE UpdateApply

ASSUME DeployParameters == PackagingParameters /\ U!UpdateParameters

\* Overlapping packaging histories without a launch command, and two launch commands beside
\* one packaging run after the other.
MCBudgets ==
    {[runs |-> 3, overlap |-> TRUE, touches |-> 0, commands |-> 0],
     [runs |-> 2, overlap |-> TRUE, touches |-> 1, commands |-> 0],
     [runs |-> 3, overlap |-> FALSE, touches |-> 1, commands |-> 0],
     [runs |-> 2, overlap |-> FALSE, touches |-> 0, commands |-> 2],
     [runs |-> 0, overlap |-> FALSE, touches |-> 0, commands |-> 0]}

MCBodies ==
    {[kind |-> "ecosystem", sound |-> TRUE, ours |-> FALSE, apart |-> TRUE],
     [kind |-> "component", sound |-> TRUE, ours |-> TRUE, apart |-> TRUE],
     [kind |-> "component", sound |-> FALSE, ours |-> TRUE, apart |-> TRUE],
     [kind |-> "component", sound |-> TRUE, ours |-> FALSE, apart |-> TRUE],
     [kind |-> "component", sound |-> TRUE, ours |-> TRUE, apart |-> FALSE]}

Symmetries == Permutations(Versions) \cup Permutations(Artifacts) \cup Permutations(Shells)
              \cup Permutations(Packagers) \cup Permutations(Pythons)

NoUpdate ==
    /\ file = None /\ replaces = 0 /\ at = "ended" /\ doc = None /\ approve = None
    /\ applied = None /\ outcome = "none"

DeployInit ==
    EntryInit /\ IF left.runs = 0 THEN U!UpdateInit ELSE NoUpdate

DeployNext ==
    \/ EntryNext /\ UNCHANGED updVars
    \/ U!UpdateNext /\ UNCHANGED entryVars

DeploySpec == DeployInit /\ [][DeployNext]_<<entryVars, updVars>>

UpdateIsTruthful == U!UpdateIsTruthful
=============================================================================
