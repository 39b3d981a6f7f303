--------------------------- MODULE GuardContract ---------------------------
(***************************************************************************)
(* What guard/engine.py promises its callers: a reader/writer section that *)
(* a process may wait for, be refused from, be inside of and leave.  Lock  *)
(* files, polling and attempts do not appear: SolutionGuard implements     *)
(* this specification and SnapshotQuery is built on it.                    *)
(***************************************************************************)
CONSTANTS Readers, Writers

VARIABLE phase    \* phase[p]: "out", "waiting" for the section, or "in" it

Members == Readers \cup Writers

PhaseInit == phase = [p \in Members |-> "out"]

\* `with guard.reader()` / `with guard.publisher()` is entered.
Request(p) ==
    /\ phase[p] = "out"
    /\ phase' = [phase EXCEPT ![p] = "waiting"]

\* The body starts: never beside a writer, and a writer never beside anyone.
Admit(p) ==
    /\ phase[p] = "waiting"
    /\ \A q \in Members \ {p} :
           phase[q] = "in" => p \in Readers /\ q \in Readers
    /\ phase' = [phase EXCEPT ![p] = "in"]

\* The wait timed out, was cancelled, failed, or the process died waiting.
Refuse(p) ==
    /\ phase[p] = "waiting"
    /\ phase' = [phase EXCEPT ![p] = "out"]

\* The body ended, was interrupted by an exception, or the process died.
Leave(p) ==
    /\ phase[p] = "in"
    /\ phase' = [phase EXCEPT ![p] = "out"]

ContractNext ==
    \E p \in Members : Request(p) \/ Admit(p) \/ Refuse(p) \/ Leave(p)

ContractSpec == PhaseInit /\ [][ContractNext]_phase
=============================================================================
