---------------------------- MODULE Entrypoints ----------------------------
(***************************************************************************)
(* axiom_mcp.entrypoints beside a packager on the same install root:       *)
(* `plan` resolves what a host would launch and may record it, `verify`    *)
(* resolves it again and compares it with the record.  The packager works  *)
(* on between any two files the command reads.                             *)
(*                                                                         *)
(* The digest of a plan is what it is taken over: the mode, the arguments  *)
(* with the working directory, the environment, the interpreter (one for   *)
(* each version), the Python it says it is and the bytes of the lockfile.  *)
(* It is also taken over the pinned SDK and the SDK found, but any other   *)
(* SDK than the pinned one refuses the plan.                               *)
(***************************************************************************)
EXTENDS Packaging, FiniteSets

CONSTANT Shells    \* values of the AXIOM_ settings of the shell that asks

VARIABLES
    elock,    \* entrypoints.lock.json
    pl        \* the command that is running

entryVars == <<packVars, elock, pl>>

\* The parameters of a command: none, a working directory of its own, or an allowlist that
\* admits the address the gateway binds.
Params == {"none", "elsewhere", "admits"}

\* base: what pyvenv.cfg says the environment shares; python: what its interpreter says it is.
\* History: steady, the record to verify has been true at every moment of the command so far;
\* met, it was true of its version when that version's interpreter was asked.
NoPlan ==
    [at |-> "idle", command |-> "none", modes |-> {}, mode |-> "none", params |-> "none",
     shell |-> None, version |-> None, base |-> None, python |-> None, built |-> {},
     record |-> None, steady |-> FALSE, met |-> FALSE]

EntryInit == PackInit /\ elock = None /\ pl = NoPlan

\* scoped_environment: of the shell that asks, the AXIOM_ settings alone; VIRTUAL_ENV and PATH
\* follow from the version, the marker from the mode, the rest from what the environment shares.
ScopedEnvironment == [base |-> pl.base, settings |-> pl.shell]

\* plan_digest.
Digest(lock) ==
    [mode |-> pl.mode, params |-> pl.params, environment |-> ScopedEnvironment,
     interpreter |-> pl.version, python |-> pl.python, lockfile |-> lock]

\* What d says of the version it would start is so: its Python and its lockfile.
Describes(d) ==
    /\ venv[d.interpreter] # None /\ python[d.interpreter] = d.python
    /\ locks[d.interpreter] # None /\ locks[d.interpreter].id = d.lockfile

\* And that version is the active one, and its environment shares what d says.
Live(d) ==
    current = d.interpreter /\ Describes(d) /\ python[d.interpreter] = d.environment.base

\* main; `plan` has one mode, `verify` reads the record before it resolves anything.
Begin ==
    /\ pl.at = "idle"
    /\ left.commands > 0
    /\ left' = [left EXCEPT !.commands = @ - 1]
    /\ \E shell \in Shells, params \in Params :
         \/ \E mode \in {"stdio", "http"}, write \in BOOLEAN :
              pl' = [NoPlan EXCEPT !.at = "current", !.mode = mode, !.params = params,
                                   !.command = IF write THEN "lock" ELSE "plan", !.shell = shell]
         \/ /\ elock = None      \* lock_absent
            /\ UNCHANGED pl
         \/ /\ elock # None
            /\ \E modes \in {{"stdio"}, {"http"}, {"stdio", "http"}} :
                 \E first \in modes :
                   pl' = [NoPlan EXCEPT !.at = "current", !.command = "verify", !.params = params,
                                        !.modes = modes \ {first}, !.mode = first,
                                        !.shell = shell, !.record = elock,
                                        !.steady = Live(elock)]
    /\ UNCHANGED <<rootVars, pk, shared, elock>>

Refused == pl' = NoPlan /\ UNCHANGED <<packVars, elock>>
Onto(at) == pl' = [pl EXCEPT !.at = at] /\ UNCHANGED <<packVars, elock>>

ReadCurrent ==
    /\ pl.at = "current"
    /\ \/ current = None /\ Refused
       \/ /\ current # None
          /\ pl' = [pl EXCEPT !.at = "lockfile", !.version = current]
          /\ UNCHANGED <<packVars, elock>>

ReadLockfile ==
    /\ pl.at = "lockfile"
    /\ \/ locks[pl.version] = None /\ Refused
       \/ locks[pl.version] # None /\ Onto("interpreter")

\* The interpreter inside the environment of that version, and its pyvenv.cfg.
FindInterpreter ==
    /\ pl.at = "interpreter"
    /\ \/ venv[pl.version] = None /\ Refused
       \/ /\ venv[pl.version] # None
          /\ pl' = [pl EXCEPT !.at = "probe", !.base = python[pl.version]]
          /\ UNCHANGED <<packVars, elock>>

\* History: what the record says of the version at hand is so at this moment.
MeetsRecord ==
    pl.command = "verify" /\ pl.version = pl.record.interpreter /\ Describes(pl.record)

\* The interpreter is asked what it is: a Python that is not supported, another prefix or
\* another SDK refuses.
Probe ==
    /\ pl.at = "probe"
    /\ \/ Refused
       \/ /\ venv[pl.version] # None /\ venv[pl.version].sdk
          /\ pl' = [pl EXCEPT !.at = "hash", !.python = python[pl.version],
                              !.met = @ \/ MeetsRecord]
          /\ UNCHANGED <<packVars, elock>>

\* launch_plan and http_arguments: stdio takes no HTTP parameter, http needs an allowlist that
\* admits its own address.
ModeAdmits ==
    \/ pl.mode = "stdio" /\ pl.params \in {"none", "elsewhere"}
    \/ pl.mode = "http" /\ pl.params = "admits"

\* The lockfile is read again for its digest, and the plan is built.
HashLockfile ==
    /\ pl.at = "hash"
    /\ \/ (locks[pl.version] = None \/ ~ModeAdmits) /\ Refused
       \/ /\ locks[pl.version] # None /\ ModeAdmits
          /\ pl' = [pl EXCEPT !.at = "built",
                              !.built = @ \cup {Digest(locks[pl.version].id)}]
          /\ UNCHANGED <<packVars, elock>>

NextMode ==
    /\ pl.at = "built" /\ pl.modes # {}
    /\ \E mode \in pl.modes :
         pl' = [pl EXCEPT !.at = "current", !.mode = mode, !.modes = @ \ {mode}]
    /\ UNCHANGED <<packVars, elock>>

PrintPlan == pl.at = "built" /\ pl.command = "plan" /\ Refused

\* write_lock: one plan, with the runtime it came from.
WriteLock ==
    /\ pl.at = "built" /\ pl.command = "lock"
    /\ elock' = CHOOSE d \in pl.built : TRUE
    /\ pl' = NoPlan
    /\ UNCHANGED packVars

\* Mutant: a plan the record does not hold is no reason.
MutReasons(record, built) == {d \in built : d.mode = record.mode /\ d # record}

\* entrypoint_lock_reasons: a plan whose digest is not the recorded one or whose mode is not
\* recorded, a recorded mode that was not asked for, a runtime that is not the recorded one (its
\* SDK, which the code compares too, is the pinned one in both).
Reasons(record, built) ==
    {d \in built : d # record}
    \cup {d \in {record} : \A b \in built : b.mode # d.mode}
    \cup {d \in built : d.interpreter # record.interpreter \/ d.lockfile # record.lockfile}

Verdict(ok) ==
    /\ pl.at = "built" /\ pl.command = "verify" /\ pl.modes = {}
    /\ ok = (Reasons(pl.record, pl.built) = {})
    /\ pl' = NoPlan
    /\ UNCHANGED <<packVars, elock>>

EntryStep ==
    \/ Begin \/ ReadCurrent \/ ReadLockfile \/ FindInterpreter \/ Probe \/ HashLockfile
    \/ NextMode \/ PrintPlan \/ WriteLock \/ \E ok \in BOOLEAN : Verdict(ok)

\* The packager, or somebody else, works on the same root meanwhile.
RootStep ==
    /\ PackNext
    /\ \E record \in {pl.record} :
         pl' = [pl EXCEPT !.steady = @ /\ Live(record)']
    /\ UNCHANGED elock

EntryNext == EntryStep \/ RootStep
EntrySpec == EntryInit /\ [][EntryNext]_entryVars

----------------------------------------------------------------------------
\* What verify says is true, whoever works on the root between the files it reads.  Ok: the one
\* plan that was recorded is the one that was asked for, from the same shell and for the version
\* the pointer named, and at one moment, when that version's interpreter was asked, the
\* recorded Python and the recorded lockfile were there together.  Drift, for the recorded
\* mode, parameters and shell alone: at some moment of the command the record was not true:
\* another version was active, or the environment or the lockfile was gone or replaced.
VerifyIsTrue ==
    [][\A ok \in BOOLEAN :
         Verdict(ok) =>
            LET r == pl.record
                same == /\ r.mode = pl.mode /\ r.params = pl.params
                        /\ r.environment.settings = pl.shell
            IN  /\ ok => /\ same /\ Cardinality(pl.built) = 1
                         /\ pl.version = r.interpreter /\ pl.met
                /\ ~ok /\ same /\ Cardinality(pl.built) = 1 => ~pl.steady]_entryVars
=============================================================================
