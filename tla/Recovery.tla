------------------------------ MODULE Recovery ------------------------------
(***************************************************************************)
(* recovery.py beside the daemon and the damage of SnapshotQuery:          *)
(* read_with_recovery runs the catalog loader (load_solution_catalog and   *)
(* pin_catalog, the steps of SnapshotQuery) a bounded number of times and  *)
(* answers a whole vector, a partial one or one canonical error; and       *)
(* require_generation says why a pinned generation is not on disk.         *)
(* The freshness and verification labels of an answer are left out.        *)
(***************************************************************************)
EXTENDS SnapshotQuery

CONSTANT MaxAttempts    \* bound: the largest RecoveryLimits.max_attempts

ASSUME RecoveryAssumption == MaxAttempts \in Nat \ {0}

VARIABLE rec    \* rec[r]: the recovery call reader r is running or has finished

recoveryVars == <<vars, rec>>

Policies == {"allow_partial", "require_complete"}

NoRec ==
    [state |-> "idle", policy |-> "allow_partial", limit |-> 1, attempt |-> 0, begun |-> 1,
     since |-> 1, pin |-> <<0, 0>>, status |-> "none", code |-> "none", lost |-> {}]

RecoveryInit == Init /\ rec = [r \in Readers |-> NoRec]

\* The other tools; what an earlier recovery answered is forgotten.
OtherTool(r) ==
    /\ rec[r].state # "running"
    /\ BeginQuery(r) \/ BeginStatus(r)
    /\ rec' = [rec EXCEPT ![r] = NoRec]

----------------------------------------------------------------------------
(* read_with_recovery. *)

\* load() starts from nothing: an attempt keeps nothing of the one before.
Attempt(r) ==
    job' = [job EXCEPT ![r] =
              [NoJob EXCEPT !.at = "pointer", !.tool = "recover", !.since = Current]]

BeginRecovery(r) ==
    /\ job[r].at = "done" /\ rec[r].state # "running" /\ "recover" \in Tools
    /\ \E policy \in Policies, limit \in 1..MaxAttempts :
         rec' = [rec EXCEPT ![r] = [NoRec EXCEPT !.state = "running", !.policy = policy,
                                                 !.begun = Current, !.since = Current,
                                                 !.attempt = 1, !.limit = limit]]
    /\ Attempt(r)
    /\ UNCHANGED <<phase, diskVars, cache>>

\* What the loader did, read off its job: it raised, or it pinned the whole catalog.
LoaderRaised(r) == job[r].at = "done"
LoaderPinned(r) == job[r].at = "select"

\* The vector has missing members and the policy refuses that: CatalogMemberMissing.
Incomplete(r) == LoaderPinned(r) /\ job[r].lost # {} /\ rec[r].policy = "require_complete"

\* canonical_code_for what the loader or the policy raised.
CanonicalCode(r) ==
    IF Incomplete(r) THEN "PROJECT_UNAVAILABLE"
    ELSE IF job[r].cause = "missing" THEN "SNAPSHOT_UNAVAILABLE"
    ELSE "SNAPSHOT_CORRUPT"

\* Mutant: only the codes of a whole catalog are recoverable.
MutRecoverableCodes == {"SNAPSHOT_UNAVAILABLE", "SNAPSHOT_CORRUPT"}
RecoverableCodes == {"PROJECT_UNAVAILABLE", "SNAPSHOT_UNAVAILABLE", "SNAPSHOT_CORRUPT"}

Idle(r) == job' = [job EXCEPT ![r] = NoJob]

\* Mutant: the attempts are not counted.
MutRetry(r) ==
    /\ rec[r].state = "running"
    /\ LoaderRaised(r) \/ Incomplete(r)
    /\ CanonicalCode(r) \in RecoverableCodes
    /\ rec' = [rec EXCEPT ![r].since = Current]
    /\ Attempt(r)
    /\ UNCHANGED <<phase, diskVars, cache>>

Retry(r) ==
    /\ rec[r].state = "running"
    /\ LoaderRaised(r) \/ Incomplete(r)
    /\ CanonicalCode(r) \in RecoverableCodes /\ rec[r].attempt < rec[r].limit
    /\ rec' = [rec EXCEPT ![r].attempt = @ + 1, ![r].since = Current]
    /\ Attempt(r)
    /\ UNCHANGED <<phase, diskVars, cache>>

\* The request is dropped whole.
GiveUp(r) ==
    /\ rec[r].state = "running"
    /\ LoaderRaised(r) \/ Incomplete(r)
    /\ ~(CanonicalCode(r) \in RecoverableCodes /\ rec[r].attempt < rec[r].limit)
    /\ rec' = [rec EXCEPT ![r].state = "done", ![r].status = "failed",
                          ![r].code = CanonicalCode(r)]
    /\ Idle(r)
    /\ UNCHANGED <<phase, diskVars, cache>>

Serve(r) ==
    /\ rec[r].state = "running"
    /\ LoaderPinned(r) /\ ~Incomplete(r)
    /\ rec' = [rec EXCEPT ![r].state = "done", ![r].lost = job[r].lost,
                          ![r].status = IF job[r].lost = {} THEN "served" ELSE "partial"]
    /\ Idle(r)
    /\ UNCHANGED <<phase, diskVars, cache>>

----------------------------------------------------------------------------
(* require_generation, for a generation some catalog has named. *)

OnDisk(p, g) == \E f \in Names : <<p, g, f>> \in disk

\* The directory is tested without the guard.
RequireGeneration(r) ==
    /\ job[r].at = "done" /\ rec[r].state # "running" /\ "recover" \in Tools
    /\ \E k \in 1..Current, p \in Projects :
         LET g == catalogs[k][p] IN
         \/ /\ OnDisk(p, g)
            /\ rec' = [rec EXCEPT ![r] = [NoRec EXCEPT !.state = "done", !.pin = <<p, g>>]]
            /\ UNCHANGED job
         \/ /\ ~OnDisk(p, g)
            /\ rec' = [rec EXCEPT ![r] = [NoRec EXCEPT !.state = "running", !.pin = <<p, g>>]]
            /\ job' = [job EXCEPT ![r] = [NoJob EXCEPT !.at = "absent", !.tool = "recover"]]
    /\ UNCHANGED <<phase, diskVars, cache>>

\* Mutant: a pointer that cannot be read counts as one that has moved on.
MutClassifyAbsence(r) ==
    LET p == rec[r].pin[1]
        g == rec[r].pin[2]
        Gone(code) == rec' = [rec EXCEPT ![r].state = "done", ![r].code = code]
    IN
    /\ job[r].at = "absent"
    /\ \/ pointer[p] = g /\ Gone("SNAPSHOT_UNAVAILABLE")
       \/ pointer[p] # g /\ Gone("SNAPSHOT_EXPIRED")
       \/ tampered > 0 /\ Gone("SNAPSHOT_EXPIRED")
    /\ Idle(r)
    /\ UNCHANGED <<phase, diskVars, cache>>

\* classify_absence: the lane's pointer is read.  It may be unreadable only if somebody
\* damaged it.
ClassifyAbsence(r) ==
    LET p == rec[r].pin[1]
        g == rec[r].pin[2]
        Gone(code) == rec' = [rec EXCEPT ![r].state = "done", ![r].code = code]
    IN
    /\ job[r].at = "absent"
    /\ \/ pointer[p] = g /\ Gone("SNAPSHOT_UNAVAILABLE")
       \/ pointer[p] # g /\ Gone("SNAPSHOT_EXPIRED")
       \/ tampered > 0 /\ Gone("SNAPSHOT_UNAVAILABLE")
    /\ Idle(r)
    /\ UNCHANGED <<phase, diskVars, cache>>

----------------------------------------------------------------------------
RecoveryStep(r) ==
    Retry(r) \/ GiveUp(r) \/ Serve(r) \/ ClassifyAbsence(r)

Begins(r) == OtherTool(r) \/ BeginRecovery(r) \/ RequireGeneration(r)

Others ==
    /\ \/ \E w \in Writers : Daemon(w)
       \/ \E c \in cache : Evict(c)
       \/ Tamper
    /\ UNCHANGED rec

\* A step of a query, a status or the loader of a recovery.
LoadStep(r) == (Proceed(r) \/ ProceedStatus(r)) /\ UNCHANGED rec

RecoveryNext ==
    \/ \E r \in Readers : Begins(r) \/ RecoveryStep(r) \/ LoadStep(r)
    \/ Others

\* A call runs to its end in its worker thread; nothing is assumed of the daemon.
RecoverySpec ==
    /\ RecoveryInit /\ [][RecoveryNext]_recoveryVars
    /\ \A r \in Readers : WF_recoveryVars(RecoveryStep(r) \/ LoadStep(r))

----------------------------------------------------------------------------
\* read_with_recovery absorbs the collector: with untouched files a request is dropped only
\* when the catalog was republished during every one of its attempts, and a partial vector is
\* served only when it was republished during the attempt that is served.
DropNeedsCause ==
    \A r \in Readers :
        /\ rec[r].status = "failed" => tampered > 0 \/ Current >= rec[r].begun + rec[r].limit
        /\ rec[r].status = "partial" => tampered > 0 \/ Current > rec[r].since
        /\ rec[r].status = "partial" => rec[r].policy = "allow_partial"

\* require_generation tests the directory first and reads the pointer later, with the daemon
\* publishing and collecting in between: "expired" is said only of a generation the lane has
\* moved past, and "unavailable" only when somebody touched the files.
AbsenceIsExplained ==
    \A r \in Readers :
        rec[r].pin # <<0, 0>> /\ rec[r].state = "done" =>
            /\ rec[r].code = "SNAPSHOT_EXPIRED" => pointer[rec[r].pin[1]] # rec[r].pin[2]
            /\ rec[r].code = "SNAPSHOT_UNAVAILABLE" => tampered > 0

\* Every call ends, whatever the daemon does: a tool call waits for nothing but the guard,
\* whose wait is bounded, and a recovery makes a bounded number of attempts.
EveryCallEnds ==
    \A r \in Readers :
        job[r].at # "done" \/ rec[r].state = "running"
            ~> job[r].at = "done" /\ rec[r].state # "running"
=============================================================================
