--------------------------- MODULE SolutionGuard ---------------------------
(***************************************************************************)
(* The native reader/writer guard of guard/engine.py: two OS-owned lock    *)
(* files, taken admission before data, released in the reverse order, with *)
(* a bounded polling wait and a bounded number of attempts.                *)
(*                                                                         *)
(* A process p runs one guarded call at a time: the `with guard.reader()`  *)
(* of a reader, the `with guard.publisher()` of a publisher or GC.  Its    *)
(* SolutionGuard object is private to the call's thread, so between two    *)
(* actions that other processes can see (a lock taken or freed) the        *)
(* object's own bookkeeping needs no step of its own.                      *)
(***************************************************************************)
EXTENDS Integers

CONSTANTS
    Sources,      \* readers that build a guard per call and close() it in a finally
    Keepers,      \* readers that keep one guard object across calls, never closing it
    Publishers,   \* publishers and GC; they close() their guard as Sources do
    Backends,     \* lock backends considered: a subset of {"flock", "LockFileEx"}
    MaxAttempts,  \* `attempts` of ordered()
    MaxPolls,     \* bound: busy tries that fit into one wait budget
    MaxFaults     \* bound: OS failures (open, lock, unlock) in one behaviour

Procs == Sources \cup Keepers \cup Publishers
Closers == Sources \cup Publishers

ASSUME RolesDisjoint ==
    /\ Sources \cap Keepers = {}
    /\ Sources \cap Publishers = {}
    /\ Keepers \cap Publishers = {}

ASSUME BoundsAssumption ==
    /\ Backends \subseteq {"flock", "LockFileEx"}
    /\ MaxAttempts \in Nat \ {0}
    /\ MaxPolls \in Nat
    /\ MaxFaults \in Nat

VARIABLES
    pc,       \* pc[p]: where p is inside ordered() and its caller
    step,     \* step[p]: index into `specs` of the lock being acquired
    attempt,  \* attempt[p]: the attempt of ordered() p is in
    polls,    \* polls[p]: busy tries of the current wait so far
    held,     \* held[p][l]: mode in which p's guard holds lock l
    raised,   \* raised[p]: the exception p's call is propagating
    faults    \* OS failures so far

guardVars == <<pc, step, attempt, polls, held, raised, faults>>

----------------------------------------------------------------------------
(* The frozen protocol: guard/protocol.py. *)

Admission == "admission.lock"
Data == "data.lock"
Locks == {Admission, Data}

\* ACQUISITION_ORDER as an index; RELEASE_ORDER is its reverse.
ACQUISITION_ORDER == <<Admission, Data>>
Position(l) == IF l = Admission THEN 1 ELSE 2

Modes == {"none", "shared", "exclusive"}

\* Mutant: publisher() forgets to ask for the locks exclusively.
MutMode(p) == "shared"

\* reader() asks for both locks shared, publisher() for both exclusive.
Mode(p) == IF p \in Publishers THEN "exclusive" ELSE "shared"

\* flock LOCK_NB and LockFileEx FAIL_IMMEDIATELY: one attempt succeeds unless
\* another open file description holds the lock in a conflicting mode.
Compatible(p, l) ==
    \A q \in Procs \ {p} :
        /\ held[q][l] # "exclusive"
        /\ Mode(p) = "exclusive" => held[q][l] = "none"

HoldsNothing(p) == \A l \in Locks : held[p][l] = "none"

PcValues ==
    {"idle", "acquire", "poll", "early", "inside", "unwind", "close"}

----------------------------------------------------------------------------
Init ==
    /\ pc = [p \in Procs |-> "idle"]
    /\ step = [p \in Procs |-> 1]
    /\ attempt = [p \in Procs |-> 1]
    /\ polls = [p \in Procs |-> 0]
    /\ held = [p \in Procs |-> [l \in Locks |-> "none"]]
    /\ raised = [p \in Procs |-> "none"]
    /\ faults = 0

\* Mutant: the caller has no finally that closes the guard.
MutAfterOrdered(p) == "idle"

\* ordered() is left: the caller's finally closes the guard, or nobody does.
AfterOrdered(p) == IF p \in Closers THEN "close" ELSE "idle"

Fault == faults < MaxFaults /\ faults' = faults + 1

\* The locals of ordered() and _acquire_one go out of scope.
Forget(p) ==
    /\ step' = [step EXCEPT ![p] = 1]
    /\ attempt' = [attempt EXCEPT ![p] = 1]
    /\ polls' = [polls EXCEPT ![p] = 0]
    /\ raised' = [raised EXCEPT ![p] = "none"]

\* reader() or publisher() is entered on p's guard object.
Enter(p) ==
    /\ pc[p] = "idle"
    /\ pc' = [pc EXCEPT ![p] = "acquire"]
    /\ UNCHANGED <<step, attempt, polls, held, raised, faults>>

\* _acquire_one refuses an upgrade, a recursive acquire or an acquire behind
\* a lock later in the order.
Refuses(p, l) ==
    \/ held[p][l] # "none"
    \/ \E k \in Locks : held[p][k] # "none" /\ Position(k) > Position(l)

\* A GuardError that is neither a timeout nor a cancellation, or an OSError:
\* ordered() does not catch it, so nothing already acquired is released here.
Escape(p) ==
    /\ pc' = [pc EXCEPT ![p] = AfterOrdered(p)]
    /\ Forget(p)
    /\ UNCHANGED held

\* _acquire_one up to the polling loop: the checks, then _open_verified.
OpenVerified(p) ==
    LET l == ACQUISITION_ORDER[step[p]] IN
    /\ pc[p] = "acquire"
    /\ \/ /\ ~Refuses(p, l)
          /\ pc' = [pc EXCEPT ![p] = "poll"]
          /\ UNCHANGED <<step, attempt, polls, held, raised, faults>>
       \/ Refuses(p, l) /\ Escape(p) /\ UNCHANGED faults
       \/ ~Refuses(p, l) /\ Fault /\ Escape(p)

\* handle.acquire succeeds: the lock is held and the next entry of specs
\* follows; after the last one a reader still has to release admission.
Grant(p) ==
    LET l == ACQUISITION_ORDER[step[p]] IN
    /\ pc[p] = "poll"
    /\ Compatible(p, l)
    /\ held' = [held EXCEPT ![p][l] = Mode(p)]
    /\ \/ /\ step[p] = 1
          /\ step' = [step EXCEPT ![p] = 2]
          /\ polls' = [polls EXCEPT ![p] = 0]
          /\ pc' = [pc EXCEPT ![p] = "acquire"]
          /\ UNCHANGED <<attempt, raised>>
       \/ /\ step[p] = 2
          /\ pc' = [pc EXCEPT ![p] = IF p \in Publishers THEN "inside" ELSE "early"]
          /\ Forget(p)
    /\ UNCHANGED faults

\* GuardBusy inside the deadline: sleep and try again.
Busy(p) ==
    /\ pc[p] = "poll"
    /\ ~Compatible(p, ACQUISITION_ORDER[step[p]])
    /\ polls[p] < MaxPolls
    /\ polls' = [polls EXCEPT ![p] = @ + 1]
    /\ UNCHANGED <<pc, step, attempt, held, raised, faults>>

\* Mutant: a failed wait releases everything but retries at the lock it failed on.
MutGiveUp(p) ==
    /\ pc[p] = "poll"
    /\ p \in Keepers \/ ~Compatible(p, ACQUISITION_ORDER[step[p]])
    /\ pc' = [pc EXCEPT ![p] = "unwind"]
    /\ raised' = [raised EXCEPT ![p] = "wait"]
    /\ polls' = [polls EXCEPT ![p] = 0]
    /\ UNCHANGED <<step, attempt, held, faults>>

\* GuardTimeout after a busy try, or GuardCancelled before one (only a Keeper
\* is given a cancel callback): ordered() catches both and releases all.
GiveUp(p) ==
    /\ pc[p] = "poll"
    /\ p \in Keepers \/ ~Compatible(p, ACQUISITION_ORDER[step[p]])
    /\ pc' = [pc EXCEPT ![p] = "unwind"]
    /\ raised' = [raised EXCEPT ![p] = "wait"]
    /\ step' = [step EXCEPT ![p] = 1]
    /\ polls' = [polls EXCEPT ![p] = 0]
    /\ UNCHANGED <<attempt, held, faults>>

\* The lock primitive fails with something other than contention.
LockFails(p) ==
    /\ pc[p] = "poll"
    /\ Fault
    /\ Escape(p)

\* release_early: a reader drops admission once it holds data.  A failing
\* unlock still closes the handle, which frees the lock, and then escapes.
ReleaseEarly(p) ==
    /\ pc[p] = "early"
    /\ held' = [held EXCEPT ![p][Admission] = "none"]
    /\ \/ pc' = [pc EXCEPT ![p] = "inside"] /\ UNCHANGED faults
       \/ pc' = [pc EXCEPT ![p] = AfterOrdered(p)] /\ Fault
    /\ UNCHANGED <<step, attempt, polls, raised>>

\* Mutant: a timeout raised by the body is taken for a failed wait, and the body runs again.
MutExit(p) ==
    /\ pc[p] = "inside"
    /\ pc' = [pc EXCEPT ![p] = "unwind"]
    /\ raised' \in {raised, [raised EXCEPT ![p] = "wait"]}
    /\ UNCHANGED <<step, attempt, polls, held, faults>>

\* The body of the with statement ends, normally or by an exception.
Exit(p) ==
    /\ pc[p] = "inside"
    /\ pc' = [pc EXCEPT ![p] = "unwind"]
    /\ UNCHANGED <<step, attempt, polls, held, raised, faults>>

\* The lock release_all frees next: the last of the order that is held.
NextRelease(p) == IF held[p][Data] # "none" THEN Data ELSE Admission

\* One iteration of release_all.  A failing unlock closes the handle as well;
\* flock reports it as an OSError that release_all collects and raises at its
\* end, LockFileEx as a GuardError that ends the loop.
ReleaseOne(p) ==
    /\ pc[p] \in {"unwind", "close"}
    /\ ~HoldsNothing(p)
    /\ held' = [held EXCEPT ![p][NextRelease(p)] = "none"]
    /\ \/ UNCHANGED <<pc, step, attempt, polls, raised, faults>>
       \/ /\ Fault /\ "flock" \in Backends
          /\ raised' = [raised EXCEPT ![p] = "error"]
          /\ UNCHANGED <<pc, step, attempt, polls>>
       \/ /\ Fault /\ "LockFileEx" \in Backends
          /\ pc' = [pc EXCEPT ![p] = IF @ = "unwind" THEN AfterOrdered(p) ELSE "idle"]
          /\ Forget(p)

\* Mutant: attempts that are never used up.
MutReleasedForever(p) ==
    /\ pc[p] = "unwind"
    /\ HoldsNothing(p)
    /\ \/ /\ raised[p] = "wait"
          /\ pc' = [pc EXCEPT ![p] = "acquire"]
          /\ raised' = [raised EXCEPT ![p] = "none"]
          /\ UNCHANGED <<step, polls, attempt>>
       \/ /\ raised[p] # "wait"
          /\ pc' = [pc EXCEPT ![p] = AfterOrdered(p)]
          /\ Forget(p)
    /\ UNCHANGED <<held, faults>>

\* release_all has returned inside ordered(): retry from the start of the
\* order after a failed wait while attempts remain, otherwise leave.
Released(p) ==
    /\ pc[p] = "unwind"
    /\ HoldsNothing(p)
    /\ \/ /\ raised[p] = "wait" /\ attempt[p] < MaxAttempts
          /\ attempt' = [attempt EXCEPT ![p] = @ + 1]
          /\ pc' = [pc EXCEPT ![p] = "acquire"]
          /\ raised' = [raised EXCEPT ![p] = "none"]
          /\ UNCHANGED <<step, polls>>
       \/ /\ raised[p] # "wait" \/ attempt[p] = MaxAttempts
          /\ pc' = [pc EXCEPT ![p] = AfterOrdered(p)]
          /\ Forget(p)
    /\ UNCHANGED <<held, faults>>

\* close() in the caller's finally has released whatever was left.
Closed(p) ==
    /\ pc[p] = "close"
    /\ HoldsNothing(p)
    /\ pc' = [pc EXCEPT ![p] = "idle"]
    /\ Forget(p)
    /\ UNCHANGED <<held, faults>>

\* Process death: the kernel frees its locks, a new process starts afresh.
Crash(p) ==
    /\ pc[p] # "idle" \/ ~HoldsNothing(p)
    /\ Fault
    /\ pc' = [pc EXCEPT ![p] = "idle"]
    /\ held' = [held EXCEPT ![p] = [l \in Locks |-> "none"]]
    /\ Forget(p)

\* What the guard does by itself between entering the call and leaving it.
Internal(p) ==
    \/ OpenVerified(p) \/ Grant(p) \/ Busy(p) \/ GiveUp(p) \/ LockFails(p)
    \/ ReleaseEarly(p) \/ ReleaseOne(p) \/ Released(p) \/ Closed(p)

Next == \E p \in Procs : Enter(p) \/ Internal(p) \/ Exit(p) \/ Crash(p)

Spec == Init /\ [][Next]_guardVars

\* Once in the call a process keeps running: the wait is bounded by its
\* budget and the body is a bounded copy or publication.
Fairness == \A p \in Procs : WF_guardVars(Internal(p)) /\ WF_guardVars(Exit(p))

FairSpec == Spec /\ Fairness

----------------------------------------------------------------------------
\* The type invariant; its bounds say that attempts, polls and faults of a call
\* never run past what ordered() and the wait budget allow.
TypeOK ==
    /\ pc \in [Procs -> PcValues]
    /\ step \in [Procs -> 1..2]
    /\ attempt \in [Procs -> 1..MaxAttempts]
    /\ polls \in [Procs -> 0..MaxPolls]
    /\ held \in [Procs -> [Locks -> Modes]]
    /\ raised \in [Procs -> {"none", "wait", "error"}]
    /\ faults \in 0..MaxFaults

\* While a publisher (or GC) is inside its guarded section no other process is
\* inside one or holds data.lock: what `ordered` and release_early together
\* have to establish although a reader lets go of admission while copying.
PublisherExcludesReaders ==
    \A p \in Publishers : \A q \in Procs \ {p} :
        pc[p] = "inside" => pc[q] # "inside" /\ held[q][Data] = "none"

\* A call on a guard that its caller closes ends with no lock left behind, on
\* every path: timeout, cancellation, body exception, failing open, failing
\* lock or failing unlock (tools/context.py and runtime.py close in a finally).
ClosedCallLeavesNoLock ==
    \A p \in Closers : pc[p] = "idle" => HoldsNothing(p)

DataReaders == {q \in Procs \ Publishers : held[q][Data] # "none"}

GateStep ==
    (\E p \in Publishers : held[p][Admission] = "exclusive")
        => DataReaders' \subseteq DataReaders

\* The admission gate: while a publisher holds admission exclusively, the set
\* of processes holding data.lock never gains a reader, so a flood of readers
\* cannot prolong the wait for the ones already copying.
GateDrains == [][GateStep]_guardVars

\* Every guarded call ends: bounded polls, bounded attempts, and no cycle in
\* which processes wait for each other.
CallTerminates == \A p \in Procs : pc[p] # "idle" ~> pc[p] = "idle"
----------------------------------------------------------------------------
\* The contract's view of p: waiting until its section starts (a failed wait
\* that may be retried included), in it while the body runs, out otherwise.
PhaseOf(p) ==
    IF pc[p] \in {"acquire", "poll", "early"} \/ (pc[p] = "unwind" /\ raised[p] = "wait")
    THEN "waiting"
    ELSE IF pc[p] = "inside" THEN "in" ELSE "out"

Contract ==
    INSTANCE GuardContract WITH
        Readers <- Sources \cup Keepers, Writers <- Publishers,
        phase <- [p \in Procs |-> PhaseOf(p)]

\* The two lock files with early release implement the reader/writer section.
ImplementsContract == Contract!ContractSpec
=============================================================================
