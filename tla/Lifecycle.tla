----------------------------- MODULE Lifecycle -----------------------------
(***************************************************************************)
(* lifecycle.Lifecycle: admission of queries, bounded drain and shutdown   *)
(* of one gateway, whose queries and shutdown handlers are threads that    *)
(* share one SolutionGuard object.  Everything between two acquisitions of *)
(* the condition is a step of its own; the guard object has no lock, so    *)
(* each of its dictionary operations can fall between any two of those.    *)
(***************************************************************************)
EXTENDS Integers, FiniteSets

CONSTANTS
    Queries,      \* threads that run query(), one query at a time
    Handlers,     \* threads that call shutdown(): the signal handler, the server
    NoOne,
    MaxAdmitted   \* bound: queries admitted in one behaviour

ASSUME LifecycleAssumption ==
    /\ IsFiniteSet(Queries)
    /\ NoOne \notin Queries
    /\ MaxAdmitted \in Nat

VARIABLES
    at,          \* at[q]: where a query is in query() and guard.reader()
    inFlight, finished, cancelled, draining, shutdown,
    outcome,     \* the DrainOutcome that shutdown() remembers
    do,          \* do[h]: where a handler is in shutdown() and drain()
    mine,        \* mine[h]: the DrainOutcome the handler is building
    held,        \* the guard's _held: the query whose handle is entered, per lock
    locked,      \* handles that hold their OS lock: <<query, lock>>
    admitted     \* history: queries admitted so far

countVars == <<inFlight, finished, admitted>>
drainVars == <<cancelled, draining, shutdown, outcome, do, mine>>
guardVars == <<held, locked>>
vars == <<at, inFlight, finished, admitted, cancelled, draining, shutdown, outcome, do, mine,
          held, locked>>

Admission == "admission"
Data == "data"
Locks == {Admission, Data}
Places ==
    {"out", "check1", "lock1", "check2", "lock2", "early", "inside", "finally"}

NoOutcome == [drained |-> FALSE, remaining |-> 0, finished |-> 0, guards |-> {}]
Unheld == [l \in Locks |-> NoOne]
HeldNames == {l \in Locks : held[l] # NoOne}

Init ==
    /\ at = [q \in Queries |-> "out"]
    /\ inFlight = 0 /\ finished = 0 /\ cancelled = 0 /\ admitted = 0
    /\ draining = FALSE /\ shutdown = FALSE
    /\ outcome = NoOutcome
    /\ do = [h \in Handlers |-> "out"]
    /\ mine = [h \in Handlers |-> NoOutcome]
    /\ held = Unheld
    /\ locked = {}

----------------------------------------------------------------------------
(* query() *)

\* Mutant: the flag is read before the condition is taken.
MutAdmit(q) ==
    /\ at[q] = "out"
    /\ admitted < MaxAdmitted
    /\ at' = [at EXCEPT ![q] = "check1"]
    /\ inFlight' = inFlight + 1
    /\ admitted' = admitted + 1
    /\ UNCHANGED <<finished, drainVars, guardVars>>

\* Under the condition: refused while draining, counted otherwise.
Admit(q) ==
    /\ at[q] = "out" /\ ~draining
    /\ admitted < MaxAdmitted
    /\ at' = [at EXCEPT ![q] = "check1"]
    /\ inFlight' = inFlight + 1
    /\ admitted' = admitted + 1
    /\ UNCHANGED <<finished, drainVars, guardVars>>

\* release_all on the shared object frees every entered handle, whoever took it.
ReleaseAll ==
    /\ held' = Unheld
    /\ locked' = locked \ {<<held[l], l>> : l \in HeldNames}

\* _acquire_one's refusals: an entry for this lock, or for a later one.  The
\* GuardError passes through ordered() without releasing anything.
Check(q) ==
    /\ \/ at[q] = "check1"
          /\ at' = [at EXCEPT ![q] = IF HeldNames = {} THEN "lock1" ELSE "finally"]
       \/ at[q] = "check2"
          /\ at' = [at EXCEPT ![q] = IF held[Data] = NoOne THEN "lock2" ELSE "finally"]
    /\ UNCHANGED <<countVars, drainVars, guardVars>>

\* The OS lock is granted (shared, so beside any other reader) and entered.
Lock(q) ==
    /\ \/ /\ at[q] = "lock1"
          /\ at' = [at EXCEPT ![q] = "check2"]
          /\ held' = [held EXCEPT ![Admission] = q]
          /\ locked' = locked \cup {<<q, Admission>>}
       \/ /\ at[q] = "lock2"
          /\ at' = [at EXCEPT ![q] = "early"]
          /\ held' = [held EXCEPT ![Data] = q]
          /\ locked' = locked \cup {<<q, Data>>}
    /\ UNCHANGED <<countVars, drainVars>>

\* The wait for a publisher timed out: ordered() releases everything.
Timeout(q) ==
    /\ at[q] \in {"lock1", "lock2"}
    /\ at' = [at EXCEPT ![q] = "finally"]
    /\ ReleaseAll
    /\ UNCHANGED <<countVars, drainVars>>

\* release("admission"): an entry that is gone by now is a GuardError.
ReleaseEarly(q) ==
    /\ at[q] = "early"
    /\ \/ /\ held[Admission] # NoOne
          /\ held' = [held EXCEPT ![Admission] = NoOne]
          /\ locked' = locked \ {<<held[Admission], Admission>>}
          /\ at' = [at EXCEPT ![q] = "inside"]
       \/ /\ held[Admission] = NoOne
          /\ at' = [at EXCEPT ![q] = "finally"]
          /\ UNCHANGED guardVars
    /\ UNCHANGED <<countVars, drainVars>>

\* The body ends or raises.
Leave(q) ==
    /\ at[q] = "inside"
    /\ at' = [at EXCEPT ![q] = "finally"]
    /\ ReleaseAll
    /\ UNCHANGED <<countVars, drainVars>>

Finally(q) ==
    /\ at[q] = "finally"
    /\ at' = [at EXCEPT ![q] = "out"]
    /\ inFlight' = inFlight - 1
    /\ finished' = finished + 1
    /\ UNCHANGED <<admitted, drainVars, guardVars>>

----------------------------------------------------------------------------
(* shutdown() and the drain() in it *)

\* The remembered outcome is returned, or a drain begins.
Enter(h) ==
    /\ do[h] = "out"
    /\ do' = [do EXCEPT ![h] = IF shutdown THEN "done" ELSE "start"]
    /\ mine' = [mine EXCEPT ![h] = IF shutdown THEN outcome ELSE NoOutcome]
    /\ UNCHANGED <<at, countVars, guardVars, cancelled, draining, shutdown, outcome>>

StartDrain(h) ==
    /\ do[h] = "start"
    /\ draining' = TRUE
    /\ do' = [do EXCEPT ![h] = "wait"]
    /\ UNCHANGED <<at, countVars, guardVars, cancelled, shutdown, outcome, mine>>

\* _wait_for_queries: nobody is in flight, or the deadline has passed.
Wait(h) ==
    /\ do[h] = "wait"
    /\ do' = [do EXCEPT ![h] = IF inFlight = 0 THEN "read" ELSE "cancel"]
    /\ mine' = [mine EXCEPT ![h].remaining = inFlight]
    /\ UNCHANGED <<at, countVars, guardVars, cancelled, draining, shutdown, outcome>>

Cancel(h) ==
    /\ do[h] = "cancel"
    /\ cancelled' = cancelled + mine[h].remaining
    /\ do' = [do EXCEPT ![h] = "release"]
    /\ UNCHANGED <<at, countVars, guardVars, draining, shutdown, outcome, mine>>

ReleaseGuards(h) ==
    /\ do[h] = "release"
    /\ ReleaseAll
    /\ do' = [do EXCEPT ![h] = "read"]
    /\ UNCHANGED <<at, countVars, cancelled, draining, shutdown, outcome, mine>>

\* The outcome of drain().
ReadOutcome(h) ==
    /\ do[h] = "read"
    /\ mine' = [mine EXCEPT ![h].drained = mine[h].remaining = 0,
                            ![h].finished = finished, ![h].guards = HeldNames]
    /\ do' = [do EXCEPT ![h] = "final"]
    /\ UNCHANGED <<at, countVars, guardVars, cancelled, draining, shutdown, outcome>>

\* shutdown() releases once more and looks again.
ReleaseAgain(h) ==
    /\ do[h] = "final"
    /\ ReleaseAll
    /\ do' = [do EXCEPT ![h] = "look"]
    /\ UNCHANGED <<at, countVars, cancelled, draining, shutdown, outcome, mine>>

LookAgain(h) ==
    /\ do[h] = "look"
    /\ mine' = [mine EXCEPT ![h].guards = HeldNames]
    /\ do' = [do EXCEPT ![h] = "store"]
    /\ UNCHANGED <<at, countVars, guardVars, cancelled, draining, shutdown, outcome>>

Remember(h) ==
    /\ do[h] = "store"
    /\ shutdown' = TRUE
    /\ outcome' = mine[h]
    /\ do' = [do EXCEPT ![h] = "done"]
    /\ UNCHANGED <<at, countVars, guardVars, cancelled, draining, mine>>

----------------------------------------------------------------------------
QueryStep(q) ==
    Check(q) \/ Lock(q) \/ Timeout(q) \/ ReleaseEarly(q) \/ Leave(q) \/ Finally(q)

HandlerStep(h) ==
    \/ StartDrain(h) \/ Wait(h) \/ Cancel(h) \/ ReleaseGuards(h)
    \/ ReadOutcome(h) \/ ReleaseAgain(h) \/ LookAgain(h) \/ Remember(h)

Next ==
    \/ \E q \in Queries : Admit(q) \/ QueryStep(q)
    \/ \E h \in Handlers : Enter(h) \/ HandlerStep(h)

Spec == Init /\ [][Next]_vars

----------------------------------------------------------------------------
Outcomes ==
    [drained : BOOLEAN, remaining : Nat, finished : Nat, guards : SUBSET Locks]

\* The type invariant; the counters never go below zero.
TypeOK ==
    /\ at \in [Queries -> Places]
    /\ inFlight \in Nat /\ finished \in Nat /\ cancelled \in Nat /\ admitted \in Nat
    /\ draining \in BOOLEAN /\ shutdown \in BOOLEAN
    /\ outcome \in Outcomes
    /\ do \in [Handlers -> {"out", "start", "wait", "cancel", "release", "read", "final",
                            "look", "store", "done"}]
    /\ mine \in [Handlers -> Outcomes]
    /\ held \in [Locks -> Queries \cup {NoOne}]
    /\ locked \subseteq Queries \X Locks

\* The counter that drain() waits on is the number of queries between admission and
\* the end of their finally, on every path: refusals of the shared guard, timeouts,
\* a body that raises, a drain that pulls the guard away.
InFlightIsExact == inFlight = Cardinality({q \in Queries : at[q] # "out"})

\* An outcome that says "drained" speaks for good: every query that was ever
\* admitted had finished, and none is admitted afterwards.
DrainedIsFinal ==
    \A o \in {outcome} \cup {mine[h] : h \in Handlers} :
        o.drained => inFlight = 0 /\ o.finished = admitted

\* What a drain rests on and what it promises: the counter is exact and "drained" is final.
DrainIsSound == InFlightIsExact /\ DrainedIsFinal
=============================================================================
