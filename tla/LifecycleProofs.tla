-------------------------- MODULE LifecycleProofs --------------------------
(***************************************************************************)
(* Proofs about how a process serves and ends, for every value of the      *)
(* constants.                                                              *)
(*                                                                         *)
(* Lifecycle: the counter is related to the threads by cardinality, the    *)
(* outcome to the counter by what a handler saw when it left its wait;     *)
(* once draining is set the counter only falls, so the zero stays zero.    *)
(* HttpServer: one mount, whose session manager runs once and in one       *)
(* lifespan; a probe that has given a lane up saw something that was not   *)
(* good.  Stdio: what was handed over, is pending and is unread make up    *)
(* the stream at every moment.                                             *)
(***************************************************************************)
EXTENDS MCLifecycle, FiniteSetTheorems, SequenceTheorems, WellFoundedInduction,
        NaturalsInduction, TLAPS

Busy == {q \in Queries : at[q] # "out"}

\* Every admitted query is in flight or has finished.
Accounted == admitted = finished + inFlight

Past == {"cancel", "release", "read", "final", "look", "store"}

\* A handler that is waiting, or past it, or has remembered, set draining before.
DrainSet ==
    /\ shutdown => draining
    /\ \A h \in Handlers : do[h] \in Past \cup {"wait"} => draining

\* A handler that left its wait with a count of zero can rely on it.
ZeroStands ==
    \A h \in Handlers :
        /\ do[h] \in {"cancel", "release"} => mine[h].remaining # 0
        /\ do[h] = "read" /\ mine[h].remaining = 0 => inFlight = 0

Good(o) == o.drained => draining /\ inFlight = 0 /\ o.finished = admitted
OutcomesGood == Good(outcome) /\ \A h \in Handlers : Good(mine[h])

IInv == TypeOK /\ InFlightIsExact /\ Accounted /\ DrainSet /\ ZeroStands /\ OutcomesGood

----------------------------------------------------------------------------
\* Lemma: the initial state satisfies the inductive invariant.
LEMMA InitInv == Init => IInv
<1> SUFFICES ASSUME Init PROVE IInv
  OBVIOUS
<1> USE DEF Init
<1>1. TypeOK
  BY DEF TypeOK, Outcomes, NoOutcome, Unheld, Places, Locks
<1>2. InFlightIsExact
  <2>1. {q \in Queries : at[q] # "out"} = {}
    OBVIOUS
  <2> QED BY <2>1, FS_EmptySet DEF InFlightIsExact
<1>3. Accounted
  BY DEF Accounted
<1>4. DrainSet /\ ZeroStands /\ OutcomesGood
  BY DEF DrainSet, ZeroStands, OutcomesGood, Good, NoOutcome, Past
<1> QED BY <1>1, <1>2, <1>3, <1>4 DEF IInv

\* Lemma: a query that enters raises the number of busy threads by one, one that
\* leaves lowers it, and a change of place inside changes nothing.
LEMMA BusyCount ==
  ASSUME TypeOK, NEW q \in Queries, NEW p \in Places, at' = [at EXCEPT ![q] = p]
  PROVE  /\ IsFiniteSet(Busy) /\ Cardinality(Busy) \in Nat
         /\ at[q] = "out" /\ p # "out" => Cardinality(Busy') = Cardinality(Busy) + 1
         /\ at[q] # "out" /\ p = "out" => Cardinality(Busy') = Cardinality(Busy) - 1
         /\ at[q] # "out" /\ p # "out" => Busy' = Busy
<1>1. IsFiniteSet(Busy) /\ Cardinality(Busy) \in Nat
  BY LifecycleAssumption, FS_Subset, FS_CardinalityType DEF Busy
<1>2. ASSUME at[q] = "out", p # "out" PROVE Busy' = Busy \cup {q} /\ q \notin Busy
  BY <1>2 DEF Busy, TypeOK
<1>3. ASSUME at[q] # "out", p = "out" PROVE Busy' = Busy \ {q} /\ q \in Busy
  BY <1>3 DEF Busy, TypeOK
<1>4. ASSUME at[q] # "out", p # "out" PROVE Busy' = Busy
  BY <1>4 DEF Busy, TypeOK
<1> QED BY <1>1, <1>2, <1>3, <1>4, FS_AddElement, FS_RemoveElement

\* Lemma: a thread that is in query() is counted.
LEMMA BusyIsCounted ==
  ASSUME TypeOK, InFlightIsExact, NEW q \in Queries, at[q] # "out"
  PROVE  inFlight # 0
<1>1. IsFiniteSet(Busy) /\ q \in Busy /\ inFlight = Cardinality(Busy)
  BY LifecycleAssumption, FS_Subset DEF Busy, InFlightIsExact
<1> QED BY <1>1, FS_EmptySet

\* Lemma: the steps of a query between its admission and its finally touch nothing
\* but its place and the guard.
LEMMA QueryInside ==
  ASSUME TypeOK, NEW q \in Queries,
         Check(q) \/ Lock(q) \/ Timeout(q) \/ ReleaseEarly(q) \/ Leave(q)
  PROVE  /\ at[q] # "out"
         /\ \E p \in Places \ {"out"} : at' = [at EXCEPT ![q] = p]
         /\ held' \in [Locks -> Queries \cup {NoOne}] /\ locked' \subseteq Queries \X Locks
         /\ UNCHANGED <<countVars, drainVars>>
<1> USE DEF TypeOK, Places, Locks, Admission, Data
<1>1. CASE Check(q)
  BY <1>1 DEF Check, guardVars
<1>2. CASE Lock(q)
  BY <1>2 DEF Lock
<1>3. CASE Timeout(q)
  BY <1>3 DEF Timeout, ReleaseAll, Unheld
<1>4. CASE ReleaseEarly(q)
  BY <1>4 DEF ReleaseEarly, guardVars
<1>5. CASE Leave(q)
  BY <1>5 DEF Leave, ReleaseAll, Unheld
<1> QED BY <1>1, <1>2, <1>3, <1>4, <1>5

\* Lemma: a step of a query preserves the inductive invariant.
LEMMA QueryInv ==
  ASSUME IInv, NEW q \in Queries, Admit(q) \/ QueryStep(q)
  PROVE  IInv'
<1> USE DEF IInv
<1>b. InFlightIsExact <=> inFlight = Cardinality(Busy)
  BY DEF InFlightIsExact, Busy
<1>c. InFlightIsExact' <=> inFlight' = Cardinality(Busy')
  BY DEF InFlightIsExact, Busy
<1>1. CASE Admit(q)
  <2>1. /\ at[q] = "out" /\ ~draining /\ at' = [at EXCEPT ![q] = "check1"]
        /\ inFlight' = inFlight + 1 /\ admitted' = admitted + 1
        /\ UNCHANGED <<finished, drainVars, guardVars>>
    BY <1>1 DEF Admit
  <2>2. TypeOK'
    BY <2>1 DEF TypeOK, Places, drainVars, guardVars
  <2>3. Cardinality(Busy') = Cardinality(Busy) + 1
    BY <2>1, BusyCount DEF Places
  <2>4. Accounted'
    BY <2>1 DEF Accounted, TypeOK
  <2>5. DrainSet' /\ ZeroStands' /\ OutcomesGood'
    BY <2>1 DEF DrainSet, ZeroStands, OutcomesGood, Good, drainVars, Past
  <2> QED BY <2>1, <2>2, <2>3, <2>4, <2>5, <1>b, <1>c
<1>2. CASE Check(q) \/ Lock(q) \/ Timeout(q) \/ ReleaseEarly(q) \/ Leave(q)
  <2>1. PICK p \in Places \ {"out"} : at' = [at EXCEPT ![q] = p]
    BY <1>2, QueryInside
  <2>2. /\ at[q] # "out" /\ UNCHANGED <<countVars, drainVars>>
        /\ held' \in [Locks -> Queries \cup {NoOne}] /\ locked' \subseteq Queries \X Locks
    BY <1>2, QueryInside
  <2>3. TypeOK'
    BY <2>1, <2>2 DEF TypeOK, countVars, drainVars
  <2>4. Busy' = Busy
    BY <2>1, <2>2, BusyCount
  <2>5. Accounted' /\ DrainSet' /\ ZeroStands' /\ OutcomesGood'
    BY <2>2 DEF Accounted, DrainSet, ZeroStands, OutcomesGood, Good, drainVars, countVars
  <2> QED BY <2>2, <2>3, <2>4, <2>5, <1>b, <1>c DEF countVars
<1>3. CASE Finally(q)
  <2>1. /\ at[q] # "out" /\ at' = [at EXCEPT ![q] = "out"]
        /\ inFlight' = inFlight - 1 /\ finished' = finished + 1
        /\ UNCHANGED <<admitted, drainVars, guardVars>>
    BY <1>3 DEF Finally
  <2>2. inFlight # 0
    BY <2>1, BusyIsCounted
  <2>3. TypeOK'
    BY <2>1, <2>2 DEF TypeOK, Places, drainVars, guardVars
  <2>4. Cardinality(Busy') = Cardinality(Busy) - 1
    BY <2>1, BusyCount DEF Places
  <2>5. Accounted'
    BY <2>1 DEF Accounted, TypeOK
  <2>6. DrainSet' /\ ZeroStands' /\ OutcomesGood'
    BY <2>1, <2>2 DEF DrainSet, ZeroStands, OutcomesGood, Good, drainVars
  <2> QED BY <2>1, <2>3, <2>4, <2>5, <2>6, <1>b, <1>c
<1> QED BY <1>1, <1>2, <1>3 DEF QueryStep

\* Lemma: a step of a shutdown handler preserves the inductive invariant.
LEMMA HandlerInv ==
  ASSUME IInv, NEW h \in Handlers, Enter(h) \/ HandlerStep(h)
  PROVE  IInv'
<1>1. UNCHANGED <<at, countVars>>
  BY DEF HandlerStep, Enter, StartDrain, Wait, Cancel, ReleaseGuards, ReadOutcome,
         ReleaseAgain, LookAgain, Remember
<1>2. InFlightIsExact' /\ Accounted'
  BY <1>1 DEF IInv, InFlightIsExact, Accounted, countVars
<1>3. TypeOK'
  <2> USE DEF IInv, TypeOK, Outcomes, countVars, guardVars, Locks, Admission, Data
  <2>1. CASE Enter(h)
    BY <2>1 DEF Enter, NoOutcome
  <2>2. CASE StartDrain(h)
    BY <2>2 DEF StartDrain
  <2>3. CASE Wait(h)
    BY <2>3 DEF Wait
  <2>4. CASE Cancel(h)
    BY <2>4 DEF Cancel
  <2>5. CASE ReleaseGuards(h) \/ ReleaseAgain(h)
    <3>1. ReleaseAll /\ UNCHANGED <<at, countVars, cancelled, draining, shutdown, outcome, mine>>
      BY <2>5 DEF ReleaseGuards, ReleaseAgain
    <3>2. held' \in [Locks -> Queries \cup {NoOne}] /\ locked' \subseteq Queries \X Locks
      BY <3>1 DEF ReleaseAll, Unheld
    <3>3. do' = [do EXCEPT ![h] = "read"] \/ do' = [do EXCEPT ![h] = "look"]
      BY <2>5 DEF ReleaseGuards, ReleaseAgain
    <3> QED BY <3>1, <3>2, <3>3
  <2>6. CASE ReadOutcome(h)
    <3>1. HeldNames \in SUBSET Locks /\ (mine[h].remaining = 0) \in BOOLEAN
      BY DEF HeldNames
    <3>2. mine' \in [Handlers -> Outcomes]
      <4> HIDE DEF IInv, TypeOK, Outcomes, Locks
      <4> DEFINE o == [mine[h] EXCEPT !.drained = mine[h].remaining = 0,
                                      !.finished = finished, !.guards = HeldNames]
      <4>1. mine \in [Handlers -> Outcomes] /\ finished \in Nat
        BY DEF IInv, TypeOK
      <4>2. o \in Outcomes
        BY <4>1, <3>1 DEF Outcomes
      <4>3. mine' = [mine EXCEPT ![h] = o]
        BY <4>1, <2>6 DEF ReadOutcome
      <4> HIDE DEF o
      <4> QED BY <4>1, <4>2, <4>3
    <3> QED BY <2>6, <3>2 DEF ReadOutcome
  <2>7. CASE LookAgain(h)
    BY <2>7 DEF LookAgain, HeldNames
  <2>8. CASE Remember(h)
    BY <2>8 DEF Remember
  <2> QED BY <2>1, <2>2, <2>3, <2>4, <2>5, <2>6, <2>7, <2>8 DEF HandlerStep
<1>4. DrainSet' /\ ZeroStands' /\ OutcomesGood'
  <2> USE <1>1 DEF IInv, TypeOK, Outcomes, DrainSet, ZeroStands, OutcomesGood, Good, Past,
                   countVars
  <2>1. CASE Enter(h)
    BY <2>1 DEF Enter, NoOutcome
  <2>2. CASE StartDrain(h)
    BY <2>2 DEF StartDrain
  <2>3. CASE Wait(h)
    BY <2>3 DEF Wait
  <2>4. CASE Cancel(h)
    BY <2>4 DEF Cancel
  <2>5. CASE ReleaseGuards(h) \/ ReleaseAgain(h)
    BY <2>5 DEF ReleaseGuards, ReleaseAgain
  <2>6. CASE ReadOutcome(h)
    BY <2>6 DEF ReadOutcome, Accounted
  <2>7. CASE LookAgain(h)
    BY <2>7 DEF LookAgain
  <2>8. CASE Remember(h)
    BY <2>8 DEF Remember
  <2> QED BY <2>1, <2>2, <2>3, <2>4, <2>5, <2>6, <2>7, <2>8 DEF HandlerStep
<1> QED BY <1>2, <1>3, <1>4 DEF IInv

----------------------------------------------------------------------------
\* Theorem: the inductive invariant holds of every reachable state.
THEOREM Invariance == Spec => []IInv
<1>1. Init => IInv
  BY InitInv
<1>2. IInv /\ [Next]_vars => IInv'
  <2> SUFFICES ASSUME IInv, [Next]_vars PROVE IInv'
    OBVIOUS
  <2>1. CASE Next
    BY <2>1, QueryInv, HandlerInv DEF Next
  <2>2. CASE UNCHANGED vars
    BY <2>2 DEF vars, IInv, TypeOK, InFlightIsExact, Accounted, DrainSet, ZeroStands,
                OutcomesGood, Good, Outcomes
  <2> QED BY <2>1, <2>2
<1> QED BY <1>1, <1>2, PTL DEF Spec

\* Theorem: the variables of Lifecycle keep their types.
THEOREM TypeCorrect == Spec => []TypeOK
<1>1. IInv => TypeOK
  BY DEF IInv
<1> QED BY <1>1, Invariance, PTL

\* Theorem: the counter drain() waits on counts exactly the threads inside query().
THEOREM CounterExact == Spec => []InFlightIsExact
<1>1. IInv => InFlightIsExact
  BY DEF IInv
<1> QED BY <1>1, Invariance, PTL

\* Theorem: an outcome that says drained stays true, however many handlers overlap.
THEOREM DrainStands == Spec => []DrainedIsFinal
<1>1. IInv => DrainedIsFinal
  BY DEF IInv, OutcomesGood, Good, DrainedIsFinal
<1> QED BY <1>1, Invariance, PTL

\* Theorem: for any threads and handlers the counter is exact and a drained outcome final.
THEOREM DrainSound == Spec => []DrainIsSound
BY CounterExact, DrainStands, PTL DEF DrainIsSound

----------------------------------------------------------------------------
(* HttpServer: the lifespans, the session manager and the runtime. *)

Runs(l) == inside[l] # NoServer /\ lifespan[l] = "running"
Before == {"configure", "server", "runtime", "compose", "build"}

HttpTypes ==
    /\ phase \in Before \cup {"serve", "ended", "embedding"} /\ opened \in BOOLEAN
    /\ lifespan \in [Opens -> {"idle", "parent", "entered", "running", "leaveSdk",
                               "leaveParent", "done"}]
    /\ inside \in [Opens -> Servers \cup {NoServer}]
    /\ mounted \in Servers \cup {NoServer} /\ manager \in Servers \cup {NoServer}
    /\ used \subseteq Servers
    /\ starts \in Nat /\ stops \in Nat /\ calls \in {0, 1}
    /\ probe = [q \in Probes |-> probe[q]]

\* There is one mount and its session manager runs once, in the one lifespan that will leave
\* it; the recorder counts the lifespan whose body runs.
LifespanInv ==
    /\ \A l \in Opens : inside[l] # NoServer => inside[l] = mounted /\ lifespan[l] # "idle"
    /\ \A l \in Opens : lifespan[l] \in {"entered", "leaveSdk"} => inside[l] # NoServer
    /\ used \subseteq {mounted}
    /\ \A l \in Opens : H!Holds(l) => inside[l] \in used
    /\ \A l, k \in Opens : H!Holds(l) /\ H!Holds(k) => l = k
    /\ manager # NoServer <=> \E l \in Opens : H!Holds(l)
    /\ (\E l \in Opens : Runs(l)) => starts = stops + 1
    /\ (\A l \in Opens : ~Runs(l)) => starts = stops
    /\ calls > 0 => manager # NoServer

\* main opens the runtime before it serves and serves before anything runs.
ServingInv ==
    /\ phase \in Before => mounted = NoServer
    /\ phase \notin {"embedding", "serve"} => \A l \in Opens : H!Idle(l)
    /\ \A q \in Probes : probe[q].at \notin {"idle", "done"} => phase = "serve"
    /\ phase \in {"compose", "build", "serve"} => opened
    /\ ending = "served" => phase = "ended" /\ ~opened

HttpInv == HttpTypes /\ LifespanInv /\ ServingInv

\* Before anything is done all of it holds.
LEMMA HttpInitInv == H!HttpInit => HttpInv
<1> SUFFICES ASSUME H!HttpInit PROVE HttpInv
  OBVIOUS
<1>1. HttpTypes
  BY Zenon, HttpAssumption DEF H!HttpInit, HttpTypes, Before
<1>2. LifespanInv
  BY DEF H!HttpInit, LifespanInv, H!Holds, Runs
<1>3. ServingInv
  BY DEF H!HttpInit, ServingInv, H!Idle, H!NoProbe, Before
<1> QED BY <1>1, <1>2, <1>3 DEF HttpInv

\* The steps of main move it on, open the runtime before it serves and close it after.
LEMMA MainInv ==
    ASSUME HttpInv,
           H!CheckSettings \/ H!BuildServer \/ H!OpenRuntime \/ H!Compose \/ H!Build \/ H!Close
    PROVE  HttpInv'
<1> USE DEF HttpInv
<1>1. UNCHANGED <<lifespan, inside, used, manager, starts, stops, calls, probe>>
  BY DEF H!CheckSettings, H!BuildServer, H!OpenRuntime, H!Compose, H!Build, H!Close, H!Step,
         H!Ends, H!lifespanVars, H!fileVars
<1>2. mounted' = mounted \/ (phase = "build" /\ mounted' \in Servers /\ phase' = "serve")
  BY DEF H!CheckSettings, H!BuildServer, H!OpenRuntime, H!Compose, H!Build, H!Close, H!Step,
         H!Ends, H!lifespanVars, H!fileVars
<1>3. HttpTypes'
  BY <1>1, <1>2 DEF HttpTypes, Before, H!CheckSettings, H!BuildServer, H!OpenRuntime, H!Compose,
         H!Build, H!Close, H!Step, H!Ends
<1>4. LifespanInv'
  <2>1. CASE mounted' = mounted
    BY <1>1, <2>1 DEF LifespanInv, H!Holds, Runs
  <2>2. CASE phase = "build"
    <3>1. mounted = NoServer
      BY <2>2 DEF ServingInv, Before
    <3>2. used = {} /\ \A l \in Opens : inside[l] = NoServer
      BY <3>1, HttpAssumption DEF H!HttpParameters, LifespanInv, HttpTypes
    <3> QED BY <1>1, <3>2 DEF LifespanInv, H!Holds, Runs
  <2> QED BY <1>2, <2>1, <2>2
<1>5. ServingInv'
  <2>1. CASE H!Close
    BY <1>1, <2>1 DEF ServingInv, H!Close, H!Idle, H!Busy, Before
  <2>2. CASE H!CheckSettings \/ H!BuildServer \/ H!OpenRuntime \/ H!Compose \/ H!Build
    BY <1>1, <2>2 DEF ServingInv, H!Idle, Before, H!CheckSettings, H!BuildServer, H!OpenRuntime,
         H!Compose, H!Build, H!Step, H!Ends, H!lifespanVars
  <2> QED BY <2>1, <2>2
<1> QED BY <1>3, <1>4, <1>5

\* A lifespan moves on: what the invariant says of it is all that has to be looked at.
LEMMA LifespanMoves ==
    ASSUME HttpInv, NEW l \in Opens, H!Lifespan(l)
    PROVE  /\ \E a \in {"idle", "parent", "entered", "running", "leaveSdk", "leaveParent", "done"} :
                lifespan' = [lifespan EXCEPT ![l] = a]
           /\ ~H!Idle(l) \/ phase \in {"embedding", "serve"}
           /\ UNCHANGED <<phase, ending, opened, mounted, calls, probe>>
<1> USE DEF HttpInv, HttpTypes, H!mainVars, H!fileVars, H!Idle
<1>1. CASE H!EnterParent(l)
  BY <1>1 DEF H!EnterParent
<1>2. CASE H!EnterSdk(l)
  BY <1>2 DEF H!EnterSdk
<1>3. CASE H!NoteStart(l)
  BY <1>3 DEF H!NoteStart
<1>4. CASE H!NoteStop(l)
  BY <1>4 DEF H!NoteStop
<1>5. CASE H!LeaveSdk(l)
  BY <1>5 DEF H!LeaveSdk
<1>6. CASE H!LeaveParent(l)
  BY <1>6 DEF H!LeaveParent
<1> QED BY <1>1, <1>2, <1>3, <1>4, <1>5, <1>6 DEF H!Lifespan

\* Every step of a lifespan keeps the session manager, the recorder and the mount together.
LEMMA LifespanStep == ASSUME HttpInv, NEW l \in Opens, H!Lifespan(l) PROVE HttpInv'
<1> USE DEF HttpInv
<1>1. PICK a \in {"idle", "parent", "entered", "running", "leaveSdk", "leaveParent", "done"} :
        lifespan' = [lifespan EXCEPT ![l] = a]
  BY LifespanMoves
<1>2. /\ ~H!Idle(l) \/ phase \in {"embedding", "serve"}
      /\ UNCHANGED <<phase, ending, opened, mounted, calls, probe>>
  BY LifespanMoves
<1>3. phase \in {"embedding", "serve"}
  BY <1>2 DEF ServingInv
<1>4. ServingInv'
  BY <1>2, <1>3 DEF ServingInv, Before
<1>5. lifespan' \in [Opens -> {"idle", "parent", "entered", "running", "leaveSdk",
                               "leaveParent", "done"}]
  BY <1>1 DEF HttpTypes
<1> USE DEF HttpTypes, LifespanInv, H!Holds, Runs
<1>6. CASE H!EnterParent(l)
  <2>1. /\ lifespan[l] = "idle" /\ lifespan'[l] \in {"parent", "done"}
        /\ inside' = [inside EXCEPT ![l] = mounted]
        /\ UNCHANGED <<used, manager, starts, stops>>
    BY <1>6 DEF H!EnterParent
  <2> QED BY <1>1, <1>2, <1>4, <1>5, <2>1
<1>7. CASE H!EnterSdk(l)
  <2>1. /\ lifespan[l] = "parent" /\ inside[l] # NoServer /\ UNCHANGED <<inside, starts, stops>>
    BY <1>7 DEF H!EnterSdk
  <2>2. CASE inside[l] \notin used /\ used' = used \cup {inside[l]} /\ manager' = inside[l]
             /\ lifespan'[l] = "entered"
    <3>1. used = {} /\ \A k \in Opens : ~H!Holds(k)
      BY <2>1, <2>2
    <3> QED BY <1>1, <1>2, <1>4, <1>5, <2>1, <2>2, <3>1
  <2>3. CASE lifespan'[l] = "leaveParent" /\ UNCHANGED <<used, manager>>
    BY <1>1, <1>2, <1>4, <1>5, <2>1, <2>3
  <2> QED BY <1>7, <2>2, <2>3 DEF H!EnterSdk
<1>8. CASE H!NoteStart(l)
  <2>1. UNCHANGED <<inside, used, manager, stops>>
    BY <1>8 DEF H!NoteStart
  <2>2. CASE lifespan[l] = "entered"
    <3>1. \A k \in Opens : ~Runs(k)
      BY <2>2
    <3>2. starts' = starts + 1 /\ lifespan'[l] = "running"
      BY <1>1, <1>8, <2>2, <3>1 DEF H!NoteStart
    <3> QED BY <1>1, <1>2, <1>4, <1>5, <2>1, <2>2, <3>1, <3>2
  <2>3. CASE lifespan[l] = "parent" /\ inside[l] = NoServer
    <3>1. lifespan'[l] = "running" /\ starts' = starts
      BY <1>1, <1>8, <2>3 DEF H!NoteStart
    <3> QED BY <1>1, <1>2, <1>4, <1>5, <2>1, <2>3, <3>1
  <2> QED BY <1>8, <2>2, <2>3 DEF H!NoteStart
<1>9. CASE H!NoteStop(l)
  <2>1. lifespan[l] = "running" /\ UNCHANGED <<inside, used, manager, starts>>
    BY <1>9 DEF H!NoteStop
  <2>2. CASE inside[l] # NoServer
    <3>1. \A k \in Opens : Runs(k) => k = l
      BY <2>1, <2>2
    <3>2. stops' = stops + 1 /\ lifespan'[l] = "leaveSdk"
      BY <1>1, <1>9, <2>1, <2>2 DEF H!NoteStop
    <3> QED BY <1>1, <1>2, <1>4, <1>5, <2>1, <2>2, <3>1, <3>2
  <2>3. CASE inside[l] = NoServer
    <3>1. lifespan'[l] = "leaveParent" /\ stops' = stops
      BY <1>1, <1>9, <2>3 DEF H!NoteStop
    <3> QED BY <1>1, <1>2, <1>4, <1>5, <2>1, <2>3, <3>1
  <2> QED BY <2>2, <2>3
<1>10. CASE H!LeaveSdk(l)
  <2>1. /\ lifespan[l] = "leaveSdk" /\ lifespan'[l] = "leaveParent" /\ calls = 0
        /\ manager' = NoServer /\ UNCHANGED <<inside, used, starts, stops>>
    BY <1>10 DEF H!LeaveSdk
  <2> QED BY <1>1, <1>2, <1>4, <1>5, <2>1
<1>11. CASE H!LeaveParent(l)
  BY <1>1, <1>2, <1>4, <1>5, <1>11 DEF H!LeaveParent
<1> QED BY <1>6, <1>7, <1>8, <1>9, <1>10, <1>11 DEF H!Lifespan

\* A mount, a call, the files and the probes leave the lifespans alone.
LEMMA OtherHttpStep ==
    ASSUME HttpInv,
           \/ \E s \in Servers : H!Mount(s)
           \/ H!Call \/ H!CallEnds \/ H!Change \/ \E q \in Probes : H!Probe(q)
           \/ \E item \in H!Loadable : H!CallLoads(item)
    PROVE  HttpInv'
<1> USE DEF HttpInv, H!mainVars, H!lifespanVars, H!fileVars
<1>1. ASSUME NEW s \in Servers, H!Mount(s) PROVE HttpInv'
  <2>1. /\ phase = "embedding" /\ mounted = NoServer /\ mounted' = s
        /\ UNCHANGED <<phase, ending, opened, lifespan, inside, used, manager, starts, stops,
                       calls, probe>>
    BY <1>1 DEF H!Mount
  <2>2. used = {} /\ \A l \in Opens : inside[l] = NoServer
    BY <2>1, HttpAssumption DEF H!HttpParameters, LifespanInv, HttpTypes
  <2>3. LifespanInv'
    BY <2>1, <2>2 DEF LifespanInv, H!Holds, Runs
  <2> QED BY <2>1, <2>3 DEF HttpTypes, ServingInv, H!Idle, Before
<1>2. CASE H!Call
  <2>1. LifespanInv'
    BY <1>2, HttpAssumption DEF H!HttpParameters, H!Call, LifespanInv, H!Holds, Runs
  <2> QED BY <1>2, <2>1 DEF H!Call, HttpTypes, ServingInv, H!Idle
<1>3. CASE H!CallEnds
  <2>1. LifespanInv'
    BY <1>3 DEF H!CallEnds, LifespanInv, H!Holds, Runs
  <2> QED BY <1>3, <2>1 DEF H!CallEnds, HttpTypes, ServingInv, H!Idle
<1>4. CASE H!Change
  BY <1>4 DEF H!Change, HttpTypes, LifespanInv, H!Holds, Runs, ServingInv, H!Idle
<1>5. ASSUME NEW q \in Probes, H!Probe(q) PROVE HttpInv'
  <2>1. UNCHANGED <<phase, ending, opened, mounted, lifespan, inside, used, manager, starts, stops,
                    calls>>
    BY <1>5 DEF H!Probe, H!BeginProbe, H!ProbeCatalog, H!ProbeProject, H!ProbeControl
  <2>2. phase = "serve"
    BY <1>5 DEF ServingInv, H!Probe, H!BeginProbe, H!ProbeCatalog, H!ProbeProject, H!ProbeControl
  <2>3. probe' = [r \in Probes |-> probe'[r]]
    <3>1. \E x : probe' = [probe EXCEPT ![q] = x]
      BY <1>5, Zenon DEF H!Probe, H!BeginProbe, H!ProbeCatalog, H!ProbeProject, H!ProbeControl
    <3> QED BY <3>1 DEF HttpTypes
  <2>4. LifespanInv'
    BY <2>1 DEF LifespanInv, H!Holds, Runs
  <2> QED BY <2>1, <2>2, <2>3, <2>4 DEF HttpTypes, ServingInv, Before
<1>6. ASSUME NEW item \in H!Loadable, H!CallLoads(item) PROVE HttpInv'
  <2>1. UNCHANGED <<phase, ending, opened, mounted, lifespan, inside, used, manager, starts, stops,
                    calls, probe>>
    BY <1>6 DEF H!CallLoads
  <2> QED BY <2>1 DEF HttpTypes, LifespanInv, H!Holds, Runs, ServingInv, H!Idle
<1> QED BY <1>1, <1>2, <1>3, <1>4, <1>5, <1>6

\* The inductive invariant gives what is claimed of the lifespans.
LEMMA InvIsWhole == HttpInv => H!LifespanIsWhole
<1> SUFFICES ASSUME HttpInv PROVE H!LifespanIsWhole
  OBVIOUS
<1> USE DEF HttpInv
<1>1. starts - stops = H!Cardinality({l \in Opens : inside[l] # NoServer /\ lifespan[l] = "running"})
  <2> DEFINE S == {l \in Opens : Runs(l)}
  <2>1. H!Cardinality(S) = Cardinality(S)
    BY Zenon DEF H!Cardinality, Cardinality
  <2>2. CASE S = {}
    <3>1. starts = stops
      BY <2>2 DEF LifespanInv
    <3>2. Cardinality(S) = 0
      BY <2>2, FS_EmptySet
    <3> HIDE DEF S
    <3>3. starts - stops = H!Cardinality(S)
      BY <2>1, <3>1, <3>2 DEF HttpTypes
    <3> QED BY <3>3 DEF S, Runs
  <2>3. CASE S # {}
    <3>1. PICK l \in Opens : Runs(l)
      BY <2>3
    <3>2. starts = stops + 1
      BY <3>1 DEF LifespanInv
    <3>3. S = {l}
      BY <3>1 DEF LifespanInv, H!Holds, Runs
    <3>4. Cardinality(S) = 1
      BY <3>3, FS_Singleton
    <3> HIDE DEF S
    <3>5. starts - stops = H!Cardinality(S)
      BY <2>1, <3>2, <3>4 DEF HttpTypes
    <3> QED BY <3>5 DEF S, Runs
  <2> QED BY <2>2, <2>3
<1>2. /\ manager # NoServer <=> \E l \in Opens : H!Holds(l)
      /\ \A l, k \in Opens : H!Holds(l) /\ H!Holds(k) => l = k
      /\ calls > 0 => manager # NoServer
  BY DEF LifespanInv
<1>3. ASSUME phase # "embedding", H!Busy PROVE opened
  <2>1. phase = "serve"
    BY <1>3 DEF H!Busy, LifespanInv, ServingInv, H!Holds, H!Idle
  <2> QED BY <2>1 DEF ServingInv
<1>4. ASSUME ending = "served" PROVE ~opened /\ manager = NoServer /\ starts = stops
  BY <1>4 DEF LifespanInv, ServingInv, H!Holds, H!Idle, Runs
<1> QED BY <1>1, <1>2, <1>3, <1>4 DEF H!LifespanIsWhole

----------------------------------------------------------------------------
(* HttpServer: the readiness probe. *)

Whole(i, S) ==
    /\ Projects[H!SolutionOf(i)] # {}
    /\ \A p \in Projects[H!SolutionOf(i)] \cup {H!Catalog} : H!Item(i, p) \in S

ProbeShape(b) ==
    b = [at |-> b.at, turn |-> b.turn, left |-> b.left, asked |-> b.asked, seen |-> b.seen,
         since |-> b.since, tokens |-> b.tokens, query |-> b.query, control |-> b.control]

\* A probe at a lane has given up those before it, each for something that was not good; what
\* is not left of its lane it has seen; and once it is past the lanes its answer is earned.
ProbeSound(b) ==
    /\ b.since \in Nat /\ b.since <= changes
    /\ b.tokens \in BOOLEAN /\ b.query \in BOOLEAN
    /\ b.at = "idle" => ~b.query
    /\ b.at \in {"catalog", "project"} =>
         /\ b.turn \in H!Turns /\ b.tokens /\ ~b.query
         /\ changes = b.since => \A i \in 1..(b.turn - 1) : ~Whole(i, good)
    /\ b.at = "project" =>
         /\ Projects[H!SolutionOf(b.turn)] # {}
         /\ H!Item(b.turn, H!Catalog) \in b.seen
         /\ \A p \in Projects[H!SolutionOf(b.turn)] \ b.left : H!Item(b.turn, p) \in b.seen
         /\ b.left \subseteq Projects[H!SolutionOf(b.turn)]
    /\ b.query => \E i \in H!Turns : Whole(i, b.seen)
    /\ b.at \in {"control", "done"} /\ ~b.query /\ b.tokens =>
         changes > b.since \/ \A i \in H!Turns : ~Whole(i, good)

ProbeInv ==
    /\ changes \in Nat
    /\ probe = [q \in Probes |-> probe[q]]
    /\ \A q \in Probes : ProbeShape(probe[q]) /\ ProbeSound(probe[q])

\* At first no probe has begun.
LEMMA ProbeInitInv == H!HttpInit => ProbeInv
<1> SUFFICES ASSUME H!HttpInit PROVE ProbeInv
  OBVIOUS
<1>1. changes = 0 /\ probe = [q \in Probes |-> H!NoProbe]
  BY DEF H!HttpInit
<1>2. ProbeShape(H!NoProbe) /\ ProbeSound(H!NoProbe)
  BY <1>1 DEF H!NoProbe, ProbeShape, ProbeSound
<1> QED BY <1>1, <1>2 DEF ProbeInv

\* One probe that moves on disturbs no other.
LEMMA ProbeMoves ==
    ASSUME ProbeInv, NEW q \in Probes, NEW x, ProbeShape(x), ProbeSound(x),
           probe' = [probe EXCEPT ![q] = x], UNCHANGED <<good, changes>>
    PROVE  ProbeInv'
<1>1. \A r \in Probes : probe'[r] = IF r = q THEN x ELSE probe[r]
  BY DEF ProbeInv
<1>2. probe' = [r \in Probes |-> probe'[r]]
  BY DEF ProbeInv
<1>3. ASSUME NEW y, ProbeSound(y) PROVE ProbeSound(y)'
  BY <1>3 DEF ProbeSound, Whole
<1> QED BY <1>1, <1>2, <1>3 DEF ProbeInv, ProbeShape

\* There are two lanes for every solution.
LEMMA TurnsAre == \E n \in Nat : H!Turns = 1..n
<1>1. H!Solutions = 1..Len(Projects) /\ Len(Projects) \in Nat
  BY HttpAssumption, LenProperties DEF H!HttpParameters, H!Solutions
<1>2. H!Cardinality(H!Solutions) = Cardinality(H!Solutions)
  BY Zenon DEF H!Cardinality, Cardinality
<1>3. Cardinality(H!Solutions) \in Nat
  BY <1>1, FS_Interval, FS_CardinalityType
<1> QED BY <1>2, <1>3 DEF H!Turns

\* A probe that goes on to the next lane, or finds no other.
LEMMA TurnIsSound ==
    ASSUME changes \in Nat, NEW b, ProbeShape(b), b.tokens = TRUE, b.query = FALSE,
           b.since \in Nat, b.since <= changes, NEW i \in Nat \ {0}, i = 1 \/ i - 1 \in H!Turns,
           changes = b.since => \A k \in 1..(i - 1) : ~Whole(k, good)
    PROVE  ProbeShape(H!Turn(b, i)) /\ ProbeSound(H!Turn(b, i))
<1>1. PICK n \in Nat : H!Turns = 1..n
  BY TurnsAre
<1> DEFINE x == H!Turn(b, i)
<1>2. CASE i \in H!Turns
  <2>1. x = [b EXCEPT !.at = "catalog", !.turn = i]
    BY <1>2 DEF H!Turn
  <2> HIDE DEF x
  <2>2. ProbeShape(x) /\ x.at = "catalog" /\ x.turn = i /\ x.tokens = TRUE /\ x.query = FALSE
        /\ x.since = b.since
    BY <2>1 DEF ProbeShape
  <2>3. ProbeSound(x)
    BY <1>2, <2>2 DEF ProbeSound
  <2> QED BY <2>2, <2>3 DEF x
<1>3. CASE i \notin H!Turns
  <2>1. x = [b EXCEPT !.at = "control"]
    BY <1>3 DEF H!Turn
  <2> HIDE DEF x
  <2>2. ProbeShape(x) /\ x.at = "control" /\ x.tokens = TRUE /\ x.query = FALSE
        /\ x.since = b.since
    BY <2>1 DEF ProbeShape
  <2>3. H!Turns \subseteq 1..(i - 1)
    BY <1>1, <1>3
  <2>4. changes > x.since \/ \A k \in H!Turns : ~Whole(k, good)
    <3>1. CASE changes = x.since
      BY <2>2, <2>3, <3>1
    <3>2. CASE changes # x.since
      BY <2>2, <3>2
    <3> QED BY <3>1, <3>2
  <2>5. ProbeSound(x)
    BY <2>2, <2>4, Zenon DEF ProbeSound
  <2> QED BY <2>2, <2>5 DEF x
<1> QED BY <1>2, <1>3

\* Each step of a probe keeps it sound.
LEMMA ProbeStep == ASSUME ProbeInv, NEW q \in Probes, H!Probe(q) PROVE ProbeInv'
<1> DEFINE b == probe[q]
<1>1. ProbeShape(b) /\ ProbeSound(b) /\ changes \in Nat
  BY DEF ProbeInv
<1>2. UNCHANGED <<good, changes>>
  BY DEF H!Probe, H!BeginProbe, H!ProbeCatalog, H!ProbeProject, H!ProbeControl, H!fileVars
<1>3. PICK n \in Nat : H!Turns = 1..n
  BY TurnsAre
<1>4. CASE H!BeginProbe(q)
  <2>1. PICK tokens \in BOOLEAN, registry \in BOOLEAN :
          LET c == [b EXCEPT !.tokens = tokens, !.since = changes] IN
          probe' = [probe EXCEPT ![q] =
              IF ~registry THEN [c EXCEPT !.at = "done", !.tokens = FALSE]
              ELSE H!Turn(c, IF tokens THEN 1 ELSE 0)]
    BY <1>4 DEF H!BeginProbe
  <2> DEFINE c == [b EXCEPT !.tokens = tokens, !.since = changes]
  <2>2. b.at = "idle" /\ ~b.query /\ b.query \in BOOLEAN
    BY <1>1, <1>4 DEF H!BeginProbe, ProbeSound
  <2>3. ProbeShape(c) /\ c.tokens = tokens /\ c.since = changes /\ c.query = FALSE
    <3>1. c = [b EXCEPT !.tokens = tokens, !.since = changes] /\ b.query = FALSE
      BY <2>2
    <3> HIDE DEF c, b
    <3> QED BY <1>1, <3>1 DEF ProbeShape
  <2>4. CASE ~registry
    <3> DEFINE x == [c EXCEPT !.at = "done", !.tokens = FALSE]
    <3>1. probe' = [probe EXCEPT ![q] = x]
      BY <2>1, <2>4
    <3>2. ProbeShape(x) /\ x.at = "done" /\ x.tokens = FALSE /\ x.query = FALSE
          /\ x.since = changes
      <4>1. x = [c EXCEPT !.at = "done", !.tokens = FALSE]
        OBVIOUS
      <4> HIDE DEF x, c
      <4> QED BY <2>3, <4>1 DEF ProbeShape
    <3> HIDE DEF x
    <3>3. ProbeSound(x)
      <4>1. x.since \in Nat /\ x.since <= changes
        BY <1>1, <3>2
      <4> QED BY <3>2, <4>1, Zenon DEF ProbeSound
    <3> QED BY <1>2, <3>1, <3>2, <3>3, ProbeMoves
  <2>5. CASE registry /\ tokens
    <3>1. probe' = [probe EXCEPT ![q] = H!Turn(c, 1)]
      BY <2>1, <2>5
    <3> HIDE DEF c
    <3>2. ProbeShape(H!Turn(c, 1)) /\ ProbeSound(H!Turn(c, 1))
      <4>1. /\ changes \in Nat /\ c.since \in Nat /\ c.since <= changes /\ c.tokens = TRUE
            /\ \A k \in 1..(1 - 1) : ~Whole(k, good)
        BY <1>1, <2>3, <2>5
      <4>2. 1 \in Nat \ {0}
        OBVIOUS
      <4> QED BY <1>1, <2>3, <4>1, <4>2, TurnIsSound, Zenon
    <3> QED BY <1>2, <3>1, <3>2, ProbeMoves
  <2>6. CASE registry /\ ~tokens
    <3> DEFINE x == [c EXCEPT !.at = "control"]
    <3>1. probe' = [probe EXCEPT ![q] = x]
      BY <1>3, <2>1, <2>6 DEF H!Turn
    <3>2. ProbeShape(x) /\ x.at = "control" /\ x.tokens = FALSE /\ x.query = FALSE
          /\ x.since = changes
      <4>1. x = [c EXCEPT !.at = "control"]
        OBVIOUS
      <4> HIDE DEF x, c
      <4> QED BY <2>3, <2>6, <4>1 DEF ProbeShape
    <3> HIDE DEF x
    <3>3. ProbeSound(x)
      <4>1. x.since \in Nat /\ x.since <= changes
        BY <1>1, <3>2
      <4> QED BY <3>2, <4>1, Zenon DEF ProbeSound
    <3> QED BY <1>2, <3>1, <3>2, <3>3, ProbeMoves
  <2> QED BY <2>4, <2>5, <2>6
<1>5. CASE H!ProbeCatalog(q)
  <2> DEFINE item == H!Item(b.turn, H!Catalog)
             projects == Projects[H!SolutionOf(b.turn)]
  <2>1. b.at = "catalog" /\ b.turn \in H!Turns /\ b.tokens = TRUE /\ b.query = FALSE
    BY <1>1, <1>5 DEF H!ProbeCatalog, ProbeSound
  <2>2. CASE item \in good /\ projects # {}
    <3> DEFINE x == [b EXCEPT !.at = "project", !.left = projects, !.seen = @ \cup {item}]
    <3>1. probe' = [probe EXCEPT ![q] = x]
      BY <1>5, <2>2 DEF H!ProbeCatalog
    <3>2. /\ ProbeShape(x) /\ x.at = "project" /\ x.left = projects /\ item \in x.seen
          /\ x.turn = b.turn /\ x.tokens = b.tokens /\ x.query = b.query /\ x.since = b.since
      <4>1. x = [b EXCEPT !.at = "project", !.left = projects, !.seen = @ \cup {item}]
        OBVIOUS
      <4> HIDE DEF x, b, item, projects
      <4> QED BY <1>1, <4>1 DEF ProbeShape
    <3> HIDE DEF x
    <3>3. ProbeSound(x)
      BY <1>1, <2>1, <2>2, <3>2 DEF ProbeSound
    <3> QED BY <1>2, <3>1, <3>2, <3>3, ProbeMoves
  <2>3. CASE ~(item \in good /\ projects # {})
    <3>1. probe' = [probe EXCEPT ![q] = H!Turn(b, b.turn + 1)]
      BY <1>5, <2>3 DEF H!ProbeCatalog
    <3>2. ~Whole(b.turn, good)
      BY <2>3 DEF Whole
    <3>3. b.turn \in Nat /\ b.turn + 1 \in Nat \ {0} /\ (b.turn + 1) - 1 \in H!Turns
      BY <1>3, <2>1
    <3>4. changes = b.since => \A k \in 1..((b.turn + 1) - 1) : ~Whole(k, good)
      BY <1>1, <2>1, <3>2, <3>3 DEF ProbeSound
    <3>5. b.since \in Nat /\ b.since <= changes
      BY <1>1 DEF ProbeSound
    <3>6. ProbeShape(H!Turn(b, b.turn + 1)) /\ ProbeSound(H!Turn(b, b.turn + 1))
      <4> DEFINE i == b.turn + 1
      <4>1. i \in Nat \ {0} /\ (i = 1 \/ i - 1 \in H!Turns)
        BY <3>3
      <4>2. changes = b.since => \A k \in 1..(i - 1) : ~Whole(k, good)
        BY <3>4
      <4> HIDE DEF b, i
      <4>3. ProbeShape(H!Turn(b, i)) /\ ProbeSound(H!Turn(b, i))
        BY <1>1, <2>1, <3>5, <4>1, <4>2, TurnIsSound, Zenon
      <4> QED BY <4>3 DEF i
    <3> QED BY <1>2, <3>1, <3>6, ProbeMoves
  <2> QED BY <2>2, <2>3
<1>6. CASE H!ProbeProject(q)
  <2>1. b.at = "project" /\ b.turn \in H!Turns /\ b.tokens = TRUE /\ b.query = FALSE
    BY <1>1, <1>6 DEF H!ProbeProject, ProbeSound
  <2>2. PICK p \in b.left :
          LET item == H!Item(b.turn, p) IN
          probe' = [probe EXCEPT ![q] =
              IF item \notin good \cup (hollow \cap kept) THEN H!Turn(b, b.turn + 1)
              ELSE [b EXCEPT !.left = @ \ {p}, !.seen = @ \cup {item},
                             !.query = b.left = {p},
                             !.at = IF b.left = {p} THEN "control" ELSE "project"]]
    BY <1>6 DEF H!ProbeProject
  <2> DEFINE item == H!Item(b.turn, p)
  <2>3. /\ Projects[H!SolutionOf(b.turn)] # {}
        /\ H!Item(b.turn, H!Catalog) \in b.seen
        /\ \A k \in Projects[H!SolutionOf(b.turn)] \ b.left : H!Item(b.turn, k) \in b.seen
        /\ p \in Projects[H!SolutionOf(b.turn)]
        /\ b.left \subseteq Projects[H!SolutionOf(b.turn)]
    BY <1>1, <2>1 DEF ProbeSound
  <2>4. CASE item \notin good \cup (hollow \cap kept)
    <3>1. probe' = [probe EXCEPT ![q] = H!Turn(b, b.turn + 1)]
      BY <2>2, <2>4
    <3>2. ~Whole(b.turn, good)
      BY <2>3, <2>4 DEF Whole
    <3>3. b.turn \in Nat /\ b.turn + 1 \in Nat \ {0} /\ (b.turn + 1) - 1 \in H!Turns
      BY <1>3, <2>1
    <3>4. changes = b.since => \A k \in 1..((b.turn + 1) - 1) : ~Whole(k, good)
      BY <1>1, <2>1, <3>2, <3>3 DEF ProbeSound
    <3>5. b.since \in Nat /\ b.since <= changes
      BY <1>1 DEF ProbeSound
    <3>6. ProbeShape(H!Turn(b, b.turn + 1)) /\ ProbeSound(H!Turn(b, b.turn + 1))
      <4> DEFINE i == b.turn + 1
      <4>1. i \in Nat \ {0} /\ (i = 1 \/ i - 1 \in H!Turns)
        BY <3>3
      <4>2. changes = b.since => \A k \in 1..(i - 1) : ~Whole(k, good)
        BY <3>4
      <4> HIDE DEF b, i
      <4>3. ProbeShape(H!Turn(b, i)) /\ ProbeSound(H!Turn(b, i))
        BY <1>1, <2>1, <3>5, <4>1, <4>2, TurnIsSound, Zenon
      <4> QED BY <4>3 DEF i
    <3> QED BY <1>2, <3>1, <3>6, ProbeMoves
  <2>5. CASE item \in good \cup (hollow \cap kept)
    <3> DEFINE x == [b EXCEPT !.left = @ \ {p}, !.seen = @ \cup {item}, !.query = b.left = {p},
                              !.at = IF b.left = {p} THEN "control" ELSE "project"]
    <3>1. probe' = [probe EXCEPT ![q] = x]
      BY <2>2, <2>5
    <3>2. /\ ProbeShape(x) /\ x.left = b.left \ {p} /\ x.seen = b.seen \cup {item}
          /\ x.query = (b.left = {p})
          /\ x.at = IF b.left = {p} THEN "control" ELSE "project"
          /\ x.turn = b.turn /\ x.tokens = b.tokens /\ x.since = b.since
      <4>1. x = [b EXCEPT !.left = @ \ {p}, !.seen = @ \cup {item}, !.query = b.left = {p},
                          !.at = IF b.left = {p} THEN "control" ELSE "project"]
        OBVIOUS
      <4> HIDE DEF x, b, item
      <4> QED BY <1>1, <4>1 DEF ProbeShape
    <3> HIDE DEF x
    <3>3. \A k \in Projects[H!SolutionOf(b.turn)] \ x.left : H!Item(b.turn, k) \in x.seen
      BY <2>3, <3>2
    <3>4. ProbeSound(x)
      <4>1. CASE b.left = {p}
        <5>1. x.at = "control" /\ x.query = TRUE
          BY <3>2, <4>1
        <5>2. Whole(b.turn, x.seen)
          BY <2>3, <3>2, <3>3, <4>1 DEF Whole
        <5> QED BY <1>1, <2>1, <3>2, <5>1, <5>2 DEF ProbeSound
      <4>2. CASE b.left # {p}
        <5>1. x.at = "project" /\ x.query = FALSE
          BY <3>2, <4>2
        <5> QED BY <1>1, <2>1, <2>3, <3>2, <3>3, <5>1 DEF ProbeSound
      <4> QED BY <4>1, <4>2
    <3> QED BY <1>2, <3>1, <3>2, <3>4, ProbeMoves
  <2> QED BY <2>4, <2>5
<1>7. CASE H!ProbeControl(q)
  <2>1. PICK x : probe' = [probe EXCEPT ![q] = x] /\ ProbeShape(x) /\ x.at \in {"control", "done"}
                 /\ x.query = b.query /\ x.tokens = b.tokens /\ x.since = b.since
                 /\ x.seen = b.seen
    <3>1. PICK x : /\ probe' = [probe EXCEPT ![q] = x]
                   /\ \/ \E answered \in BOOLEAN :
                           x = [b EXCEPT !.asked = @ + 1, !.control = answered,
                                         !.at = IF answered \/ b.asked + 2 \notin H!Solutions
                                                THEN "done" ELSE "control"]
                      \/ x = [b EXCEPT !.at = "done"]
      <4>1. CASE \E answered \in BOOLEAN :
                   probe' = [probe EXCEPT ![q] =
                       [b EXCEPT !.asked = @ + 1, !.control = answered,
                                 !.at = IF answered \/ b.asked + 2 \notin H!Solutions
                                        THEN "done" ELSE "control"]]
        BY <4>1
      <4>2. CASE probe' = [probe EXCEPT ![q] = [b EXCEPT !.at = "done"]]
        BY <4>2
      <4>3. CASE probe' = [probe EXCEPT ![q].at = "done"]
        BY <4>2, <4>3
      <4> QED BY <1>7, <4>1, <4>3 DEF H!ProbeControl
    <3>2. /\ ProbeShape(x) /\ x.at \in {"control", "done"}
          /\ x.query = b.query /\ x.tokens = b.tokens /\ x.since = b.since /\ x.seen = b.seen
      <4> HIDE DEF b
      <4>1. CASE x = [b EXCEPT !.at = "done"]
        BY <1>1, <4>1 DEF ProbeShape
      <4>2. ASSUME NEW answered \in BOOLEAN, NEW a \in {"control", "done"},
                   x = [b EXCEPT !.asked = @ + 1, !.control = answered, !.at = a]
            PROVE  /\ ProbeShape(x) /\ x.at \in {"control", "done"}
                   /\ x.query = b.query /\ x.tokens = b.tokens /\ x.since = b.since
                   /\ x.seen = b.seen
        BY <1>1, <4>2 DEF ProbeShape
      <4> QED BY <3>1, <4>1, <4>2
    <3> QED BY <3>1, <3>2
  <2>2. b.at = "control"
    BY <1>7 DEF H!ProbeControl
  <2>3. ProbeSound(x)
    BY <1>1, <2>1, <2>2 DEF ProbeSound
  <2> QED BY <1>2, <2>1, <2>3, ProbeMoves
<1> QED BY <1>4, <1>5, <1>6, <1>7 DEF H!Probe

\* A change is counted, and what was believed before it is no longer claimed.
LEMMA ChangeStep == ASSUME ProbeInv, H!Change PROVE ProbeInv'
<1>1. changes' = changes + 1 /\ probe' = probe /\ changes \in Nat
  BY DEF H!Change, ProbeInv
<1>2. ASSUME NEW b, ProbeSound(b) PROVE ProbeSound(b)'
  <2>1. b.since \in Nat /\ b.since <= changes' /\ changes' # b.since /\ changes' > b.since
    BY <1>1, <1>2 DEF ProbeSound
  <2> QED BY <1>2, <2>1 DEF ProbeSound, Whole
<1> QED BY <1>1, <1>2 DEF ProbeInv, ProbeShape

\* Every step of the application keeps both invariants.
LEMMA HttpStep == ASSUME HttpInv, ProbeInv, H!HttpNext PROVE HttpInv' /\ ProbeInv'
<1>1. HttpInv'
  BY MainInv, LifespanStep, OtherHttpStep DEF H!HttpNext
<1>2. CASE \E q \in Probes : H!Probe(q)
  BY <1>1, <1>2, ProbeStep
<1>3. CASE H!Change
  BY <1>1, <1>3, ChangeStep
<1>4. CASE UNCHANGED <<good, changes, probe>>
  BY <1>1, <1>4 DEF ProbeInv, ProbeShape, ProbeSound, Whole
<1>5. (\E q \in Probes : H!Probe(q)) \/ H!Change \/ UNCHANGED <<good, changes, probe>>
  BY DEF H!HttpNext, H!CheckSettings, H!BuildServer, H!OpenRuntime, H!Compose, H!Build, H!Close,
         H!Step, H!Ends, H!Mount, H!Lifespan, H!EnterParent, H!EnterSdk, H!NoteStart, H!NoteStop,
         H!LeaveSdk, H!LeaveParent, H!Call, H!CallEnds, H!CallLoads, H!fileVars, H!lifespanVars
<1> QED BY <1>2, <1>3, <1>4, <1>5

\* What the invariant of a probe says when the probe is done.
LEMMA SoundIsEarned == ProbeInv => H!ReadyIsEarned
BY DEF ProbeInv, ProbeSound, H!ReadyIsEarned, Whole

----------------------------------------------------------------------------
(* Stdio: what FlattenSeq gives for one more line.  Its recursive function *)
(* exists and is unique, each by the least place where it would not be.    *)

Bytes == {"b", "n"}

\* A set of numbers has a least member, and CHOOSE finds it.
LEMMA LeastIsMember ==
    ASSUME NEW S, S \subseteq Nat, S # {}
    PROVE  /\ (CHOOSE i \in S : \A j \in S : i <= j) \in S
           /\ \E i \in S : \A j \in S : i <= j
<1> DEFINE R == OpToRel(<, Nat)
<1>1. \E x \in S : \A y \in S : ~ (<<y, x>> \in R)
  <2>1. IsWellFoundedOn(R, Nat)
    BY NatLessThanWellFounded
  <2> HIDE DEF R
  <2> QED BY <2>1, WFMin
<1>2. \A x, y \in S : <<y, x>> \in R <=> y < x
  BY DEF OpToRel
<1> HIDE DEF R
<1>3. PICK x \in S : \A y \in S : ~ (y < x)
  BY <1>1, <1>2, Zenon
<1>4. \A y \in S : x <= y
  BY <1>3
<1> QED BY <1>4, Zenon

Flattens(f, s, n) == f = [i \in 1..n |-> IF i = 1 THEN s[i] ELSE f[i - 1] \o s[i]]

Agree(s, t, n) == \A i \in 1..n : s[i] = t[i]

\* As far as two lists agree, so do the functions that flatten them.
LEMMA FlattensAgree ==
    ASSUME NEW n \in Nat, NEW m \in Nat, n <= m,
           NEW s, NEW t, Agree(s, t, n), NEW f, NEW g, Flattens(f, s, n), Flattens(g, t, m)
    PROVE  Agree(f, g, n)
<1> USE DEF Agree
<1> DEFINE D == {i \in 1..n : f[i] # g[i]}
<1>1. \A i \in 1..n : /\ f[i] = IF i = 1 THEN s[i] ELSE f[i - 1] \o s[i]
                      /\ g[i] = IF i = 1 THEN t[i] ELSE g[i - 1] \o t[i]
  <2>1. \A i \in 1..n : i \in 1..m
    OBVIOUS
  <2> QED BY <2>1, Zenon DEF Flattens
<1>2. ASSUME D # {} PROVE FALSE
  <2>1. PICK l \in D : \A j \in D : l <= j
    <3>1. D \subseteq Nat
      OBVIOUS
    <3> HIDE DEF D
    <3> QED BY <1>2, <3>1, LeastIsMember
  <2>2. l # 1 => l - 1 \in 1..n /\ f[l - 1] = g[l - 1]
    BY <2>1
  <2> QED BY <1>1, <2>1, <2>2
<1> QED BY <1>2

\* A list of sequences is flattened by some function, whose values are sequences.
LEMMA FlattensExists ==
    ASSUME NEW S, NEW s \in Seq(Seq(S))
    PROVE  \A n \in Nat : n <= Len(s) =>
               \E f : Flattens(f, s, n) /\ \A i \in 1..n : f[i] \in Seq(S)
<1> DEFINE P(n) == \E f : Flattens(f, s, n) /\ \A i \in 1..n : f[i] \in Seq(S)
           D == {n \in Nat : n <= Len(s) /\ ~P(n)}
<1>1. ASSUME D # {} PROVE FALSE
  <2>1. PICK l \in D : \A j \in D : l <= j
    <3>1. D \subseteq Nat
      OBVIOUS
    <3> HIDE DEF D
    <3> QED BY <1>1, <3>1, LeastIsMember
  <2>2. CASE l = 0
    <3> DEFINE f == [i \in 1..0 |-> <<>>]
    <3>1. Flattens(f, s, 0) /\ \A i \in 1..0 : f[i] \in Seq(S)
      BY DEF Flattens
    <3> QED BY <2>1, <2>2, <3>1
  <2>3. CASE l # 0
    <3>1. l \in Nat /\ l - 1 \in Nat /\ l - 1 <= Len(s) /\ l \in 1..Len(s)
      <4> HIDE DEF P
      <4> QED BY <2>1, <2>3
    <3>2. PICK f : Flattens(f, s, l - 1) /\ \A i \in 1..(l - 1) : f[i] \in Seq(S)
      <4>1. l - 1 \notin D
        <5> HIDE DEF D
        <5> QED BY <2>1, <3>1
      <4>2. P(l - 1)
        <5> HIDE DEF P
        <5> QED BY <3>1, <4>1
      <4> QED BY <4>2
    <3> DEFINE last == IF l = 1 THEN s[l] ELSE f[l - 1] \o s[l]
               g == [i \in 1..l |-> IF i = l THEN last ELSE f[i]]
    <3>3. \A i \in 1..(l - 1) : f[i] = IF i = 1 THEN s[i] ELSE f[i - 1] \o s[i]
      BY <3>2, Zenon DEF Flattens
    <3>4. \A i \in 1..l : g[i] = IF i = 1 THEN s[i] ELSE g[i - 1] \o s[i]
      BY <3>1, <3>3
    <3>5. Flattens(g, s, l)
      BY <3>4 DEF Flattens
    <3>6. s[l] \in Seq(S)
      BY <3>1, ElementOfSeq
    <3>7. \A i \in 1..l : g[i] \in Seq(S)
      BY <3>1, <3>2, <3>6
    <3> QED BY <2>1, <3>5, <3>7
  <2> QED BY <2>2, <2>3
<1> QED BY <1>1

\* The function of FlattenSeq is one of those.
LEMMA FlattenSeqIs ==
    ASSUME NEW S, NEW s \in Seq(Seq(S)), s # <<>>
    PROVE  \E f : /\ Flattens(f, s, Len(s)) /\ T!FlattenSeq(s) = f[Len(s)]
                  /\ f[Len(s)] \in Seq(S)
<1> DEFINE f == CHOOSE h : Flattens(h, s, Len(s))
<1>1. Len(s) \in Nat /\ Len(s) # 0
  OBVIOUS
<1>2. PICK g : Flattens(g, s, Len(s)) /\ \A i \in 1..Len(s) : g[i] \in Seq(S)
  BY <1>1, FlattensExists
<1>3. Flattens(f, s, Len(s))
  BY <1>2
<1>4. f[Len(s)] = g[Len(s)]
  <2>1. Len(s) \in 1..Len(s) /\ Len(s) <= Len(s) /\ Agree(s, s, Len(s))
    BY <1>1 DEF Agree
  <2> HIDE DEF f
  <2>2. Agree(f, g, Len(s))
    BY <1>1, <1>2, <1>3, <2>1, FlattensAgree
  <2> QED BY <2>1, <2>2 DEF Agree
<1>5. T!FlattenSeq(s) = f[Len(s)]
  BY <1>1, Zenon DEF T!FlattenSeq, Flattens
<1>6. f[Len(s)] \in Seq(S)
  BY <1>1, <1>2, <1>4
<1> HIDE DEF f
<1> QED BY <1>3, <1>5, <1>6

\* A list with one sequence more is flattened to what the list was, and then that sequence.
LEMMA FlattenMore ==
    ASSUME NEW S, NEW s \in Seq(Seq(S)), NEW t \in Seq(Seq(S)), s # <<>>, t # <<>>,
           Len(t) = Len(s) + 1, \A i \in 1..Len(s) : s[i] = t[i]
    PROVE  T!FlattenSeq(s) \in Seq(S) /\ T!FlattenSeq(t) = T!FlattenSeq(s) \o t[Len(t)]
<1>1. PICK n \in Nat : n = Len(s)
  OBVIOUS
<1>2. PICK m \in Nat : m = Len(t)
  OBVIOUS
<1>3. n # 0 /\ m = n + 1 /\ \A i \in 1..n : s[i] = t[i]
  BY <1>1, <1>2
<1>4. PICK f : Flattens(f, s, n) /\ T!FlattenSeq(s) = f[n] /\ f[n] \in Seq(S)
  BY <1>1, FlattenSeqIs
<1>5. PICK g : Flattens(g, t, m) /\ T!FlattenSeq(t) = g[m]
  BY <1>2, FlattenSeqIs
<1>6. \A i \in 1..n : f[i] = g[i]
  <2>1. n <= m
    BY <1>3
  <2>2. Agree(s, t, n)
    BY <1>3 DEF Agree
  <2>3. Agree(f, g, n)
    BY <1>4, <1>5, <2>1, <2>2, FlattensAgree
  <2> QED BY <2>3 DEF Agree
<1>7. g[m] = g[m - 1] \o t[m]
  <2>1. m \in 1..m /\ m # 1
    BY <1>3
  <2> QED BY <1>5, <2>1, Zenon DEF Flattens
<1>8. m - 1 = n /\ f[n] = g[n]
  BY <1>3, <1>6
<1> QED BY <1>2, <1>4, <1>5, <1>7, <1>8

\* What is flattened is a sequence, and one line more comes at its end.
LEMMA FlattenAppend ==
    ASSUME NEW S, NEW s \in Seq(Seq(S)), NEW x \in Seq(S)
    PROVE  T!FlattenSeq(s) \in Seq(S) /\ T!FlattenSeq(Append(s, x)) = T!FlattenSeq(s) \o x
<1>1. PICK t : t = Append(s, x)
  OBVIOUS
<1>2. /\ t \in Seq(Seq(S)) /\ t # <<>> /\ Len(t) = Len(s) + 1 /\ Len(s) \in Nat
      /\ t[Len(t)] = x /\ \A i \in 1..Len(s) : s[i] = t[i]
  BY <1>1
<1>3. CASE s = <<>>
  <2>1. T!FlattenSeq(s) = <<>>
    BY <1>3 DEF T!FlattenSeq
  <2>2. PICK g : Flattens(g, t, 1) /\ T!FlattenSeq(t) = g[1]
    <3>1. Len(t) = 1
      BY <1>2, <1>3
    <3> QED BY <1>2, <3>1, FlattenSeqIs
  <2>3. g[1] = t[1] /\ t[1] = x
    <3>1. 1 \in 1..1
      OBVIOUS
    <3>2. g[1] = t[1]
      BY <2>2, <3>1, Zenon DEF Flattens
    <3> QED BY <1>2, <1>3, <3>2
  <2>4. <<>> \in Seq(S) /\ <<>> \o x = x
    BY ConcatEmptySeq, EmptySeq
  <2> QED BY <1>1, <2>1, <2>2, <2>3, <2>4, Zenon
<1>4. CASE s # <<>>
  BY <1>1, <1>2, <1>4, FlattenMore
<1> QED BY <1>3, <1>4

----------------------------------------------------------------------------
(* Stdio. *)

InputTypes ==
    /\ stream \in Seq(Bytes) /\ unread \in Seq(Bytes) /\ pending \in Seq(Bytes)
    /\ lines \in Seq(Seq(Bytes))

\* No byte of the stream is anywhere but in the lines, in what is pending, or unread.
InputInv ==
    /\ InputTypes
    /\ (T!FlattenSeq(lines) \o pending) \o unread = stream
    /\ eof => unread = <<>>

\* What main has taken and put back by now, and what of it the server needs.
StageInv ==
    /\ main \in {"configure", "serve", "group", "restore", "close", "ended", "killed"}
    /\ server \in {"none", "read", "failing", "done"}
    /\ running \in Nat
    /\ main = "configure" => ~guarded /\ ~open /\ server = "none"
    /\ main = "serve" => ~guarded /\ open /\ server = "none"
    /\ main = "group" => guarded /\ open /\ server # "none"
    /\ main = "restore" => guarded /\ open /\ server = "done"
    /\ main = "close" => ~guarded /\ open /\ server = "done"
    /\ main = "ended" => ~guarded /\ ~open /\ server \in {"none", "done"}
    /\ main = "ended" /\ server = "none" => result = "raised"
    /\ server \in {"none", "done"} => running = 0

\* Why the server has ended, and what becomes of its error.
ServerInv ==
    /\ signals \in Seq({"received", "default"})
    /\ failed => server = "failing" \/ (server = "done" /\ server_error)
    /\ main \in {"restore", "close", "ended"} /\ server_error => result = "raised"
    /\ watcher = "received" => signals # <<>>
    /\ cancel => server = "done" \/ signals # <<>>
    /\ server = "done" /\ ~server_error /\ signals = <<>> => eof /\ pending = <<>>

StdioInv == InputInv /\ StageInv /\ ServerInv

\* Before the process is configured nothing is read and nothing taken.
LEMMA StdioInitInv == T!StdioInit => StdioInv
<1> SUFFICES ASSUME T!StdioInit PROVE StdioInv
  OBVIOUS
<1>1. /\ stream \in Seq(Bytes) /\ unread = stream /\ pending = <<>> /\ lines = <<>> /\ eof = FALSE
  BY StdioAssumption DEF T!StdioInit, T!StdioParameters, Bytes
<1>2. T!FlattenSeq(lines) = <<>>
  BY <1>1 DEF T!FlattenSeq
<1>3. (<<>> \o <<>>) \o stream = stream /\ <<>> \in Seq(Bytes) /\ <<>> \in Seq(Seq(Bytes))
  BY <1>1, ConcatEmptySeq, EmptySeq
<1>4. InputInv
  BY <1>1, <1>2, <1>3 DEF InputInv, InputTypes
<1>5. StageInv /\ ServerInv
  BY DEF T!StdioInit, StageInv, ServerInv
<1> QED BY <1>4, <1>5 DEF StdioInv

\* The steps that read nothing leave the input as it is.
LEMMA InputStays ==
    ASSUME InputInv, UNCHANGED <<stream, unread, pending, lines, eof>>
    PROVE  InputInv'
BY DEF InputInv, InputTypes

\* The steps of main.
LEMMA StdioMainStep == ASSUME StdioInv, T!MainStep PROVE StdioInv'
<1> USE DEF StdioInv, T!inputVars, T!groupVars, T!mainVars
<1>1. UNCHANGED <<stream, unread, pending, lines, eof>>
  BY DEF T!MainStep, T!Configure, T!Serve, T!Finished, T!LeaveGroup, T!Restore, T!Close
<1>2. InputInv'
  BY <1>1, InputStays
<1>3. StageInv'
  BY DEF StageInv, T!MainStep, T!Configure, T!Serve, T!Finished, T!LeaveGroup, T!Restore, T!Close
<1>4. ServerInv'
  BY DEF StageInv, ServerInv, T!MainStep, T!Configure, T!Serve, T!Finished, T!LeaveGroup, T!Restore,
         T!Close
<1> QED BY <1>2, <1>3, <1>4

\* The first newline is one of what is pending.
LEMMA FirstNewlineIn ==
    ASSUME pending \in Seq(Bytes), T!Newlines # {}
    PROVE  T!FirstNewline \in 1..Len(pending)
<1>1. T!Newlines \subseteq 1..Len(pending) /\ T!Newlines \subseteq Nat
  BY DEF T!Newlines
<1> QED BY <1>1, LeastIsMember DEF T!FirstNewline

\* A sequence is its first part and the rest.
LEMMA Parts ==
    ASSUME NEW S, NEW s \in Seq(S), NEW n \in 1..Len(s)
    PROVE  /\ SubSeq(s, 1, n) \in Seq(S) /\ SubSeq(s, n + 1, Len(s)) \in Seq(S)
           /\ SubSeq(s, 1, n) \o SubSeq(s, n + 1, Len(s)) = s
<1>1. Len(s) \in Nat /\ n \in Nat /\ 1 <= n /\ n <= Len(s)
  OBVIOUS
<1>2. 1 \in 1..Len(s) + 1 /\ n \in 1 - 1..Len(s) /\ Len(s) \in n..Len(s)
  BY <1>1
<1>3. SubSeq(s, 1, n) \o SubSeq(s, n + 1, Len(s)) = SubSeq(s, 1, Len(s))
  BY <1>2, ConcatAdjacentSubSeq
<1>4. SubSeq(s, 1, Len(s)) = s
  BY SubSeqFull
<1>5. SubSeq(s, 1, n) \in Seq(S) /\ SubSeq(s, n + 1, Len(s)) \in Seq(S)
  BY <1>1
<1> QED BY <1>3, <1>4, <1>5

\* A read moves the first of the unread bytes behind those that are pending.
LEMMA ReadStep == ASSUME StdioInv, main # "killed", T!Read PROVE StdioInv'
<1> USE DEF StdioInv, T!groupVars, T!mainVars
<1>1. server = "read" /\ UNCHANGED <<stream, ended, signals, lines, server, watcher, cancel,
                                    server_error, failed, running, main, result, guarded, open>>
  BY DEF T!Read
<1>2. StageInv' /\ ServerInv'
  BY <1>1 DEF StageInv, ServerInv
<1>3. ASSUME NEW n \in 1..Len(unread), pending' = pending \o SubSeq(unread, 1, n),
             unread' = SubSeq(unread, n + 1, Len(unread)), eof' = eof
      PROVE  InputInv'
  <2> DEFINE a == SubSeq(unread, 1, n)
             b == SubSeq(unread, n + 1, Len(unread))
             f == T!FlattenSeq(lines)
  <2>1. unread \in Seq(Bytes) /\ pending \in Seq(Bytes) /\ lines \in Seq(Seq(Bytes))
    BY DEF InputInv, InputTypes
  <2>2. a \in Seq(Bytes) /\ b \in Seq(Bytes) /\ a \o b = unread
    BY <2>1, Parts
  <2>3. f \in Seq(Bytes)
    BY <2>1, EmptySeq, FlattenAppend
  <2>4. (f \o pending) \o unread = stream
    BY DEF InputInv
  <2>5. pending' = pending \o a /\ unread' = b /\ lines' = lines /\ stream' = stream
    BY <1>1, <1>3
  <2>6. unread # <<>> /\ ~eof
    <3>1. Len(unread) # 0
      BY <1>3, <2>1
    <3> QED BY <3>1, EmptySeq DEF InputInv
  <2> HIDE DEF a, b, f
  <2>7. (f \o (pending \o a)) \o b = (f \o pending) \o (a \o b)
    <3>1. f \o pending \in Seq(Bytes)
      BY <2>1, <2>3, ConcatProperties
    <3>2. ((f \o pending) \o a) \o b = (f \o pending) \o (a \o b)
      <4>1. PICK c \in Seq(Bytes) : c = f \o pending
        BY <3>1
      <4>2. a \in Seq(Bytes) /\ b \in Seq(Bytes)
        BY <2>2
      <4>3. (c \o a) \o b = c \o (a \o b)
        BY <4>2
      <4> QED BY <4>1, <4>3
    <3>3. (f \o pending) \o a = f \o (pending \o a)
      <4>1. PICK c \in Seq(Bytes) : c = pending
        BY <2>1
      <4>2. f \in Seq(Bytes) /\ a \in Seq(Bytes)
        BY <2>2, <2>3
      <4>3. (f \o c) \o a = f \o (c \o a)
        BY <4>2
      <4> QED BY <4>1, <4>3
    <3> QED BY <3>2, <3>3
  <2>8. pending \o a \in Seq(Bytes)
    BY <2>1, <2>2, ConcatProperties
  <2>9. T!FlattenSeq(lines)' = f
    BY <2>5 DEF f
  <2> QED BY <1>3, <2>1, <2>2, <2>4, <2>5, <2>6, <2>7, <2>8, <2>9 DEF InputInv, InputTypes
<1>4. ASSUME unread = <<>>, UNCHANGED <<unread, pending>> PROVE InputInv'
  BY <1>1, <1>4 DEF InputInv, InputTypes
<1> QED BY <1>2, <1>3, <1>4 DEF T!Read

\* A line, or what is left of the input, goes over to the server whole.
LEMMA DeliverStep == ASSUME StdioInv, main # "killed", T!Deliver PROVE StdioInv'
<1> USE DEF StdioInv, T!mainVars
<1>1. /\ server = "read" /\ running' \in {running, running + 1}
      /\ UNCHANGED <<stream, ended, signals, unread, eof, server, watcher, cancel, server_error,
                     failed, main, result, guarded, open>>
  BY DEF T!Deliver
<1>2. StageInv' /\ ServerInv'
  BY <1>1 DEF StageInv, ServerInv
<1>3. /\ unread \in Seq(Bytes) /\ pending \in Seq(Bytes) /\ lines \in Seq(Seq(Bytes))
      /\ <<>> \in Seq(Bytes)
  BY EmptySeq DEF InputInv, InputTypes
<1>4. PICK a \in Seq(Bytes), b \in Seq(Bytes) :
        a \o b = pending /\ lines' = Append(lines, a) /\ pending' = b
  <2>1. CASE /\ T!Newlines # {}
             /\ lines' = Append(lines, SubSeq(pending, 1, T!FirstNewline))
             /\ pending' = SubSeq(pending, T!FirstNewline + 1, Len(pending))
    <3>1. PICK n \in 1..Len(pending) : n = T!FirstNewline
      BY <1>3, <2>1, FirstNewlineIn
    <3>2. /\ SubSeq(pending, 1, n) \in Seq(Bytes)
          /\ SubSeq(pending, n + 1, Len(pending)) \in Seq(Bytes)
          /\ SubSeq(pending, 1, n) \o SubSeq(pending, n + 1, Len(pending)) = pending
      BY <1>3, Parts
    <3> QED BY <2>1, <3>1, <3>2
  <2>2. CASE lines' = Append(lines, pending) /\ pending' = <<>>
    <3>1. pending \o <<>> = pending
      BY <1>3, ConcatEmptySeq
    <3> QED BY <1>3, <2>2, <3>1
  <2> QED BY <2>1, <2>2 DEF T!Deliver
<1> DEFINE f == T!FlattenSeq(lines)
<1>5. f \in Seq(Bytes) /\ T!FlattenSeq(Append(lines, a)) = f \o a
  BY <1>3, <1>4, FlattenAppend
<1>6. T!FlattenSeq(lines)' = f \o a
  <2>1. T!FlattenSeq(lines)' = T!FlattenSeq(lines')
    OBVIOUS
  <2> QED BY <1>4, <1>5, <2>1
<1> HIDE DEF f
<1>7. (f \o a) \o b = f \o (a \o b)
  <2>1. f \in Seq(Bytes)
    BY <1>5
  <2> QED BY <2>1
<1>8. (f \o pending) \o unread = stream
  BY DEF InputInv, f
<1>9. lines' \in Seq(Seq(Bytes))
  BY <1>3, <1>4
<1>10. InputInv'
  BY <1>1, <1>3, <1>4, <1>6, <1>7, <1>8, <1>9 DEF InputInv, InputTypes
<1> QED BY <1>2, <1>10

\* Everything else of the group, and what comes from outside.
LEMMA OtherStdioStep ==
    ASSUME StdioInv,
           \/ T!ServerEnds /\ main # "killed"
           \/ T!Fail /\ ~T!Over
           \/ T!WatcherStep \/ T!CallEnds \/ T!Signal \/ T!ClientCloses
    PROVE  StdioInv'
<1> USE DEF StdioInv, T!inputVars, T!groupVars, T!mainVars, T!Over
<1>1. UNCHANGED <<stream, unread, pending, lines, eof>>
  BY DEF T!ServerEnds, T!WatcherStep, T!OpenReceiver, T!Interrupt, T!WatcherCancelled, T!CallEnds,
         T!Fail, T!Signal, T!ClientCloses
<1>2. InputInv'
  BY <1>1, InputStays
<1>3. StageInv'
  BY DEF StageInv, T!ServerEnds, T!WatcherStep, T!OpenReceiver, T!Interrupt, T!WatcherCancelled,
         T!CallEnds, T!Fail, T!Signal, T!ClientCloses
<1>4. ServerInv'
  <2>1. CASE T!Signal
    BY <1>1, <2>1 DEF ServerInv, T!Signal
  <2>2. CASE T!ServerEnds /\ main # "killed"
    BY <1>1, <2>2 DEF ServerInv, StageInv, T!ServerEnds
  <2>3. CASE T!WatcherStep
    BY <1>1, <2>3 DEF ServerInv, T!WatcherStep, T!OpenReceiver, T!Interrupt, T!WatcherCancelled
  <2>4. CASE T!CallEnds \/ T!Fail \/ T!ClientCloses
    BY <1>1, <2>4 DEF ServerInv, StageInv, T!CallEnds, T!Fail, T!ClientCloses
  <2> QED BY <2>1, <2>2, <2>3, <2>4
<1> QED BY <1>2, <1>3, <1>4

\* The invariant gives what is claimed of the end of a stdio process.
LEMMA StdioEndsClean == StdioInv => T!EndsClean
<1> SUFFICES ASSUME StdioInv PROVE T!EndsClean
  OBVIOUS
<1>1. ASSUME running > 0, main # "killed" PROVE guarded /\ open
  BY <1>1 DEF StdioInv, StageInv
<1>2. ASSUME main = "ended" PROVE ~guarded /\ ~open /\ (failed => result = "raised")
  BY <1>2 DEF StdioInv, StageInv, ServerInv
<1>3. ASSUME main = "ended", result = "ok", signals = <<>> PROVE T!FlattenSeq(lines) = stream
  <2>1. server = "done" /\ ~server_error
    BY <1>3 DEF StdioInv, StageInv, ServerInv
  <2>2. pending = <<>> /\ unread = <<>>
    BY <1>3, <2>1 DEF StdioInv, ServerInv, InputInv
  <2>3. T!FlattenSeq(lines) \in Seq(Bytes)
    BY EmptySeq, FlattenAppend DEF StdioInv, InputInv, InputTypes
  <2>4. (T!FlattenSeq(lines) \o <<>>) \o <<>> = T!FlattenSeq(lines)
    BY <2>3, ConcatEmptySeq
  <2> QED BY <2>2, <2>4 DEF StdioInv, InputInv
<1> QED BY <1>1, <1>2, <1>3 DEF T!EndsClean

----------------------------------------------------------------------------
(* The process, in any of its three forms. *)

EndInv == IInv /\ HttpInv /\ ProbeInv /\ StdioInv

\* Each form starts as its own part says.
LEMMA EndInitInv == EndInit => EndInv
BY InitInv, HttpInitInv, ProbeInitInv, StdioInitInv DEF EndInit, EndInv

\* What a part does not touch it does not break.
LEMMA IStays == IInv /\ UNCHANGED vars => IInv'
BY DEF vars, IInv, TypeOK, InFlightIsExact, Accounted, DrainSet, ZeroStands, OutcomesGood, Good,
       Outcomes

LEMMA HttpStays == HttpInv /\ ProbeInv /\ UNCHANGED http => HttpInv' /\ ProbeInv'
BY DEF http, HttpInv, HttpTypes, LifespanInv, ServingInv, H!Holds, H!Idle, Runs, ProbeInv,
       ProbeShape, ProbeSound, Whole

LEMMA StdioStays == StdioInv /\ UNCHANGED stdio => StdioInv'
BY DEF stdio, StdioInv, InputInv, InputTypes, StageInv, ServerInv

\* A step is one of one form.
LEMMA EndStep == ASSUME EndInv, [EndNext]_all PROVE EndInv'
<1> USE DEF EndInv
<1>1. CASE user = "lifecycle" /\ Next /\ UNCHANGED <<stdio, http, user>>
  <2>1. IInv'
    BY <1>1, QueryInv, HandlerInv DEF Next
  <2> QED BY <1>1, <2>1, HttpStays, StdioStays
<1>2. CASE T!StdioNext /\ UNCHANGED <<vars, http, user>>
  <2>1. StdioInv'
    <3>1. CASE T!MainStep
      BY <3>1, StdioMainStep
    <3>2. CASE T!ServerStep
      BY <3>2, ReadStep, DeliverStep, OtherStdioStep DEF T!ServerStep, T!Over
    <3>3. CASE T!WatcherStep \/ T!CallEnds \/ (~T!Over /\ T!Fail) \/ T!Signal \/ T!ClientCloses
      BY <3>3, OtherStdioStep
    <3> QED BY <1>2, <3>1, <3>2, <3>3 DEF T!StdioNext
  <2> QED BY <1>2, <2>1, HttpStays, IStays
<1>3. CASE user = "http" /\ H!HttpNext /\ UNCHANGED <<vars, stdio, user>>
  BY <1>3, HttpStep, IStays, StdioStays
<1>4. CASE UNCHANGED all
  BY <1>4, HttpStays, IStays, StdioStays DEF all
<1> QED BY <1>1, <1>2, <1>3, <1>4 DEF EndNext, Stdio

\* Theorem: in every reachable state of the process the invariants of its parts hold.
THEOREM EndInvariance == EndSpec => []EndInv
<1>1. EndInv /\ [EndNext]_all => EndInv'
  BY EndStep
<1> QED BY EndInitInv, <1>1, PTL DEF EndSpec

\* Theorem: a stdio process and an HTTP application end clean, whatever the client writes, however
\* reads split it and wherever signals, failures and cancellations fall.
THEOREM TransportsEndClean == EndSpec => []EndsClean
<1>1. EndInv => EndsClean
  BY StdioEndsClean, InvIsWhole DEF EndInv, EndsClean
<1> QED BY <1>1, EndInvariance, PTL

\* Theorem: readyz claims the query plane on the evidence of its own probe, for every registry.
THEOREM ReadinessIsEarned == EndSpec => []ReadyIsEarned
<1>1. EndInv => ReadyIsEarned
  BY SoundIsEarned DEF EndInv, ReadyIsEarned
<1> QED BY <1>1, EndInvariance, PTL

\* Theorem: the drain of the process is sound as part of it, as it is alone.
THEOREM ProcessDrainSound == EndSpec => []DrainIsSound
<1>1. EndInv => DrainIsSound
  BY DEF EndInv, IInv, OutcomesGood, Good, DrainedIsFinal, DrainIsSound
<1> QED BY <1>1, EndInvariance, PTL
=============================================================================
