------------------------ MODULE SolutionGuardProofs ------------------------
(***************************************************************************)
(* Theorems about SolutionGuard for any number of readers, keepers and     *)
(* publishers, on both platforms and for every bound.                      *)
(***************************************************************************)
EXTENDS SolutionGuard, TLAPS

\* Two processes never hold one lock unless both hold it shared.
LockCompatibility ==
    \A p \in Procs : \A q \in Procs \ {p} : \A l \in Locks :
        held[p][l] = "exclusive" => held[q][l] = "none"

\* A process holds a lock only in the mode its role asks for.
HeldInMode ==
    \A p \in Procs : \A l \in Locks : held[p][l] \in {"none", Mode(p)}

\* What the position of p inside ordered() says about the locks it holds, the
\* lock it asks for next and the failure it is handling.
LocksOfPosition(p) ==
    /\ pc[p] \in {"early", "inside"} => held[p][Data] = Mode(p)
    /\ pc[p] \notin {"acquire", "poll"} => step[p] = 1
    /\ pc[p] \in {"acquire", "poll"} /\ step[p] = 2 => held[p][Admission] = Mode(p)
    /\ pc[p] # "unwind" => raised[p] # "wait"

\* A guard that is closed after the call enters it empty and reaches close()
\* with at most one lock, so a failing unlock there leaves nothing behind.
CloserClean(p) ==
    /\ pc[p] = "idle" => HoldsNothing(p)
    /\ pc[p] \in {"acquire", "poll"} => held[p][Data] = "none"
    /\ pc[p] \in {"acquire", "poll"} /\ step[p] = 1 => HoldsNothing(p)
    /\ pc[p] = "close" => held[p][Admission] = "none" \/ held[p][Data] = "none"

IInv ==
    /\ TypeOK
    /\ LockCompatibility
    /\ HeldInMode
    /\ \A p \in Procs : LocksOfPosition(p)
    /\ \A p \in Closers : CloserClean(p)

\* One step of process p.
Step(p) == Enter(p) \/ Internal(p) \/ Exit(p) \/ Crash(p)
\* The two lock names and the three modes are distinct and in their sets, and
\* specs lists every lock, admission first.
LEMMA ProtocolFacts ==
    /\ Locks = {Admission, Data} /\ Admission # Data
    /\ "none" \in Modes
    /\ \A p \in Procs : Mode(p) \in Modes /\ Mode(p) # "none"
    /\ ACQUISITION_ORDER[1] = Admission /\ ACQUISITION_ORDER[2] = Data
  BY DEF Locks, Admission, Data, Modes, Mode, ACQUISITION_ORDER

\* Leaving ordered() leaves its locals in their types.
LEMMA ForgetType ==
    ASSUME TypeOK, NEW p \in Procs, Forget(p)
    PROVE  /\ step' \in [Procs -> 1..2]
           /\ attempt' \in [Procs -> 1..MaxAttempts]
           /\ polls' \in [Procs -> 0..MaxPolls]
           /\ raised' \in [Procs -> {"none", "wait", "error"}]
  BY BoundsAssumption DEF TypeOK, Forget

\* Taking or freeing one lock leaves `held` in its type.
LEMMA HeldType ==
    ASSUME TypeOK, NEW p \in Procs, NEW l \in Locks, NEW m \in Modes,
           held' = [held EXCEPT ![p][l] = m]
    PROVE  held' \in [Procs -> [Locks -> Modes]]
  BY DEF TypeOK

\* The type invariant is inductive by itself: every assignment stays inside its
\* range, the bounded counters (attempt, polls, faults) because of their guards.
LEMMA TypeStep == TypeOK /\ [Next]_guardVars => TypeOK'
<1> SUFFICES ASSUME TypeOK, [Next]_guardVars PROVE TypeOK'
  OBVIOUS
<1> USE BoundsAssumption DEF TypeOK
<1>1. CASE UNCHANGED guardVars
  BY <1>1 DEF guardVars
<1>2. ASSUME NEW p \in Procs, Enter(p) \/ Internal(p) \/ Exit(p) \/ Crash(p)
      PROVE  TypeOK'
  <2>1. CASE Enter(p)
    BY <2>1 DEF Enter, PcValues
  <2>2. CASE OpenVerified(p)
    <3>1. pc' \in [Procs -> PcValues]
      BY <2>2 DEF OpenVerified, Escape, AfterOrdered, PcValues
    <3>2. /\ step' \in [Procs -> 1..2]
          /\ attempt' \in [Procs -> 1..MaxAttempts]
          /\ polls' \in [Procs -> 0..MaxPolls]
          /\ raised' \in [Procs -> {"none", "wait", "error"}]
      BY <2>2, ForgetType DEF OpenVerified, Escape
    <3>3. held' \in [Procs -> [Locks -> Modes]]
      BY <2>2 DEF OpenVerified, Escape
    <3>4. faults' \in 0..MaxFaults
      BY <2>2 DEF OpenVerified, Escape, Fault
    <3> QED BY <3>1, <3>2, <3>3, <3>4
  <2>3. CASE Grant(p)
    <3>1. pc' \in [Procs -> PcValues]
      BY <2>3 DEF Grant, PcValues
    <3>2. /\ step' \in [Procs -> 1..2]
          /\ attempt' \in [Procs -> 1..MaxAttempts]
          /\ polls' \in [Procs -> 0..MaxPolls]
          /\ raised' \in [Procs -> {"none", "wait", "error"}]
      <4>1. CASE Forget(p)
        BY <4>1, ForgetType
      <4>2. CASE /\ step' = [step EXCEPT ![p] = 2]
                 /\ polls' = [polls EXCEPT ![p] = 0]
                 /\ UNCHANGED <<attempt, raised>>
        BY <4>2
      <4> QED BY <2>3, <4>1, <4>2 DEF Grant
    <3>3. held' \in [Procs -> [Locks -> Modes]]
      BY <2>3, ProtocolFacts, HeldType DEF Grant
    <3>4. faults' \in 0..MaxFaults
      BY <2>3 DEF Grant
    <3> QED BY <3>1, <3>2, <3>3, <3>4
  <2>4. CASE Busy(p)
    BY <2>4 DEF Busy
  <2>5. CASE GiveUp(p)
    BY <2>5 DEF GiveUp, PcValues
  <2>6. CASE LockFails(p)
    BY <2>6, ForgetType DEF LockFails, Escape, Fault, AfterOrdered, PcValues
  <2>7. CASE ReleaseEarly(p)
    <3>1. pc' \in [Procs -> PcValues]
      BY <2>7 DEF ReleaseEarly, AfterOrdered, PcValues
    <3>2. /\ step' \in [Procs -> 1..2]
          /\ attempt' \in [Procs -> 1..MaxAttempts]
          /\ polls' \in [Procs -> 0..MaxPolls]
          /\ raised' \in [Procs -> {"none", "wait", "error"}]
      BY <2>7, ForgetType DEF ReleaseEarly
    <3>3. held' \in [Procs -> [Locks -> Modes]]
      BY <2>7, ProtocolFacts, HeldType DEF ReleaseEarly
    <3>4. faults' \in 0..MaxFaults
      BY <2>7 DEF ReleaseEarly, Fault
    <3> QED BY <3>1, <3>2, <3>3, <3>4
  <2>8. CASE Exit(p)
    BY <2>8 DEF Exit, PcValues
  <2>9. CASE ReleaseOne(p)
    <3>1. pc' \in [Procs -> PcValues]
      BY <2>9 DEF ReleaseOne, AfterOrdered, PcValues
    <3>2. /\ step' \in [Procs -> 1..2]
          /\ attempt' \in [Procs -> 1..MaxAttempts]
          /\ polls' \in [Procs -> 0..MaxPolls]
          /\ raised' \in [Procs -> {"none", "wait", "error"}]
      BY <2>9, ForgetType DEF ReleaseOne
    <3>3. held' \in [Procs -> [Locks -> Modes]]
      BY <2>9, ProtocolFacts, HeldType DEF ReleaseOne, NextRelease
    <3>4. faults' \in 0..MaxFaults
      BY <2>9 DEF ReleaseOne, Fault
    <3> QED BY <3>1, <3>2, <3>3, <3>4
  <2>10. CASE Released(p)
    <3>1. pc' \in [Procs -> PcValues]
      BY <2>10 DEF Released, AfterOrdered, PcValues
    <3>2. /\ step' \in [Procs -> 1..2]
          /\ attempt' \in [Procs -> 1..MaxAttempts]
          /\ polls' \in [Procs -> 0..MaxPolls]
          /\ raised' \in [Procs -> {"none", "wait", "error"}]
      <4>1. CASE Forget(p)
        BY <4>1, ForgetType
      <4>2. CASE /\ attempt[p] < MaxAttempts
                 /\ attempt' = [attempt EXCEPT ![p] = @ + 1]
                 /\ raised' = [raised EXCEPT ![p] = "none"]
                 /\ UNCHANGED <<step, polls>>
        BY <4>2
      <4> QED BY <2>10, <4>1, <4>2 DEF Released
    <3>3. held' \in [Procs -> [Locks -> Modes]]
      BY <2>10 DEF Released
    <3>4. faults' \in 0..MaxFaults
      BY <2>10 DEF Released
    <3> QED BY <3>1, <3>2, <3>3, <3>4
  <2>11. CASE Closed(p)
    BY <2>11, ForgetType DEF Closed, PcValues
  <2>12. CASE Crash(p)
    <3>1. pc' \in [Procs -> PcValues]
      BY <2>12 DEF Crash, PcValues
    <3>2. /\ step' \in [Procs -> 1..2]
          /\ attempt' \in [Procs -> 1..MaxAttempts]
          /\ polls' \in [Procs -> 0..MaxPolls]
          /\ raised' \in [Procs -> {"none", "wait", "error"}]
      BY <2>12, ForgetType DEF Crash
    <3>3. held' \in [Procs -> [Locks -> Modes]]
      BY <2>12, ProtocolFacts DEF Crash
    <3>4. faults' \in 0..MaxFaults
      BY <2>12 DEF Crash, Fault
    <3> QED BY <3>1, <3>2, <3>3, <3>4
  <2> QED
    BY <1>2, <2>1, <2>2, <2>3, <2>4, <2>5, <2>6, <2>7, <2>8, <2>9, <2>10, <2>11, <2>12 DEF Internal
<1> QED
  BY <1>1, <1>2 DEF Next
\* A step of p leaves every other process's position and locks alone.
LEMMA Frame ==
    ASSUME TypeOK, NEW p \in Procs, Step(p), NEW q \in Procs \ {p}
    PROVE  /\ pc'[q] = pc[q] /\ step'[q] = step[q]
           /\ held'[q] = held[q] /\ raised'[q] = raised[q]
<1>1. CASE Enter(p)
  BY <1>1 DEF TypeOK, Enter
<1>2. CASE OpenVerified(p)
  BY <1>2 DEF TypeOK, OpenVerified, Escape, Forget
<1>3. CASE Grant(p)
  BY <1>3 DEF TypeOK, Grant, Forget
<1>4. CASE Busy(p)
  BY <1>4 DEF TypeOK, Busy
<1>5. CASE GiveUp(p)
  BY <1>5 DEF TypeOK, GiveUp
<1>6. CASE LockFails(p)
  BY <1>6 DEF TypeOK, LockFails, Escape, Forget
<1>7. CASE ReleaseEarly(p)
  BY <1>7 DEF TypeOK, ReleaseEarly
<1>8. CASE Exit(p)
  BY <1>8 DEF TypeOK, Exit
<1>9. CASE ReleaseOne(p)
  BY <1>9 DEF TypeOK, ReleaseOne, Forget
<1>10. CASE Released(p)
  BY <1>10 DEF TypeOK, Released, Forget
<1>11. CASE Closed(p)
  BY <1>11 DEF TypeOK, Closed, Forget
<1>12. CASE Crash(p)
  BY <1>12 DEF TypeOK, Crash, Forget
<1> QED
  BY <1>1, <1>2, <1>3, <1>4, <1>5, <1>6, <1>7, <1>8, <1>9, <1>10, <1>11, <1>12 DEF Step, Internal

\* Only a grant takes a lock; every other step keeps or frees.
LEMMA OnlyFrees ==
    ASSUME TypeOK, NEW p \in Procs, Step(p), ~Grant(p), NEW l \in Locks
    PROVE  held'[p][l] \in {held[p][l], "none"}
<1> USE ProtocolFacts DEF TypeOK
<1>1. CASE Enter(p)
  BY <1>1 DEF Enter
<1>2. CASE OpenVerified(p)
  BY <1>2 DEF OpenVerified, Escape, Forget
<1>4. CASE Busy(p)
  BY <1>4 DEF Busy
<1>5. CASE GiveUp(p)
  BY <1>5 DEF GiveUp
<1>6. CASE LockFails(p)
  BY <1>6 DEF LockFails, Escape, Forget
<1>7. CASE ReleaseEarly(p)
  BY <1>7 DEF ReleaseEarly
<1>8. CASE Exit(p)
  BY <1>8 DEF Exit
<1>9. CASE ReleaseOne(p)
  BY <1>9 DEF ReleaseOne, Forget, NextRelease
<1>10. CASE Released(p)
  BY <1>10 DEF Released, Forget
<1>11. CASE Closed(p)
  BY <1>11 DEF Closed, Forget
<1>12. CASE Crash(p)
  BY <1>12 DEF Crash, Forget
<1> QED
  BY <1>1, <1>2, <1>4, <1>5, <1>6, <1>7, <1>8, <1>9, <1>10, <1>11, <1>12 DEF Step, Internal
\* What a grant does to the locks: the one it polls for becomes held in p's mode
\* and no other process holds it in a conflicting one.
LEMMA GrantTakes ==
    ASSUME TypeOK, NEW p \in Procs, Grant(p)
    PROVE  \E l \in Locks :
             /\ Compatible(p, l)
             /\ held'[p][l] = Mode(p)
             /\ \A k \in Locks \ {l} : held'[p][k] = held[p][k]
  BY ProtocolFacts DEF TypeOK, Grant

\* Locks stay compatible and held in their holder's mode.
LEMMA CompatibilityStep ==
    ASSUME TypeOK, LockCompatibility, HeldInMode, NEW p \in Procs, Step(p)
    PROVE  LockCompatibility' /\ HeldInMode'
<1>1. \A q \in Procs \ {p} : held'[q] = held[q]
  BY Frame
<1>2. CASE Grant(p)
  <2>1. PICK l \in Locks :
          /\ Compatible(p, l)
          /\ held'[p][l] = Mode(p)
          /\ \A k \in Locks \ {l} : held'[p][k] = held[p][k]
    BY <1>2, GrantTakes
  <2>2. LockCompatibility'
    BY <1>1, <2>1 DEF LockCompatibility, Compatible, Mode
  <2>3. HeldInMode'
    BY <1>1, <2>1 DEF HeldInMode, Mode
  <2> QED BY <2>2, <2>3
<1>3. CASE ~Grant(p)
  <2>1. \A l \in Locks : held'[p][l] \in {held[p][l], "none"}
    BY <1>3, OnlyFrees
  <2>2. LockCompatibility'
    BY <1>1, <2>1 DEF LockCompatibility
  <2>3. HeldInMode'
    BY <1>1, <2>1 DEF HeldInMode, Mode
  <2> QED BY <2>2, <2>3
<1> QED BY <1>2, <1>3

\* The position of p keeps telling which locks p holds.
LEMMA PositionStep ==
    ASSUME TypeOK, NEW p \in Procs, Step(p), LocksOfPosition(p),
           p \in Closers => CloserClean(p)
    PROVE  LocksOfPosition(p)' /\ (p \in Closers => CloserClean(p)')
<1> USE ProtocolFacts DEF TypeOK, LocksOfPosition, CloserClean, HoldsNothing
<1>1. CASE Enter(p)
  BY <1>1 DEF Enter
<1>2. CASE OpenVerified(p)
  BY <1>2 DEF OpenVerified, Escape, Forget, AfterOrdered
<1>3. CASE Grant(p)
  BY <1>3 DEF Grant, Forget
<1>4. CASE Busy(p)
  BY <1>4 DEF Busy
<1>5. CASE GiveUp(p)
  BY <1>5 DEF GiveUp
<1>6. CASE LockFails(p)
  BY <1>6 DEF LockFails, Escape, Forget, AfterOrdered
<1>7. CASE ReleaseEarly(p)
  BY <1>7 DEF ReleaseEarly, AfterOrdered
<1>8. CASE Exit(p)
  BY <1>8 DEF Exit
<1>9. CASE ReleaseOne(p)
  BY <1>9 DEF ReleaseOne, Forget, AfterOrdered, NextRelease
<1>10. CASE Released(p)
  BY <1>10 DEF Released, Forget, AfterOrdered
<1>11. CASE Closed(p)
  BY <1>11 DEF Closed, Forget
<1>12. CASE Crash(p)
  BY <1>12 DEF Crash, Forget
<1> QED
  BY <1>1, <1>2, <1>3, <1>4, <1>5, <1>6, <1>7, <1>8, <1>9, <1>10, <1>11, <1>12 DEF Step, Internal
----------------------------------------------------------------------------
\* Before the first call nothing is held and every local has its start value.
LEMMA InitIInv == Init => IInv
<1> SUFFICES ASSUME Init PROVE IInv
  OBVIOUS
<1>1. TypeOK
  BY BoundsAssumption, ProtocolFacts DEF Init, TypeOK, PcValues
<1> QED
  BY <1>1, ProtocolFacts
  DEF Init, IInv, LockCompatibility, HeldInMode, LocksOfPosition, CloserClean,
      HoldsNothing, Closers, Procs

\* The inductive step: p's own conjuncts by PositionStep, the others' by Frame.
LEMMA NextIInv == IInv /\ [Next]_guardVars => IInv'
<1> SUFFICES ASSUME IInv, [Next]_guardVars PROVE IInv'
  OBVIOUS
<1>1. TypeOK'
  BY TypeStep DEF IInv
<1>2. CASE UNCHANGED guardVars
  BY <1>1, <1>2
  DEF guardVars, IInv, LockCompatibility, HeldInMode, LocksOfPosition, CloserClean,
      HoldsNothing
<1>3. ASSUME NEW p \in Procs, Step(p) PROVE IInv'
  <2>1. LockCompatibility' /\ HeldInMode'
    BY <1>3, CompatibilityStep DEF IInv
  <2>2. ASSUME NEW q \in Procs
        PROVE  LocksOfPosition(q)' /\ (q \in Closers => CloserClean(q)')
    <3>1. CASE q = p
      BY <1>3, <3>1, PositionStep DEF IInv
    <3>2. CASE q # p
      <4>1. /\ pc'[q] = pc[q] /\ step'[q] = step[q]
            /\ held'[q] = held[q] /\ raised'[q] = raised[q]
        BY <1>3, <3>2, Frame DEF IInv
      <4> QED
        BY <4>1 DEF IInv, LocksOfPosition, CloserClean, HoldsNothing
    <3> QED BY <3>1, <3>2
  <2> QED
    BY <1>1, <2>1, <2>2 DEF IInv, Closers, Procs
<1> QED
  BY <1>2, <1>3 DEF Next, Step

\* The inductive invariant behind every theorem below.
THEOREM Invariance == Spec => []IInv
  BY InitIInv, NextIInv, PTL DEF Spec

\* Every variable of the guard stays in its range: in particular no call makes
\* more than MaxAttempts attempts or polls past its budget.
THEOREM TypeCorrect == Spec => []TypeOK
<1>1. IInv => TypeOK
  BY DEF IInv
<1> QED BY <1>1, Invariance, PTL

\* A publisher inside its section is alone with the data lock, for any number of
\* readers and publishers (engine.py, reader() and publisher()).
THEOREM MutualExclusion == Spec => []PublisherExcludesReaders
<1>1. IInv => PublisherExcludesReaders
  BY ProtocolFacts
  DEF IInv, PublisherExcludesReaders, LockCompatibility, LocksOfPosition, Mode, Procs
<1> QED BY <1>1, Invariance, PTL

\* No path through ordered() and the caller's finally leaves a lock held.
THEOREM NoLockLeft == Spec => []ClosedCallLeavesNoLock
<1>1. IInv => ClosedCallLeavesNoLock
  BY DEF IInv, ClosedCallLeavesNoLock, CloserClean
<1> QED BY <1>1, Invariance, PTL

\* While a publisher owns the admission gate no reader obtains data.lock: a
\* reader that polls for it holds admission shared, which the gate excludes.
THEOREM AdmissionGate == Spec => GateDrains
<1>1. ASSUME IInv, [Next]_guardVars, NEW w \in Publishers,
             held[w][Admission] = "exclusive"
      PROVE  DataReaders' \subseteq DataReaders
  <2>1. CASE UNCHANGED guardVars
    BY <2>1 DEF guardVars, DataReaders
  <2>2. ASSUME NEW p \in Procs, Step(p), NEW q \in DataReaders' PROVE q \in DataReaders
    <3>1. q \in Procs \ Publishers /\ held'[q][Data] # "none"
      BY <2>2 DEF DataReaders
    <3>2. CASE q # p
      BY <2>2, <3>1, <3>2, <1>1, Frame DEF IInv, DataReaders
    <3>3. CASE q = p /\ ~Grant(p)
      BY <2>2, <3>1, <3>3, <1>1, OnlyFrees, ProtocolFacts DEF IInv, DataReaders
    <3>4. CASE q = p /\ Grant(p)
      <4>1. held[p][Admission] = "none"
        BY <1>1, <3>1, <3>4, ProtocolFacts DEF IInv, LockCompatibility, Procs
      <4>2. step[p] = 1
        BY <1>1, <3>4, <4>1, ProtocolFacts DEF IInv, TypeOK, LocksOfPosition, Grant
      <4>3. held'[p][Data] = held[p][Data]
        BY <1>1, <3>4, <4>2, ProtocolFacts DEF IInv, TypeOK, Grant
      <4> QED BY <3>1, <3>4, <4>3 DEF DataReaders
    <3> QED BY <3>2, <3>3, <3>4
  <2> QED BY <1>1, <2>1, <2>2 DEF Next, Step
<1>2. IInv /\ [Next]_guardVars => [GateStep]_guardVars
  BY <1>1 DEF GateStep
<1> QED BY <1>2, Invariance, PTL DEF Spec, GateDrains
----------------------------------------------------------------------------
(* SolutionGuard implements GuardContract. *)

phaseBar == [p \in Procs |-> PhaseOf(p)]

\* Where the section of p may go in one step, as the contract names it.
PhaseMove(a, b) ==
    \/ a = b
    \/ a = "out" /\ b = "waiting"
    \/ a = "waiting" /\ b \in {"in", "out"}
    \/ a = "in" /\ b = "out"

\* A step of p moves only p's phase, and along an arrow of the contract.
LEMMA PhaseStep ==
    ASSUME IInv, NEW p \in Procs, Step(p)
    PROVE  /\ phaseBar' = [phaseBar EXCEPT ![p] = PhaseOf(p)']
           /\ PhaseMove(PhaseOf(p), PhaseOf(p)')
<1>1. \A q \in Procs \ {p} : PhaseOf(q)' = PhaseOf(q)
  BY Frame DEF IInv, PhaseOf
<1>2. phaseBar' = [phaseBar EXCEPT ![p] = PhaseOf(p)']
  BY <1>1 DEF phaseBar
<1>3. PhaseMove(PhaseOf(p), PhaseOf(p)')
  <2> USE DEF IInv, TypeOK, PhaseMove, PhaseOf
  <2>1. CASE Enter(p)
    BY <2>1 DEF Enter
  <2>2. CASE OpenVerified(p)
    BY <2>2 DEF OpenVerified, Escape, Forget, AfterOrdered
  <2>3. CASE Grant(p)
    BY <2>3 DEF Grant, Forget
  <2>4. CASE Busy(p)
    BY <2>4 DEF Busy
  <2>5. CASE GiveUp(p)
    BY <2>5 DEF GiveUp
  <2>6. CASE LockFails(p)
    BY <2>6 DEF LockFails, Escape, Forget, AfterOrdered
  <2>7. CASE ReleaseEarly(p)
    BY <2>7 DEF ReleaseEarly, AfterOrdered
  <2>8. CASE Exit(p)
    BY <2>8, LocksOfPosition(p) DEF Exit, LocksOfPosition
  <2>9. CASE ReleaseOne(p)
    BY <2>9 DEF ReleaseOne, Forget, AfterOrdered
  <2>10. CASE Released(p)
    BY <2>10 DEF Released, Forget, AfterOrdered
  <2>11. CASE Closed(p)
    BY <2>11 DEF Closed, Forget
  <2>12. CASE Crash(p)
    BY <2>12 DEF Crash, Forget
  <2> QED
    BY <2>1, <2>2, <2>3, <2>4, <2>5, <2>6, <2>7, <2>8, <2>9, <2>10, <2>11, <2>12 DEF Step, Internal
<1> QED BY <1>2, <1>3

\* Two phases that are "in" after a step are two readers.
LEMMA SectionsCompatible ==
    ASSUME IInv', NEW p \in Procs, NEW q \in Procs \ {p},
           PhaseOf(p)' = "in", PhaseOf(q)' = "in"
    PROVE  p \notin Publishers /\ q \notin Publishers
<1>1. pc'[p] = "inside" /\ pc'[q] = "inside"
  BY DEF PhaseOf
<1>2. held'[p][Data] = Mode(p) /\ held'[q][Data] = Mode(q)
  BY <1>1 DEF IInv, LocksOfPosition
<1> QED
  BY <1>2, ProtocolFacts DEF IInv, LockCompatibility, Mode

\* Refinement: the guard's lock-file protocol, early release, retries, failures
\* and crashes included, implements the reader/writer section of GuardContract.
THEOREM Refinement == Spec => ImplementsContract
<1>1. Init => Contract!PhaseInit
  BY DEF Init, Contract!PhaseInit, Contract!Members, PhaseOf, Procs
<1>2. IInv /\ IInv' /\ [Next]_guardVars => [Contract!ContractNext]_phaseBar
  <2> SUFFICES ASSUME IInv, IInv', [Next]_guardVars
               PROVE  [Contract!ContractNext]_phaseBar
    OBVIOUS
  <2>1. CASE UNCHANGED guardVars
    BY <2>1 DEF guardVars, phaseBar, PhaseOf
  <2>2. ASSUME NEW p \in Procs, Step(p) PROVE [Contract!ContractNext]_phaseBar
    <3>1. /\ phaseBar' = [phaseBar EXCEPT ![p] = PhaseOf(p)']
          /\ PhaseMove(PhaseOf(p), PhaseOf(p)')
      BY <2>2, PhaseStep
    <3>2. p \in Contract!Members
      BY DEF Contract!Members, Procs
    <3>3. CASE PhaseOf(p)' = PhaseOf(p)
      BY <3>1, <3>3 DEF phaseBar
    <3>4. CASE PhaseOf(p) = "out" /\ PhaseOf(p)' = "waiting"
      BY <3>1, <3>2, <3>4 DEF Contract!ContractNext, Contract!Request, phaseBar
    <3>5. CASE PhaseOf(p) = "waiting" /\ PhaseOf(p)' = "in"
      <4>1. \A q \in Procs \ {p} : PhaseOf(q)' = PhaseOf(q)
        BY <2>2, Frame DEF IInv, PhaseOf
      <4>2. \A q \in Procs \ {p} :
               PhaseOf(q) = "in" => p \notin Publishers /\ q \notin Publishers
        BY <3>5, <4>1, SectionsCompatible
      <4>3. Contract!Admit(p)
        BY <3>1, <3>5, <4>2 DEF Contract!Admit, Contract!Members, phaseBar, Procs
      <4> QED BY <3>2, <4>3 DEF Contract!ContractNext
    <3>6. CASE PhaseOf(p) = "waiting" /\ PhaseOf(p)' = "out"
      BY <3>1, <3>2, <3>6 DEF Contract!ContractNext, Contract!Refuse, phaseBar
    <3>7. CASE PhaseOf(p) = "in" /\ PhaseOf(p)' = "out"
      BY <3>1, <3>2, <3>7 DEF Contract!ContractNext, Contract!Leave, phaseBar
    <3> QED BY <3>1, <3>3, <3>4, <3>5, <3>6, <3>7 DEF PhaseMove
  <2> QED BY <2>1, <2>2 DEF Next, Step
<1> QED
  BY <1>1, <1>2, Invariance, PTL
  DEF Spec, ImplementsContract, Contract!ContractSpec, phaseBar
=============================================================================
