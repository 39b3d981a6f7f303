--------------------------- MODULE GatewayProofs ---------------------------
(***************************************************************************)
(* Proofs about Gateway for any number of launches and commands.           *)
(***************************************************************************)
EXTENDS Gateway, TLAPS

\* The lock is held by exactly the owning server or by one probing command.
LockInv ==
    /\ \A l \in Launches : server[l] \in Owning <=> holder = l
    /\ \A c \in Commands : at[c] = "release" <=> holder = c

\* Without a lock file nobody has ever owned the instance.
FileInv ==
    ~lockFile => /\ holder = NoOne /\ state.owner = NoOne
                 /\ \A l \in Launches : server[l] \in {"unborn", "spawned", "failed"}

\* A launch that wrote state.json is in it until it has exited.
Wrote == {"bound", "listening", "closing", "exited"}
Listened == {"listening", "closing", "exited"}

RecordInv ==
    /\ \A l \in Launches : server[l] \in Recorded => state.owner = l
    /\ \A l \in Launches : state.owner = l => server[l] \in Wrote
    /\ \A l \in Launches : state.owner = l /\ state.listening => server[l] \in Listened

\* What a command has seen was once on disk.
SeenInv ==
    \A c \in Commands : \A l \in Launches :
        seen[c].owner = l => /\ server[l] \in Wrote
                             /\ seen[c].listening => server[l] \in Listened

\* The wait of a stop: its target wrote a record, so once the lock was free or the
\* record was another's, the target has exited.
Left(c) == ~seen[c].running \/ seen[c].owner # target[c]

StopInv ==
    \A c \in Stops :
        /\ at[c] # "done" => result[c] = "none"
        /\ stage[c] # "first" => target[c] \in Launches
        /\ \A l \in Launches : target[c] = l =>
             /\ server[l] \in Wrote
             /\ stage[c] = "poll" /\ at[c] = "release" => server[l] = "exited"
             /\ stage[c] = "poll" /\ at[c] = "decide" /\ Left(c) => server[l] = "exited"
             /\ stage[c] = "final" => server[l] = "exited"
             /\ result[c] \in {"stopped", "replaced"} => server[l] = "exited"
        /\ result[c] \in {"stopped", "replaced"} => target[c] \in Launches

StartInv ==
    \A c \in Starts :
        /\ at[c] # "done" => result[c] = "none"
        /\ at[c] = "child" \/ stage[c] = "poll" => target[c] \in Launches
        /\ result[c] = "started" => target[c] \in Launches /\ server[target[c]] \in Listened

\* What a start found: nothing before it reads; then the owner that held the lock, or one that
\* came after that owner had exited.
Quiet == {"idle", "probe", "release", "read", "child"}

MetInv ==
    \A c \in Commands :
        /\ at[c] \in Quiet => seen[c] = NotRunning
        /\ met[c] # NoOne =>
             /\ server[met[c]] \in Recorded \cup {"exited"}
             /\ seen[c].running => seen[c].owner = met[c] \/ server[met[c]] = "exited"

IInv ==
    TypeOK /\ LockInv /\ FileInv /\ RecordInv /\ SeenInv /\ MetInv /\ StopInv /\ StartInv

----------------------------------------------------------------------------
\* The members of the sets of records and inspections, field by field.
LEMMA RecordFacts ==
    /\ NoRecord \in Records /\ NotRunning \in Inspections
    /\ \A r \in Records :
         /\ r.owner \in Launches \cup {NoOne} /\ r.listening \in BOOLEAN
         /\ [running |-> TRUE, owner |-> r.owner, listening |-> r.listening] \in Inspections
    /\ \A l \in Launches : \A b \in BOOLEAN : [owner |-> l, listening |-> b] \in Records
    /\ \A i \in Inspections :
         /\ i.running \in BOOLEAN /\ i.owner \in Launches \cup {NoOne} /\ i.listening \in BOOLEAN
    /\ NotRunning.running = FALSE /\ NotRunning.owner = NoOne /\ NotRunning.listening = FALSE
    /\ NoRecord.owner = NoOne
  BY DEF Records, Inspections, NoRecord, NotRunning

\* The invariant holds in an instance directory that nobody has used yet.
LEMMA InitIInv == Init => IInv
  <1> SUFFICES ASSUME Init PROVE IInv
    OBVIOUS
  <1> USE RolesAssumption, RecordFacts DEF Init
  <1>1. ServerType
    BY DEF ServerType, Progress
  <1>2. FileType /\ CommandType
    <2>1. FileType
      BY DEF FileType
    <2>2. seen \in [Commands -> Inspections]
      OBVIOUS
    <2>3. at \in [Commands -> Places] /\ stage \in [Commands -> Stages]
          /\ result \in [Commands -> Results]
      BY DEF Places, Stages, Results
    <2>4. /\ target \in [Commands -> Launches \cup {NoOne}] /\ polls \in [Commands -> 0..MaxPolls]
          /\ met \in [Commands -> Launches \cup {NoOne}]
      OBVIOUS
    <2> QED
      BY <2>1, <2>2, <2>3, <2>4 DEF CommandType
  <1>3. LockInv /\ FileInv
    BY DEF LockInv, FileInv, Owning, Commands
  <1>4. RecordInv /\ SeenInv
    BY DEF RecordInv, SeenInv, Recorded, Commands
  <1>5. StopInv /\ StartInv /\ MetInv
    BY DEF StopInv, StartInv, MetInv, Commands
  <1> QED
    BY <1>1, <1>2, <1>3, <1>4, <1>5 DEF IInv, TypeOK

\* A command that ends keeps the types of the command variables.
LEMMA FinishType ==
  ASSUME CommandType, NEW c \in Commands, NEW code \in Results, Finish(c, code)
  PROVE  CommandType'
  BY RecordFacts, RolesAssumption DEF CommandType, Finish, Forget, Places, Stages

\* The steps of a server process keep the types (gateway.serve_main and its monitor).
LEMMA ServerStepType ==
  ASSUME TypeOK, NEW l \in Launches,
         \/ Serve(l) \/ ServerStep(l) \/ Post(l) \/ Answered(l) \/ Idle(l) \/ Abort(l) \/ Crash(l)
  PROVE  TypeOK'
  <1> USE RolesAssumption DEF TypeOK, ServerType, FileType, Move, Progress, Owning, Dead,
                              serverVars, fileVars
  <1>0. CommandType'
    BY DEF CommandType, cmdVars, ServerStep, Serve, Own, WriteState, Listen, Post, Answered,
           MonitorStop, Idle, Abort, Exit, Crash
  <1> HIDE DEF CommandType
  <1>1. CASE Serve(l)
    BY <1>0, <1>1 DEF Serve
  <1>2. CASE Own(l)
    BY <1>0, <1>2 DEF Own
  <1>3. CASE WriteState(l)
    BY <1>0, <1>3, RecordFacts DEF WriteState
  <1>4. CASE Listen(l)
    BY <1>0, <1>4, RecordFacts DEF Listen
  <1>5. CASE Post(l)
    BY <1>0, <1>5 DEF Post
  <1>6. CASE Answered(l)
    BY <1>0, <1>6 DEF Answered
  <1>7. CASE MonitorStop(l)
    BY <1>0, <1>7 DEF MonitorStop
  <1>8. CASE Idle(l)
    BY <1>0, <1>8 DEF Idle
  <1>9. CASE Abort(l)
    BY <1>0, <1>9 DEF Abort
  <1>10. CASE Exit(l)
    BY <1>0, <1>10 DEF Exit
  <1>11. CASE Crash(l)
    BY <1>0, <1>11 DEF Crash
  <1> QED
    BY <1>1, <1>2, <1>3, <1>4, <1>5, <1>6, <1>7, <1>8, <1>9, <1>10, <1>11 DEF ServerStep

\* The steps of a command keep the types (start, stop, status and their probes).
LEMMA CommandStepType ==
  ASSUME TypeOK, NEW c \in Commands, Begin(c) \/ CommandStep(c)
  PROVE  TypeOK'
  <1> USE RolesAssumption DEF TypeOK, serverVars, fileVars
  <1>1. CASE Begin(c)
    BY <1>1 DEF Begin, ServerType, FileType, CommandType, Places
  <1>2. CASE Probe(c)
    <2>1. ServerType' /\ FileType'
      BY <1>2 DEF Probe, ServerType, FileType
    <2>2. at' \in [Commands -> Places]
      BY <1>2 DEF Probe, CommandType, Places
    <2>3. seen' \in [Commands -> Inspections]
      BY <1>2, RecordFacts DEF Probe, CommandType
    <2>4. met' \in [Commands -> Launches \cup {NoOne}]
      BY <1>2 DEF Probe, CommandType, HeldByRecorded
    <2> QED
      BY <1>2, <2>1, <2>2, <2>3, <2>4 DEF Probe, CommandType
  <1>3. CASE Unprobe(c)
    BY <1>3, RecordFacts DEF Unprobe, ServerType, FileType, CommandType, Places
  <1>4. CASE ReadState(c)
    BY <1>4, RecordFacts DEF ReadState, ServerType, FileType, CommandType, Places
  <1>5. CASE Report(c)
    BY <1>5, FinishType DEF Report, ServerType, FileType, Results
  <1>6. CASE RequestStop(c)
    <2>1. ServerType' /\ FileType'
      BY <1>6, RecordFacts DEF RequestStop, ServerType, FileType, CommandType
    <2>2. CASE Finish(c, "not_running") \/ Finish(c, "starting")
      BY <2>1, <2>2, FinishType DEF Results
    <2>3. CASE seen[c].owner # NoOne /\ target' = [target EXCEPT ![c] = seen[c].owner]
               /\ stage' = [stage EXCEPT ![c] = "poll"] /\ at' = [at EXCEPT ![c] = "probe"]
               /\ Forget(c) /\ UNCHANGED <<polls, result>>
      BY <2>1, <2>3, RecordFacts DEF Forget, CommandType, Places, Stages
    <2> QED
      BY <1>6, <2>2, <2>3 DEF RequestStop
  <1>7. CASE AwaitStop(c)
    <2>1. ServerType' /\ FileType'
      BY <1>7 DEF AwaitStop, ServerType, FileType
    <2>2. CASE Finish(c, "timeout")
      BY <2>1, <2>2, FinishType DEF Results
    <2>3. CASE ~Finish(c, "timeout")
      BY <1>7, <2>1, <2>3, RecordFacts DEF AwaitStop, Forget, CommandType, Places, Stages
    <2> QED
      BY <2>2, <2>3
  <1>8. CASE StopDone(c)
    BY <1>8, FinishType DEF StopDone, ServerType, FileType, Results
  <1>9. CASE Launch(c)
    <2>1. FileType'
      BY <1>9 DEF Launch, FileType
    <2>2. CASE (Finish(c, "reused") \/ Finish(c, "conflict") \/ Finish(c, "failed"))
               /\ UNCHANGED serverVars
      BY <2>1, <2>2, FinishType DEF Results, ServerType
    <2>3. CASE \E f \in Configs : \E l \in Launches :
                 /\ Move(l, "spawned")
                 /\ config' = [config EXCEPT ![l] = f]
                 /\ target' = [target EXCEPT ![c] = l]
                 /\ stage' = [stage EXCEPT ![c] = "poll"]
                 /\ at' = [at EXCEPT ![c] = "child"]
                 /\ Forget(c) /\ UNCHANGED <<active, polls, result>>
      BY <2>1, <2>3, RecordFacts DEF Forget, CommandType, ServerType, Move, Progress, Places, Stages
    <2> QED
      BY <1>9, <2>2, <2>3 DEF Launch
  <1>10. CASE CheckChild(c)
    <2>1. ServerType' /\ FileType'
      BY <1>10 DEF CheckChild, ServerType, FileType
    <2>2. CASE Finish(c, "failed")
      BY <2>1, <2>2, FinishType DEF Results
    <2>3. CASE ~Finish(c, "failed")
      BY <1>10, <2>1, <2>3 DEF CheckChild, CommandType, Places
    <2> QED
      BY <2>2, <2>3
  <1>11. CASE AwaitStart(c)
    <2>1. ServerType' /\ FileType'
      BY <1>11 DEF AwaitStart, ServerType, FileType
    <2>2. CASE Finish(c, "started") \/ Finish(c, "timeout")
      BY <2>1, <2>2, FinishType DEF Results
    <2>3. CASE ~Finish(c, "started") /\ ~Finish(c, "timeout")
      <3>1. polls[c] + 1 < MaxPolls /\ polls' = [polls EXCEPT ![c] = @ + 1]
        BY <1>11, <2>3 DEF AwaitStart
      <3>2. polls' \in [Commands -> 0..MaxPolls]
        BY <3>1 DEF CommandType
      <3> QED
        BY <1>11, <2>1, <2>3, <3>2, RecordFacts DEF AwaitStart, Forget, CommandType, Places
    <2> QED
      BY <2>2, <2>3
  <1> QED
    BY <1>1, <1>2, <1>3, <1>4, <1>5, <1>6, <1>7, <1>8, <1>9, <1>10, <1>11 DEF CommandStep

\* Every step keeps the types.
LEMMA TypeStep == TypeOK /\ [Next]_vars => TypeOK'
  <1>1. TypeOK /\ UNCHANGED vars => TypeOK'
    BY DEF TypeOK, ServerType, FileType, CommandType, vars
  <1> QED
    BY <1>1, ServerStepType, CommandStepType DEF Next

----------------------------------------------------------------------------
(* What the steps leave alone. *)

\* A server that wrote its record, listened or exited has done so for good.
LEMMA Stable ==
  ASSUME TypeOK, [Next]_vars, NEW m \in Launches
  PROVE  /\ server[m] \in Wrote => server'[m] \in Wrote
         /\ server[m] \in Listened => server'[m] \in Listened
         /\ server[m] = "exited" => server'[m] = "exited"
  <1> USE DEF TypeOK, ServerType, Wrote, Listened, Move, serverVars
  <1>1. ASSUME NEW l \in Launches,
               \/ Serve(l) \/ ServerStep(l) \/ Post(l) \/ Answered(l) \/ Idle(l) \/ Abort(l)
               \/ Crash(l)
        PROVE  \/ UNCHANGED server
               \/ \E x \in Progress :
                    /\ server' = [server EXCEPT ![l] = x]
                    /\ server[l] # "exited"
                    /\ server[l] \in Wrote => x \in Wrote
                    /\ server[l] \in Listened => x \in Listened
    BY <1>1 DEF ServerStep, Serve, Own, WriteState, Listen, Post, Answered, MonitorStop, Idle,
                Abort, Exit, Crash, Progress, Owning, Dead, Recorded
  <1>2. ASSUME NEW c \in Commands, Begin(c) \/ CommandStep(c)
        PROVE  \/ UNCHANGED server
               \/ \E l \in Launches : server[l] = "unborn" /\ server' = [server EXCEPT ![l] = "spawned"]
    BY <1>2 DEF Begin, CommandStep, Probe, Unprobe, ReadState, Report, RequestStop, AwaitStop,
                StopDone, Launch, CheckChild, AwaitStart
  <1>3. CASE UNCHANGED vars
    BY <1>3 DEF vars
  <1>4. CASE \E l \in Launches :
               \/ Serve(l) \/ ServerStep(l) \/ Post(l) \/ Answered(l) \/ Idle(l) \/ Abort(l)
               \/ Crash(l)
    BY <1>1, <1>4
  <1>5. CASE \E c \in Commands : Begin(c) \/ CommandStep(c)
    BY <1>2, <1>5
  <1> QED
    BY <1>3, <1>4, <1>5 DEF Next

\* The steps of main(), as against those of inspect().
Main(c) ==
    \/ Report(c) \/ RequestStop(c) \/ AwaitStop(c) \/ StopDone(c)
    \/ Launch(c) \/ CheckChild(c) \/ AwaitStart(c)

\* A step of a command outside its probe leaves the lock and the record alone, and every other command.
LEMMA MainFrame ==
  ASSUME TypeOK, NEW c \in Commands, Main(c)
  PROVE  /\ UNCHANGED <<lockFile, holder, state>>
         /\ at[c] \in {"decide", "child"}
         /\ at'[c] \in {"probe", "child", "done"}
         /\ \A d \in Commands \ {c} :
              /\ at'[d] = at[d] /\ stage'[d] = stage[d] /\ seen'[d] = seen[d]
              /\ target'[d] = target[d] /\ result'[d] = result[d]
         /\ seen'[c] \in {seen[c], NotRunning}
         /\ \A d \in Commands \ {c} : met'[d] = met[d]
         /\ \/ seen'[c] = seen[c] /\ met'[c] = met[c]
            \/ seen'[c] = NotRunning /\ met'[c] = NoOne
         /\ at'[c] \in Quiet =>
              seen'[c] = NotRunning \/ (at[c] = "child" /\ seen'[c] = seen[c])
         /\ \/ UNCHANGED server
            \/ \E l \in Launches : server[l] = "unborn" /\ server' = [server EXCEPT ![l] = "spawned"]
  <1> USE DEF TypeOK, CommandType, fileVars, serverVars, Move, Quiet
  <1>1. ASSUME NEW code, Finish(c, code)
        PROVE  /\ at'[c] = "done" /\ seen'[c] = NotRunning /\ met'[c] = NoOne
               /\ \A d \in Commands \ {c} : met'[d] = met[d]
               /\ \A d \in Commands \ {c} :
                    /\ at'[d] = at[d] /\ stage'[d] = stage[d] /\ seen'[d] = seen[d]
                    /\ target'[d] = target[d] /\ result'[d] = result[d]
    BY <1>1 DEF Finish, Forget
  <1>2. CASE Report(c) \/ StopDone(c)
    BY <1>1, <1>2 DEF Report, StopDone
  <1>3. CASE RequestStop(c)
    BY <1>1, <1>3 DEF RequestStop, Forget
  <1>4. CASE AwaitStop(c)
    BY <1>1, <1>4 DEF AwaitStop, Forget
  <1>5. CASE Launch(c)
    BY <1>1, <1>5 DEF Launch, Forget
  <1>6. CASE CheckChild(c)
    BY <1>1, <1>6 DEF CheckChild, Forget
  <1>7. CASE AwaitStart(c)
    BY <1>1, <1>7 DEF AwaitStart, Forget
  <1> QED
    BY <1>2, <1>3, <1>4, <1>5, <1>6, <1>7 DEF Main

----------------------------------------------------------------------------
(* The lock and the record. *)

\* The lock stays with one process: the owner, or a probe for its moment.
LEMMA LockStep == TypeOK /\ LockInv /\ [Next]_vars => LockInv'
  <1> SUFFICES ASSUME TypeOK, LockInv, [Next]_vars PROVE LockInv'
    OBVIOUS
  <1> USE RolesAssumption DEF TypeOK, ServerType, FileType, LockInv, Owning
  <1>1. ASSUME NEW l \in Launches, Serve(l) \/ WriteState(l) \/ Listen(l) \/ Post(l) \/ Answered(l)
                                   \/ MonitorStop(l) \/ Idle(l) \/ Abort(l)
        PROVE  LockInv'
    BY <1>1 DEF Serve, WriteState, Listen, Post, Answered, MonitorStop, Idle, Abort, Move,
                fileVars, cmdVars
  <1>2. ASSUME NEW l \in Launches, Own(l) PROVE LockInv'
    BY <1>2 DEF Own, Move, cmdVars
  <1>3. ASSUME NEW l \in Launches, Exit(l) PROVE LockInv'
    BY <1>3 DEF Exit, Move, cmdVars
  <1>4. ASSUME NEW l \in Launches, Crash(l) PROVE LockInv'
    BY <1>4 DEF Crash, Move, cmdVars, Recorded, Dead
  <1>5. ASSUME NEW c \in Commands, Begin(c) \/ ReadState(c) PROVE LockInv'
    BY <1>5 DEF Begin, ReadState, CommandType, fileVars, serverVars
  <1>6. ASSUME NEW c \in Commands, Probe(c) PROVE LockInv'
    BY <1>6 DEF Probe, CommandType, serverVars
  <1>7. ASSUME NEW c \in Commands, Unprobe(c) PROVE LockInv'
    BY <1>7 DEF Unprobe, CommandType, serverVars
  <1>8. ASSUME NEW c \in Commands, Main(c) PROVE LockInv'
    BY <1>8, MainFrame
  <1>9. CASE UNCHANGED vars
    BY <1>9 DEF vars
  <1> QED
    BY <1>1, <1>2, <1>3, <1>4, <1>5, <1>6, <1>7, <1>8, <1>9
       DEF Next, ServerStep, CommandStep, Main

\* state.json names a server that wrote it, and says listening only of one that did.
LEMMA RecordStep ==
    TypeOK /\ LockInv /\ FileInv /\ RecordInv /\ [Next]_vars => FileInv' /\ RecordInv'
  <1> SUFFICES ASSUME TypeOK, LockInv, FileInv, RecordInv, [Next]_vars
               PROVE  FileInv' /\ RecordInv'
    OBVIOUS
  <1> USE RolesAssumption DEF TypeOK, ServerType, FileType, LockInv, FileInv, RecordInv,
                              Owning, Recorded, Wrote, Listened
  <1>1. ASSUME NEW l \in Launches, Serve(l) \/ Post(l) \/ Answered(l) PROVE FileInv' /\ RecordInv'
    BY <1>1 DEF Serve, Post, Answered, Move, fileVars
  <1>2. ASSUME NEW l \in Launches, Own(l) PROVE FileInv' /\ RecordInv'
    BY <1>2 DEF Own, Move
  <1>3. ASSUME NEW l \in Launches, WriteState(l) PROVE FileInv' /\ RecordInv'
    BY <1>3 DEF WriteState, Move
  <1>4. ASSUME NEW l \in Launches, Listen(l) PROVE FileInv' /\ RecordInv'
    BY <1>4 DEF Listen, Move
  <1>5. ASSUME NEW l \in Launches, MonitorStop(l) \/ Idle(l) \/ Abort(l)
        PROVE  FileInv' /\ RecordInv'
    BY <1>5 DEF MonitorStop, Idle, Abort, Move, fileVars
  <1>6. ASSUME NEW l \in Launches, Exit(l) PROVE FileInv' /\ RecordInv'
    BY <1>6 DEF Exit, Move
  <1>7. ASSUME NEW l \in Launches, Crash(l) PROVE FileInv' /\ RecordInv'
    BY <1>7 DEF Crash, Move, Dead
  <1>8. ASSUME NEW c \in Commands, Begin(c) \/ Probe(c) \/ Unprobe(c) \/ ReadState(c)
        PROVE  FileInv' /\ RecordInv'
    BY <1>8 DEF Begin, Probe, Unprobe, ReadState, fileVars, serverVars
  <1>9. ASSUME NEW c \in Commands, Main(c) PROVE FileInv' /\ RecordInv'
    BY <1>9, MainFrame
  <1>10. CASE UNCHANGED vars
    BY <1>10 DEF vars
  <1> QED
    BY <1>1, <1>2, <1>3, <1>4, <1>5, <1>6, <1>7, <1>8, <1>9, <1>10
       DEF Next, ServerStep, CommandStep, Main

----------------------------------------------------------------------------
(* What the commands know. *)

\* What a command remembers of an owner stays true of that launch.
LEMMA SeenStep == TypeOK /\ RecordInv /\ SeenInv /\ [Next]_vars => SeenInv'
  <1> SUFFICES ASSUME TypeOK, RecordInv, SeenInv, [Next]_vars,
                      NEW d \in Commands, NEW l \in Launches, seen'[d].owner = l
               PROVE  /\ server'[l] \in Wrote
                      /\ seen'[d].listening => server'[l] \in Listened
    BY DEF SeenInv
  <1> USE RolesAssumption, RecordFacts DEF TypeOK, CommandType, FileType
  <1> DEFINE Known ==
               \/ seen'[d] \in {seen[d], NotRunning}
               \/ seen'[d] =
                    [running |-> TRUE, owner |-> state.owner, listening |-> state.listening]
  <1>1. Known
    <2>1. ASSUME NEW k \in Launches,
                 \/ Serve(k) \/ ServerStep(k) \/ Post(k) \/ Answered(k) \/ Idle(k) \/ Abort(k)
                 \/ Crash(k)
          PROVE  seen' = seen
      BY <2>1 DEF ServerStep, Serve, Own, WriteState, Listen, Post, Answered, MonitorStop, Idle,
                  Abort, Exit, Crash, cmdVars
    <2>2. ASSUME NEW c \in Commands, Begin(c) \/ Probe(c) \/ Unprobe(c) \/ ReadState(c)
          PROVE  Known
      BY <2>2 DEF Begin, Probe, Unprobe, ReadState
    <2>3. ASSUME NEW c \in Commands, Main(c) PROVE Known
      BY <2>3, MainFrame
    <2>4. CASE UNCHANGED vars
      BY <2>4 DEF vars
    <2> QED
      BY <2>1, <2>2, <2>3, <2>4 DEF Next, CommandStep, Main
  <1>2. /\ server[l] \in Wrote
        /\ seen'[d].listening => server[l] \in Listened
    BY <1>1 DEF SeenInv, RecordInv
  <1> QED
    BY <1>2, Stable

\* A command other than c, and every command during a step of a server, keeps what
\* it knows.
Kept(d) ==
    /\ at'[d] = at[d] /\ stage'[d] = stage[d] /\ seen'[d] = seen[d] /\ met'[d] = met[d]
    /\ target'[d] = target[d] /\ result'[d] = result[d]

\* A server does not touch what a command knows.
LEMMA ServerKeeps ==
  ASSUME NEW l \in Launches,
         \/ Serve(l) \/ ServerStep(l) \/ Post(l) \/ Answered(l) \/ Idle(l) \/ Abort(l) \/ Crash(l)
  PROVE  \A d \in Commands : Kept(d)
  BY DEF Kept, ServerStep, Serve, Own, WriteState, Listen, Post, Answered, MonitorStop, Idle,
         Abort, Exit, Crash, cmdVars

\* A command does not touch what another command knows.
LEMMA CommandKeeps ==
  ASSUME TypeOK, NEW c \in Commands, Begin(c) \/ CommandStep(c), NEW d \in Commands \ {c}
  PROVE  Kept(d)
  <1>1. CASE Main(c)
    BY <1>1, MainFrame DEF Kept
  <1>2. CASE Begin(c) \/ Probe(c) \/ Unprobe(c) \/ ReadState(c)
    BY <1>2 DEF Kept, Begin, Probe, Unprobe, ReadState, TypeOK, CommandType
  <1> QED
    BY <1>1, <1>2 DEF CommandStep, Main

\* A launch that owns the instance with a record, or that has done so and exited, stays so.
LEMMA OwnersStay ==
  ASSUME TypeOK, [Next]_vars, NEW m \in Launches, server[m] \in Recorded \cup {"exited"}
  PROVE  server'[m] \in Recorded \cup {"exited"}
  <1> USE DEF TypeOK, ServerType, Recorded, Move, serverVars
  <1>1. ASSUME NEW l \in Launches,
               \/ Serve(l) \/ ServerStep(l) \/ Post(l) \/ Answered(l) \/ Idle(l) \/ Abort(l)
               \/ Crash(l)
        PROVE  server'[m] \in Recorded \cup {"exited"}
    BY <1>1 DEF ServerStep, Serve, Own, WriteState, Listen, Post, Answered, MonitorStop, Idle,
                Abort, Exit, Crash, Dead
  <1>2. ASSUME NEW c \in Commands, Begin(c) \/ CommandStep(c)
        PROVE  \/ UNCHANGED server
               \/ \E l \in Launches : server[l] = "unborn" /\ server' = [server EXCEPT ![l] = "spawned"]
    BY <1>2 DEF Begin, CommandStep, Probe, Unprobe, ReadState, Report, RequestStop, AwaitStop,
                StopDone, Launch, CheckChild, AwaitStart
  <1>3. CASE UNCHANGED vars
    BY <1>3 DEF vars
  <1> QED
    BY <1>1, <1>2, <1>3 DEF Next

\* MetInv for one command.
MetInvOf(c) ==
    /\ at[c] \in Quiet => seen[c] = NotRunning
    /\ met[c] # NoOne =>
         /\ server[met[c]] \in Recorded \cup {"exited"}
         /\ seen[c].running => seen[c].owner = met[c] \/ server[met[c]] = "exited"

\* A start that finds the lock with a recorded owner reads that owner's record, unless the
\* owner has exited meanwhile.
LEMMA MetStep ==
  ASSUME TypeOK, LockInv, RecordInv, MetInv, [Next]_vars
  PROVE  MetInv'
  <1> SUFFICES ASSUME NEW d \in Commands PROVE MetInvOf(d)'
    BY DEF MetInv, MetInvOf
  <1>0. MetInvOf(d) /\ met[d] \in Launches \cup {NoOne}
    BY DEF MetInv, MetInvOf, TypeOK, CommandType
  <1>1. ASSUME Kept(d) PROVE MetInvOf(d)'
    <2>1. met[d] # NoOne => /\ server'[met[d]] \in Recorded \cup {"exited"}
                            /\ server[met[d]] = "exited" => server'[met[d]] = "exited"
      BY <1>0, OwnersStay, Stable DEF MetInvOf
    <2> QED
      BY <1>0, <1>1, <2>1 DEF Kept, MetInvOf
  <1>2. CASE UNCHANGED vars
    BY <1>1, <1>2 DEF Kept, vars
  <1>3. CASE \E l \in Launches :
               \/ Serve(l) \/ ServerStep(l) \/ Post(l) \/ Answered(l) \/ Idle(l) \/ Abort(l)
               \/ Crash(l)
    BY <1>1, <1>3, ServerKeeps
  <1>4. CASE \E c \in Commands \ {d} : Begin(c) \/ CommandStep(c)
    BY <1>1, <1>4, CommandKeeps
  <1>5. CASE Begin(d)
    BY <1>0, <1>5 DEF Begin, serverVars, MetInvOf, Quiet, TypeOK, CommandType
  <1>6. CASE Probe(d)
    <2>1. server' = server /\ at[d] = "probe"
      BY <1>6 DEF Probe, serverVars
    <2>2. seen'[d] = NotRunning
      BY <1>0, <1>6, <2>1 DEF Probe, MetInvOf, Quiet, TypeOK, CommandType
    <2>3. met'[d] # NoOne => met'[d] \in Launches /\ server[met'[d]] \in Recorded
      BY <1>6 DEF Probe, HeldByRecorded, TypeOK, CommandType
    <2> QED
      BY <2>1, <2>2, <2>3 DEF MetInvOf, NotRunning
  <1>7. CASE Unprobe(d)
    BY <1>0, <1>7 DEF Unprobe, serverVars, MetInvOf, Quiet, NotRunning, TypeOK, CommandType
  <1>8. CASE ReadState(d)
    <2>1. /\ server' = server /\ met' = met /\ at'[d] = "decide"
          /\ seen'[d].owner = state.owner
      BY <1>8 DEF ReadState, serverVars, TypeOK, CommandType
    <2>2. met[d] # NoOne => state.owner = met[d] \/ server[met[d]] = "exited"
      BY <1>0 DEF MetInvOf, RecordInv
    <2> QED
      BY <1>0, <2>1, <2>2 DEF MetInvOf, Quiet
  <1>9. CASE Main(d)
    <2>1. /\ \/ seen'[d] = seen[d] /\ met'[d] = met[d]
             \/ seen'[d] = NotRunning /\ met'[d] = NoOne
          /\ at'[d] \in Quiet =>
               seen'[d] = NotRunning \/ (at[d] = "child" /\ seen'[d] = seen[d])
      BY <1>9, MainFrame
    <2>2. met[d] # NoOne => /\ server'[met[d]] \in Recorded \cup {"exited"}
                            /\ server[met[d]] = "exited" => server'[met[d]] = "exited"
      BY <1>0, OwnersStay, Stable DEF MetInvOf
    <2>3. at'[d] \in Quiet => seen'[d] = NotRunning
      BY <1>0, <2>1 DEF MetInvOf, Quiet
    <2> QED
      BY <1>0, <2>1, <2>2, <2>3 DEF MetInvOf
  <1> QED
    BY <1>2, <1>3, <1>4, <1>5, <1>6, <1>7, <1>8, <1>9 DEF Next, CommandStep, Main

\* StopInv for one command.
StopInvOf(c) ==
    /\ at[c] # "done" => result[c] = "none"
    /\ stage[c] # "first" => target[c] \in Launches
    /\ \A l \in Launches : target[c] = l =>
         /\ server[l] \in Wrote
         /\ stage[c] = "poll" /\ at[c] = "release" => server[l] = "exited"
         /\ stage[c] = "poll" /\ at[c] = "decide" /\ Left(c) => server[l] = "exited"
         /\ stage[c] = "final" => server[l] = "exited"
         /\ result[c] \in {"stopped", "replaced"} => server[l] = "exited"
    /\ result[c] \in {"stopped", "replaced"} => target[c] \in Launches

\* A stop command that waits, waits for the owner it named, and reports only its exit.
LEMMA StopStep ==
  ASSUME TypeOK, LockInv, FileInv, RecordInv, SeenInv, StopInv, [Next]_vars
  PROVE  StopInv'
  <1> SUFFICES ASSUME NEW d \in Stops PROVE StopInvOf(d)'
    BY DEF StopInv, StopInvOf, Left
  <1>0. StopInvOf(d) /\ d \in Commands
    BY DEF StopInv, StopInvOf, Left, Commands
  <1>1. ASSUME Kept(d) PROVE StopInvOf(d)'
    BY <1>0, <1>1, Stable DEF Kept, StopInvOf, Left
  <1>2. CASE UNCHANGED vars
    BY <1>1, <1>2 DEF Kept, vars
  <1>3. CASE \E l \in Launches :
               \/ Serve(l) \/ ServerStep(l) \/ Post(l) \/ Answered(l) \/ Idle(l) \/ Abort(l)
               \/ Crash(l)
    BY <1>0, <1>1, <1>3, ServerKeeps
  <1>4. CASE \E c \in Commands \ {d} : Begin(c) \/ CommandStep(c)
    BY <1>0, <1>1, <1>4, CommandKeeps
  <1>5. CASE Begin(d) \/ CommandStep(d)
    <2> USE <1>0, RolesAssumption, RecordFacts DEF StopInvOf, Left, TypeOK, CommandType
    <2>1. CASE Begin(d)
      BY <2>1 DEF Begin, serverVars
    <2>2. CASE Probe(d)
      BY <2>2 DEF Probe, serverVars, LockInv, FileInv, Wrote, Owning
    <2>3. CASE Unprobe(d)
      BY <2>3 DEF Unprobe, serverVars
    <2>4. CASE ReadState(d)
      BY <2>4 DEF ReadState, serverVars, RecordInv, Wrote, Recorded
    <2>5. CASE RequestStop(d)
      <3>1. CASE Finish(d, "not_running") \/ Finish(d, "starting")
        BY <2>5, <3>1 DEF RequestStop, Finish, Forget, serverVars
      <3>2. CASE ~Finish(d, "not_running") /\ ~Finish(d, "starting")
        BY <2>5, <3>2 DEF RequestStop, serverVars, SeenInv
      <3> QED
        BY <3>1, <3>2
    <2>6. CASE AwaitStop(d)
      BY <2>6 DEF AwaitStop, Finish, Forget, serverVars
    <2>7. CASE StopDone(d)
      BY <2>7 DEF StopDone, Finish, Forget, serverVars
    <2>8. ~Report(d) /\ ~Launch(d) /\ ~AwaitStart(d)
      BY DEF Report, Launch, AwaitStart
    <2>9. CASE CheckChild(d)
      BY <2>9 DEF CheckChild, Finish, Forget, serverVars
    <2> QED
      BY <1>5, <2>1, <2>2, <2>3, <2>4, <2>5, <2>6, <2>7, <2>8, <2>9 DEF CommandStep
  <1> QED
    BY <1>2, <1>3, <1>4, <1>5 DEF Next

StartInvOf(c) ==
    /\ at[c] # "done" => result[c] = "none"
    /\ at[c] = "child" \/ stage[c] = "poll" => target[c] \in Launches
    /\ result[c] = "started" => target[c] \in Launches /\ server[target[c]] \in Listened

\* A start command reports the child it launched, and only once that child listened.
LEMMA StartStep ==
  ASSUME TypeOK, SeenInv, StartInv, [Next]_vars
  PROVE  StartInv'
  <1> SUFFICES ASSUME NEW d \in Starts PROVE StartInvOf(d)'
    BY DEF StartInv, StartInvOf
  <1>0. StartInvOf(d) /\ d \in Commands
    BY DEF StartInv, StartInvOf, Commands
  <1>1. ASSUME Kept(d) PROVE StartInvOf(d)'
    BY <1>0, <1>1, Stable DEF Kept, StartInvOf
  <1>2. CASE UNCHANGED vars
    BY <1>1, <1>2 DEF Kept, vars
  <1>3. CASE \E l \in Launches :
               \/ Serve(l) \/ ServerStep(l) \/ Post(l) \/ Answered(l) \/ Idle(l) \/ Abort(l)
               \/ Crash(l)
    BY <1>0, <1>1, <1>3, ServerKeeps
  <1>4. CASE \E c \in Commands \ {d} : Begin(c) \/ CommandStep(c)
    BY <1>0, <1>1, <1>4, CommandKeeps
  <1>5. CASE Begin(d) \/ CommandStep(d)
    <2> USE <1>0, RolesAssumption DEF StartInvOf, TypeOK, CommandType
    <2>1. CASE Begin(d) \/ Probe(d) \/ Unprobe(d) \/ ReadState(d)
      BY <2>1 DEF Begin, Probe, Unprobe, ReadState, serverVars
    <2>2. CASE Launch(d)
      <3>1. CASE Finish(d, "reused") \/ Finish(d, "conflict") \/ Finish(d, "failed")
        BY <3>1, Stable DEF Finish, Forget
      <3>2. CASE ~(Finish(d, "reused") \/ Finish(d, "conflict") \/ Finish(d, "failed"))
        <4>1. PICK l \in Launches : /\ target' = [target EXCEPT ![d] = l]
                                    /\ result' = result
                                    /\ at[d] = "decide"
          BY <2>2, <3>2 DEF Launch
        <4> QED
          BY <4>1
      <3> QED
        BY <3>1, <3>2
    <2>3. CASE CheckChild(d)
      BY <2>3 DEF CheckChild, Finish, Forget, serverVars
    <2>4. CASE AwaitStart(d)
      BY <2>4, RecordFacts DEF AwaitStart, Finish, Forget, serverVars, SeenInv
    <2>5. ~Report(d) /\ ~RequestStop(d) /\ ~AwaitStop(d) /\ ~StopDone(d)
      BY DEF Report, RequestStop, AwaitStop, StopDone
    <2> QED
      BY <1>5, <2>1, <2>2, <2>3, <2>4, <2>5 DEF CommandStep
  <1> QED
    BY <1>2, <1>3, <1>4, <1>5 DEF Next

----------------------------------------------------------------------------
\* Every step keeps the invariant.
LEMMA NextIInv == IInv /\ [Next]_vars => IInv'
  BY TypeStep, LockStep, RecordStep, SeenStep, MetStep, StopStep, StartStep DEF IInv

\* The inductive invariant of the instance directory holds in every behaviour.
THEOREM Invariance == Spec => []IInv
  BY InitIInv, NextIInv, PTL DEF Spec

\* Type correctness of the gateway's state, the counter of active requests and the
\* polls of the waiting loops included.
THEOREM TypeCorrect == Spec => []TypeOK
  <1>1. IInv => TypeOK
    BY DEF IInv
  <1> QED
    BY <1>1, Invariance, PTL

\* gateway.lock and state.json: one owner at a time, whose record stands.
THEOREM OneOwner == Spec => []OwnerRecordStands
  <1>1. IInv => OwnerRecordStands
    BY DEF IInv, OwnerRecordStands, RecordInv, LockInv, Recorded, Owning
  <1> QED
    BY <1>1, Invariance, PTL

\* main(), stop: a report that the original owner is gone is true.
THEOREM StopTruth == Spec => []StopReportIsTrue
  <1>1. IInv => StopReportIsTrue
    BY DEF IInv, StopReportIsTrue, StopInv, Dead
  <1> QED
    BY <1>1, Invariance, PTL

\* main(), start: a report of success is about the child, which has listened.
THEOREM StartTruth == Spec => []StartReportIsTrue
  <1>1. IInv => StartReportIsTrue
    BY DEF IInv, StartReportIsTrue, StartInv, Listened
  <1> QED
    BY <1>1, Invariance, PTL

\* main(), status and start: a report of what runs names a process that has owned the
\* instance, the recorded owner that a start found holding the lock or one that came after it.
THEOREM RunningTruth == Spec => []RunningReportIsTrue
  <1>1. ASSUME IInv, NEW c \in Starts \cup Statuses,
               seen[c].running, seen[c].owner # NoOne
        PROVE  /\ server[seen[c].owner] \in Recorded \cup {"exited"}
               /\ seen[c].listening =>
                    server[seen[c].owner] \in {"listening", "closing", "exited"}
               /\ met[c] # NoOne => seen[c].owner = met[c] \/ server[met[c]] = "exited"
    <2>1. c \in Commands
      BY DEF Commands
    <2>2. seen[c].owner \in Launches
      BY <1>1, <2>1, RecordFacts DEF IInv, TypeOK, CommandType
    <2>3. /\ server[seen[c].owner] \in Wrote
          /\ seen[c].listening => server[seen[c].owner] \in Listened
      BY <1>1, <2>1, <2>2 DEF IInv, SeenInv
    <2>4. met[c] # NoOne => seen[c].owner = met[c] \/ server[met[c]] = "exited"
      BY <1>1, <2>1 DEF IInv, MetInv
    <2> QED
      BY <2>3, <2>4 DEF Wrote, Listened, Recorded
  <1>2. IInv => RunningReportIsTrue
    BY <1>1 DEF RunningReportIsTrue
  <1> QED
    BY <1>2, Invariance, PTL

\* All three: what a command says about a process when it ends.
THEOREM ReportsTruth == Spec => []ReportsAreTrue
  BY StopTruth, StartTruth, RunningTruth, PTL DEF ReportsAreTrue
=============================================================================
