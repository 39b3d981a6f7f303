------------------------------ MODULE Gateway ------------------------------
(***************************************************************************)
(* One named gateway instance of gateway.py: the server processes that own *)
(* it through gateway.lock, and the supervising command lines (start,      *)
(* stop, status) that only ever look at the lock, state.json and           *)
(* stop.json.  Nothing in it kills a process: a stop is a nonce that the   *)
(* owner reads.  Both records outlive the process that wrote them.         *)
(***************************************************************************)
EXTENDS Naturals

CONSTANTS
    Launches,      \* server processes; a launch is its pid, nonce and launch id
    Starts,        \* command lines that run `start`
    Stops,         \* command lines that run `stop --instance NAME`
    Statuses,      \* command lines that run `status --instance NAME`
    Configs,       \* launch configurations, as `signature` tells them apart
    NoOne,
    MaxPolls,      \* inspections in the waiting loop of stop and of start
    MaxInflight    \* --max-inflight

Commands == Starts \cup Stops \cup Statuses

ASSUME RolesAssumption ==
    /\ Starts \cap Stops = {} /\ Starts \cap Statuses = {} /\ Stops \cap Statuses = {}
    /\ Launches \cap Commands = {}
    /\ NoOne \notin Launches \cup Commands
    /\ Configs # {}
    /\ MaxPolls \in Nat \ {0} /\ MaxInflight \in Nat \ {0}

VARIABLES
    server,    \* server[l]: how far launch l has come
    config,    \* config[l]: the configuration it was launched with
    active,    \* active[l]: POST requests it is handling
    lockFile,  \* gateway.lock exists (it is never removed)
    holder,    \* the process that holds gateway.lock exclusively, or NoOne
    state,     \* state.json: the launch that wrote it, and its "listening"
    stop,      \* stop.json: the launch whose nonce it carries, or NoOne
    at,        \* at[c]: where command c is in inspect() and around it
    stage,     \* stage[c]: which inspect() of main() it is
    seen,      \* seen[c]: what its last inspect() returned
    target,    \* target[c]: the owner a stop asked to leave, the child of a start
    polls,     \* polls[c]: inspections of the waiting loop so far
    met,       \* history: the recorded owner that held the lock as a start found it busy
    result     \* result[c]: what the command printed or exited with

serverVars == <<server, config, active>>
fileVars == <<lockFile, holder, state, stop>>
cmdVars == <<at, stage, seen, target, polls, met, result>>
vars == <<server, config, active, lockFile, holder, state, stop,
          at, stage, seen, target, polls, met, result>>

NoRecord == [owner |-> NoOne, listening |-> FALSE]
NotRunning == [running |-> FALSE, owner |-> NoOne, listening |-> FALSE]

Owning == {"starting", "bound", "listening", "closing", "failing"}
Recorded == {"bound", "listening", "closing"}   \* owning, state.json written
Dead == {"exited", "failed"}
Progress == Owning \cup Dead \cup {"unborn", "spawned"}

Records == [owner : Launches \cup {NoOne}, listening : BOOLEAN]
Inspections == [running : BOOLEAN, owner : Launches \cup {NoOne}, listening : BOOLEAN]
Places == {"idle", "probe", "release", "read", "decide", "child", "done"}
Stages == {"first", "poll", "final"}
Results ==
    {"none", "reported", "not_running", "starting", "timeout", "replaced", "stopped",
     "reused", "conflict", "failed", "started"}

Init ==
    /\ server = [l \in Launches |-> "unborn"]
    /\ config \in [Launches -> Configs]
    /\ active = [l \in Launches |-> 0]
    /\ lockFile = FALSE
    /\ holder = NoOne
    /\ state = NoRecord
    /\ stop = NoOne
    /\ at = [c \in Commands |-> "idle"]
    /\ stage = [c \in Commands |-> "first"]
    /\ seen = [c \in Commands |-> NotRunning]
    /\ target = [c \in Commands |-> NoOne]
    /\ polls = [c \in Commands |-> 0]
    /\ met = [c \in Commands |-> NoOne]
    /\ result = [c \in Commands |-> "none"]

----------------------------------------------------------------------------
(* A server process: `axmp serve`, in a shell or as the child of a start. *)

Move(l, to) == server' = [server EXCEPT ![l] = to]

Serve(l) ==
    /\ server[l] = "unborn"
    /\ Move(l, "spawned")
    /\ UNCHANGED <<config, active, fileVars, cmdVars>>

\* Mutant: a busy lock is not noticed.
MutOwn(l) ==
    /\ server[l] = "spawned"
    /\ lockFile' = TRUE
    /\ holder' = l /\ Move(l, "starting")
    /\ UNCHANGED <<config, active, state, stop, cmdVars>>

\* Ownership(): one attempt; GuardBusy ends the process with code 6.
Own(l) ==
    /\ server[l] = "spawned"
    /\ lockFile' = TRUE
    /\ \/ holder = NoOne /\ holder' = l /\ Move(l, "starting")
       \/ holder # NoOne /\ UNCHANGED holder /\ Move(l, "failed")
    /\ UNCHANGED <<config, active, state, stop, cmdVars>>

\* run_server up to the first write_record: the socket is bound.
WriteState(l) ==
    /\ server[l] = "starting"
    /\ Move(l, "bound")
    /\ state' = [owner |-> l, listening |-> FALSE]
    /\ UNCHANGED <<config, active, lockFile, holder, stop, cmdVars>>

\* monitor_loop once the worker has started.
Listen(l) ==
    /\ server[l] = "bound"
    /\ Move(l, "listening")
    /\ state' = [owner |-> l, listening |-> TRUE]
    /\ UNCHANGED <<config, active, lockFile, holder, stop, cmdVars>>

\* ActivityMiddleware: a POST to /mcp is refused when closing or at the limit,
\* otherwise counted until it is answered or cancelled.
Post(l) ==
    /\ server[l] = "listening" /\ active[l] < MaxInflight
    /\ active' = [active EXCEPT ![l] = @ + 1]
    /\ UNCHANGED <<server, config, fileVars, cmdVars>>

Answered(l) ==
    /\ active[l] > 0
    /\ active' = [active EXCEPT ![l] = @ - 1]
    /\ UNCHANGED <<server, config, fileVars, cmdVars>>

\* Mutant: a stop is looked for only when no request runs.
MutMonitorStop(l) ==
    /\ server[l] = "listening" /\ stop = l /\ active[l] = 0
    /\ Move(l, "closing")
    /\ UNCHANGED <<config, active, fileVars, cmdVars>>

\* One round of monitor_loop that ends the server: its nonce in stop.json, or
\* nothing to do for the idle time.
MonitorStop(l) ==
    /\ server[l] = "listening" /\ stop = l
    /\ Move(l, "closing")
    /\ UNCHANGED <<config, active, fileVars, cmdVars>>

Idle(l) ==
    /\ server[l] = "listening" /\ active[l] = 0
    /\ Move(l, "closing")
    /\ UNCHANGED <<config, active, fileVars, cmdVars>>

\* A failing start-up, a failing record, Ctrl+C, or the owner process ended.
Abort(l) ==
    /\ \/ server[l] = "starting" /\ Move(l, "failing")
       \/ server[l] \in {"bound", "listening"} /\ Move(l, "closing")
    /\ UNCHANGED <<config, active, fileVars, cmdVars>>

\* The drain is over (uvicorn waits up to 30 s for requests); the lock is closed.
Exit(l) ==
    /\ \/ server[l] = "closing" /\ Move(l, "exited")
       \/ server[l] = "failing" /\ Move(l, "failed")
    /\ holder' = NoOne
    /\ active' = [active EXCEPT ![l] = 0]
    /\ UNCHANGED <<config, lockFile, state, stop, cmdVars>>

\* External: the process is killed; the kernel frees its lock.
Crash(l) ==
    /\ server[l] \notin Dead \cup {"unborn"}
    /\ Move(l, IF server[l] \in Recorded THEN "exited" ELSE "failed")
    /\ holder' = IF holder = l THEN NoOne ELSE holder
    /\ active' = [active EXCEPT ![l] = 0]
    /\ UNCHANGED <<config, lockFile, state, stop, cmdVars>>

----------------------------------------------------------------------------
(* inspect(): the lock is the only evidence that an owner lives. *)

Begin(c) ==
    /\ at[c] = "idle"
    /\ at' = [at EXCEPT ![c] = "probe"]
    /\ UNCHANGED <<serverVars, fileVars, stage, seen, target, polls, met, result>>

\* A history, kept for the inspection on which a start decides whether to reuse what runs.
HeldByRecorded(c) ==
    c \in Starts /\ stage[c] = "first" /\ holder \in Launches /\ server[holder] \in Recorded

\* Without a lock file nothing runs; otherwise the lock is tried.
Probe(c) ==
    /\ at[c] = "probe"
    /\ \/ /\ ~lockFile
          /\ seen' = [seen EXCEPT ![c] = NotRunning]
          /\ at' = [at EXCEPT ![c] = "decide"]
          /\ met' = [met EXCEPT ![c] = NoOne]
          /\ UNCHANGED holder
       \/ /\ lockFile /\ holder = NoOne
          /\ holder' = c
          /\ met' = [met EXCEPT ![c] = NoOne]
          /\ at' = [at EXCEPT ![c] = "release"]
          /\ UNCHANGED seen
       \/ /\ lockFile /\ holder # NoOne
          /\ met' = [met EXCEPT ![c] = IF HeldByRecorded(c) THEN holder ELSE NoOne]
          /\ at' = [at EXCEPT ![c] = "read"]
          /\ UNCHANGED <<holder, seen>>
    /\ UNCHANGED <<serverVars, lockFile, state, stop, stage, target, polls, result>>

\* The probe got the lock: nobody runs.
Unprobe(c) ==
    /\ at[c] = "release"
    /\ holder' = NoOne
    /\ seen' = [seen EXCEPT ![c] = NotRunning]
    /\ at' = [at EXCEPT ![c] = "decide"]
    /\ UNCHANGED <<serverVars, lockFile, state, stop, stage, target, polls, met, result>>

\* GuardBusy: whatever state.json says is taken for the running owner's record.
ReadState(c) ==
    /\ at[c] = "read"
    /\ seen' = [seen EXCEPT ![c] =
                  [running |-> TRUE, owner |-> state.owner, listening |-> state.listening]]
    /\ at' = [at EXCEPT ![c] = "decide"]
    /\ UNCHANGED <<serverVars, fileVars, stage, target, polls, met, result>>

----------------------------------------------------------------------------
(* main(): what a command does with each inspection. *)

\* What an inspection returned is used once.
Forget(c) ==
    /\ seen' = [seen EXCEPT ![c] = NotRunning]
    /\ met' = [met EXCEPT ![c] = NoOne]

\* The process ends with its message; only what it said outlives it.
Finish(c, code) ==
    /\ at' = [at EXCEPT ![c] = "done"]
    /\ result' = [result EXCEPT ![c] = code]
    /\ stage' = [stage EXCEPT ![c] = "first"]
    /\ polls' = [polls EXCEPT ![c] = 0]
    /\ Forget(c)
    /\ UNCHANGED target

Report(c) ==
    /\ c \in Statuses /\ at[c] = "decide"
    /\ Finish(c, "reported")
    /\ UNCHANGED <<serverVars, fileVars>>

\* stop: the nonce that was observed is written, whoever owns the lock by now.
RequestStop(c) ==
    LET s == seen[c] IN
    /\ c \in Stops /\ at[c] = "decide" /\ stage[c] = "first"
    /\ \/ ~s.running /\ Finish(c, "not_running") /\ UNCHANGED stop
       \/ s.running /\ s.owner = NoOne /\ Finish(c, "starting") /\ UNCHANGED stop
       \/ /\ s.running /\ s.owner # NoOne
          /\ stop' = s.owner
          /\ target' = [target EXCEPT ![c] = s.owner]
          /\ stage' = [stage EXCEPT ![c] = "poll"]
          /\ at' = [at EXCEPT ![c] = "probe"]
          /\ Forget(c)
          /\ UNCHANGED <<polls, result>>
    /\ UNCHANGED <<serverVars, lockFile, holder, state>>

\* Mutant: the loop also ends when the owner no longer says that it listens.
MutAwaitStop(c) ==
    LET s == seen[c] IN
    /\ c \in Stops /\ at[c] = "decide" /\ stage[c] = "poll"
    /\ \/ /\ ~s.running \/ s.owner # target[c] \/ ~s.listening
          /\ stage' = [stage EXCEPT ![c] = "final"]
          /\ at' = [at EXCEPT ![c] = "probe"]
          /\ Forget(c)
          /\ UNCHANGED <<target, polls, result>>
       \/ /\ s.running /\ s.owner = target[c] /\ s.listening /\ polls[c] + 1 < MaxPolls
          /\ polls' = [polls EXCEPT ![c] = @ + 1]
          /\ at' = [at EXCEPT ![c] = "probe"]
          /\ Forget(c)
          /\ UNCHANGED <<stage, target, result>>
       \/ /\ s.running /\ s.owner = target[c] /\ s.listening /\ polls[c] + 1 = MaxPolls
          /\ Finish(c, "timeout")
    /\ UNCHANGED <<serverVars, fileVars>>

\* stop: wait until the lock is free or the record is another owner's.
AwaitStop(c) ==
    LET s == seen[c]
        left == ~s.running \/ s.owner # target[c]
    IN
    /\ c \in Stops /\ at[c] = "decide" /\ stage[c] = "poll"
    /\ \/ /\ left
          /\ stage' = [stage EXCEPT ![c] = "final"]
          /\ at' = [at EXCEPT ![c] = "probe"]
          /\ Forget(c)
          /\ UNCHANGED <<target, polls, result>>
       \/ /\ ~left /\ polls[c] + 1 < MaxPolls
          /\ polls' = [polls EXCEPT ![c] = @ + 1]
          /\ at' = [at EXCEPT ![c] = "probe"]
          /\ Forget(c)
          /\ UNCHANGED <<stage, target, result>>
       \/ ~left /\ polls[c] + 1 = MaxPolls /\ Finish(c, "timeout")
    /\ UNCHANGED <<serverVars, fileVars>>

StopDone(c) ==
    /\ c \in Stops /\ at[c] = "decide" /\ stage[c] = "final"
    /\ Finish(c, IF seen[c].running THEN "replaced" ELSE "stopped")
    /\ UNCHANGED <<serverVars, fileVars>>

\* Two launches differ when anything that signature() hashes does.
SameSignature(l, f) == l # NoOne /\ config[l] = f

\* start: an owner of the same signature f is reused, another is a conflict, and
\* without an owner a child is spawned (or Popen fails).
Launch(c) ==
    LET s == seen[c] IN
    /\ c \in Starts /\ at[c] = "decide" /\ stage[c] = "first"
    /\ \E f \in Configs :
         \/ /\ s.running /\ SameSignature(s.owner, f)
            /\ Finish(c, "reused") /\ UNCHANGED serverVars
         \/ /\ s.running /\ ~SameSignature(s.owner, f)
            /\ Finish(c, "conflict") /\ UNCHANGED serverVars
         \/ ~s.running /\ Finish(c, "failed") /\ UNCHANGED serverVars
         \/ /\ ~s.running
            /\ \E l \in Launches :
                 /\ server[l] = "unborn"
                 /\ Move(l, "spawned")
                 /\ config' = [config EXCEPT ![l] = f]
                 /\ target' = [target EXCEPT ![c] = l]
            /\ stage' = [stage EXCEPT ![c] = "poll"]
            /\ at' = [at EXCEPT ![c] = "child"]
            /\ Forget(c)
            /\ UNCHANGED <<active, polls, result>>
    /\ UNCHANGED fileVars

\* The top of the start loop: a child that has ended is a failed start.
CheckChild(c) ==
    /\ at[c] = "child"
    /\ \/ server[target[c]] \in Dead /\ Finish(c, "failed")
       \/ /\ server[target[c]] \notin Dead
          /\ at' = [at EXCEPT ![c] = "probe"]
          /\ UNCHANGED <<stage, target, polls, seen, met, result>>
    /\ UNCHANGED <<serverVars, fileVars>>

\* Mutant: the waiting loop of start has no end.
MutAwaitStartForever(c) ==
    LET s == seen[c] IN
    /\ c \in Starts /\ at[c] = "decide" /\ stage[c] = "poll"
    /\ \/ s.running /\ s.owner = target[c] /\ s.listening /\ Finish(c, "started")
       \/ /\ ~(s.running /\ s.owner = target[c] /\ s.listening)
          /\ at' = [at EXCEPT ![c] = "child"]
          /\ UNCHANGED <<stage, target, polls, seen, met, result>>
    /\ UNCHANGED <<serverVars, fileVars>>

\* start: wait until the child's own record says that it listens.
AwaitStart(c) ==
    LET s == seen[c]
        up == s.running /\ s.owner = target[c] /\ s.listening
    IN
    /\ c \in Starts /\ at[c] = "decide" /\ stage[c] = "poll"
    /\ \/ up /\ Finish(c, "started")
       \/ /\ ~up /\ polls[c] + 1 < MaxPolls
          /\ polls' = [polls EXCEPT ![c] = @ + 1]
          /\ at' = [at EXCEPT ![c] = "child"]
          /\ Forget(c)
          /\ UNCHANGED <<stage, target, result>>
       \/ ~up /\ polls[c] + 1 = MaxPolls /\ Finish(c, "timeout")
    /\ UNCHANGED <<serverVars, fileVars>>

----------------------------------------------------------------------------
ServerStep(l) == Own(l) \/ WriteState(l) \/ Listen(l) \/ MonitorStop(l) \/ Exit(l)

CommandStep(c) ==
    \/ Probe(c) \/ Unprobe(c) \/ ReadState(c)
    \/ Report(c) \/ RequestStop(c) \/ AwaitStop(c) \/ StopDone(c)
    \/ Launch(c) \/ CheckChild(c) \/ AwaitStart(c)

Next ==
    \/ \E l \in Launches :
         Serve(l) \/ ServerStep(l) \/ Post(l) \/ Answered(l) \/ Idle(l) \/ Abort(l) \/ Crash(l)
    \/ \E c \in Commands : Begin(c) \/ CommandStep(c)

Spec == Init /\ [][Next]_vars

\* The monitor of a listening server and the loops of a command keep running;
\* nothing is assumed of a server that starts up or drains.
FairSpec ==
    /\ Spec
    /\ \A l \in Launches : WF_vars(MonitorStop(l))
    /\ \A c \in Commands : WF_vars(CommandStep(c))

----------------------------------------------------------------------------
ServerType ==
    /\ server \in [Launches -> Progress]
    /\ config \in [Launches -> Configs]
    /\ active \in [Launches -> 0..MaxInflight]

FileType ==
    /\ lockFile \in BOOLEAN
    /\ holder \in Launches \cup Commands \cup {NoOne}
    /\ state \in Records
    /\ stop \in Launches \cup {NoOne}

CommandType ==
    /\ at \in [Commands -> Places]
    /\ stage \in [Commands -> Stages]
    /\ seen \in [Commands -> Inspections]
    /\ target \in [Commands -> Launches \cup {NoOne}]
    /\ polls \in [Commands -> 0..MaxPolls]
    /\ met \in [Commands -> Launches \cup {NoOne}]
    /\ result \in [Commands -> Results]

\* The type invariant, --max-inflight included.
TypeOK == ServerType /\ FileType /\ CommandType

\* One process owns the instance at a time, and from its first record to its exit
\* state.json is its own record: what makes the nonce that a stop reads the nonce
\* of the process it is meant for, although anybody may write the file.
OwnerRecordStands ==
    \A l \in Launches : server[l] \in Recorded =>
        /\ state.owner = l
        /\ \A m \in Launches \ {l} : server[m] \notin Owning

\* A stop that says "stopped", or that the original owner exited and a replacement
\* is running, tells the truth about the process it had asked: it is gone, whatever
\* was started, probed or stopped meanwhile.
StopReportIsTrue ==
    \A c \in Stops : result[c] \in {"stopped", "replaced"} => server[target[c]] \in Dead

\* A start that says "started" reports its own child, and that child has listened:
\* not an earlier owner, nor a child that lost the race for the lock.
StartReportIsTrue ==
    \A c \in Starts :
        result[c] = "started" => server[target[c]] \in {"listening", "closing", "exited"}

\* What a status reports, and a start that would reuse what runs: a process that has owned
\* the instance and, where the report says listening, has listened.  For a start (a status makes
\* the same inspection) that process was alive when the lock was found busy or came after it,
\* if a recorded owner held the lock.  It need not have been if the lock was held by another
\* command's probe or by a server without a record yet: the record may then be that of a
\* process long dead, and it is reported as running.
RunningReportIsTrue ==
    \A c \in Starts \cup Statuses :
        LET s == seen[c] IN
        at[c] = "decide" /\ stage[c] = "first" /\ s.running /\ s.owner # NoOne =>
            /\ server[s.owner] \in Recorded \cup {"exited"}
            /\ s.listening => server[s.owner] \in {"listening", "closing", "exited"}
            /\ met[c] # NoOne => s.owner = met[c] \/ server[met[c]] = "exited"

\* What the commands of main() report about a process, although they know it only through a
\* lock that anybody may hold and a file that anybody may write: a stop and a start about the
\* process they asked to leave or launched, a status and a start about an owner they found.
ReportsAreTrue == StopReportIsTrue /\ StartReportIsTrue /\ RunningReportIsTrue

\* A stop request reaches the owner it names although the owner only polls a file:
\* it does not keep listening.  (One stop at a time: see OwnerRecordStands.)
StopIsObeyed ==
    []<>(\A c \in Stops : target[c] # NoOne => server[target[c]] # "listening")

\* Every command ends, with nobody's help: its waiting loops are bounded.
CommandEnds == <>[](\A c \in Commands : at[c] \in {"idle", "done"})
=============================================================================
