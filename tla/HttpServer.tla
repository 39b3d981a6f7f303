----------------------------- MODULE HttpServer -----------------------------
(***************************************************************************)
(* The HTTP transport: an application on which an MCP server is mounted,   *)
(* the lifespan composed of the application's own and of the SDK's session *)
(* manager, the recorder of its starts and stops, and the readiness probe. *)
(* main runs one application from its settings to the close of its         *)
(* runtime; a program that embeds the gateway mounts servers and opens     *)
(* lifespans as it likes.                                                  *)
(*                                                                         *)
(* The web server and the SDK are external: requests are taken while a     *)
(* lifespan runs, a session manager runs once in its life and waits for    *)
(* the calls of its sessions, and the end of the event loop waits for      *)
(* every task.                                                             *)
(***************************************************************************)
EXTENDS Integers, FiniteSets, Sequences

CONSTANTS
    Servers,       \* the MCP servers a program may mount
    Opens,         \* the times it opens the application's lifespan
    NoServer,
    Probes,        \* requests for /readyz
    Projects,      \* of each registered solution, in registry order
    MaxChanges     \* bound: changes to the published files

\* The registry is a list of solutions, and finitely many lifespans are opened.
HttpParameters ==
    /\ IsFiniteSet(Opens)
    /\ NoServer \notin Servers
    /\ Projects \in Seq(SUBSET Nat)

VARIABLES
    main,          \* where main is, or "embedding"
    result,        \* how main ended
    open,          \* the runtime is not closed
    mounted,       \* app.state's mount
    at,            \* where each lifespan is
    inside,        \* the server of the lifespan context it took
    used,          \* session managers that have run
    manager,       \* the one that runs
    starts, stops, \* of the recorder
    calls,         \* tool calls on worker threads
    good,          \* what can be read and verified whole now
    hollow,        \* projects whose pointer and manifest can, but not all their shards
    kept,          \* projects of which the present generation is retained
    changes,       \* how often the files changed
    probe          \* the readiness probes

lifespanVars == <<mounted, at, inside, used, manager, starts, stops>>
mainVars == <<main, result, open>>
fileVars == <<good, hollow, kept, changes>>
httpVars == <<mainVars, lifespanVars, calls, fileVars, probe>>

Solutions == DOMAIN Projects
\* The order of the two loops of readiness().
Turns == 1..(2 * Cardinality(Solutions))
SolutionOf(i) == (i + 1) \div 2
LaneOf(i) == IF i % 2 = 1 THEN "live" ELSE "checkpoint"
Catalog == 0
Item(i, p) == <<SolutionOf(i), LaneOf(i), p>>
Items == UNION {{Item(i, p) : p \in Projects[SolutionOf(i)] \cup {Catalog}} : i \in Turns}
Loadable == {item \in Items : item[3] # Catalog}

NoProbe == [at |-> "idle", turn |-> 1, left |-> {}, asked |-> 0, seen |-> {}, since |-> 0,
            tokens |-> TRUE, query |-> FALSE, control |-> FALSE]

HttpInit ==
    /\ main \in {"configure", "embedding"} /\ result = "none" /\ open = FALSE
    /\ mounted = NoServer
    /\ at = [l \in Opens |-> "idle"] /\ inside = [l \in Opens |-> NoServer]
    /\ used = {} /\ manager = NoServer /\ starts = 0 /\ stops = 0 /\ calls = 0
    /\ good \in SUBSET Items /\ hollow \in SUBSET (Loadable \ good)
    /\ kept = {} /\ changes = 0
    /\ probe = [q \in Probes |-> NoProbe]

Idle(l) == at[l] \in {"idle", "done"}
Busy == calls > 0 \/ \E q \in Probes : probe[q].at \notin {"idle", "done"}

----------------------------------------------------------------------------
(* main. *)

Step(from, next) ==
    /\ main = from /\ main' = next
    /\ UNCHANGED <<result, calls, fileVars, probe>>
Ends(from, how) ==
    /\ main = from /\ main' = "ended" /\ result' = how
    /\ UNCHANGED <<open, lifespanVars, calls, fileVars, probe>>

\* HttpTransportSettings and build_server may refuse before there is anything to close.
CheckSettings ==
    \/ Step("configure", "server") /\ UNCHANGED <<open, lifespanVars>>
    \/ Ends("configure", "refused")

BuildServer ==
    \/ Step("server", "runtime") /\ UNCHANGED <<open, lifespanVars>>
    \/ Ends("server", "refused")

OpenRuntime ==
    \/ Step("runtime", "compose") /\ open' = TRUE /\ UNCHANGED lifespanVars
    \/ Ends("runtime", "refused")

\* compose, and build_gateway, which mounts the one server of a new application.  Both come
\* before the try whose finally closes the runtime.
Compose ==
    \/ Step("compose", "build") /\ UNCHANGED <<open, lifespanVars>>
    \/ Ends("compose", "broken")

Build ==
    \/ /\ Step("build", "serve") /\ mounted' \in Servers
       /\ UNCHANGED <<open, at, inside, used, manager, starts, stops>>
    \/ Ends("build", "broken")

\* serve returns when the lifespan is over and the loop has no task left; then the runtime
\* is closed, and its retention cleared.
Close ==
    /\ main = "serve" /\ ~Busy
    /\ \E l \in Opens : at[l] = "done"
    /\ \A l \in Opens : Idle(l)
    /\ main' = "ended" /\ result' = "served" /\ open' = FALSE /\ kept' = {}
    /\ UNCHANGED <<lifespanVars, calls, good, hollow, changes, probe>>

----------------------------------------------------------------------------
(* The mount and its lifespan. *)

\* mount_streamable_http in a program of its own, before or after a start; a second mount
\* is refused.
Mount(s) ==
    /\ main = "embedding" /\ mounted = NoServer
    /\ mounted' = s
    /\ UNCHANGED <<mainVars, at, inside, used, manager, starts, stops, calls, fileVars, probe>>

\* The router's lifespan context is entered, as it is now, and in it the one it was composed
\* with, which may fail.
EnterParent(l) ==
    /\ at[l] = "idle"
    /\ main = "embedding" \/ (main = "serve" /\ \A k \in Opens : at[k] = "idle")
    /\ inside' = [inside EXCEPT ![l] = mounted]
    /\ \E next \in {"parent", "done"} : at' = [at EXCEPT ![l] = next]
    /\ UNCHANGED <<mainVars, mounted, used, manager, starts, stops, calls, fileVars, probe>>

\* The SDK's lifespan: a session manager that has run before refuses, and the stack leaves
\* the parent's.
EnterSdk(l) ==
    /\ at[l] = "parent" /\ inside[l] # NoServer
    /\ \/ /\ inside[l] \notin used
          /\ used' = used \cup {inside[l]} /\ manager' = inside[l]
          /\ at' = [at EXCEPT ![l] = "entered"]
       \/ /\ at' = [at EXCEPT ![l] = "leaveParent"]
          /\ UNCHANGED <<used, manager>>
    /\ UNCHANGED <<mainVars, mounted, inside, starts, stops, calls, fileVars, probe>>

\* recorder.note_start, which refuses a second start and then makes the stack unwind.  A
\* lifespan taken before the mount has only the parent's.
NoteStart(l) ==
    /\ \/ /\ at[l] = "entered"
          /\ starts' = IF starts = stops THEN starts + 1 ELSE starts
          /\ at' = [at EXCEPT ![l] = IF starts = stops THEN "running" ELSE "leaveSdk"]
       \/ /\ at[l] = "parent" /\ inside[l] = NoServer
          /\ at' = [at EXCEPT ![l] = "running"] /\ UNCHANGED starts
    /\ UNCHANGED <<mainVars, mounted, inside, used, manager, stops, calls, fileVars, probe>>

\* The body of the lifespan ends or is cancelled: note_stop in its finally, whose refusal
\* would not keep the stack from unwinding.
NoteStop(l) ==
    /\ at[l] = "running"
    /\ \/ /\ inside[l] # NoServer
          /\ stops' = IF starts = stops + 1 THEN stops + 1 ELSE stops
          /\ at' = [at EXCEPT ![l] = "leaveSdk"]
       \/ /\ inside[l] = NoServer
          /\ at' = [at EXCEPT ![l] = "leaveParent"] /\ UNCHANGED stops
    /\ UNCHANGED <<mainVars, mounted, inside, used, manager, starts, calls, fileVars, probe>>

\* The stack unwinds in the reverse order; the session manager waits for its calls, whose
\* threads are not abandoned.
LeaveSdk(l) ==
    /\ at[l] = "leaveSdk" /\ calls = 0
    /\ manager' = NoServer /\ at' = [at EXCEPT ![l] = "leaveParent"]
    /\ UNCHANGED <<mainVars, mounted, inside, used, starts, stops, calls, fileVars, probe>>

LeaveParent(l) ==
    /\ at[l] = "leaveParent"
    /\ at' = [at EXCEPT ![l] = "done"]
    /\ UNCHANGED <<mainVars, mounted, inside, used, manager, starts, stops, calls, fileVars,
                   probe>>

\* call_tool on the route of the mount: a session of the running manager starts a call.
Call ==
    /\ calls = 0 /\ mounted # NoServer /\ manager = mounted
    /\ \E l \in Opens : at[l] = "running"
    /\ calls' = 1
    /\ UNCHANGED <<mainVars, lifespanVars, fileVars, probe>>

CallEnds ==
    /\ calls = 1 /\ calls' = 0
    /\ UNCHANGED <<mainVars, lifespanVars, fileVars, probe>>

\* retention.put of what was loaded: it may be too large, and others may have to go for it.
Retain(item) == kept' \in {kept} \cup {{item} \cup rest : rest \in SUBSET kept}

\* RegisteredSource.load of a project by a call; one that fails or hits leaves all as it is.
CallLoads(item) ==
    /\ calls = 1 /\ item \in good \ kept
    /\ Retain(item)
    /\ UNCHANGED <<mainVars, lifespanVars, calls, good, hollow, changes, probe>>

----------------------------------------------------------------------------
(* readyz, over Runtime.readiness on a worker thread. *)

\* On with the i-th lane, or with the control plane when there is none.
Turn(b, i) ==
    IF i \in Turns THEN [b EXCEPT !.at = "catalog", !.turn = i]
                   ELSE [b EXCEPT !.at = "control"]

\* readyz; the registry is read, or is not available; without a token nothing is tried.
BeginProbe(q) ==
    /\ main = "serve" /\ (\E l \in Opens : at[l] = "running") /\ probe[q].at = "idle"
    /\ \E tokens \in BOOLEAN, registry \in BOOLEAN :
         LET b == [probe[q] EXCEPT !.tokens = tokens, !.since = changes] IN
         probe' = [probe EXCEPT ![q] =
             IF ~registry THEN [b EXCEPT !.at = "done", !.tokens = FALSE]
             ELSE Turn(b, IF tokens THEN 1 ELSE 0)]
    /\ UNCHANGED <<mainVars, lifespanVars, calls, fileVars>>

\* load_solution_catalog; a solution without projects is no evidence.
ProbeCatalog(q) ==
    LET b == probe[q]
        item == Item(b.turn, Catalog)
        projects == Projects[SolutionOf(b.turn)]
    IN
    /\ b.at = "catalog"
    /\ probe' = [probe EXCEPT ![q] =
           IF item \in good /\ projects # {}
           THEN [b EXCEPT !.at = "project", !.left = projects, !.seen = @ \cup {item}]
           ELSE Turn(b, b.turn + 1)]
    /\ UNCHANGED <<mainVars, lifespanVars, calls, fileVars>>

\* Mutant: a retained generation is taken without its manifest being read again.
MutProbeProject(q) ==
    LET b == probe[q] IN
    /\ b.at = "project"
    /\ \E p \in b.left :
         LET item == Item(b.turn, p) IN
         /\ probe' = [probe EXCEPT ![q] =
                IF item \notin good \cup kept THEN Turn(b, b.turn + 1)
                ELSE [b EXCEPT !.left = @ \ {p},
                               !.seen = @ \cup ({item} \cap (good \cup hollow)),
                               !.query = b.left = {p},
                               !.at = IF b.left = {p} THEN "control" ELSE "project"]]
         /\ IF item \in good \ kept THEN Retain(item) ELSE UNCHANGED kept
    /\ UNCHANGED <<mainVars, lifespanVars, calls, good, hollow, changes>>

\* RegisteredSource.load of the next project: pointer and manifest are read each time, the
\* shards only of a generation that is not retained.  One failure gives up the lane.
ProbeProject(q) ==
    LET b == probe[q] IN
    /\ b.at = "project"
    /\ \E p \in b.left :
         LET item == Item(b.turn, p) IN
         /\ probe' = [probe EXCEPT ![q] =
                IF item \notin good \cup (hollow \cap kept) THEN Turn(b, b.turn + 1)
                ELSE [b EXCEPT !.left = @ \ {p}, !.seen = @ \cup {item},
                               !.query = b.left = {p},
                               !.at = IF b.left = {p} THEN "control" ELSE "project"]]
         /\ IF item \in good \ kept THEN Retain(item) ELSE UNCHANGED kept
    /\ UNCHANGED <<mainVars, lifespanVars, calls, good, hollow, changes>>

\* control.status for one solution after the other, until one answers; a gateway without a
\* control client asks none.
ProbeControl(q) ==
    LET b == probe[q] IN
    /\ b.at = "control"
    /\ \/ /\ b.asked + 1 \in Solutions
          /\ \E answered \in BOOLEAN :
               probe' = [probe EXCEPT ![q] =
                   [b EXCEPT !.asked = @ + 1, !.control = answered,
                             !.at = IF answered \/ b.asked + 2 \notin Solutions
                                    THEN "done" ELSE "control"]]
       \/ b.asked = 0 /\ probe' = [probe EXCEPT ![q].at = "done"]
    /\ UNCHANGED <<mainVars, lifespanVars, calls, fileVars>>

\* External: something is published, damaged, repaired or collected.  Another generation is
\* not the one that is retained.
Change ==
    /\ changes < MaxChanges /\ main = "serve"
    /\ \E item \in Items : \E whole, same \in SUBSET {item} :
         \E shell \in SUBSET (({item} \cap Loadable) \ whole) :
            /\ good' = (good \ {item}) \cup whole
            /\ hollow' = (hollow \ {item}) \cup shell
            /\ kept' = (kept \ {item}) \cup (kept \cap same)
    /\ changes' = changes + 1
    /\ UNCHANGED <<mainVars, lifespanVars, calls, probe>>

----------------------------------------------------------------------------
Lifespan(l) ==
    \/ EnterParent(l) \/ EnterSdk(l) \/ NoteStart(l) \/ NoteStop(l) \/ LeaveSdk(l)
    \/ LeaveParent(l)
Probe(q) == BeginProbe(q) \/ ProbeCatalog(q) \/ ProbeProject(q) \/ ProbeControl(q)

HttpNext ==
    \/ CheckSettings \/ BuildServer \/ OpenRuntime \/ Compose \/ Build \/ Close
    \/ \E s \in Servers : Mount(s)
    \/ \E l \in Opens : Lifespan(l)
    \/ Call \/ CallEnds \/ Change
    \/ \E item \in Loadable : CallLoads(item)
    \/ \E q \in Probes : Probe(q)

----------------------------------------------------------------------------
Holds(l) == inside[l] # NoServer /\ at[l] \in {"entered", "running", "leaveSdk"}

\* However lifespans overlap, fail or are cancelled, and whenever a server is mounted: the
\* recorder says running exactly while one lifespan with a session manager runs, that manager
\* runs exactly while one lifespan will leave it, a call has a running manager and, as a probe
\* does, an open runtime, and after main has served nothing is left open.
LifespanIsWhole ==
    /\ starts - stops = Cardinality({l \in Opens : inside[l] # NoServer /\ at[l] = "running"})
    /\ manager # NoServer <=> \E l \in Opens : Holds(l)
    /\ \A l, k \in Opens : Holds(l) /\ Holds(k) => l = k
    /\ calls > 0 => manager # NoServer
    /\ main # "embedding" /\ Busy => open
    /\ result = "served" => ~open /\ manager = NoServer /\ starts = stops

\* What readyz says of the query plane, of files that change under the probe and a retention
\* that calls fill and empty: available only if the catalog of one lane was verified in this
\* very probe, and every project of it, its shards in this probe or when the process loaded the
\* generation it still names; unavailable only if the files changed meanwhile or no lane is
\* whole.
ReadyIsEarned ==
    \A q \in Probes :
        LET b == probe[q]
            Whole(i, S) == /\ Projects[SolutionOf(i)] # {}
                           /\ \A p \in Projects[SolutionOf(i)] \cup {Catalog} : Item(i, p) \in S
        IN
        b.at = "done" =>
            /\ b.query => \E i \in Turns : Whole(i, b.seen)
            /\ ~b.query /\ b.tokens => changes > b.since \/ \A i \in Turns : ~Whole(i, good)
=============================================================================
