---------------------------- MODULE MCLifecycle ----------------------------
(***************************************************************************)
(* How a gateway process serves and ends: instances for TLC of Lifecycle,  *)
(* the drain of a gateway's queries, of Stdio, a stdio process, and of     *)
(* HttpServer, the mounted HTTP application.  The three share no state; a  *)
(* behaviour is one of one of them.                                        *)
(***************************************************************************)
EXTENDS Lifecycle, TLC

CONSTANTS
    q1, q2, h1, h2, Streams, MaxSignals,
    Servers, Opens, NoServer, Probes, Projects, MaxChanges

MCQueries == {q1, q2}
MCHandlers == {h1, h2}

\* Whole lines, a last line without its newline, an empty line, nothing at all.
MCStreams == {<<>>, <<"b", "n", "b">>, <<"n", "b", "b", "n">>}

\* A solution without projects, then one with two.
MCProjects == <<{}, {1, 2}>>

VARIABLES
    stream, unread, ended, pending, eof, lines, main, result, server, watcher, cancel,
    server_error, failed, running, guarded, open, signals

VARIABLES
    phase, ending, opened, mounted, lifespan, inside, used, manager, starts, stops, calls, good,
    hollow, kept, changes, probe,
    user          \* which of the three the behaviour is about

stdio == <<stream, ended, signals, unread, pending, eof, lines, server, watcher, cancel,
           server_error, failed, running, main, result, guarded, open>>
http == <<phase, ending, opened, mounted, lifespan, inside, used, manager, starts, stops, calls,
          good, hollow, kept, changes, probe>>
all == <<vars, stdio, http, user>>

T == INSTANCE Stdio
H == INSTANCE HttpServer WITH main <- phase, result <- ending, open <- opened, at <- lifespan

ASSUME StdioAssumption == T!StdioParameters
ASSUME HttpAssumption == H!HttpParameters

EndInit ==
    /\ Init /\ T!StdioInit /\ H!HttpInit
    /\ user \in {"lifecycle", "stdio", "http"}
    /\ user # "stdio" => stream = <<>>
    /\ user # "http" => phase = "embedding"
    \* The first of the solutions has no projects; of the second the live lane is in any state,
    \* the checkpoint is whole or not there.  Hollow shards are made by a change.
    /\ hollow = {}
    /\ good \ {H!Item(3, p) : p \in {H!Catalog, 1, 2}} \in
          {{}, {H!Item(4, p) : p \in {H!Catalog, 1, 2}}}
    /\ phase = "embedding" => good = {}

Stdio(A) == user = "stdio" /\ A /\ UNCHANGED <<vars, http, user>>

EndNext ==
    \/ user = "lifecycle" /\ Next /\ UNCHANGED <<stdio, http, user>>
    \/ Stdio(T!StdioNext)
    \/ user = "http" /\ H!HttpNext /\ UNCHANGED <<vars, stdio, user>>

EndSpec ==
    /\ EndInit /\ [][EndNext]_all
    /\ WF_all(Stdio(T!MainStep)) /\ WF_all(Stdio(T!ServerStep))
    /\ WF_all(Stdio(T!WatcherStep)) /\ WF_all(Stdio(T!CallEnds))

\* A transport ends clean.  Stdio: while a tool call runs the transport is whole, and a process
\* that ends by itself has put everything back, lost no error and, uninterrupted, no byte of its
\* input.  HttpServer: the recorder, the session manager and the runtime are what the lifespans
\* and the running calls need, on every path of a start and of a stop.
EndsClean == T!EndsClean /\ H!LifespanIsWhole

\* Stdio: an interrupt, or the end of the input, ends the process.
InterruptEnds == T!InterruptEnds

\* HttpServer: readyz claims the query plane exactly on the evidence of its own probe, and of
\* the loads whose generations the process retains.
ReadyIsEarned == H!ReadyIsEarned
=============================================================================
