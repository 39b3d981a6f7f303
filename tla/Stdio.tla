------------------------------- MODULE Stdio --------------------------------
(***************************************************************************)
(* The stdio transport of a POSIX process: main and serve_stdio around a   *)
(* task group of the server, the signal watcher and the wait for the       *)
(* server's end.  Tool calls run on worker threads that cancellation waits *)
(* for.  Outside the time the watcher's receiver is open a signal has the  *)
(* interpreter's default effect, the end of the process at any point.      *)
(*                                                                         *)
(* The input is a sequence of bytes, a newline or another one; a read      *)
(* returns any non-empty part of what is there.                            *)
(***************************************************************************)
EXTENDS Naturals, Sequences, SequencesExt

CONSTANTS
    Streams,       \* what the client may write: sequences over {"b", "n"}
    MaxSignals     \* bound: signals sent

\* What a client writes is finite.
StdioParameters == Streams \subseteq Seq({"b", "n"})

VARIABLES
    stream,        \* what the client writes, and then closes the pipe
    unread,        \* of it, not read yet
    ended,         \* the client has closed
    pending, eof,  \* of _CancellableStdin
    lines,         \* what the reader has handed to the server
    main,          \* where main is, from its runtime to its end
    result,        \* what main returns or raises
    server,        \* the server task
    watcher,       \* the signal watcher
    cancel,        \* the scope of the group is cancelled
    server_error,
    failed,        \* history: the server has failed
    running,       \* tool calls on worker threads
    guarded,       \* sys.stdout is the guard
    open,          \* the runtime is not closed
    signals        \* history: how signals came in

inputVars == <<unread, pending, eof, lines>>
groupVars == <<server, watcher, cancel, server_error, failed, running>>
mainVars == <<main, result, guarded, open>>
stdioVars == <<stream, ended, signals, inputVars, groupVars, mainVars>>

StdioInit ==
    /\ stream \in Streams /\ unread = stream /\ ended = FALSE
    /\ pending = <<>> /\ eof = FALSE /\ lines = <<>>
    /\ main = "configure" /\ result = "none" /\ guarded = FALSE /\ open = FALSE
    /\ server = "none" /\ watcher = "none" /\ cancel = FALSE
    /\ server_error = FALSE /\ failed = FALSE /\ running = 0
    /\ signals = <<>>

Over == main \in {"ended", "killed"}

----------------------------------------------------------------------------
(* main and serve_stdio. *)

\* Runtime.configured, or its refusal.
Configure ==
    /\ main = "configure"
    /\ \/ main' = "serve" /\ open' = TRUE /\ UNCHANGED result
       \/ main' = "ended" /\ result' = "raised" /\ UNCHANGED open
    /\ UNCHANGED <<stream, ended, signals, inputVars, groupVars, guarded>>

Serve ==
    /\ main = "serve"
    /\ main' = "group" /\ guarded' = TRUE
    /\ server' = "read" /\ watcher' = "opening"
    /\ UNCHANGED <<stream, ended, signals, inputVars, cancel, server_error, failed, running,
                   result, open>>

\* finished.wait() returns; the group is cancelled in any case.
Finished ==
    /\ main = "group" /\ server = "done" /\ ~cancel
    /\ cancel' = TRUE
    /\ UNCHANGED <<stream, ended, signals, inputVars, server, watcher, server_error, failed,
                   running, mainVars>>

LeaveGroup ==
    /\ main = "group" /\ cancel /\ server = "done" /\ watcher = "done"
    /\ main' = "restore"
    /\ result' = IF server_error THEN "raised" ELSE "ok"
    /\ UNCHANGED <<stream, ended, signals, inputVars, groupVars, guarded, open>>

\* The real stdout is put back, then flushed; the client may be gone by then.
Restore ==
    /\ main = "restore"
    /\ guarded' = FALSE /\ main' = "close"
    /\ \/ UNCHANGED result
       \/ result' = "raised"
    /\ UNCHANGED <<stream, ended, signals, inputVars, groupVars, open>>

Close ==
    /\ main = "close"
    /\ open' = FALSE /\ main' = "ended"
    /\ UNCHANGED <<stream, ended, signals, inputVars, groupVars, result, guarded>>

----------------------------------------------------------------------------
(* The server task over _CancellableStdin. *)

Newlines == {i \in DOMAIN pending : pending[i] = "n"}
FirstNewline == CHOOSE i \in Newlines : \A j \in Newlines : i <= j

\* Mutant: at the end of the input what is pending is dropped.
MutRead ==
    /\ server = "read" /\ Newlines = {} /\ ~eof
    /\ \/ \E n \in 1..Len(unread) :
            /\ pending' = pending \o SubSeq(unread, 1, n)
            /\ unread' = SubSeq(unread, n + 1, Len(unread))
            /\ UNCHANGED eof
       \/ /\ unread = <<>> /\ ended
          /\ eof' = TRUE /\ pending' = <<>> /\ UNCHANGED unread
    /\ UNCHANGED <<stream, ended, signals, lines, groupVars, mainVars>>

\* os.read, once there is something to read.
Read ==
    /\ server = "read" /\ Newlines = {} /\ ~eof
    /\ \/ \E n \in 1..Len(unread) :
            /\ pending' = pending \o SubSeq(unread, 1, n)
            /\ unread' = SubSeq(unread, n + 1, Len(unread))
            /\ UNCHANGED eof
       \/ /\ unread = <<>> /\ ended
          /\ eof' = TRUE /\ UNCHANGED <<unread, pending>>
    /\ UNCHANGED <<stream, ended, signals, lines, groupVars, mainVars>>

\* A line, or at the end what is left, goes to the server, which may start a tool call.
Deliver ==
    /\ server = "read"
    /\ \/ /\ Newlines # {}
          /\ lines' = Append(lines, SubSeq(pending, 1, FirstNewline))
          /\ pending' = SubSeq(pending, FirstNewline + 1, Len(pending))
       \/ /\ Newlines = {} /\ eof /\ pending # <<>>
          /\ lines' = Append(lines, pending) /\ pending' = <<>>
    /\ running' \in {running, running + 1}
    /\ UNCHANGED <<stream, ended, signals, unread, eof, server, watcher, cancel, server_error,
                   failed, mainVars>>

\* External: the handler returns, and its answer is written through the guard's buffer.
CallEnds ==
    /\ running > 0 /\ ~Over
    /\ running' = running - 1
    /\ UNCHANGED <<stream, ended, signals, inputVars, server, watcher, cancel, server_error,
                   failed, mainVars>>

\* External: something in the server fails; it ends once no call is running.
Fail ==
    /\ server = "read" /\ failed' = TRUE
    /\ server' = "failing"
    /\ UNCHANGED <<stream, ended, signals, inputVars, watcher, cancel, server_error, running,
                   mainVars>>

\* run_server: an error is kept, unless it is the cancellation.
ServerEnds ==
    /\ running = 0
    /\ \/ server = "failing" /\ server_error' = TRUE
       \/ /\ server = "read"
          /\ cancel \/ (eof /\ pending = <<>>)
          /\ UNCHANGED server_error
    /\ server' = "done"
    /\ UNCHANGED <<stream, ended, signals, inputVars, watcher, cancel, failed, running, mainVars>>

----------------------------------------------------------------------------
(* watch_interrupts. *)

OpenReceiver ==
    /\ watcher = "opening" /\ ~cancel /\ main = "group"
    /\ watcher' = "open"
    /\ UNCHANGED <<stream, ended, signals, inputVars, server, cancel, server_error, failed,
                   running, mainVars>>

\* Mutant: the interrupt is logged and nothing more.
MutInterrupt ==
    /\ watcher = "received" /\ main = "group"
    /\ watcher' = "done"
    /\ UNCHANGED <<stream, ended, signals, inputVars, server, cancel, server_error, failed,
                   running, mainVars>>

Interrupt ==
    /\ watcher = "received" /\ main = "group"
    /\ watcher' = "done" /\ cancel' = TRUE
    /\ UNCHANGED <<stream, ended, signals, inputVars, server, server_error, failed, running,
                   mainVars>>

WatcherCancelled ==
    /\ watcher \in {"opening", "open"} /\ cancel /\ main = "group"
    /\ watcher' = "done"
    /\ UNCHANGED <<stream, ended, signals, inputVars, server, cancel, server_error, failed,
                   running, mainVars>>

\* External: SIGINT or SIGTERM.
Signal ==
    /\ ~Over /\ Len(signals) < MaxSignals
    /\ \/ /\ watcher \in {"open", "received"}
          /\ watcher' = "received"
          /\ signals' = Append(signals, "received")
          /\ UNCHANGED main
       \/ /\ watcher \notin {"open", "received"}
          /\ main' = "killed"
          /\ signals' = Append(signals, "default")
          /\ UNCHANGED watcher
    /\ UNCHANGED <<stream, ended, inputVars, server, cancel, server_error, failed, running,
                   result, guarded, open>>

\* External: the client closes its end.
ClientCloses ==
    /\ ~ended /\ ended' = TRUE
    /\ UNCHANGED <<stream, signals, inputVars, groupVars, mainVars>>

----------------------------------------------------------------------------
ServerStep == ~Over /\ (Read \/ Deliver \/ ServerEnds)
WatcherStep == OpenReceiver \/ Interrupt \/ WatcherCancelled
MainStep == Configure \/ Serve \/ Finished \/ LeaveGroup \/ Restore \/ Close

StdioNext ==
    \/ MainStep \/ ServerStep \/ WatcherStep \/ CallEnds
    \/ (~Over /\ Fail) \/ Signal \/ ClientCloses

\* The event loop runs every task that can go on, and the work of a call is bounded.
StdioFairness ==
    /\ WF_stdioVars(MainStep) /\ WF_stdioVars(ServerStep)
    /\ WF_stdioVars(WatcherStep) /\ WF_stdioVars(CallEnds)

----------------------------------------------------------------------------
\* As long as a tool call runs, stdout is guarded and the runtime is open.  A process that ends
\* by itself leaves neither, ends with an error if the server failed, however that raced with a
\* signal and with the cancellation, and if nobody interrupted it, has handed over every byte of
\* the input, a last line without a newline included.
EndsClean ==
    /\ running > 0 /\ main # "killed" => guarded /\ open
    /\ main = "ended" =>
         /\ ~guarded /\ ~open
         /\ failed => result = "raised"
         /\ result = "ok" /\ signals = <<>> => FlattenSeq(lines) = stream

\* An interrupt ends the process while it waits for its client, and so does the client's end.
InterruptEnds ==
    (\E i \in DOMAIN signals : signals[i] = "received") \/ (ended /\ main = "group") ~> Over
=============================================================================
