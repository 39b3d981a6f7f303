------------------------------- MODULE Status -------------------------------
(***************************************************************************)
(* tools/status.graph_status behind its authorization: the projects of the *)
(* scope one after the other by their own pointers, which a publisher may  *)
(* move in between, the coverage of all of them, and what the daemon says  *)
(* of freshness, weighed by the evidence it gives.  RegisteredSource.load  *)
(* reads the pointer under one guard and the generation under another,     *)
(* with the collector in between; SnapshotQuery has the second read by     *)
(* read, with its guard and what may be damaged.                           *)
(***************************************************************************)
EXTENDS Naturals, Sequences

CONSTANTS
    Projects,          \* numbers: the order of their names
    Reports,           \* what control.status may return: [available, freshness, mode, proof]
    MaxGenerations,    \* bound: generations per project
    None

Coverage == <<"complete_for_profile", "partial", "unsupported">>
Freshness == {"fresh", "stale", "updating", "unknown", "invalid"}

StatusParameters ==
    Projects \subseteq Nat /\ None \notin [number : Nat, coverage : 0..Len(Coverage)]

VARIABLES
    lane,       \* lane[p]: the published generation of p, as [number, coverage], or None
    kept,       \* kept[p]: the generations of p that are still on disk
    control,    \* a control plane is configured
    report,     \* the call
    moments     \* moments[p]: what lane[p] was at some moment of the call

statusVars == <<lane, kept, control, report, moments>>

NoReport ==
    [at |-> "idle", todo |-> {}, held |-> None, loaded |-> {}, coverage |-> None,
     include_daemon |-> FALSE, daemon |-> None, freshness |-> None, code |-> "none"]

StatusInit ==
    /\ lane = [p \in Projects |-> None] /\ kept = [p \in Projects |-> {}]
    /\ control \in BOOLEAN
    /\ report = NoReport /\ moments = [p \in Projects |-> {}]

\* External: the daemon publishes a generation, whose coverage block may be unusable.
Publish(p) ==
    LET number == IF lane[p] = None THEN 1 ELSE lane[p].number + 1 IN
    /\ report.at # "ended" /\ number <= MaxGenerations
    /\ \E c \in 0..Len(Coverage) :
         /\ lane' = [lane EXCEPT ![p] = [number |-> number, coverage |-> c]]
         /\ kept' = [kept EXCEPT ![p] = @ \cup {lane'[p]}]
         /\ moments' = [moments EXCEPT ![p] = @ \cup {lane'[p]}]
    /\ UNCHANGED <<control, report>>

\* External: the daemon removes a generation that the pointer does not name.
Collect(p) ==
    /\ report.at # "ended"
    /\ \E g \in kept[p] \ {lane[p]} : kept' = [kept EXCEPT ![p] = @ \ {g}]
    /\ UNCHANGED <<lane, control, report, moments>>

Keep == UNCHANGED <<lane, kept, control, moments>>
Refuse(code) == report' = [report EXCEPT !.at = "ended", !.code = code]

Begin ==
    /\ report.at = "idle"
    /\ \E scope \in (SUBSET Projects) \ {{}}, daemon \in BOOLEAN :
         report' = [NoReport EXCEPT !.at = "load", !.todo = scope, !.include_daemon = daemon]
    /\ moments' = [p \in Projects |-> {lane[p]}]
    /\ UNCHANGED <<lane, kept, control>>

Turn == CHOOSE q \in report.todo : \A r \in report.todo : q <= r

\* load: the pointer of the next project.  read_bounded makes a file that is not there a
\* ShardUnreadable, which load_project does not catch, so call_tool answers INTERNAL_ERROR.
ReadPointer ==
    /\ report.at = "load" /\ report.todo # {}
    /\ \/ lane[Turn] = None /\ Refuse("INTERNAL_ERROR")
       \/ /\ lane[Turn] # None
          /\ report' = [report EXCEPT !.at = "pinned", !.held = lane[Turn].number]
    /\ Keep

\* Mutant: what is retained is looked up by its project, whichever generation it is.
MutLoadPinned ==
    /\ report.at = "pinned"
    /\ \E g \in kept[Turn] :
         report' = [report EXCEPT !.at = "load", !.todo = @ \ {Turn}, !.held = None,
                                  !.loaded = @ \cup {<<Turn, g>>}]
    /\ Keep

\* load_pinned: the generation that the pointer named, where its files are still there.
LoadPinned ==
    /\ report.at = "pinned"
    /\ LET found == {g \in kept[Turn] : g.number = report.held} IN
         \/ found = {} /\ Refuse("INTERNAL_ERROR")
         \/ \E g \in found :
              report' = [report EXCEPT !.at = "load", !.todo = @ \ {Turn}, !.held = None,
                                       !.loaded = @ \cup {<<Turn, g>>}]
    /\ Keep

Blocks == {g[2].coverage : g \in report.loaded}

\* aggregate_coverage: the most limiting member, and no status for a member without one.  The
\* scope of a status call has no missing project.
Aggregate ==
    /\ report.at = "load" /\ report.todo = {}
    /\ \/ 0 \in Blocks /\ Refuse("SNAPSHOT_CORRUPT")
       \/ /\ 0 \notin Blocks
          /\ \E worst \in Blocks :
               /\ \A c \in Blocks : c <= worst
               /\ report' = [report EXCEPT !.coverage = worst, !.at = "daemon"]
    /\ Keep

\* _daemon_section: an error, nothing and anything that is no object are an unavailable daemon.
\* The time of a watcher's hint is not among the keys it takes over.
Unavailable == [available |-> FALSE, freshness |-> None, mode |-> None, proof |-> None]

AskDaemon ==
    /\ report.at = "daemon"
    /\ \/ ~report.include_daemon /\ report' = [report EXCEPT !.at = "resolve"]
       \/ report.include_daemon /\ ~control /\ Refuse("DAEMON_UNAVAILABLE")
       \/ /\ report.include_daemon /\ control
          /\ \E section \in Reports \cup {Unavailable} :
               report' = [report EXCEPT !.daemon = section, !.at = "resolve"]
    /\ Keep

Heard == report.daemon # None /\ report.daemon.available

\* _verification_from_daemon: the mode, where the report has what that mode must carry.
VerificationMode ==
    IF Heard /\ report.daemon.mode = "inventory_hash" /\ report.daemon.proof = "digest"
    THEN "inventory_hash" ELSE "none"

Reported == IF Heard THEN report.daemon.freshness ELSE None

\* resolve_freshness
ResolveFreshness ==
    IF \/ Reported \notin Freshness
       \/ Reported = "fresh" /\ VerificationMode # "inventory_hash"
    THEN "unknown" ELSE Reported

Report ==
    /\ report.at = "resolve"
    /\ report' = [report EXCEPT !.freshness = ResolveFreshness, !.at = "ended", !.code = "OK"]
    /\ Keep

StatusNext ==
    \/ (\E p \in Projects : Publish(p) \/ Collect(p))
    \/ Begin \/ ReadPointer \/ LoadPinned \/ Aggregate \/ AskDaemon \/ Report

----------------------------------------------------------------------------
\* What a status says was so.  Every generation it names was the project's current one at some
\* moment of the call (of the call, not all at one moment), though it is read by its number
\* after the pointer was, beside publications and collections; so with nothing published
\* during the call the answer is the vector that stands.  Its coverage is no better than that
\* of any member.  It says fresh only where the daemon says so of a recomputed inventory (whose
\* digest the code does not compare with the generations it names), never for want of an answer
\* or of evidence.  It fails without a code only for a project that had no generation or got a
\* new one during the call, and it refuses for an unusable coverage block or a missing control
\* plane only where there is one.
StatusIsHonest ==
    report.at = "ended" =>
        /\ \A g \in report.loaded : g[2] \in moments[g[1]]
        /\ report.code = "OK" =>
             /\ report.todo = {} /\ \A g \in report.loaded : g[2].coverage \in 1..report.coverage
             /\ report.freshness = "fresh" =>
                  /\ report.include_daemon /\ control
                  /\ report.daemon \in Reports /\ report.daemon.available
                  /\ report.daemon.mode = "inventory_hash" /\ report.daemon.proof = "digest"
        /\ report.code = "INTERNAL_ERROR" =>
             \E p \in report.todo : None \in moments[p] \/ \E g, h \in moments[p] : g # h
        /\ report.code = "SNAPSHOT_CORRUPT" =>
             \E p \in Projects : \E g \in moments[p] : g # None /\ g.coverage = 0
        /\ report.code = "DAEMON_UNAVAILABLE" => report.include_daemon /\ ~control
=============================================================================
