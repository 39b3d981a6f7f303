------------------------------ MODULE MCRuntime -----------------------------
(***************************************************************************)
(* What a runtime keeps or reads again between calls, in one instance for  *)
(* TLC: a behaviour is one of GenerationRetention under two threads, of    *)
(* SnapshotCache under one caller, of CursorStore under two threads, of    *)
(* one call over the registry, of graph_status under a publisher, or of    *)
(* one comparison of two scopes.  They share nothing.                      *)
(***************************************************************************)
EXTENDS Retention, TLC

CONSTANTS
    k1, k2, k3, k4, k5, Generation, SizeOf, MaxCalls,
    Workers, Bindings, Offers, Ttls, MaxIssues, MaxTime,
    Documents, Credentials, Asks, AllowedHosts, AllowedOrigins, None, MaxRewrites,
    Projects, Reports, MaxGenerations, Heads, Baselines

VARIABLES
    user,                                                   \* whose behaviour this is
    spoiled, place, fill, served, calls,                    \* of SnapshotCache
    records, sequence, wk, now, issues, issued,             \* of CursorStore
    registry, rewrites, creds, call, during,                \* of the call
    lane, kept, control, report, moments,                         \* of graph_status
    head, base, asked, diff, totals, outcome                \* of changes

C == INSTANCE ShardCache
K == INSTANCE Cursors
A == INSTANCE Access
G == INSTANCE Status
D == INSTANCE Changes

ASSUME CacheAssumption == C!Parameters
ASSUME CursorAssumption == K!CursorParameters
ASSUME AccessAssumption == A!AccessParameters
ASSUME StatusAssumption == G!StatusParameters
ASSUME ChangesAssumption == D!ChangesParameters

MCKeys == {k1, k2, k3, k4, k5}
MCGeneration == (k1 :> "g1") @@ (k2 :> "g1") @@ (k3 :> "g2") @@ (k4 :> "g2") @@ (k5 :> "g2")
\* Three entries within the bytes, two beyond them, and one that never fits.
MCSizeOf == (k1 :> 1) @@ (k2 :> 1) @@ (k3 :> 2) @@ (k4 :> 3) @@ (k5 :> 5)

\* A request, and the requests that differ from it in one part of the binding.
Request(g, s, q, c) == [gen |-> g, scope |-> s, query |-> q, cap |-> c]
MCBindings ==
    {Request("g1", "all", "q1", "read"), Request("g2", "all", "q1", "read"),
     Request("g1", "part", "q1", "read"), Request("g1", "all", "q2", "read"),
     Request("g1", "all", "q1", "verify")}
MCOffers == {Request("g1", "all", "q1", "read"), Request("g1", "part", "q1", "read")}

\* Two solutions with a project of the same name.  A later document moves what the first one
\* binds; others list a project or a repository twice, are malformed, or bind nothing.
Row(s, i, rp, rt, ps) == [sol |-> s, inst |-> i, repo |-> rp, root |-> rt, projs |-> ps]
Doc(rows) == [sound |-> TRUE, rows |-> rows]
MCDocuments ==
    {Doc(<<Row("a", "i1", "r1", "x", {"p", "q"}), Row("b", "i1", "r1", "y", {"p"})>>),
     Doc(<<Row("a", "i2", "r1", "y", {"p"}), Row("a", "i2", "r2", "x", {"q"})>>),
     Doc(<<Row("a", "i1", "r1", "x", {"p"}), Row("a", "i1", "r2", "y", {"p", "q"})>>),
     Doc(<<Row("a", "i1", "r1", "x", {"p"}), Row("a", "i1", "r1", "y", {"q"})>>),
     [sound |-> FALSE, rows |-> <<Row("a", "i1", "r1", "x", {"p"})>>],
     Doc(<<>>)}

Token(v, cs, ss, ps) ==
    [value |-> v, audience |-> "mcp", wellFormed |-> TRUE, caps |-> cs, sols |-> ss, projs |-> ps]
Reader == Token("t1", {"read"}, {"a"}, {"p", "q"})
Narrow == Token("t2", {"read", "reconcile"}, {"a", "b"}, {"p"})
MCCredentials ==
    {<<Reader, Narrow>>, <<Narrow>>,
     <<Reader, [Narrow EXCEPT !.value = "t1"]>>, <<Reader, [Narrow EXCEPT !.value = None]>>,
     <<Reader, [Narrow EXCEPT !.audience = "control"]>>, <<[Reader EXCEPT !.wellFormed = FALSE]>>}

Loopback == [name |-> "loopback", port |-> "bound"]
MCAllowedHosts == {Loopback, [name |-> "alias", port |-> None]}
Ask(via, value, tool, s, ps) ==
    [via |-> via, host |-> Loopback, origin |-> None, form |-> "call", value |-> value, tool |-> tool,
     sol |-> s, projs |-> ps]
MCAsks ==
    {Ask(via, v, tool, s, ps) :
        via \in {"http", "stdio"}, v \in {None, "t1", "t2", "t3"},
        tool \in {"query", "version", "reconcile", "verify", "unknown"}, s \in {"a", "b", "c"},
        ps \in {None, {"p"}, {"q"}, {"p", "q"}, {"z"}}}
    \cup {[Ask("http", "t1", "query", "a", None) EXCEPT !.form = f] : f \in {"other", "large"}}
    \cup {[Ask("http", "t1", "query", "a", None) EXCEPT !.host = h, !.origin = o] :
            h \in {None} \cup [name : {"loopback", "alias"}, port : {"bound", "other"}],
            o \in {None, "bound", "other"}}

\* The daemon of a status call: every claim of freshness with every kind of evidence, and one
\* that claims most while it is not available.
MCReports ==
    [available : {TRUE}, freshness : {"fresh", "stale", "green"},
     mode : {"inventory_hash", "watcher_hint"}, proof : {"digest", "malformed"}]
    \cup [available : {FALSE}, freshness : {"fresh"}, mode : {"inventory_hash"},
          proof : {"digest"}]

\* Sides of up to two projects, of one or two schemas, with facts that come, go and change.
Facts(ids) == UNION {[S -> {"x", "y"}] : S \in SUBSET ids}
Side(schema, ns, es) == [schema |-> schema, nodes |-> ns, edges |-> es]
Quiet(schema) == Side(schema, [i \in {1} |-> "x"], <<>>)
MCHeads ==
    {[p \in {"p"} |-> Side(1, ns, es)] : ns \in Facts({1, 2, 3}), es \in Facts({1})}
    \cup {[p \in {"p", "q"} |-> IF p = "p" THEN Side(m, ns, <<>>) ELSE Quiet(n)] :
            ns \in Facts({1, 2}), m \in {1, 2, None}, n \in {1, None}}

retentionOnly == <<lock, pc, key, size, reads, closed>>
shardOnly == <<spoiled, place, fill, served, calls>>
cursorOnly == <<records, sequence, wk, now, issues, issued>>
accessOnly == <<registry, rewrites, creds, call, during>>
statusOnly == <<lane, kept, control, report, moments>>
changesOnly == <<head, base, asked, diff, totals, outcome>>

NoAccess ==
    /\ registry = Doc(<<>>) /\ rewrites = 0 /\ creds = <<>>
    /\ call = A!NoCall /\ during = {}
NoChanges ==
    /\ head = <<>> /\ base = None /\ asked = "nobody" /\ diff = <<>> /\ totals = <<>>
    /\ outcome = "none"

RuntimeInit ==
    /\ user \in {"retention", "shards", "cursors", "call", "status", "changes"}
    /\ Init /\ C!Init /\ K!CursorsInit
    /\ IF user = "call" THEN A!AccessInit ELSE NoAccess
    /\ G!StatusInit /\ (user # "status" => ~control)
    /\ IF user = "changes" THEN D!ChangesInit ELSE NoChanges

RetentionStep ==
    /\ user = "retention" /\ Next
    /\ UNCHANGED <<user, shardOnly, cursorOnly, accessOnly, statusOnly, changesOnly>>
ShardStep ==
    /\ user = "shards" /\ C!Next
    /\ UNCHANGED <<user, retentionOnly, cursorOnly, accessOnly, statusOnly, changesOnly>>
CursorStep ==
    /\ user = "cursors" /\ K!CursorsNext
    /\ UNCHANGED <<user, lruVars, retentionOnly, shardOnly, accessOnly, statusOnly, changesOnly>>
CallStep ==
    /\ user = "call" /\ A!AccessNext
    /\ UNCHANGED <<user, lruVars, retentionOnly, shardOnly, cursorOnly, statusOnly, changesOnly>>
StatusStep ==
    /\ user = "status" /\ G!StatusNext
    /\ UNCHANGED <<user, lruVars, retentionOnly, shardOnly, cursorOnly, accessOnly, changesOnly>>
ChangesStep ==
    /\ user = "changes" /\ D!ChangesNext
    /\ UNCHANGED <<user, lruVars, retentionOnly, shardOnly, cursorOnly, accessOnly, statusOnly>>

RuntimeNext ==
    RetentionStep \/ ShardStep \/ CursorStep \/ CallStep \/ StatusStep \/ ChangesStep

RuntimeSpec ==
    RuntimeInit /\ [][RuntimeNext]_<<user, lruVars, retentionOnly, shardOnly, cursorOnly,
                                     accessOnly, statusOnly, changesOnly>>

\* The byte counter of either cache is the sum of its entries after every step, and outside
\* put's critical section (retention.py), and between two calls (cache.py), the entries are
\* within both limits, whichever of them an insertion broke and however many evictions that
\* takes; what is held is always the most recently used end of what was used; and
\* SnapshotCache.get never hands out bytes that do not hash to the key's digest, however the
\* entry came to be damaged or wrong.
CachesAreSound ==
    /\ BytesExact /\ LeastRecentGoes /\ C!SoundBytes
    /\ IF user = "retention" THEN WithinBudget ELSE C!WithinBudget

\* A cursor continues exactly the request it was issued for (cursor.py).
CursorKeepsItsRequest == K!CursorKeepsItsRequest

\* A call reads what one registry document bound and its token covers (context.py, registry.py).
ServedAsBound == A!ServedAsBound

\* What a token does not see might as well not exist (context.py).
HiddenLooksAbsent == A!HiddenLooksAbsent

\* What graph_status reports was so, and fresh only on evidence (status.py, envelope.py).
StatusIsHonest == G!StatusIsHonest

\* A comparison of two scopes is a complete and minimal patch (changes.py).
ChangesAreExact == user = "changes" => D!ChangesAreExact
=============================================================================
