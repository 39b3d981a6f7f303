---------------------------- MODULE QueryAnswer ----------------------------
(***************************************************************************)
(* tools/query.graph_query from the moment the scope is loaded: one call   *)
(* of the engine, the envelope made of what it returned, and the packing.  *)
(* The envelope keeps nodes, edges, warnings and one truncated flag;       *)
(* whatever else the engine knows (found, proven_absent, ambiguous) the    *)
(* caller has to read from those.                                          *)
(*                                                                         *)
(* search and path run here step by step.  "other" stands for the walks of *)
(* Impact and BoundedWalk: any envelope they may end in.                   *)
(***************************************************************************)
EXTENDS Budget, FiniteSets

CONSTANTS
    Nodes, Edges, NoNode, Graphs, Asks, Goals, Facts,   \* calls of path
    Symbols, Scopes, Searches,                          \* calls of search
    AnswerCaps,    \* max_bytes of those calls
    Size           \* encoded sizes: of a node, an edge, a warning and the metadata

VARIABLES
    operation,
    graph, ask, goal, facts, level, depth_reached, current, next_level, rest, here, todo,
    parent, seen_edges, unresolved, found, budget_exhausted, cursor, route,
    scope, ranked, scanned, unscanned

P == INSTANCE Path
S == INSTANCE Search

AnswerParameters ==
    /\ P!Parameters /\ S!Parameters
    /\ AnswerCaps \subseteq Nat
    /\ Size \in [{"node", "edge", "warning", "meta"} -> Nat]

pathOnly == <<graph, goal, facts, level, depth_reached, current, next_level, rest, here, todo,
              parent, seen_edges, unresolved, found, budget_exhausted, cursor, route>>
searchOnly == <<scope, ranked, scanned, unscanned>>
packOnly == <<document, cap, packed, turn, low, high, dropped, oversized>>
queryVars == <<operation, ask, pc, pathOnly, searchOnly, packOnly>>

----------------------------------------------------------------------------
(* What the other steps of a call do not use yet, or not any more. *)

Unused == "unused"

NoPathCall ==
    /\ graph = Unused /\ goal = Unused /\ facts = Unused
    /\ level = Unused /\ depth_reached = Unused /\ current = Unused /\ next_level = Unused
    /\ rest = Unused /\ here = Unused /\ todo = Unused /\ parent = Unused
    /\ seen_edges = Unused /\ unresolved = Unused /\ found = Unused
    /\ budget_exhausted = Unused /\ cursor = Unused /\ route = Unused

NoSearchCall ==
    scope = Unused /\ ranked = Unused /\ scanned = Unused /\ unscanned = Unused

NoDocument == [items |-> [k \in Collections |-> <<>>], truncated |-> FALSE, meta |-> 0]

NothingPacked ==
    /\ document = NoDocument /\ cap = 0 /\ packed = NoDocument
    /\ turn = 1 /\ low = 0 /\ high = 0
    /\ dropped = [k \in Collections |-> 0] /\ oversized = {}

\* _answer calls exactly one operation of the engine.
QueryInit ==
    \/ operation = "path" /\ P!Init /\ NoSearchCall /\ NothingPacked
    \/ operation = "search" /\ S!Init /\ NoPathCall /\ NothingPacked
    \/ operation = "other" /\ ask = Unused /\ Init /\ NoPathCall /\ NoSearchCall

PathStep ==
    /\ operation = "path" /\ P!Next
    /\ UNCHANGED <<operation, searchOnly, packOnly>>

SearchStep ==
    /\ operation = "search" /\ S!Next
    /\ UNCHANGED <<operation, pathOnly, packOnly>>

----------------------------------------------------------------------------
(* _answer and build_envelope. *)

Copies(n, size) == [i \in 1..n |-> size]
Count(conditions) == Cardinality({c \in DOMAIN conditions : conditions[c]})

\* No freshness is reported, so every envelope starts with the warning that says so; a member
\* that is not pinned adds another.
EnvelopeOf(nodes, edges, flag, warnings, missing) ==
    [items |-> [k \in Collections |->
                   CASE k = "nodes" -> Copies(nodes, Size["node"])
                     [] k = "edges" -> Copies(edges, Size["edge"])
                     [] k = "warnings" ->
                          Copies(warnings + 1 + (IF missing THEN 1 ELSE 0), Size["warning"])
                     [] OTHER -> <<>>],
     truncated |-> flag, meta |-> Size["meta"]]

\* The flag stands for "not proven": neither found nor proven absent.
MutPathFlag == budget_exhausted
PathFlag == ~found /\ ~P!ProvenAbsent

PathWarnings ==
    IF found THEN 0
    ELSE IF P!ProvenAbsent THEN 1
    ELSE 1 + Count(<<budget_exhausted, facts.missing, P!RelevantUnresolved # {}, P!DepthLimited>>)

PathEnvelope ==
    EnvelopeOf(IF found THEN Len(route) + 1 ELSE 0, Len(route), PathFlag, PathWarnings,
               facts.missing)

\* The engine's warning of an ambiguity is repeated by the tool.
SearchWarnings ==
    Count(<<S!truncated, S!candidates = {}, S!ambiguous, S!ambiguous>>)

SearchEnvelope == EnvelopeOf(Cardinality(S!Answer), 0, S!truncated, SearchWarnings, FALSE)

Envelope ==
    /\ \E c \in AnswerCaps :
         \/ operation = "path" /\ pc = "answered" /\ Start(PathEnvelope, c)
         \/ operation = "search" /\ pc = "listed" /\ Start(SearchEnvelope, c)
    /\ UNCHANGED <<operation, ask, pathOnly, searchOnly>>

Pack == Next /\ UNCHANGED <<operation, ask, pathOnly, searchOnly>>

QueryNext == PathStep \/ SearchStep \/ Envelope \/ Pack

----------------------------------------------------------------------------
\* The path that is returned is one: it starts at the target, every hop is a resolved edge the
\* filters let through and leads to where the next one starts, and the last leads to the goal.
RouteIsReal ==
    pc = "answered" /\ found =>
        /\ (route = <<>>) <=> (ask.root = goal)
        /\ route # <<>> => route[1].from = ask.root
        /\ \A i \in 1..Len(route) :
            /\ route[i].edge \in P!Incident(route[i].from) /\ P!Resolved(route[i].edge)
            /\ P!OtherEnd(route[i].edge, route[i].from)
                 = IF i = Len(route) THEN goal ELSE route[i + 1].from

\* query/path.py against the reference: a path that is found is a path, and a shortest one, and
\* a search that no budget stopped finds one whenever there is one within the depth.
RouteIsShortest ==
    pc = "answered" =>
        /\ RouteIsReal
        /\ found =>
            /\ Len(route) <= ask.depth
            /\ goal \in P!Ball[Len(route)]
            /\ route # <<>> => goal \notin P!Ball[Len(route) - 1]
        /\ ~found /\ ~budget_exhausted => goal \notin P!Ball[ask.depth]

\* The caller of path sees neither found nor proven_absent: an answer without nodes that is
\* not marked as truncated reads as "there is no path".  It is given only when there is none,
\* of any length, whatever the depth, the budgets and the byte cap cut.
SilentAbsenceIsTrue ==
    /\ operation = "path" /\ pc = "packed"
    /\ packed.items["nodes"] = <<>> /\ ~packed.truncated
    => P!NoPath

\* The symbols that are left of the ranked list after the byte cap.
Kept ==
    {n \in S!Answer :
        Cardinality({m \in S!Answer : S!Before(m, n)}) < Len(packed.items["nodes"])}

\* When the symbols of the kinds asked for fit the cap of the scan and the index alone does
\* not fill the answer, an answer that is not marked as truncated is every match there is.
UnmarkedIsWhole ==
    /\ operation = "search" /\ pc = "packed" /\ ~packed.truncated
    /\ Cardinality(scope.kind) <= ask.max_nodes
    /\ Cardinality({n \in Symbols : scope.match[n] \in S!Indexed}) < S!allowance
    => Kept = S!Matching

\* An answer of path or of search that says nothing of a loss has none, and an empty one of
\* path is an absence.
SilenceIsTrue == SilentAbsenceIsTrue /\ UnmarkedIsWhole

\* Every call ends, the binary search of the packing included.
EveryQueryEnds == <>(pc \in {"packed", "exceeded", "not_found"})
=============================================================================
