------------------------------ MODULE MCAnswer ------------------------------
(***************************************************************************)
(* An instance of QueryAnswer for TLC, where the proofs find it too: path  *)
(* searches the graph that BoundedWalk walks, so the two are put together  *)
(* over one scope and one call.  The walks of Impact are at rest here.     *)
(***************************************************************************)
EXTENDS Impact, Sequences

CONSTANTS
    PathAsks, PathFacts, Goals,        \* Asks, Facts and Goals of the calls of path
    Symbols, Scopes, Searches,
    Documents, Caps, TextSize, AnswerCaps, Size

VARIABLES
    document, cap, packed, turn, low, high, dropped, oversized,
    operation,
    goal, next_level, rest, parent, seen_edges, budget_exhausted, cursor, route,
    scope, ranked, scanned, unscanned

Q == INSTANCE QueryAnswer WITH Asks <- PathAsks, Facts <- PathFacts

ASSUME AnswerAssumption == Q!AnswerParameters
ASSUME BudgetAssumption == Q!BudgetParameters

walksOnly ==
    <<visited, walked, reasons, blocked_at, discovered, call, phase, wide, exact, deeper>>
answerVars == <<Q!queryVars, walksOnly>>

NoWalk ==
    /\ visited = Q!Unused /\ walked = Q!Unused /\ reasons = Q!Unused /\ blocked_at = Q!Unused
    /\ discovered = Q!Unused /\ call = Q!Unused /\ phase = Q!Unused
    /\ wide = Q!Unused /\ exact = Q!Unused /\ deeper = Q!Unused

AnswerInit == Q!QueryInit /\ NoWalk
AnswerNext == Q!QueryNext /\ UNCHANGED walksOnly

\* A tool call runs to its end in its worker thread.
AnswerSpec == AnswerInit /\ [][AnswerNext]_answerVars /\ WF_answerVars(AnswerNext)

RouteIsShortest == Q!RouteIsShortest
SilenceIsTrue == Q!SilenceIsTrue
PackedIsBest == Q!PackedIsBest
EveryQueryEnds == Q!EveryQueryEnds

----------------------------------------------------------------------------
(* path: four nodes and four edges without loops, the first from node 1 to *)
(* node 2, the last from node 4; the third is resolved, and the third node *)
(* may lie in a member that is not pinned.                                 *)

N == 1..4
E == 1..4

MCGraphs ==
    {g \in [pinned : {N, N \ {3}}, src : [E -> N], tgt : [E -> N \cup {0}]] :
        /\ \A e \in E : g.src[e] \in g.pinned /\ g.src[e] # g.tgt[e]
        /\ g.src[1] = 1 /\ g.tgt[1] = 2 /\ g.src[2] \in {1, 2} /\ g.src[3] \in {2, 3}
        /\ g.src[4] = 4 /\ g.tgt[3] # 0}

MCAsks ==
    [root : {1}, depth : {1, 3}, heading : {"outgoing"}, only : {E},
     max_nodes : {4}, max_edges : {4}]
    \cup [root : {1}, depth : {2}, heading : {"both"}, only : {E},
          max_nodes : {2, 4}, max_edges : {2, 4}]
    \cup [root : {1}, depth : {0, 4}, heading : {"incoming"}, only : {{2, 3, 4}}, max_nodes : {4},
          max_edges : {4}]

MCFacts ==
    [names : {[e \in E |-> 0], [e \in E |-> 2]}, missing : {FALSE}]
    \cup [names : {[e \in E |-> 0]}, missing : {TRUE}]

----------------------------------------------------------------------------
(* search: four symbols with any match, two ways to ask for kinds. *)

MCSymbols == 1..4
MCScopes == [match : [MCSymbols -> {1, 2, 5, 7}], kind : {MCSymbols, {2, 3}}]
MCSearches == [max_nodes : {2, 5}, limit : {1, 2, 5}]

----------------------------------------------------------------------------
(* The other operations: every envelope with up to three nodes, two edges  *)
(* and two warnings of two sizes each, under caps that reach from below    *)
(* the metadata to above the whole document.  As build_envelope leaves it, *)
(* an envelope has neither an unresolved nor a candidates collection.      *)

Seqs(T, n) == UNION {[1..m -> T] : m \in 0..n}

MCCollections == {"nodes", "edges", "unresolved", "candidates", "warnings"}

MCItems ==
    {[k \in MCCollections |->
        CASE k = "nodes" -> n [] k = "edges" -> e [] k = "warnings" -> w [] OTHER -> <<>>] :
        n \in Seqs({2, 7}, 3), e \in Seqs({2, 7}, 2), w \in Seqs({3, 9}, 2)}

MCDocuments == [items : MCItems, truncated : BOOLEAN, meta : {10}]
MCCaps == {13, 15, 18, 23, 29, 40}
MCTextSize == [max_bytes |-> 4, oversized_item |-> 5]

MCAnswerCaps == {20, 30}
MCSize == [s \in {"node", "edge", "warning", "meta"} |->
             CASE s = "node" -> 4 [] s = "edge" -> 2 [] s = "warning" -> 3 [] OTHER -> 10]
=============================================================================
