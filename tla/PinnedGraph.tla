---------------------------- MODULE PinnedGraph ----------------------------
(***************************************************************************)
(* query/model: the graph of a pinned scope, indexed by both ends of every *)
(* edge, and the edges a traversal sees at a node.                         *)
(*                                                                         *)
(* Edges are numbered in the order in which _incident sorts them, (kind,   *)
(* id); the kind and resolution filters of a call are the set of edges     *)
(* that pass them.                                                         *)
(***************************************************************************)
EXTENDS Naturals, FiniteSets

CONSTANTS
    Nodes, Edges,
    NoNode,      \* the target of an unresolved edge
    Graphs,      \* the pinned scopes considered
    Asks         \* the calls considered

Headings == {"incoming", "outgoing", "both"}

\* A scope: the nodes of the pinned members, and for every edge its two ends.  The source
\* is pinned (Graph checks it); the target may lie in a member that is not.
GraphType ==
    [pinned : SUBSET Nodes, src : [Edges -> Nodes], tgt : [Edges -> Nodes \cup {NoNode}]]

AskType ==
    [root : Nodes, depth : Nat, heading : Headings, only : SUBSET Edges,
     max_nodes : Nat \ {0}, max_edges : Nat]

WalkParameters ==
    /\ IsFiniteSet(Nodes) /\ IsFiniteSet(Edges) /\ Edges \subseteq Nat
    /\ NoNode \notin Nodes
    /\ Graphs \subseteq GraphType
    /\ \A g \in Graphs : \A e \in Edges : g.src[e] \in g.pinned
    /\ Asks \subseteq AskType

ASSUME WalkAssumption == WalkParameters

VARIABLES graph, ask

Resolved(e) == graph.tgt[e] # NoNode

Incident(n) ==
    {e \in ask.only :
        \/ ask.heading \in {"outgoing", "both"} /\ graph.src[e] = n
        \/ ask.heading \in {"incoming", "both"} /\ graph.tgt[e] = n}

\* _other_end of an incident, resolved edge.
OtherEnd(e, n) ==
    CASE ask.heading = "outgoing" -> graph.tgt[e]
      [] ask.heading = "incoming" -> graph.src[e]
      [] OTHER -> IF graph.src[e] = n THEN graph.tgt[e] ELSE graph.src[e]

\* S holds everything one hop away from a member of it.
Closed(S) ==
    \A n \in S : \A e \in Incident(n) : Resolved(e) => OtherEnd(e, n) \in S

\* S, and the nodes one hop away from a member of it.
Hop(S) ==
    S \cup UNION {{OtherEnd(e, n) : e \in {f \in Incident(n) : Resolved(f)}} : n \in S}

\* The nodes within k hops of the root.
Ball[k \in Nat] == IF k = 0 THEN {ask.root} ELSE Hop(Ball[k - 1])
=============================================================================
