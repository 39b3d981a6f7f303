---------------------------- MODULE BoundedWalk ----------------------------
(***************************************************************************)
(* query/model.bounded_walk: the breadth-first walk under which context,   *)
(* neighbors, dependencies, callers and impact run.  One step looks at one *)
(* incident edge of one node of the current level, so what a budget cuts   *)
(* off depends on the order of the edges, as it does in the code.          *)
(***************************************************************************)
EXTENDS PinnedGraph

VARIABLES
    pc,           \* "level", "edges", "done", or "not_found"
    level, depth_reached,
    visited, walked, unresolved,
    reasons,      \* the budgets that stopped something
    blocked_at,   \* the nodes at which they did
    current,      \* the nodes of this level that are still to be expanded
    here, todo,   \* the node being expanded and its edges still to be looked at
    discovered, found   \* the next level, and the order in which its nodes were found

walkVars == <<pc, level, depth_reached, visited, walked, unresolved, reasons, blocked_at,
              current, here, todo, discovered, found>>
vars == <<graph, ask, walkVars>>

----------------------------------------------------------------------------
\* The edges that are in the answer, and the nodes that are in it or in its next level.
Seen == walked \cup unresolved
Known == visited \cup discovered

----------------------------------------------------------------------------
Begin(a) ==
    /\ ask' = a
    /\ pc' = IF a.depth = 0 THEN "done" ELSE "level"
    /\ level' = 1 /\ depth_reached' = 0
    /\ visited' = {a.root} /\ current' = {a.root}
    /\ walked' = {} /\ unresolved' = {} /\ reasons' = {} /\ blocked_at' = {}
    /\ here' = NoNode /\ todo' = {} /\ discovered' = {}
    /\ found' = [n \in Nodes |-> 0]

Init ==
    /\ graph \in Graphs
    /\ ask \in Asks /\ ask.root \in graph.pinned
    /\ pc = IF ask.depth = 0 THEN "done" ELSE "level"
    /\ level = 1 /\ depth_reached = 0
    /\ visited = {ask.root} /\ current = {ask.root}
    /\ walked = {} /\ unresolved = {} /\ reasons = {} /\ blocked_at = {}
    /\ here = NoNode /\ todo = {} /\ discovered = {}
    /\ found = [n \in Nodes |-> 0]

\* for node_id in current: the next one, in the order of discovery.
Expand ==
    /\ pc = "level"
    /\ \E n \in current :
        /\ \A m \in current : found[n] <= found[m]
        /\ here' = n
        /\ todo' = Incident(n)
        /\ current' = current \ {n}
    /\ pc' = "edges"
    /\ UNCHANGED <<graph, ask, level, depth_reached, visited, walked, unresolved, reasons,
                   blocked_at, discovered, found>>

\* The edge budget refuses an edge that was not seen before.
MutEdgeRefused(e) == Cardinality(Seen) >= ask.max_edges
EdgeRefused(e) == e \notin Seen /\ Cardinality(Seen) >= ask.max_edges

\* The edge leads to a node that is in no level yet.
LeadsOn(e) == Resolved(e) /\ OtherEnd(e, here) \notin Known

NodeRefused(e) == LeadsOn(e) /\ Cardinality(Known) >= ask.max_nodes

\* A budget stops something at this node.
Block(why) ==
    /\ reasons' = reasons \cup {why}
    /\ blocked_at' = blocked_at \cup {here}

\* One turn of the inner loop: the edge is refused, or it joins the answer and the node at
\* its other end, if that is new, is refused or joins the next level.
LookAt(e) ==
    /\ pc = "edges" /\ e \in todo
    /\ \A f \in todo : e <= f
    /\ todo' = todo \ {e}
    /\ \/ /\ EdgeRefused(e)
          /\ Block("max_edges")
          /\ UNCHANGED <<walked, unresolved, discovered, found>>
       \/ /\ ~EdgeRefused(e)
          /\ walked' = IF Resolved(e) THEN walked \cup {e} ELSE walked
          /\ unresolved' = IF Resolved(e) THEN unresolved ELSE unresolved \cup {e}
          /\ \/ /\ ~LeadsOn(e)
                /\ UNCHANGED <<reasons, blocked_at, discovered, found>>
             \/ /\ NodeRefused(e)
                /\ Block("max_nodes")
                /\ UNCHANGED <<discovered, found>>
             \/ /\ LeadsOn(e) /\ ~NodeRefused(e)
                /\ discovered' = discovered \cup {OtherEnd(e, here)}
                /\ found' = [found EXCEPT ![OtherEnd(e, here)] = Cardinality(Known)]
                /\ UNCHANGED <<reasons, blocked_at>>
    /\ UNCHANGED <<graph, ask, pc, level, depth_reached, visited, current, here>>

Expanded ==
    /\ pc = "edges" /\ todo = {}
    /\ pc' = "level"
    /\ here' = NoNode
    /\ UNCHANGED <<graph, ask, level, depth_reached, visited, walked, unresolved, reasons,
                   blocked_at, current, todo, discovered, found>>

MutLastLevel == level > ask.depth
LastLevel == level = ask.depth

\* The level is over: its discoveries are visited, which fails for a node that no pinned
\* member holds, and the walk stops at the depth or at an empty frontier.
NextLevel ==
    /\ pc = "level" /\ current = {}
    /\ IF discovered \subseteq graph.pinned
       THEN /\ visited' = Known
            /\ current' = discovered
            /\ discovered' = {}
            /\ depth_reached' = IF discovered = {} THEN depth_reached ELSE level
            /\ level' = level + 1
            /\ pc' = IF discovered = {} \/ LastLevel THEN "done" ELSE "level"
       ELSE /\ pc' = "not_found"
            /\ UNCHANGED <<visited, current, discovered, depth_reached, level>>
    /\ UNCHANGED <<graph, ask, walked, unresolved, reasons, blocked_at, here, todo, found>>

Step == Expand \/ (\E e \in Edges : LookAt(e)) \/ Expanded \/ NextLevel

Spec == Init /\ [][Step]_vars

----------------------------------------------------------------------------
\* The type invariant of the walk.
TypeOK ==
    /\ graph \in GraphType /\ ask \in AskType
    /\ pc \in {"level", "edges", "done", "not_found"}
    /\ level \in Nat /\ depth_reached \in Nat
    /\ visited \subseteq Nodes /\ current \subseteq Nodes /\ discovered \subseteq Nodes
    /\ walked \subseteq Edges /\ unresolved \subseteq Edges /\ todo \subseteq Edges
    /\ reasons \subseteq {"max_nodes", "max_edges"}
    /\ blocked_at \subseteq Nodes
    /\ here \in Nodes \cup {NoNode}
    /\ found \in [Nodes -> Nat]

\* The answer stays inside both budgets at every moment of the walk, the level that is
\* being collected included.
BudgetsHold ==
    /\ Cardinality(Known) <= ask.max_nodes
    /\ Cardinality(Seen) <= ask.max_edges

\* Everything the walk visits can be reached from the root: it lies in every set that has
\* the root and is closed under the edges the filters let through.
VisitedIsReachable ==
    \A S \in SUBSET Nodes : ask.root \in S /\ Closed(S) => Known \subseteq S

\* As long as no budget stopped anything, nothing is missing behind the walk: every node it
\* has expanded has all its edges in the answer, and where they lead as well.  So a walk
\* that is not marked as cut and whose frontier emptied is whole: "cut short" and "nothing
\* further" are never the same answer.
UncutIsWhole ==
    reasons = {} =>
        \A n \in visited \ (current \cup {here}) : \A e \in Incident(n) :
            e \in Seen /\ (Resolved(e) => OtherEnd(e, n) \in Known)

\* A node in the frontier is one at which something really is missing: an edge that is not
\* in the answer, or a node one hop away that is not; and only a budget puts one there.
FrontierIsReal ==
    /\ reasons = {} <=> blocked_at = {}
    /\ \A n \in blocked_at : \E e \in Incident(n) :
        e \notin Seen \/ (Resolved(e) /\ OtherEnd(e, n) \notin Known)

\* bounded_walk as a whole: it stays inside its budgets, says nothing was cut only when
\* nothing behind it is missing, and names as cut only where something is.
WalkIsHonest == BudgetsHold /\ UncutIsWhole /\ FrontierIsReal

\* bounded_walk against the reference: an answer that says nothing was cut is exactly the
\* nodes within the depth asked for, with every edge that leaves a node expanded on the way.
AnswerIsBall ==
    pc = "done" /\ reasons = {} =>
        /\ visited = Ball[ask.depth]
        /\ Seen = IF ask.depth = 0 THEN {} ELSE UNION {Incident(n) : n \in Ball[ask.depth - 1]}
=============================================================================
