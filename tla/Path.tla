-------------------------------- MODULE Path --------------------------------
(***************************************************************************)
(* query/path.path: a breadth-first search of its own, which stops at the  *)
(* goal, at a budget or at the depth, and then says which of the three     *)
(* answers it is: a path, no path, or not found and not disproved.         *)
(***************************************************************************)
EXTENDS PinnedGraph, Sequences

CONSTANTS
    Goals,       \* the second target of a call
    Facts        \* what a scope tells besides its edges

\* The node an unresolved edge may mean by the name it carries; whether a member the caller
\* named is not pinned.
Parameters ==
    /\ WalkParameters
    /\ Goals \subseteq Nodes
    /\ Facts \subseteq [names : [Edges -> Nodes \cup {NoNode}], missing : BOOLEAN]

VARIABLES
    goal, facts,
    pc,                  \* "level", "edges", "stop", "back", "answered" or "not_found"
    level, depth_reached,
    current, next_level, \* this level and the next
    rest,                \* the nodes of this level that are still to be expanded
    here, todo,
    parent,              \* for every visited node the hop it was reached by
    seen_edges, unresolved,
    found, budget_exhausted,
    cursor, route        \* the way back from the goal

searchVars == <<pc, level, depth_reached, current, next_level, rest, here, todo, parent,
                seen_edges, unresolved, found, budget_exhausted>>
vars == <<graph, ask, goal, facts, searchVars, cursor, route>>

visited == DOMAIN parent

Step(n, e) == [from |-> n, edge |-> e]
NoStep == [from |-> NoNode, edge |-> NoNode]

Init ==
    /\ graph \in Graphs
    /\ ask \in Asks /\ ask.root \in graph.pinned
    /\ goal \in Goals /\ goal \in graph.pinned
    /\ facts \in Facts
    /\ found = (ask.root = goal)
    /\ pc = IF found \/ ask.depth = 0 THEN "stop" ELSE "level"
    /\ level = 1 /\ depth_reached = 0
    /\ current = <<ask.root>> /\ next_level = <<>> /\ rest = current
    /\ here = NoNode /\ todo = {}
    /\ parent = [n \in {ask.root} |-> NoStep]
    /\ seen_edges = {} /\ unresolved = {}
    /\ budget_exhausted = FALSE
    /\ cursor = NoNode /\ route = <<>>

Expand ==
    /\ pc = "level" /\ rest # <<>>
    /\ here' = Head(rest) /\ rest' = Tail(rest)
    /\ todo' = Incident(Head(rest))
    /\ pc' = "edges"
    /\ UNCHANGED <<graph, ask, goal, facts, level, depth_reached, current, next_level, parent,
                   seen_edges, unresolved, found, budget_exhausted, cursor, route>>

\* The search is over in the middle of a level.
Stop ==
    /\ pc' = "stop"
    /\ depth_reached' = level

Exhausted ==
    /\ budget_exhausted' = TRUE
    /\ Stop
    /\ UNCHANGED <<parent, found, next_level>>

MutGoOn(e, far) ==
    /\ parent' = [n \in visited \cup {far} |-> IF n = far THEN Step(here, e) ELSE parent[n]]
    /\ next_level' = IF far = goal THEN next_level ELSE Append(next_level, far)
    /\ found' = (far = goal)
    /\ IF far = goal THEN Stop ELSE UNCHANGED <<pc, depth_reached>>
    /\ UNCHANGED budget_exhausted

\* The resolved edge leads to the goal, to a node that is known, or to a new one.
GoOn(e, far) ==
    /\ \/ /\ far = goal \/ far \notin visited
          /\ parent' = [n \in visited \cup {far} |-> IF n = far THEN Step(here, e) ELSE parent[n]]
          /\ next_level' = IF far = goal THEN next_level ELSE Append(next_level, far)
       \/ /\ far # goal /\ far \in visited
          /\ UNCHANGED <<parent, next_level>>
    /\ found' = (far = goal)
    /\ IF far = goal THEN Stop ELSE UNCHANGED <<pc, depth_reached>>
    /\ UNCHANGED budget_exhausted

EdgeSpent == Cardinality(seen_edges) >= ask.max_edges
NodeSpent == Cardinality(visited) >= ask.max_nodes

\* One turn of the inner loop.
LookAt(e) ==
    /\ pc = "edges" /\ e \in todo
    /\ \A f \in todo : e <= f
    /\ todo' = todo \ {e}
    /\ \/ /\ e \in seen_edges
          /\ UNCHANGED <<pc, depth_reached, next_level, parent, seen_edges, unresolved, found,
                         budget_exhausted>>
       \/ /\ e \notin seen_edges /\ EdgeSpent
          /\ Exhausted
          /\ UNCHANGED <<seen_edges, unresolved>>
       \/ /\ e \notin seen_edges /\ ~EdgeSpent
          /\ seen_edges' = seen_edges \cup {e}
          /\ \/ /\ ~Resolved(e)
                /\ unresolved' = unresolved \cup {e}
                /\ UNCHANGED <<pc, depth_reached, next_level, parent, found, budget_exhausted>>
             \/ /\ Resolved(e) /\ NodeSpent
                /\ Exhausted
                /\ UNCHANGED unresolved
             \/ /\ Resolved(e) /\ ~NodeSpent
                /\ GoOn(e, OtherEnd(e, here))
                /\ UNCHANGED unresolved
    /\ UNCHANGED <<graph, ask, goal, facts, level, current, rest, here, cursor, route>>

Expanded ==
    /\ pc = "edges" /\ todo = {}
    /\ pc' = "level"
    /\ here' = NoNode
    /\ UNCHANGED <<graph, ask, goal, facts, level, depth_reached, current, next_level, rest, todo,
                   parent, seen_edges, unresolved, found, budget_exhausted, cursor, route>>

NextLevel ==
    /\ pc = "level" /\ rest = <<>>
    /\ depth_reached' = level
    /\ level' = level + 1
    /\ current' = next_level /\ rest' = next_level
    /\ next_level' = <<>>
    /\ pc' = IF level = ask.depth \/ next_level = <<>> THEN "stop" ELSE "level"
    /\ UNCHANGED <<graph, ask, goal, facts, here, todo, parent, seen_edges, unresolved, found,
                   budget_exhausted, cursor, route>>

\* The way back starts at the goal; a search that found nothing asks about every node it
\* visited, which fails for one that no pinned member holds.
Answer ==
    /\ pc = "stop"
    /\ pc' = IF found THEN "back" ELSE IF visited \subseteq graph.pinned THEN "answered"
             ELSE "not_found"
    /\ cursor' = IF found THEN goal ELSE cursor
    /\ UNCHANGED <<graph, ask, goal, facts, level, depth_reached, current, next_level, rest, here,
                   todo, parent, seen_edges, unresolved, found, budget_exhausted, route>>

\* One turn of the loop that walks back; the nodes of the finished route must be pinned.
Back ==
    /\ pc = "back"
    /\ \/ /\ parent[cursor] # NoStep
          /\ route' = <<parent[cursor]>> \o route
          /\ cursor' = parent[cursor].from
          /\ UNCHANGED pc
       \/ /\ parent[cursor] = NoStep
          /\ pc' = IF \A i \in 1..Len(route) : route[i].from \in graph.pinned
                   THEN "answered" ELSE "not_found"
          /\ UNCHANGED <<route, cursor>>
    /\ UNCHANGED <<graph, ask, goal, facts, level, depth_reached, current, next_level, rest, here,
                   todo, parent, seen_edges, unresolved, found, budget_exhausted>>

Next ==
    \/ Expand \/ (\E e \in Edges : LookAt(e)) \/ Expanded \/ NextLevel
    \/ Answer \/ Back

Spec == Init /\ [][Next]_vars

----------------------------------------------------------------------------
(* The answer. *)

RelevantUnresolved ==
    {e \in Edges : ~Resolved(e) /\ facts.names[e] \in visited} \cup unresolved

DepthLimited == current # <<>> /\ depth_reached >= ask.depth /\ ~budget_exhausted

ProvenAbsent ==
    /\ pc = "answered" /\ ~found
    /\ ~budget_exhausted /\ ~facts.missing /\ RelevantUnresolved = {} /\ ~DepthLimited

----------------------------------------------------------------------------
\* There is no path of any length, and no unresolved edge of a node that can be reached, or
\* naming one, could be the missing hop.
NoPath ==
    \E S \in SUBSET Nodes :
        /\ ask.root \in S /\ goal \notin S /\ Closed(S)
        /\ \A n \in S : \A e \in Edges :
            ~Resolved(e) => facts.names[e] # n /\ e \notin Incident(n)
=============================================================================
