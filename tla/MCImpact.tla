------------------------------ MODULE MCImpact ------------------------------
(* An instance of Impact for TLC. *)
EXTENDS Impact

N == 1..3
E == 1..3

\* Every scope over three nodes and three edges; the third node may lie in a member that
\* is not pinned.
MCGraphs ==
    {g \in [pinned : {N, N \ {3}}, src : [E -> N], tgt : [E -> N \cup {0}]] :
        \A e \in E : g.src[e] \in g.pinned}

\* impact and callers: every depth, with one of the budgets tight.
ImpactAsks ==
    {a \in [root : {1}, depth : {0, 1, 2}, heading : {"incoming"}, only : {E},
            max_nodes : 1..3, max_edges : 1..3] : a.max_nodes = 3 \/ a.max_edges = 3}

\* The walks of the other operations.
PlainAsks ==
    [root : {1}, depth : {1, 2}, heading : {"outgoing", "both"}, only : {E}, max_nodes : {2, 3},
     max_edges : {2, 3}]
    \cup [root : {1}, depth : {0, 2}, heading : {"both"}, only : {{1, 3}}, max_nodes : {1, 2},
          max_edges : {0, 1}]

MCAsks == ImpactAsks \cup PlainAsks

MCFacts ==
    [static : {E, {2, 3}, {3}}, names : {[e \in E |-> 0]}, missing : {FALSE}, complete : {TRUE}]
    \cup [static : {{1}}, names : {[e \in E |-> 2]}, missing : {FALSE}, complete : {TRUE, FALSE}]
    \cup [static : {{1}}, names : {[e \in E |-> 0]}, missing : {TRUE}, complete : {TRUE}]
=============================================================================
