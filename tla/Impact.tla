------------------------------- MODULE Impact -------------------------------
(***************************************************************************)
(* query/impact.impact: three bounded walks against the edges from the     *)
(* same target, under the same budgets: the wide one gives the closure,    *)
(* the one over static resolutions the proven nodes, and the one that is a *)
(* hop deeper tells whether the closure ends where the depth does.  From   *)
(* the three the answer says how complete it is.  callers.callers is the   *)
(* first walk with its own account of completeness.  A call in another     *)
(* direction (context, neighbors, dependencies) is one plain walk.         *)
(***************************************************************************)
EXTENDS BoundedWalk

CONSTANTS
    MaxDepth,    \* the largest depth a call may ask for
    Facts        \* what a scope tells besides its edges

\* The edges with a static resolution; the node an unresolved edge may mean by the name it
\* carries; whether a member the caller named is not pinned; whether every member's coverage
\* is complete.
FactsType ==
    [static : SUBSET Edges, names : [Edges -> Nodes \cup {NoNode}],
     missing : BOOLEAN, complete : BOOLEAN]

\* A plain walk asks none of this.
NoFacts ==
    [static |-> {}, names |-> [e \in Edges |-> NoNode], missing |-> FALSE, complete |-> TRUE]

ASSUME ImpactAssumption ==
    /\ MaxDepth \in Nat
    /\ Facts \subseteq FactsType
    /\ \A a \in Asks : a.depth <= MaxDepth

VARIABLES
    facts, call,
    phase,               \* the walk that is under way, or "answered"; "plain" is one walk
    wide, exact, deeper  \* what the walks returned

impactVars == <<vars, facts, call, phase, wide, exact, deeper>>

Nothing == [nodes |-> {}, truncated |-> FALSE, unresolved |-> {}]
Result == [nodes |-> visited, truncated |-> reasons # {}, unresolved |-> unresolved]

ImpactInit ==
    /\ Init
    /\ call = ask
    /\ \/ /\ ask.heading = "incoming" /\ phase = "wide"
          /\ facts \in {f \in Facts : \A e \in f.static : Resolved(e)}
       \/ ask.heading # "incoming" /\ phase = "plain" /\ facts = NoFacts
    /\ wide = Nothing /\ exact = Nothing /\ deeper = Nothing

Walking ==
    /\ phase # "answered"
    /\ Step
    /\ UNCHANGED <<facts, call, phase, wide, exact, deeper>>

ExactAsk == [call EXCEPT !.only = @ \cap facts.static]

WideDone ==
    /\ phase = "wide" /\ pc = "done"
    /\ wide' = Result
    /\ phase' = "exact"
    /\ Begin(ExactAsk)
    /\ UNCHANGED <<graph, facts, call, exact, deeper>>

\* At the largest depth there is no deeper walk.
ExactDone ==
    /\ phase = "exact" /\ pc = "done"
    /\ exact' = Result
    /\ \/ /\ call.depth >= MaxDepth
          /\ phase' = "answered"
          /\ UNCHANGED <<ask, walkVars>>
       \/ /\ call.depth < MaxDepth
          /\ phase' = "deeper"
          /\ Begin([call EXCEPT !.depth = @ + 1])
    /\ UNCHANGED <<graph, facts, call, wide, deeper>>

DeeperDone ==
    /\ phase = "deeper" /\ pc = "done"
    /\ deeper' = Result
    /\ phase' = "answered"
    /\ UNCHANGED <<vars, facts, call, wide, exact>>

ImpactNext == Walking \/ WideDone \/ ExactDone \/ DeeperDone
ImpactSpec == ImpactInit /\ [][ImpactNext]_impactVars

----------------------------------------------------------------------------
(* The answer. *)

MutDepthLimited == call.depth >= MaxDepth
DepthLimited ==
    \/ call.depth >= MaxDepth
    \/ Cardinality(deeper.nodes) > Cardinality(wide.nodes)

Closure == wide.nodes \ {call.root}
Proven == exact.nodes \ {call.root}

\* unresolved_references of the target and of the closure.
NamedUnresolved == {e \in Edges : ~Resolved(e) /\ facts.names[e] \in wide.nodes}

Exhaustive ==
    /\ ~DepthLimited /\ ~wide.truncated
    /\ ~facts.missing /\ facts.complete
    /\ wide.unresolved \cup NamedUnresolved = {}

\* callers.callers makes the first of the three walks and no other, and looks for unresolved
\* references to the target alone.
CallersComplete ==
    /\ ~facts.missing /\ ~wide.truncated
    /\ wide.unresolved = {}
    /\ ~\E e \in Edges : ~Resolved(e) /\ facts.names[e] = call.root

----------------------------------------------------------------------------
\* S holds everything that reaches a member of it through these edges.
DependentsIn(S, only) ==
    \A e \in only : Resolved(e) /\ graph.tgt[e] \in S => graph.src[e] \in S

\* An answer that claims to be exhaustive, after a probe that no budget stopped, holds every
\* node that reaches the target.
ProbedIsWhole ==
    phase = "answered" /\ Exhaustive /\ ~deeper.truncated
        => DependentsIn(wide.nodes, call.only)

\* A proven node reaches the target through static edges alone, and when no budget cut the
\* closure it is part of it: no node is proven and missing from the nodes of the same answer,
\* although the two come from two walks.
ProvenIsBacked ==
    phase = "answered" =>
        /\ \A S \in SUBSET Nodes :
            call.root \in S /\ DependentsIn(S, call.only \cap facts.static) => Proven \subseteq S
        /\ ~wide.truncated => Proven \subseteq Closure

\* callers: a complete and empty answer to a call that may take a hop says that nothing in
\* the scope calls the target.
EmptyIsAbsence ==
    phase \notin {"plain", "wide"} /\ CallersComplete /\ Closure = {} /\ call.depth > 0 =>
        \A e \in call.only : graph.tgt[e] = call.root => graph.src[e] = call.root

\* What impact and callers claim of their answers: exhaustive (after an uncut probe), proven,
\* complete and empty.
ClaimsAreTrue == ProbedIsWhole /\ ProvenIsBacked /\ EmptyIsAbsence

\* docs/query-engine.md: "Nothing about the answer is allowed to read as exhaustive unless
\* it is": an answer that says so holds every node that reaches the target, whatever the
\* budgets did to the three walks.
ExhaustiveIsWhole ==
    phase = "answered" /\ Exhaustive => DependentsIn(wide.nodes, call.only)
=============================================================================
